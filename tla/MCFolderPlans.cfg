\* Nine plans on four trees: two applies, an undo, a step of the user and a
\* failure, in every order.
SPECIFICATION Spec
CONSTANTS
  f = f
  g = g
  h = h
  Files = {f, g, h}
  Blueprints <- MCBlueprints
  Trees <- MCTrees
  Applies = {1, 2}
  MaxSuffix = 2
  UserFolders <- MCUserFolders
  MaxUser = 1
  MaxFaults = 1
INVARIANTS NothingLost SimulationForetells UndoRestores
PROPERTIES Idempotent
CHECK_DEADLOCK FALSE
