\* Eight blueprints, each on a tree that suits it; two applies, two acts of the user and a fault.
SPECIFICATION MCSpec
CONSTANTS
  c1 = c1
  c2 = c2
  c3 = c3
  Blueprints <- SomeBlueprints
  Trees <- SomeTrees
  Unusable <- UnusableNames
  Applies = {a1, a2}
  MaxSuffix = 2
  UserPaths <- SomePaths
  UserFiles = {c3}
  MaxDays = 1
  MaxUser = 2
  MaxFaults = 1
SYMMETRY ApplySymmetry
INVARIANTS
  NothingLost
  SimulationForetells
  NumbersOnce
  RowIsAsked
CHECK_DEADLOCK FALSE
