\* A plan of two folders; two acts of the user and one fault.
SPECIFICATION Spec
CONSTANTS
  Names = {"A", "C"}
  Plan <- ClientPlan
  Override = NoName
  NoName = NoName
  Kinds = {"create", "rename"}
  Files = {f1, f2}
  NoFile = NoFile
  MaxActs = 2
  MaxFaults = 1
INVARIANTS
  LostOnlyIfContested
  NestingBounded
PROPERTY CorrectionsSettle
CHECK_DEADLOCK FALSE
