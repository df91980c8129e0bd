\* Two clicks beside the settings screen, a call it has left behind and the
\* worker; four acts of the user and one fault.
SPECIFICATION MCSpec
CONSTANTS
  Pins = {p1}
  NoPin = NoPin
  Limits = {0, 5}
  Clicks = {k1, k2}
  MaxActs = 4
  MaxFaults = 1
INVARIANTS
  OnceUnlessContested
PROPERTIES
  SavesExact
  CacheCatchesUp
CHECK_DEADLOCK FALSE
