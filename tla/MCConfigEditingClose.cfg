SPECIFICATION Spec
CONSTANTS
  Entries = {e1}
  NoEntry = NoEntry
  Screens = {"targets"}
  Setting = e1
  Interrupts = {"close"}
  MaxChanges = 4
  MaxOpens = 2
  MaxNet = 2
  MaxFaults = 0
CHECK_DEADLOCK FALSE
INVARIANTS
  NoLostUpdate
