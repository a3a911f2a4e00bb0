SPECIFICATION FairSpec
CONSTANTS
  Entries = {e1, e2}
  NoEntry = NoEntry
  Screens = {"targets", "profiles", "overrides", "settings"}
  Setting = e1
  Interrupts = {"type"}
  MaxChanges = 3
  MaxOpens = 2
  MaxNet = 2
  MaxFaults = 2
CHECK_DEADLOCK FALSE
INVARIANTS
  EditingInv
  NoLostUpdate
  DeletesWhatWasConfirmed
PROPERTIES
  DraftKept
  BusyEnds
