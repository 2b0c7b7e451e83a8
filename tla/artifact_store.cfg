\* Two calls, three days of quarantine, marks over one midnight, five days, one fault.
CONSTANTS
  Calls = {c1, c2}
  QUARANTINE_MIN_DAYS = 3
  MarkDays = 1
  MaxDay = 4
  MaxFaults = 1
SPECIFICATION FairSpec
CHECK_DEADLOCK FALSE
INVARIANTS
  StoredIsKept
PROPERTIES
  CallsReturn
