\* Three calls compete for the lease, two with the same grant; everything may fail.
CONSTANTS
  fa = fa  fb = fb  fc = fc  fd = fd
  r1 = r1  r2 = r2  r3 = r3
  Requests = {r1, r2, r3}
  Grants = {"g1", "g2"}
  GrantOf <- MCGrantOf
  Paths = {fa, fc}
  Contents = {"old", "new", "newer", "foreign"}
  NoFile = NoFile
  NoRequest = NoRequest
  Base <- MCBase
  Plan <- Competing
  EditContents = {"foreign", NoFile}
  MaxCrashes = 2
  MaxEdits = 1
  MaxFaults = 1
  RollbackMayFail = TRUE
  RootMayVanish = TRUE
SPECIFICATION Spec
INVARIANTS
  LeaseCoversJournal
  OneJournalPerGrant
PROPERTIES
  SettledForGood
  ImplementsLease
