\* One call, every kind of entry, crashes, edits and failing calls.
CONSTANTS
  fa = fa  fb = fb  fc = fc  fd = fd
  r1 = r1  r2 = r2  r3 = r3
  Requests = {r1}
  Grants = {"g1"}
  GrantOf <- MCGrantOf
  Paths = {fa, fb, fc, fd}
  Contents = {"old", "new", "foreign"}
  NoFile = NoFile
  NoRequest = NoRequest
  Base <- MCBase
  Plan <- OneOfEachKind
  EditContents = {"foreign", NoFile}
  MaxCrashes = 2
  MaxEdits = 2
  MaxFaults = 1
  RollbackMayFail = FALSE
  RootMayVanish = FALSE
SPECIFICATION FairSpec
INVARIANTS
  TypeOK
  ReceiptTellsTree
  ManualHasCause
PROPERTIES
  ForeignBytesKept
  WritesUnderJournal
  OpenReconciles
