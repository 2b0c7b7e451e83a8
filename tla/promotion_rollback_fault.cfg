\* A live rollback whose restore fails with an I/O error.
CONSTANTS
  fa = fa  fb = fb  fc = fc  fd = fd
  r1 = r1  r2 = r2  r3 = r3
  Requests = {r1}
  Grants = {"g1"}
  GrantOf <- MCGrantOf
  Paths = {fa, fb, fc, fd}
  Contents = {"old", "new", "foreign"}
  NoFile = NoFile
  NoRequest = NoRequest
  Base <- MCBase
  Plan <- OneOfEachKind
  EditContents = {"foreign", NoFile}
  MaxCrashes = 0
  MaxEdits = 0
  MaxFaults = 2
  RollbackMayFail = TRUE
  RootMayVanish = FALSE
SPECIFICATION Spec
INVARIANT ReceiptTellsTree
