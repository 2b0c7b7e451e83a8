\* One edit before the call: the change set is applied over it.
CONSTANTS
  fa = fa  fb = fb  fc = fc  fd = fd
  r1 = r1  r2 = r2  r3 = r3
  Requests = {r1}
  Grants = {"g1"}
  GrantOf <- MCGrantOf
  Paths = {fa, fb, fc, fd}
  Contents = {"old", "new", "foreign"}
  NoFile = NoFile
  NoRequest = NoRequest
  Base <- MCBase
  Plan <- OneOfEachKind
  EditContents = {"foreign", NoFile}
  MaxCrashes = 0
  MaxEdits = 1
  MaxFaults = 0
  RollbackMayFail = FALSE
  RootMayVanish = FALSE
SPECIFICATION Spec
INVARIANT StalePatchNeverApplied
