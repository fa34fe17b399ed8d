SPECIFICATION Spec
CONSTANTS
  Scenarios = {"workspace", "waitlist", "connectors", "sync", "bridge"}
  LogLimit = 4
  MaxOpen = 2
  Projects = {"p1"}
  AgentRuns = {"r1"}
  Folders = {"f1", "f2"}
  Files = {"x1"}
  FolderNames = {"Standards"}
  AgentIds = {"fea-runner", "no-such-agent"}
  Classes = {"ms-sharepoint", "verolas-library"}
  Bindings = {b1, b2}
  Tokens = {"t1"}
  Items = {i1, i2}
  MaxChanges = 2
  MaxJobs = 2
  ClaimLimit = 1
  Admits = TRUE
INVARIANTS
  TypeOK
  AuditMatchesRows
  BindingsNeedInstallation
  OneInstallPerConsent
  CursorSound
  InProgressAccounted
PROPERTIES
  JobsGoForward
  RevocationHolds
SYMMETRY Symmetry
CHECK_DEADLOCK FALSE
