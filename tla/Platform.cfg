\* One component moves at a time: see MCPlatform.
SPECIFICATION PlatformSpec
CONSTANTS
  \* Provisioning
  Processes = {"p1", "p2"}
  Callers = {"q1", "q2"}
  Names = {"admin", "alice"}
  Emails = {"admin@atalaya.local", "alice@example.org"}
  SeedName = "admin"
  SeedEmail = "admin@atalaya.local"
  Production = FALSE
  NobodyYet = "nobody"
  \* RateWindow
  Servers = {"s1"}
  Clients = {"c1", "c2"}
  KeyIds = {"k1", "k2"}
  MaxRequests = 2
  Window = 2
  Horizon = 3
  \* Agents
  RateLimit <- MCRateLimit
  Minute = 2
  Subdomains = {"sub"}
  Target = "target"
  Inputs <- MCInputs
  MaxRuns = 2
  LastTick = 2
  \* Fusion
  Targets = {"target", "other"}
  Items <- MCItems
  NodeIds = {"target", "other", "osint_target", "sanctions_bank", "ioc_https://evil", "friend", "darkweb_forum"}
  MaxItems = 2
  MaxFusions = 2
CHECK_DEADLOCK FALSE
INVARIANTS PlatformTypeOK SuperusersFoundNobody WindowRespected ToolRateKept ResultsAreWhole SearchesAgree FusionsAreSound
