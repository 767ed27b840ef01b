CONSTANTS
  Threads = {t1, t2}
  Servers = {s1, s2}
  Handles = {0, 1}
  Hosts = {h1, h2}
  DefaultHost = h1
  Ports = {}
  Timeouts = {}
  CtorHosts = {}
  Errnos = {15010}
  Methods = {"connect", "disconnect", "manager", "statjob"}
  NULL = NULL
  PBS_UNKNOWN_HOST = UNKNOWN
SPECIFICATION Spec
SYMMETRY Symmetry
PROPERTY PoolSpec
INVARIANTS HandleOwnership ReprShowsConnection CacheCoherent RequestsStayHome ErrorReporting
