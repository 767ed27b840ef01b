CONSTANTS
  Threads = {t1}
  Servers = {s1}
  Handles = {0}
  Hosts = {h1}
  DefaultHost = h1
  Ports = {}
  Timeouts = {}
  CtorHosts = {}
  Errnos = {15010}
  Methods = {"connect", "disconnect", "totpool", "usepool"}
  NULL = NULL
  PBS_UNKNOWN_HOST = UNKNOWN
SPECIFICATION Spec
INVARIANT PoolCountsReturned
