CONSTANTS
  Threads = {t1, t2}
  Servers = {s1}
  Handles = {0}
  Hosts = {h1}
  DefaultHost = h1
  Ports = {}
  Timeouts = {}
  CtorHosts = {}
  Errnos = {15010}
  Methods = {"connect", "disconnect", "alterjob"}
  NULL = NULL
  PBS_UNKNOWN_HOST = UNKNOWN
SPECIFICATION Spec
INVARIANT CheckedRequestsAreConnected
