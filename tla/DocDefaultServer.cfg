CONSTANTS
  Threads = {t1}
  Servers = {s1}
  Handles = {0}
  Hosts = {h1, h2}
  DefaultHost = h1
  Ports = {}
  Timeouts = {}
  CtorHosts = {}
  Errnos = {15010}
  Methods = {"connect", "disconnect", "statjob"}
  NULL = NULL
  PBS_UNKNOWN_HOST = UNKNOWN
SPECIFICATION Spec
PROPERTY NoArgsMeansDefault
