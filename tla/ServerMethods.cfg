CONSTANTS
  Threads = {t1, t2}
  Servers = {s1}
  Handles = {0}
  Hosts = {h1}
  DefaultHost = h1
  Ports = {15003}
  Timeouts = {5}
  CtorHosts = {h1}
  Errnos = {15010}
  Methods = {"connect", "disconnect", "avail", "asyrunjob", "deljob", "holdjob",
             "locjob", "movejob", "msgjob", "orderjob", "rerunjob", "rlsjob",
             "sigjob", "terminate", "totpool", "usepool", "rescrelease",
             "alterjob", "selectjob", "manager", "rescquery", "rescreserve",
             "submit", "statserver", "statjob", "statque", "statnode", "selstat"}
  NULL = NULL
  PBS_UNKNOWN_HOST = UNKNOWN
SPECIFICATION Spec
INVARIANTS TypeOK ErrorReporting
