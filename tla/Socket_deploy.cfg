SPECIFICATION Spec
CONSTANTS
  d1 = d1
  d2 = d2
  d3 = d3
  Nobody = Nobody
  Daemons <- OneDaemon
  Environments <- NoEmptyEnvs
  MaxFailures = 0
INVARIANTS DeploymentsKeepWorking
CHECK_DEADLOCK FALSE
