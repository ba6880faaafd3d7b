SPECIFICATION FairSpec
CONSTANTS
  d1 = d1
  d2 = d2
  d3 = d3
  Nobody = Nobody
  Daemons <- ThreeDaemons
  Environments <- AllEnvs
  MaxFailures = 2
INVARIANTS TypeOK SomebodyServes FailsOnlyForAnother SameEnvironmentMeets
PROPERTY ServedInTheEnd
CHECK_DEADLOCK FALSE
