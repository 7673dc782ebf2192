SPECIFICATION FairSpec
CONSTANTS
  Producers = {p1}
  Consumers = {c1}
  Deployments = {{p1, c1}}
  Capacity = 3
  MaxPushes = 6
INVARIANTS TypeOK NoDataRace TailNeverHead
PROPERTIES RefinesFifo CallsReturn AcceptedIsDelivered
CHECK_DEADLOCK FALSE
