SPECIFICATION FairSpec
CONSTANTS
  Producers = {p1, p2}
  Consumers = {c1, c2}
  Deployments = {{p1, c1, c2}, {p1, p2, c1}}
  Capacity = 3
  MaxPushes = 4
INVARIANT NoDoubleDelivery
PROPERTY RetriesEnd
CHECK_DEADLOCK FALSE
