SPECIFICATION Spec
CONSTANTS
  Producers = {p1, p2}
  Consumers = {c1}
  Deployments = {{p1, p2, c1}}
  Capacity = 6
  MaxPushes = 3
INVARIANT TailNeverHead
CHECK_DEADLOCK FALSE
