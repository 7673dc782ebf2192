SPECIFICATION Spec
CONSTANTS
  Producers = {p1}
  Consumers = {c1}
  Deployments = {{p1, c1}}
  Capacity = 3
  MaxPushes = 6
INVARIANT RejectedIsDropped
CHECK_DEADLOCK FALSE
