SPECIFICATION Spec
CONSTANTS
  Job = {j1, j2, j3}
  MaxEvents = 4
  PageSize = 2
  None = None
  Replica = {1, 2}
  StoredJob = {j1, j2}
  Legacy = {j1}
  Hidden = {1, 2}
  NoKey = NoKey
  Handler = {1, 2}
  Peer = {"p", "c"}
  Proxies = {"p"}
  Forwarded = {"c"}
  Token = {"t"}
  Limit = 1
  Burst = 2
  Window = 3
  MaxBuckets = 2
  MaxWait = 1
  MaxTime = 4
  MaxAdmitted = 3
INVARIANTS LeaseKeepsInstance ServiceSound
PROPERTIES StreamSound NoLeaseAfterUnpublish DrainingEnds StreamEnds OverdueEnds
CHECK_DEADLOCK FALSE
