SPECIFICATION Spec
CONSTANTS
  User = {"alice", "bob"}
  Job = {"j1", "j2", "j3"}
  Node = {"n1"}
  Instance = {"i1"}
  Key = {"k1"}
  Consumer <- TwoConsumer
  BaseCost <- ThreeBase
  MaxAttempts <- ThreeAttempts
  SpeedClass <- ThreeSpeed
  Regulated = {}
  Pin <- NoPin
  GatewayJob = {}
  NodeOf <- OneNodeOf
  Owner <- MixedOwner
  Grant <- ThreeGrant
  MaxMicro = 6
  Tier = {"medium"}
  Trust = {"enhanced"}
  Limits = {1, 2}
  Beat = {"online", "paused"}
  Audited = {}
  None = None
PROPERTIES CapacityRespected WholeNodeForFast
