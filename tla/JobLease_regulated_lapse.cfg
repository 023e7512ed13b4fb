SPECIFICATION FairSpec
CONSTANTS
  User = {"alice", "bob"}
  Job = {"j1", "j2"}
  Node = {"n1"}
  Instance = {"i1"}
  Key = {"k1"}
  Consumer <- TwoConsumer
  BaseCost <- TwoBase
  MaxAttempts <- TwoAttempts
  SpeedClass <- TwoSpeed
  Regulated = {"j1"}
  Pin <- PinFirst
  GatewayJob = {}
  NodeOf <- OneNodeOf
  Owner <- BobOwns
  Grant <- TwoGrant
  MaxMicro = 6
  Tier = {"high"}
  Trust = {"enhanced"}
  Limits = {1}
  Beat = {"online"}
  Audited = {"i1"}
  None = None
PROPERTY LapsedReportEndsJob
