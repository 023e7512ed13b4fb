SPECIFICATION Spec
CONSTANTS
  User = {"alice", "bob"}
  Job = {"j1", "j2"}
  Node = {"n1", "n2"}
  Instance = {"i1", "i2"}
  Key = {"k1", "k2"}
  Consumer <- TwoConsumer
  BaseCost <- TwoBase
  MaxAttempts <- TwoAttempts
  SpeedClass <- TwoSpeed
  Regulated = {}
  Pin <- NoPin
  GatewayJob = {"j2"}
  NodeOf <- TwoNodeOf
  Owner <- MixedOwner
  Grant <- TwoGrant
  MaxMicro = 6
  Tier = {"high", "low"}
  Trust = {"enhanced"}
  Limits = {1}
  Beat = {"online"}
  Audited = {}
  None = None
INVARIANTS TypeOK ReservationExact SettlementNeverRefused AttemptsMatchJob
  ReportAppliedOnce
PROPERTIES ImplementsEscrow
