SPECIFICATION Spec
CONSTANTS
  WorkerTask = {t1, t2}
  Command = {c1}
  Poll = {p1, p2}
  MaxGen = 3
  Nobody = Nobody
  Attempt = {a1, a2}
  Handler = {h1, h2}
  NoAttempt = NoAttempt
  Route = {r1, r2}
  Tx = {x1, x2}
  MaxConcurrent = 1
  MaxReports = 2
  Free = Free
  User = {1, 2, 3}
  JobKey = {1, 2}
  KeysOf <- Keys
  DeviceOf <- SharedDevice
  Network <- SharedNetwork
  RequireNetwork = TRUE
  Newcomer = {2}
  LoopUser = {1}
  MaxLoop = 2
  MaxOpen = 2
  IpShared = 2
  IpLarge = 3
  AsnShared = 2
  AsnLarge = 3
  LoopEmerging = 1
  LoopBlock = 2
  None = None
SYMMETRY Symmetry
INVARIANTS SessionsSafe AttestationSound RouteUsedOnce WeightsOnlyFall
PROPERTIES VaultForward PromisesKept
