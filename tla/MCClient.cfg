SPECIFICATION Spec
CONSTANTS
  Installer = {c1, c2}
  Absent = Absent
  Damaged = Damaged
  MaxVersions = 4
  MaxRead = 3
  MaxEntries = 4
  MaxBytes = 5
  Command = {c1, c2}
  MaxStarts = 2
  None = None
  Request = {r1, r2, r3}
  NoRequest = NoRequest
  Download = {d1}
  Delete = {c1, c2}
  MaxInodes = 2
  MaxRecords = 2
  MaxDamage = 1
  Shard = {s1, s2}
  Deploy = {b1}
  MaxBundles = 2
  Word = 63
  MaxChanges = 1
  Asker = {1, 2}
  Streaming = {1}
  PageSize = 1
  MaxEvents = 2
  MaxTokens = 2
  Sealer = {1, 2}
  Report = {1, 2, 3}
  Allowed = {2, 3}
SYMMETRY Symmetry
CHECK_DEADLOCK FALSE
INVARIANTS
  ReadAsWritten ServiceAccounted TrustedModels ConsumerServed
PROPERTIES
  SlotStartsClean RecordsMatchFiles
