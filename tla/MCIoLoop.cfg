CONSTANTS
  ChunkMin = 2
  MaxRead = 7
  Conns = {c1}
  Kinds = {"mqtt", "mqtts", "console"}
  MaxBytes = 1
  MaxMails = 2
  MaxTicks = 1
SPECIFICATION Spec
INVARIANTS
  ConnsOutliveUse
  OutputExact
  NoStrandedMail
PROPERTIES
  GoneConnsFreed
CHECK_DEADLOCK FALSE
