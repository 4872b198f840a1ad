CONSTANTS
  ChunkMin = 2
  MaxRead = 7
  Conns = {c1}
  Kinds = {"console"}
  MaxBytes = 1
  MaxMails = 0
  MaxTicks = 0
SPECIFICATION Spec
PROPERTIES
  ClosedConnsFreed
CHECK_DEADLOCK FALSE
