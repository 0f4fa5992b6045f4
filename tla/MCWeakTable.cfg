CONSTANTS
  Worker = {w1, w2, w3}
  EntriesStart = 1
  EntriesBound = 4
  BinsNum = 4
  EntriesChunk = 1
  BinsChunk = 2
  CounterSize = 8
  Empty = Empty
  NoPacket = NoPacket
SPECIFICATION Spec
INVARIANTS WTTypeOK CounterExact BinsAfterEntries SingleBorrow NoDanglingBin
PROPERTIES ImplementsTwoPhase TableEventuallyClean
CHECK_DEADLOCK FALSE
