CONSTANTS
  Worker = {w1, w2, w3}
  EntriesStart = 0
  EntriesBound = 2
  BinsNum = 5
  EntriesChunk = 1
  BinsChunk = 4
  CounterSize = 8
  Empty = Empty
  NoPacket = NoPacket
SPECIFICATION Spec
INVARIANTS ConcurrentBinsDisjoint
CHECK_DEADLOCK FALSE
