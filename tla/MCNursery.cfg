CONSTANTS
  Obj = {o1, o2, o3}
  Addr = {a1, a2, a3, a4}
  Free = Free
  Scanner = {g1}
  Holder = {o1, o2}
  MaxFields = 1
  MaxMoved = 1
  Worker = {w1, w2}
  NoPacket = NoPacket
  MutatorThread = {}
  BufferSize = 2
  ChunkSize = 2
  CallInfo = {}
SPECIFICATION Spec
SYMMETRY Symmetric
INVARIANTS NothingLiveIsLost
