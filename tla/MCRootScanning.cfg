CONSTANTS
  Obj = {o1, o2}
  Addr = {a1, a2, a3}
  Free = Free
  Scanner = {t1, g1}
  Holder = {o1, o2}
  MaxFields = 1
  MaxMoved = 1
  Worker = {w1, w2}
  NoPacket = NoPacket
  MutatorThread = {t1}
  BufferSize = 2
  ChunkSize = 1
  CallInfo = {o2}
SPECIFICATION Spec
SYMMETRY Symmetric
INVARIANTS RootScanningTypeOK RootsStay RegistriesExact ClosureFits
PROPERTIES ImplementsRegistries
