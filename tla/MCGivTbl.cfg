CONSTANTS
  Obj = {o1, o2, o3}
  Addr = {a1, a2, a3, a4, a5}
  Worker = {w1, w2}
  Free = Free
  NoPacket = NoPacket
  NoTable = NoTable
SPECIFICATION Spec
SYMMETRY Symmetric
INVARIANTS GivTypeOK LookupSucceeds CopyFindsTable IvarsFollowObject
PROPERTIES ImplementsRegistry
