CONSTANTS
  Obj = {o1, o2, o3}
  Addr = {a1, a2, a3, a4}
  Worker = {w1, w2}
  Free = Free
  NoPacket = NoPacket
SPECIFICATION Spec
INVARIANTS ObjFreeTypeOK EachCandidateOnce OnlyGarbageFreed
PROPERTIES FreedBeforeReclaimed ImplementsRegistry
CHECK_DEADLOCK FALSE
SYMMETRY Symmetric
