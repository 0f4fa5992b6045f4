CONSTANTS
  Obj = {o1, o2}
  Addr = {a1, a2, a3}
  Worker = {w1, w2}
  Free = Free
  NoPacket = NoPacket
  NoTable = NoTable
SPECIFICATION Spec
PROPERTIES MovesAreApplied
