CONSTANTS
  p = p
  q = q
  c = c
  Obj <- MCObj
  Parents <- MCParents
  PinKids <- MCPinKids
  Addr = {a1, a2, a3, a4}
  Worker = {w1, w2}
  Free = Free
  NoPacket = NoPacket
  ChunkSize = 1
  MaxPPPs = 2
  MaxUserPins = 1
  Writable = {}
SPECIFICATION Spec
SYMMETRY Symmetric
INVARIANTS PPPTypeOK EveryPinHasOneOwner NoPinOutlivesGC PinnedChildrenStay NoDanglingPPP
PROPERTIES ImplementsRegistry
