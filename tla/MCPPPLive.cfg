CONSTANTS
  p = p
  q = p
  c = c
  Obj <- MCObj
  Parents <- MCParents
  PinKids <- MCPinKids
  Addr = {a1, a2, a3}
  Worker = {w1, w2}
  Free = Free
  NoPacket = NoPacket
  ChunkSize = 1
  MaxPPPs = 2
  MaxUserPins = 1
  Writable <- MCObj
SPECIFICATION Spec
PROPERTIES PinsAreReleased
