CONSTANTS
  o1 = o1
  o2 = o2
  o3 = o3
  Obj <- MCObj
  Payload <- MCPayload
  SuffixSize = 1
  MinSize = 4
  Words = 14
SPECIFICATION Spec
INVARIANTS LayoutTypeOK ContentsIntact ExtentsDisjoint
