----------------------------- MODULE LayoutProofs -----------------------------
(***************************************************************************)
(* Proofs about Layout, for every set of objects, payload sizes, suffix    *)
(* size, minimum size and heap.                                            *)
(*                                                                         *)
(* The three invariants are inductive only together: a copy moves what the *)
(* header tells, which is right because contents are intact, and does not  *)
(* hit another object because extents are disjoint and known as used.      *)
(***************************************************************************)
EXTENDS Layout, TLAPS

(* The words of an object, and where they are.                             *)
TotalSize(o) == PrefixSize + Payload[o] + SuffixSize
Home(o) == Extent(ref[o] - 1, TotalSize(o))

(* What the memory m holds for an object referred to by r.                 *)
Holds(m, o, r) ==
  /\ m[r - 1] = Size(Payload[o])
  /\ \A i \in 0 .. Payload[o] + SuffixSize - 1 : m[r + i] = Stored(o, i)

ObjectsHeld == \A o \in DOMAIN ref : Holds(memory, o, ref[o])

HomesApart ==
  \A o \in DOMAIN ref :
    /\ Home(o) \subseteq used
    /\ \A p \in DOMAIN ref : o # p => Home(o) \cap Home(p) = {}

LayoutInv == LayoutTypeOK /\ ObjectsHeld /\ HomesApart
-----------------------------------------------------------------------------
LEMMA Sizes ==
  ASSUME NEW o \in Obj
  PROVE  /\ Payload[o] \in Nat \ {0} /\ SuffixSize \in Nat
         /\ TotalSize(o) \in Nat /\ TotalSize(o) = 1 + Payload[o] + SuffixSize
BY LayoutAssumption DEF TotalSize, PrefixSize, OBJREF_OFFSET

LEMMA InExtent ==
  ASSUME NEW start \in Nat, NEW size \in Nat, NEW a \in Nat
  PROVE  a \in Extent(start, size) <=> start <= a /\ a < start + size
BY DEF Extent

LEMMA AddressIsNat == Address \subseteq Nat
BY LayoutAssumption DEF Address

LEMMA OneOf ==
  /\ \A n : Size(n).word = n
  /\ \A n, o, i : Size(n) # Stored(o, i)
BY DEF Size, Stored

(* A header as CRuby wrote it gives the size CRuby asked for.              *)
LEMMA SizeTold ==
  ASSUME NEW o \in Obj, NEW r \in Nat, memory[r - 1] = Size(Payload[o])
  PROVE  /\ PayloadSize(r) = Payload[o]
         /\ ObjectSize(r) = TotalSize(o)
         /\ ObjEnd(r) = r + Payload[o] + SuffixSize
<1>1. PayloadSize(r) = Payload[o]
  BY OneOf DEF PayloadSize, ObjStart, PrefixSize, OBJREF_OFFSET
<1> QED BY <1>1, Sizes DEF ObjectSize, ObjEnd, SuffixAddr, TotalSize

(* What the invariant says of one object.                                  *)
LEMMA OneObject ==
  ASSUME LayoutInv, NEW o \in DOMAIN ref
  PROVE  /\ o \in Obj
         /\ Holds(memory, o, ref[o])
         /\ Home(o) = ref[o] - 1 .. ref[o] - 1 + TotalSize(o) - 1
         /\ Home(o) \subseteq used /\ used \subseteq Address
         /\ ref[o] \in Nat \ {0} /\ ref[o] \in Home(o) /\ ref[o] - 1 \in Home(o)
         /\ ObjectSize(ref[o]) = TotalSize(o)
<1>1. /\ o \in Obj /\ Holds(memory, o, ref[o]) /\ Home(o) \subseteq used
      /\ used \subseteq Address /\ ref[o] \in Address
  BY DEF LayoutInv, LayoutTypeOK, ObjectsHeld, HomesApart
<1>2. Home(o) = ref[o] - 1 .. ref[o] - 1 + TotalSize(o) - 1 /\ ref[o] \in Nat
  BY <1>1 DEF Home, Extent, Address
<1>3. ref[o] \in Home(o) /\ ref[o] - 1 \in Home(o)
  BY <1>1, <1>2, Sizes
<1>4. ref[o] - 1 \in Nat
  BY <1>1, <1>3, LayoutAssumption DEF Address
<1>5. ObjectSize(ref[o]) = TotalSize(o)
  BY <1>1, <1>2, SizeTold DEF Holds
<1> QED BY <1>1, <1>2, <1>3, <1>4, <1>5

(* The invariant says what Layout's properties say.                        *)
LEMMA InvariantTells == LayoutInv => ContentsIntact /\ ExtentsDisjoint
<1> SUFFICES ASSUME LayoutInv
             PROVE  ContentsIntact /\ ExtentsDisjoint
  OBVIOUS
<1>1. ASSUME NEW o \in DOMAIN ref
      PROVE  /\ memory[ObjStart(ref[o])] = Size(Payload[o])
             /\ \A a \in ref[o] .. ObjEnd(ref[o]) - 1 : memory[a] = Stored(o, a - ref[o])
  <2>1. PICK r \in Nat : r = ref[o]
    BY OneObject
  <2>2. o \in Obj /\ Holds(memory, o, r) /\ ObjStart(r) = r - 1
    BY <2>1, OneObject DEF ObjStart, PrefixSize, OBJREF_OFFSET
  <2>3. ObjEnd(r) = r + Payload[o] + SuffixSize
    BY <2>2, SizeTold DEF Holds
  <2>4. ASSUME NEW a \in r .. ObjEnd(r) - 1
        PROVE  memory[a] = Stored(o, a - r)
    <3>1. a - r \in 0 .. Payload[o] + SuffixSize - 1 /\ r + (a - r) = a
      BY <2>2, <2>3, Sizes
    <3> QED BY <2>2, <3>1 DEF Holds
  <2> QED BY <2>1, <2>2, <2>4 DEF Holds
<1>2. ContentsIntact
  BY <1>1 DEF ContentsIntact
<1>3. ExtentsDisjoint
  BY DEF LayoutInv, HomesApart, ExtentsDisjoint, Home, TotalSize, ObjStart,
         PrefixSize, OBJREF_OFFSET
<1> QED BY <1>2, <1>3
-----------------------------------------------------------------------------
(* An object keeps its contents and its place when the words it occupies   *)
(* and its reference are left alone.                                       *)
LEMMA LeftAlone ==
  ASSUME LayoutInv, NEW o \in DOMAIN ref, NEW m,
         \A a \in Home(o) : m[a] = memory[a]
  PROVE  Holds(m, o, ref[o])
<1>1. PICK r \in Nat \ {0} : r = ref[o]
  BY OneObject
<1>2. o \in Obj /\ Holds(memory, o, r) /\ Home(o) = r - 1 .. r - 1 + TotalSize(o) - 1
  BY <1>1, OneObject
<1>3. ASSUME NEW i \in 0 .. Payload[o] + SuffixSize - 1
      PROVE  m[r + i] = Stored(o, i)
  <2>1. r + i \in Home(o)
    BY <1>2, Sizes
  <2> QED BY <1>2, <2>1 DEF Holds
<1>4. m[r - 1] = memory[r - 1]
  BY <1>2, Sizes
<1> QED BY <1>1, <1>2, <1>3, <1>4 DEF Holds

(* What LayoutTypeOK asks of the memory.                                   *)
Word == {Junk} \cup [is : {"size", "forward"}, word : Nat]
               \cup [is : {"stored"}, by : Obj, word : Nat]

LEMMA WordKinds ==
  /\ Junk \in Word
  /\ \A n \in Nat : Size(n) \in Word /\ ForwardTo(n) \in Word
  /\ \A o \in Obj, i \in Nat : Stored(o, i) \in Word
BY DEF Word, Size, ForwardTo, Stored

LEMMA InitInv == Init => LayoutInv
<1> SUFFICES ASSUME Init PROVE LayoutInv
  OBVIOUS
<1>1. DOMAIN ref = {}
  BY DEF Init
<1>2. memory \in [Address -> Word]
  BY WordKinds DEF Init
<1>3. LayoutTypeOK
  BY <1>1, <1>2 DEF Init, LayoutTypeOK, Word
<1> QED BY <1>1, <1>3 DEF LayoutInv, ObjectsHeld, HomesApart
-----------------------------------------------------------------------------
(* The words mmtk-core hands out hit no object.                            *)
LEMMA FreshIsApart ==
  ASSUME LayoutInv, NEW start \in Address, NEW size \in Nat, Fits(start, size),
         NEW o \in DOMAIN ref
  PROVE  Extent(start, size) \cap Home(o) = {}
BY OneObject DEF Fits

LEMMA AllocInv ==
  ASSUME LayoutInv, NEW o \in Obj, NEW start \in Address, Alloc(o, start)
  PROVE  LayoutInv'
<1> DEFINE total == TotalSize(o)
           clamped == ClampedSize(total)
           r == start + 1
<1>1. /\ o \notin DOMAIN ref /\ moved = {} /\ UNCHANGED moved
      /\ Fits(start, clamped)
      /\ used' = used \cup Extent(start, clamped)
      /\ memory' = [a \in Address |->
                      IF a = start THEN Size(Payload[o])
                      ELSE IF a \in Extent(r, total - 1) THEN Stored(o, a - r)
                      ELSE memory[a]]
      /\ ref' = [p \in DOMAIN ref \cup {o} |-> IF p = o THEN r ELSE ref[p]]
  BY DEF Alloc, TotalSize, PrefixSize, OBJREF_OFFSET
<1>2. /\ total \in Nat \ {0, 1} /\ clamped \in Nat /\ total <= clamped
      /\ start \in Nat /\ total = 1 + Payload[o] + SuffixSize
      /\ Payload[o] \in Nat /\ SuffixSize \in Nat
  BY Sizes, LayoutAssumption DEF ClampedSize, Address
<1>3. /\ Extent(start, clamped) = start .. start + clamped - 1
      /\ Extent(start, clamped) \subseteq Address
      /\ Extent(r, total - 1) = r .. r + (total - 1) - 1
  BY <1>1 DEF Extent, Fits
<1> HIDE DEF total, clamped
<1>4. \A a \in Nat :
        /\ a \in Extent(start, clamped) <=> start <= a /\ a < start + clamped
        /\ a \in Extent(r, total - 1) <=> start < a /\ a < start + total
  <2>1. r \in Nat /\ total - 1 \in Nat /\ r + (total - 1) = start + total
    BY <1>2
  <2>2. \A a \in Nat : r <= a <=> start < a
    BY <1>2
  <2> QED BY <1>2, <2>1, <2>2, InExtent
<1>5. /\ DOMAIN ref' = DOMAIN ref \cup {o} /\ ref'[o] = r
      /\ \A p \in DOMAIN ref : p # o /\ ref'[p] = ref[p]
  BY <1>1
<1>6. Home(o)' = start .. start + total - 1
  BY <1>2, <1>5 DEF Home, Extent, total
<1>7. Home(o)' \subseteq Extent(start, clamped)
  <2>1. ASSUME NEW a \in start .. start + total - 1
        PROVE  a \in Nat /\ start <= a /\ a < start + clamped
    BY <1>2
  <2> QED BY <1>4, <1>6, <2>1
<1>8. \A p \in DOMAIN ref : Home(p)' = Home(p) /\ Home(p) \cap Extent(start, clamped) = {}
  BY <1>1, <1>2, <1>5, FreshIsApart DEF Home
<1>9. LayoutTypeOK'
  <2>1. ASSUME NEW a \in Address
        PROVE  memory'[a] \in Word
    <3>1. memory[a] \in Word
      BY DEF LayoutInv, LayoutTypeOK, Word
    <3>2. a \in Nat
      BY AddressIsNat
    <3>3. a \in Extent(r, total - 1) => a - r \in Nat
      BY <1>2, <1>4, <3>2
    <3> QED BY <1>1, <1>2, <3>1, <3>3, WordKinds
  <2>2. memory' \in [Address -> Word]
    BY <1>1, <2>1
  <2>3. used' \subseteq Address
    BY <1>1, <1>3 DEF LayoutInv, LayoutTypeOK
  <2>4. DOMAIN ref' \subseteq Obj /\ moved' \subseteq DOMAIN ref'
    BY <1>1, <1>5 DEF LayoutInv, LayoutTypeOK
  <2>5. r \in Address
    <3>1. r \in Nat /\ start <= r /\ r < start + clamped
      BY <1>2
    <3>2. r \in Extent(start, clamped)
      BY <1>4, <3>1
    <3> QED BY <1>3, <3>2
  <2>6. \A p \in DOMAIN ref' : ref'[p] \in Address
    BY <1>5, <2>5 DEF LayoutInv, LayoutTypeOK
  <2> QED BY <2>2, <2>3, <2>4, <2>6 DEF LayoutTypeOK, Word
<1>10. ASSUME NEW p \in DOMAIN ref'
      PROVE  Holds(memory', p, ref'[p])
  <2>1. CASE p = o
    <3>1. memory'[r - 1] = Size(Payload[o])
      BY <1>1, <1>2
    <3>2. ASSUME NEW i \in 0 .. Payload[o] + SuffixSize - 1
          PROVE  memory'[r + i] = Stored(o, i)
      <4>1. /\ r + i \in Extent(start, clamped) /\ r + i # start
            /\ r + i \in Extent(r, total - 1) /\ (r + i) - r = i
        BY <1>2, <1>4
      <4> QED BY <1>1, <1>3, <4>1
    <3> QED BY <1>5, <2>1, <3>1, <3>2 DEF Holds
  <2>2. CASE p # o
    <3>1. p \in DOMAIN ref /\ ref'[p] = ref[p]
      BY <1>5, <2>2
    <3>2. ASSUME NEW a \in Home(p) PROVE memory'[a] = memory[a]
      <4>1. a \in Address /\ a \notin Extent(start, clamped)
        BY <1>8, <3>1, OneObject
      <4>2. a # start /\ a \notin Extent(r, total - 1)
        BY <1>2, <1>4, <4>1, LayoutAssumption DEF Address
      <4> QED BY <1>1, <4>1, <4>2
    <3> QED BY <3>1, <3>2, LeftAlone
  <2> QED BY <2>1, <2>2
<1>11. HomesApart'
  <2>1. ASSUME NEW p \in DOMAIN ref'
        PROVE  /\ Home(p)' \subseteq used'
               /\ \A q \in DOMAIN ref' : p # q => Home(p)' \cap Home(q)' = {}
    BY <1>1, <1>5, <1>7, <1>8 DEF LayoutInv, HomesApart
  <2> QED BY <2>1 DEF HomesApart
<1> QED BY <1>9, <1>10, <1>11 DEF LayoutInv, ObjectsHeld

LEMMA CopyInv ==
  ASSUME LayoutInv, NEW o \in DOMAIN ref \ moved, NEW start \in Address, Copy(o, start)
  PROVE  LayoutInv'
<1> DEFINE total == TotalSize(o)
           from == ref[o]
           r == start + 1
<1>1. /\ Fits(start, total)
      /\ used' = used \cup Extent(start, total)
      /\ ref' = [ref EXCEPT ![o] = r]
      /\ moved' = moved \cup {o}
      /\ memory' = [a \in Address |->
                      IF a \in Extent(start, total) THEN memory[from - 1 + (a - start)]
                      ELSE IF a = from - 1 THEN ForwardTo(r)
                      ELSE memory[a]]
  BY OneObject DEF Copy, ObjStart, PrefixSize, OBJREF_OFFSET, CopiedTo
<1>2. /\ o \in Obj /\ from \in Nat \ {0} /\ start \in Nat
      /\ total = 1 + Payload[o] + SuffixSize /\ total \in Nat \ {0, 1}
      /\ Payload[o] \in Nat /\ SuffixSize \in Nat
  <2>1. o \in Obj /\ from \in Nat \ {0} /\ start \in Nat
    BY OneObject, LayoutAssumption DEF Address
  <2>2. Payload[o] \in Nat \ {0} /\ SuffixSize \in Nat /\ total = 1 + Payload[o] + SuffixSize
    BY <2>1, Sizes
  <2> HIDE DEF total, from
  <2> QED BY <2>1, <2>2
<1>3. /\ Extent(start, total) = start .. start + total - 1
      /\ Extent(start, total) \subseteq Address
      /\ Home(o) = from - 1 .. from - 1 + total - 1
      /\ Home(o) \subseteq Address /\ from - 1 \in Home(o)
  <2>1. Home(o) = from - 1 .. from - 1 + total - 1
    BY OneObject
  <2>2. Home(o) \subseteq Address /\ from - 1 \in Home(o)
    BY OneObject
  <2> QED BY <1>1, <2>1, <2>2 DEF Extent, Fits
<1> HIDE DEF total, from

(* What the copied words are: the old contents, shifted.                   *)
<1>4. ASSUME NEW i \in 0 .. total - 1
      PROVE  /\ start + i \in Extent(start, total)
             /\ from - 1 + i \in Home(o)
             /\ memory'[start + i] = memory[from - 1 + i]
  <2>1. start + i \in start .. start + total - 1 /\ (start + i) - start = i
    BY <1>2
  <2>2. from - 1 + i \in from - 1 .. from - 1 + total - 1
    BY <1>2
  <2>3. start + i \in Address
    BY <1>3, <2>1
  <2> QED BY <1>1, <1>3, <2>1, <2>2, <2>3
<1>5. /\ DOMAIN ref' = DOMAIN ref /\ ref'[o] = r
      /\ \A p \in DOMAIN ref : p # o => ref'[p] = ref[p]
  BY <1>1
<1>6. Home(o)' = Extent(start, total)
  BY <1>2, <1>3, <1>5 DEF Home, Extent, total
<1>7. \A p \in DOMAIN ref : p # o => /\ Home(p)' = Home(p)
                                     /\ Home(p) \cap Extent(start, total) = {}
                                     /\ from - 1 \notin Home(p)
  BY <1>1, <1>2, <1>3, <1>5, FreshIsApart DEF Home, LayoutInv, HomesApart
<1>8. LayoutTypeOK'
  <2>1. ASSUME NEW a \in Address
        PROVE  memory'[a] \in Word
    <3>1. \A b \in Address : memory[b] \in Word
      BY DEF LayoutInv, LayoutTypeOK, Word
    <3>2. CASE a \in Extent(start, total)
      <4>1. a \in Nat
        BY AddressIsNat
      <4>2. start <= a /\ a < start + total
        BY <1>2, <3>2, <4>1, InExtent
      <4>3. a - start \in 0 .. total - 1 /\ start + (a - start) = a
        BY <1>2, <4>1, <4>2
      <4> QED BY <1>3, <1>4, <3>1, <4>3
    <3>3. CASE a \notin Extent(start, total)
      <4>1. r \in Nat
        BY <1>2
      <4> QED BY <1>1, <3>1, <3>3, <4>1, WordKinds
    <3> QED BY <3>2, <3>3
  <2>2. memory' \in [Address -> Word]
    BY <1>1, <2>1
  <2>3. used' \subseteq Address
    BY <1>1, <1>3 DEF LayoutInv, LayoutTypeOK
  <2>4. r \in Address
    <3>1. 1 \in 0 .. total - 1
      BY <1>2
    <3> QED BY <1>3, <1>4, <3>1
  <2> QED BY <1>1, <1>5, <2>2, <2>3, <2>4 DEF LayoutInv, LayoutTypeOK, Word
<1>9. ASSUME NEW p \in DOMAIN ref'
      PROVE  Holds(memory', p, ref'[p])
  <2>1. CASE p = o
    <3>1. Holds(memory, o, from)
      BY OneObject DEF from
    <3>2. memory'[r - 1] = Size(Payload[o])
      <4>1. 0 \in 0 .. total - 1 /\ start + 0 = r - 1 /\ from - 1 + 0 = from - 1
        BY <1>2
      <4>2. memory'[start + 0] = memory[from - 1 + 0]
        BY <1>4, <4>1
      <4> QED BY <3>1, <4>1, <4>2 DEF Holds
    <3>3. ASSUME NEW i \in 0 .. Payload[o] + SuffixSize - 1
          PROVE  memory'[r + i] = Stored(o, i)
      <4>1. 1 + i \in 0 .. total - 1 /\ start + (1 + i) = r + i /\ from - 1 + (1 + i) = from + i
        BY <1>2
      <4>2. memory'[start + (1 + i)] = memory[from - 1 + (1 + i)]
        BY <1>4, <4>1
      <4> QED BY <3>1, <4>1, <4>2 DEF Holds
    <3> QED BY <1>5, <2>1, <3>2, <3>3 DEF Holds
  <2>2. CASE p # o
    <3>1. p \in DOMAIN ref /\ ref'[p] = ref[p]
      BY <1>5, <2>2
    <3>2. ASSUME NEW a \in Home(p) PROVE memory'[a] = memory[a]
      <4>1. a \in Address /\ a \notin Extent(start, total) /\ a # from - 1
        BY <1>7, <2>2, <3>1, OneObject
      <4> QED BY <1>1, <4>1
    <3> QED BY <3>1, <3>2, LeftAlone
  <2> QED BY <2>1, <2>2
<1>10. HomesApart'
  <2>1. ASSUME NEW p \in DOMAIN ref'
        PROVE  /\ Home(p)' \subseteq used'
               /\ \A q \in DOMAIN ref' : p # q => Home(p)' \cap Home(q)' = {}
    BY <1>1, <1>5, <1>6, <1>7 DEF LayoutInv, HomesApart
  <2> QED BY <2>1 DEF HomesApart
<1> QED BY <1>8, <1>9, <1>10 DEF LayoutInv, ObjectsHeld

LEMMA EndInv ==
  ASSUME LayoutInv, NEW S \in SUBSET DOMAIN ref, EndGC(S)
  PROVE  LayoutInv'
<1>1. /\ ref' = [o \in S |-> ref[o]] /\ DOMAIN ref' = S
      /\ \A o \in S : ref'[o] = ref[o] /\ Home(o)' = Home(o)
      /\ memory' = [a \in Address |-> IF a \in used' THEN memory[a] ELSE Junk]
      /\ moved' = {}
  BY DEF EndGC, Home
<1>2. used' = UNION {Home(o) : o \in S}
  <2>1. \A o \in S : Extent(ObjStart(ref[o]), ObjectSize(ref[o])) = Home(o)
    BY OneObject DEF Home, ObjStart, PrefixSize, OBJREF_OFFSET
  <2> QED BY <2>1 DEF EndGC
<1>3. \A o \in S : Home(o) \subseteq used' /\ Home(o) \subseteq Address
  BY <1>2, OneObject
<1>4. LayoutTypeOK'
  <2>1. memory' \in [Address -> Word]
    BY <1>1, WordKinds DEF LayoutInv, LayoutTypeOK, Word
  <2>2. used' \subseteq Address
    BY <1>2, <1>3
  <2> QED BY <1>1, <2>1, <2>2 DEF LayoutInv, LayoutTypeOK, Word
<1>5. ASSUME NEW o \in S
      PROVE  Holds(memory', o, ref'[o])
  <2>1. \A a \in Home(o) : memory'[a] = memory[a]
    BY <1>1, <1>3
  <2> QED BY <1>1, <2>1, LeftAlone
<1>6. HomesApart'
  <2>1. ASSUME NEW p \in S
        PROVE  /\ Home(p)' \subseteq used'
               /\ \A q \in S : p # q => Home(p)' \cap Home(q)' = {}
    BY <1>1, <1>3 DEF LayoutInv, HomesApart
  <2> QED BY <1>1, <2>1 DEF HomesApart
<1> QED BY <1>1, <1>4, <1>5, <1>6 DEF LayoutInv, ObjectsHeld
-----------------------------------------------------------------------------
LEMMA StepInv == LayoutInv /\ [Next]_vars => LayoutInv'
<1> SUFFICES ASSUME LayoutInv, [Next]_vars
             PROVE  LayoutInv'
  OBVIOUS
<1>1. ASSUME NEW o \in Obj, NEW start \in Address, Alloc(o, start)
      PROVE  LayoutInv'
  BY <1>1, AllocInv
<1>2. ASSUME NEW o \in DOMAIN ref \ moved, NEW start \in Address, Copy(o, start)
      PROVE  LayoutInv'
  BY <1>2, CopyInv
<1>3. ASSUME NEW S \in SUBSET DOMAIN ref, EndGC(S)
      PROVE  LayoutInv'
  BY <1>3, EndInv
<1>4. CASE UNCHANGED vars
  BY <1>4 DEF vars, LayoutInv, LayoutTypeOK, ObjectsHeld, HomesApart, Home, TotalSize, Holds
<1> QED BY <1>1, <1>2, <1>3, <1>4 DEF Next

(* Whatever is allocated, copied and reclaimed, and however the heap is    *)
(* reused, each reference leads to its object's words and objects share    *)
(* none.                                                                   *)
THEOREM LayoutInvariant == Spec => []LayoutInv
BY InitInv, StepInv, PTL DEF Spec

(* LayoutTypeOK: no extent computed from a header leaves the heap.         *)
THEOREM LayoutTypeCorrect == Spec => []LayoutTypeOK
<1>1. LayoutInv => LayoutTypeOK
  BY DEF LayoutInv
<1> QED BY <1>1, LayoutInvariant, PTL

(* ContentsIntact: copying get_current_size words from the hidden header   *)
(* on, and the forwarding pointer stored over the old header, never lose   *)
(* or add a word of any object.                                            *)
THEOREM ObjectsKeepTheirContents == Spec => []ContentsIntact
BY LayoutInvariant, InvariantTells, PTL

(* ExtentsDisjoint: the size the header tells and the one mmtk_alloc       *)
(* clamped cover every object, so no two objects share a word.             *)
THEOREM ObjectsDoNotOverlap == Spec => []ExtentsDisjoint
BY LayoutInvariant, InvariantTells, PTL
=============================================================================
