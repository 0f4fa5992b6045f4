-------------------------------- MODULE Layout --------------------------------
(***************************************************************************)
(* The layout of an object in memory, in words (abi.rs, object_model.rs):  *)
(* a hidden header with the payload size, the payload the reference points *)
(* to, and in RACTOR_CHECK_MODE a hidden suffix.  Everyone who needs the   *)
(* extent of an object computes it from the header; a moving collection    *)
(* copies that extent and overwrites the header of the old copy with the   *)
(* forwarding pointer.                                                     *)
(***************************************************************************)
EXTENDS Naturals, FiniteSets

CONSTANTS
  Obj,         (* Ruby objects                                             *)
  Payload,     (* the payload size of each                                 *)
  SuffixSize,  (* RubyBindingOptions::suffix_size                          *)
  MinSize,     (* mmtk-core's MIN_OBJECT_SIZE                              *)
  Words        (* bound: the words of the heap                             *)

OBJREF_OFFSET == 1

ASSUME LayoutAssumption ==
  /\ Payload \in [Obj -> Nat \ {0}]
  /\ SuffixSize \in Nat
  /\ MinSize \in Nat
  /\ Words \in Nat

VARIABLES
  memory,   (* the content of each word                                    *)
  used,     (* words mmtk-core has handed out                              *)
  ref,      (* the current reference of each object on the heap            *)
  moved     (* objects copied by the collection under way                  *)

vars == <<memory, used, ref, moved>>

Address == 0 .. Words - 1

(* Contents: a payload size, a forwarding pointer, a word some object      *)
(* stores at a position of its own, or anything at all.                    *)
Size(n) == [is |-> "size", word |-> n]
ForwardTo(r) == [is |-> "forward", word |-> r]
Stored(o, i) == [is |-> "stored", by |-> o, word |-> i]
Junk == [is |-> "junk"]

Init ==
  /\ memory = [a \in Address |-> Junk]
  /\ used = {}
  /\ ref = [o \in {} |-> 0]
  /\ moved = {}

-----------------------------------------------------------------------------
(* RubyObjectAccess.                                                       *)

PrefixSize == OBJREF_OFFSET
ObjStart(r) == r - PrefixSize
PayloadSize(r) == memory[ObjStart(r)].word
SuffixAddr(r) == r + PayloadSize(r)

(* Mutant: the hidden suffix is forgotten.                                 *)
ObjectSizeNoSuffix(r) == PrefixSize + PayloadSize(r)

ObjectSize(r) == PrefixSize + PayloadSize(r) + SuffixSize
ObjEnd(r) == SuffixAddr(r) + SuffixSize

Extent(start, size) == start .. start + size - 1

-----------------------------------------------------------------------------
(* Mutant: the end of the heap is not looked at.                           *)
FitsUnused(start, size) == Extent(start, size) \cap used = {}

(* Words mmtk-core may hand out.                                           *)
Fits(start, size) ==
  /\ Extent(start, size) \subseteq Address
  /\ Extent(start, size) \cap used = {}

(* mmtk_alloc clamps the size; CRuby fills in the hidden header, the       *)
(* payload and the suffix.                                                 *)
ClampedSize(size) == IF size < MinSize THEN MinSize ELSE size

Alloc(o, start) ==
  LET size == PrefixSize + Payload[o] + SuffixSize
      r == start + OBJREF_OFFSET
  IN  /\ moved = {}
      /\ o \notin DOMAIN ref
      /\ Fits(start, ClampedSize(size))
      /\ used' = used \cup Extent(start, ClampedSize(size))
      /\ memory' = [a \in Address |->
                      IF a = start THEN Size(Payload[o])
                      ELSE IF a \in Extent(r, size - PrefixSize) THEN Stored(o, a - r)
                      ELSE memory[a]]
      /\ ref' = [p \in DOMAIN ref \cup {o} |-> IF p = o THEN r ELSE ref[p]]
      /\ UNCHANGED moved

(* Mutant: the new reference is the start of the space.                    *)
CopiedToStart(start) == start

CopiedTo(start) == start + OBJREF_OFFSET

(* copy; afterwards mmtk-core stores the forwarding pointer OBJREF_OFFSET  *)
(* before the old reference (LOCAL_FORWARDING_POINTER_SPEC).               *)
Copy(o, start) ==
  LET from == ref[o]
      size == ObjectSize(from)
  IN  /\ Fits(start, size)
      /\ used' = used \cup Extent(start, size)
      /\ ref' = [ref EXCEPT ![o] = CopiedTo(start)]
      /\ moved' = moved \cup {o}
      /\ memory' = [a \in Address |->
                      IF a \in Extent(start, size) THEN memory[ObjStart(from) + (a - start)]
                      ELSE IF a = from - OBJREF_OFFSET THEN ForwardTo(CopiedTo(start))
                      ELSE memory[a]]

(* The collection ends with the objects S alive: only their extents, as    *)
(* get_current_size tells, stay in use; nothing is known of the rest.      *)
EndGC(S) ==
  /\ S \subseteq DOMAIN ref
  /\ ref' = [o \in S |-> ref[o]]
  /\ used' = UNION {Extent(ObjStart(ref[o]), ObjectSize(ref[o])) : o \in S}
  /\ memory' = [a \in Address |-> IF a \in used' THEN memory[a] ELSE Junk]
  /\ moved' = {}

Next ==
  \/ \E o \in Obj, start \in Address : Alloc(o, start)
  \/ \E o \in DOMAIN ref \ moved, start \in Address : Copy(o, start)
  \/ \E S \in SUBSET DOMAIN ref : EndGC(S)

Spec == Init /\ [][Next]_vars

-----------------------------------------------------------------------------
(* Type correctness.                                                       *)
LayoutTypeOK ==
  /\ memory \in [Address -> {Junk} \cup [is : {"size", "forward"}, word : Nat]
                              \cup [is : {"stored"}, by : Obj, word : Nat]]
  /\ used \subseteq Address
  /\ DOMAIN ref \subseteq Obj
  /\ \A o \in DOMAIN ref : ref[o] \in Address
  /\ moved \subseteq DOMAIN ref

(* Wherever an object has been moved, its reference leads to a sane hidden *)
(* header, its own payload and its own suffix: what object_size tells is   *)
(* neither more nor less than what CRuby stored, however often the memory  *)
(* around it is reused.                                                    *)
ContentsIntact ==
  \A o \in DOMAIN ref :
    /\ memory[ObjStart(ref[o])] = Size(Payload[o])
    /\ \A a \in ref[o] .. ObjEnd(ref[o]) - 1 : memory[a] = Stored(o, a - ref[o])

(* No two objects share a word, and mmtk-core knows every word of each as  *)
(* used.                                                                   *)
ExtentsDisjoint ==
  LET extent(o) == Extent(ObjStart(ref[o]), PrefixSize + Payload[o] + SuffixSize)
  IN  \A o \in DOMAIN ref :
        /\ extent(o) \subseteq used
        /\ \A p \in DOMAIN ref : o # p => extent(o) \cap extent(p) = {}
=============================================================================
