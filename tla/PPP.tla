--------------------------------- MODULE PPP ---------------------------------
(***************************************************************************)
(* Potential pinning parents (ppp.rs).  A PPP is an object some of whose   *)
(* fields the Ruby runtime cannot update when the object they refer to     *)
(* moves.  Before a moving collection traces anything, the binding pins    *)
(* those children; afterwards it removes dead PPPs from its registry and   *)
(* undoes exactly the pins it made.                                        *)
(***************************************************************************)
EXTENDS MMTkCore, Chunks, Sequences

CONSTANTS
  Parents,   (* objects of the types the runtime registers as PPPs         *)
  PinKids,   (* objects that gc_mark_children reports with pin = true      *)
  ChunkSize, (* PPPs per PinPPPChildren packet (512 in the code)           *)
  MaxPPPs,   (* bound: length of the registry                              *)
  MaxUserPins, (* bound: addresses the program keeps pinned at a time      *)
  Writable   (* bound: objects whose fields the program overwrites         *)

PacketSet ==
  [kind : {"PinPPPChildren", "ProcessWeakRefs", "RemoveDeadPPPs", "UnpinPPPChildren"},
   begin : Nat, refs : SUBSET Addr]

ASSUME PPPAssumption ==
  /\ Parents \subseteq Obj
  /\ PinKids \subseteq Obj
  /\ ChunkSize \in Nat \ {0}
  /\ NoPacket \notin PacketSet

VARIABLES
  ppps,         (* PPPRegistry::ppps                                       *)
  pinnedKids,   (* PPPRegistry::pinned_ppp_children                        *)
  plain,        (* objects for which is_no_longer_ppp holds                *)
  step,         (* where each worker is inside its packet                  *)
  children,     (* ppp_children of each worker, not yet tried              *)
  newly,        (* newly_pinned_ppp_children of each worker                *)
  cursor,       (* the entry RemoveDeadPPPs looks at                       *)
  kept,         (* the entries it has kept so far                          *)
  userPins      (* addresses the program has pinned through the API        *)

pinLocals == <<step, children, newly>>
retainLocals == <<cursor, kept>>
localVars == <<pinLocals, retainLocals>>
pppVars == <<ppps, pinnedKids, plain, localVars, userPins>>
vars == <<coreVars, pppVars>>

(* begin tells the PinPPPChildren packets of one collection apart.         *)
Packet(kind, begin, refs) == [kind |-> kind, begin |-> begin, refs |-> refs]

Runs(w, kind, s) ==
  /\ running[w] # NoPacket
  /\ running[w].kind = kind
  /\ step[w] = s

Finish(w) == running' = [running EXCEPT ![w] = NoPacket]

PPPInit ==
  /\ CoreInit
  /\ ppps = <<>>
  /\ pinnedKids = {}
  /\ plain = {}
  /\ step = [w \in Worker |-> "start"]
  /\ children = [w \in Worker |-> {}]
  /\ newly = [w \in Worker |-> {}]
  /\ cursor = 1
  /\ kept = <<>>
  /\ userPins = {}

-----------------------------------------------------------------------------
(* Mutators.                                                               *)

New(o, a, S) ==
  /\ Alloc(o, a, S)
  /\ plain' = plain \ {o}
  /\ UNCHANGED <<ppps, pinnedKids, localVars, userPins>>

Forget(o) ==
  /\ Drop(o)
  /\ UNCHANGED pppVars

SetFields(o, S) ==
  /\ o \in Writable
  /\ Write(o, S)
  /\ UNCHANGED pppVars

(* register and register_many, with objects the caller holds.  A hash that *)
(* had stopped being a PPP may become one again.                           *)
Register(objects) ==
  /\ stage = "Mutator"
  /\ Len(ppps) + Len(objects) <= MaxPPPs
  /\ \A i \in DOMAIN objects : heap[objects[i]] \in live \cap Parents
  /\ ppps' = ppps \o objects
  /\ plain' = plain \ {heap[objects[i]] : i \in DOMAIN objects}
  /\ UNCHANGED <<coreVars, pinnedKids, localVars, userPins>>

BecomePlain(o) ==
  /\ stage = "Mutator"
  /\ o \in (live \cap Parents) \ plain
  /\ plain' = plain \cup {o}
  /\ UNCHANGED <<coreVars, ppps, pinnedKids, localVars, userPins>>

(* mmtk_pin_object and mmtk_unpin_object.                                  *)
UserPin(a) ==
  /\ stage = "Mutator"
  /\ heap[a] \in live
  /\ a \notin pinned
  /\ Cardinality(userPins) < MaxUserPins
  /\ pinned' = pinned \cup {a}
  /\ userPins' = userPins \cup {a}
  /\ UNCHANGED <<stage, heapVars, schedVars, ppps, pinnedKids, plain, localVars>>

UserUnpin(a) ==
  /\ stage = "Mutator"
  /\ a \in userPins
  /\ pinned' = pinned \ {a}
  /\ userPins' = userPins \ {a}
  /\ UNCHANGED <<stage, heapVars, schedVars, ppps, pinnedKids, plain, localVars>>

-----------------------------------------------------------------------------
(* Before tracing.                                                         *)

(* Mutants: a chunk includes the first PPP of the next one; the last PPP of*)
(* the registry is in no chunk.                                            *)
PinPacketsInclusive ==
  {Packet("PinPPPChildren", b, {ppps[i] : i \in b .. SmallerOf(b + ChunkSize, Len(ppps))}) :
     b \in StepBy(1, Len(ppps) + 1, ChunkSize)}
PinPacketsShort ==
  {Packet("PinPPPChildren", b,
          {ppps[i] : i \in b .. SmallerOf(b + ChunkSize, Len(ppps)) - 1}) :
     b \in StepBy(1, Len(ppps), ChunkSize)}

(* chunks(packet_size): consecutive pieces, the last may be shorter.       *)
PinPackets ==
  {Packet("PinPPPChildren", b,
          {ppps[i] : i \in b .. SmallerOf(b + ChunkSize, Len(ppps) + 1) - 1}) :
     b \in StepBy(1, Len(ppps) + 1, ChunkSize)}

(* stop_all_mutators, after the world has stopped: pin_ppp_children.       *)
StopAllMutators(mayMove) ==
  /\ StartGC(mayMove, IF mayMove THEN PinPackets ELSE {})
  /\ UNCHANGED pppVars

Take(w, p) ==
  /\ TakePacket(w, p)
  /\ UNCHANGED pppVars

(* What the objects at refs report with pin, those aside that are no       *)
(* longer PPPs.                                                            *)
PinnedFields(refs) ==
  AddrsOf(PinKids \cap UNION {edges[heap[a]] : a \in {b \in refs : heap[b] \notin plain}})

(* Visit the packet's PPPs and collect the children reported with pin.     *)
(* Nothing this reads changes while the packet runs.                       *)
VisitPPPs(w) ==
  /\ Runs(w, "PinPPPChildren", "start")
  /\ children' = [children EXCEPT ![w] = PinnedFields(running[w].refs)]
  /\ step' = [step EXCEPT ![w] = "pin"]
  /\ UNCHANGED <<coreVars, ppps, pinnedKids, plain, newly, retainLocals, userPins>>

(* Mutant: the result of pin_object is ignored.                            *)
NewlyPinnedAlways(a) == {a}

(* pin_object returns whether this call set the pinning bit.               *)
NewlyPinned(a) == {a} \ pinned

PinChild(w, a) ==
  /\ Runs(w, "PinPPPChildren", "pin")
  /\ a \in children[w]
  /\ children' = [children EXCEPT ![w] = @ \ {a}]
  /\ pinned' = pinned \cup {a}
  /\ newly' = [newly EXCEPT ![w] = @ \cup NewlyPinned(a)]
  /\ UNCHANGED <<stage, heapVars, schedVars, ppps, pinnedKids, plain, step,
                 retainLocals, userPins>>

AppendPinned(w) ==
  /\ Runs(w, "PinPPPChildren", "pin")
  /\ children[w] = {}
  /\ pinnedKids' = pinnedKids \cup newly[w]
  /\ newly' = [newly EXCEPT ![w] = {}]
  /\ step' = [step EXCEPT ![w] = "start"]
  /\ Finish(w)
  /\ UNCHANGED <<stage, heapVars, pinned, bucket, ppps, plain, children,
                 retainLocals, userPins>>

-----------------------------------------------------------------------------
(* After tracing.                                                          *)

Sentinel == Packet("ProcessWeakRefs", 0, {})
RemovePacket == Packet("RemoveDeadPPPs", 0, {})

(* cleanup_ppps, first half; from here on another worker may already run   *)
(* the packet.                                                             *)
AddRemoveDeadPPPs(w) ==
  /\ Runs(w, "ProcessWeakRefs", "start")
  /\ bucket' = [bucket EXCEPT !["VMRefClosure"] = @ \cup {RemovePacket}]
  /\ step' = [step EXCEPT ![w] = "unpin"]
  /\ UNCHANGED <<stage, heapVars, pinned, running, ppps, pinnedKids, plain,
                 children, newly, retainLocals, userPins>>

(* Mutants of cleanup_ppps: the test is inverted; the children are copied  *)
(* and not taken.                                                          *)
UnpinWorkInverted == IF moving THEN {} ELSE {Packet("UnpinPPPChildren", 0, pinnedKids)}
ChildrenLeftCopied == pinnedKids

UnpinWork == IF moving THEN {Packet("UnpinPPPChildren", 0, pinnedKids)} ELSE {}
ChildrenLeft == IF moving THEN {} ELSE pinnedKids

(* cleanup_ppps, second half: the children move into an unpinning packet.  *)
AddUnpinPPPChildren(w) ==
  /\ Runs(w, "ProcessWeakRefs", "unpin")
  /\ bucket' = [bucket EXCEPT !["VMRefClosure"] = @ \cup UnpinWork]
  /\ pinnedKids' = ChildrenLeft
  /\ step' = [step EXCEPT ![w] = "start"]
  /\ Finish(w)
  /\ UNCHANGED <<stage, heapVars, pinned, ppps, plain, children, newly,
                 retainLocals, userPins>>

(* Mutants of the closure of retain_mut: the entry is kept at its old      *)
(* address; an object that moved counts as dead.                           *)
RetainedUnforwarded(r) ==
  IF IsReachable(r) /\ heap[Forward(r)] \notin plain THEN <<r>> ELSE <<>>
RetainedUnmoved(r) ==
  IF IsReachable(r) /\ Forward(r) = r /\ heap[r] \notin plain THEN <<r>> ELSE <<>>

Retained(r) ==
  IF IsReachable(r) /\ heap[Forward(r)] \notin plain THEN <<Forward(r)>> ELSE <<>>

(* retain_mut: entries that are live and still PPPs are kept, forwarded.   *)
RetainPPP(w) ==
  /\ Runs(w, "RemoveDeadPPPs", "start")
  /\ cursor <= Len(ppps)
  /\ kept' = kept \o Retained(ppps[cursor])
  /\ cursor' = cursor + 1
  /\ UNCHANGED <<coreVars, ppps, pinnedKids, plain, pinLocals, userPins>>

RemoveDeadPPPs(w) ==
  /\ Runs(w, "RemoveDeadPPPs", "start")
  /\ cursor > Len(ppps)
  /\ ppps' = kept
  /\ kept' = <<>>
  /\ cursor' = 1
  /\ Finish(w)
  /\ UNCHANGED <<stage, heapVars, pinned, bucket, pinnedKids, plain, pinLocals, userPins>>

UnpinPPPChildren(w) ==
  /\ Runs(w, "UnpinPPPChildren", "start")
  /\ pinned' = pinned \ running[w].refs
  /\ Finish(w)
  /\ UNCHANGED <<stage, heapVars, bucket, ppps, pinnedKids, plain, localVars, userPins>>

-----------------------------------------------------------------------------
Mutator ==
  \/ \E o \in Obj, a \in Addr : \E S \in SUBSET live : New(o, a, S)
  \/ \E o \in live : Forget(o)
  \/ \E o \in live \cap Writable : \E S \in SUBSET live : SetFields(o, S)
  \/ \E n \in 1 .. 2 : \E objects \in [1 .. n -> AddrsOf(live \cap Parents)] : Register(objects)
  \/ \E o \in Parents : BecomePlain(o)
  \/ \E a \in Addr : UserPin(a) \/ UserUnpin(a)
  \/ \E mayMove \in BOOLEAN : StopAllMutators(mayMove)

Tracing ==
  /\ \E a \in Addr : TraceInPlace(a) \/ \E b \in Addr : TraceAndCopy(a, b)
  /\ UNCHANGED pppVars

NextStage ==
  /\ EndPrepare \/ EndClosure(Sentinel) \/ EndVMRefClosure \/ Reclaim
  /\ UNCHANGED pppVars

WorkerStep(w) ==
  \/ \E s \in GCStage : \E p \in bucket[s] : Take(w, p)
  \/ VisitPPPs(w)
  \/ \E a \in children[w] : PinChild(w, a)
  \/ AppendPinned(w)
  \/ AddRemoveDeadPPPs(w)
  \/ AddUnpinPPPChildren(w)
  \/ RetainPPP(w)
  \/ RemoveDeadPPPs(w)
  \/ UnpinPPPChildren(w)

Collector == Tracing \/ NextStage \/ \E w \in Worker : WorkerStep(w)

Next == Mutator \/ Collector

(* Once the world is stopped, some GC thread that can take a step does.    *)
Spec == PPPInit /\ [][Next]_vars /\ WF_vars(Collector)

-----------------------------------------------------------------------------
UnpinPackets ==
  {p \in bucket["VMRefClosure"] \cup {running[w] : w \in Worker} :
     p # NoPacket /\ p.kind = "UnpinPPPChildren"}

(* The types of the variables.                                             *)
PPPTyped ==
  /\ CoreTypeOK
  /\ ppps \in Seq(Addr)
  /\ pinnedKids \subseteq Addr
  /\ plain \subseteq Obj
  /\ step \in [Worker -> {"start", "pin", "unpin"}]
  /\ children \in [Worker -> SUBSET Addr]
  /\ newly \in [Worker -> SUBSET Addr]
  /\ cursor \in Nat \ {0}
  /\ kept \in Seq(Addr)
  /\ userPins \subseteq Addr

(* chunks(packet_size) bounds what one packet has to do.                   *)
PacketsBounded ==
  \A p \in bucket["Prepare"] \cup {running[w] : w \in Worker} :
    p # NoPacket /\ p.kind = "PinPPPChildren" =>
      IsFiniteSet(p.refs) /\ Cardinality(p.refs) <= ChunkSize

(* Type correctness, with the size of the pinning packets.                 *)
PPPTypeOK == PPPTyped /\ PacketsBounded

(* Whoever pinned an object, exactly one place remembers to unpin it: the  *)
(* program, one worker, pinned_ppp_children, or one unpinning packet.  So  *)
(* two packets whose PPPs share a child do not both record it, and the     *)
(* debug_assert!(unpinned) of UnpinPPPChildren cannot fail.                *)
EveryPinHasOneOwner ==
  LET owners == {userPins, pinnedKids} \cup {newly[w] : w \in Worker}
                  \cup {p.refs : p \in UnpinPackets}
  IN  /\ pinned = UNION owners
      /\ userPins \cap pinnedKids = {}
      /\ \A w \in Worker : newly[w] \cap (userPins \cup pinnedKids) = {}
      /\ \A v, w \in Worker : v # w => newly[v] \cap newly[w] = {}
      /\ \A p \in UnpinPackets :
           /\ p.refs \cap (userPins \cup pinnedKids) = {}
           /\ \A w \in Worker : p.refs \cap newly[w] = {}
           /\ \A q \in UnpinPackets : p # q => p.refs \cap q.refs = {}

(* When mutators resume, only what the program pinned is pinned, and a     *)
(* collection that does not move objects finds no leftover pins (the       *)
(* debug_assert_eq! of cleanup_ppps).                                      *)
NoPinOutlivesGC ==
  /\ stage = "Mutator" => pinned = userPins /\ pinnedKids = {}
  /\ (\E w \in Worker : Runs(w, "ProcessWeakRefs", "unpin")) /\ ~moving
       => pinnedKids = {}

(* Tracing never moves what a registered PPP refers to with pin = true.    *)
PinnedChildrenStay ==
  stage # "Mutator" =>
    \A i \in DOMAIN ppps :
      heap[ppps[i]] \in Obj \ plain =>
        \A a \in AddrsOf(edges[heap[ppps[i]]] \cap PinKids) : Forward(a) = a

(* Whenever the program runs, every entry of the registry is an object,    *)
(* and one that is on the heap.                                            *)
NoDanglingPPP ==
  stage = "Mutator" => \A i \in DOMAIN ppps : heap[ppps[i]] # Free

(* A pin made for a collection is undone, under fair GC threads.           *)
PinsAreReleased == (pinned # userPins) ~> (pinned = userPins)

(* The registry is a weak registry of the objects that are live and still  *)
(* PPPs.                                                                   *)
Registry == INSTANCE WeakRegistry WITH
  onHeap <- OnHeap,
  needed <- live \ plain,
  members <- {heap[ppps[i]] : i \in DOMAIN ppps}
ImplementsRegistry == Registry!Spec
=============================================================================
