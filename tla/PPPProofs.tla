------------------------------ MODULE PPPProofs ------------------------------
(***************************************************************************)
(* Proofs about PPP, for every heap, registry, chunk size and set of       *)
(* workers.                                                                *)
(*                                                                         *)
(* PinInv is the inductive invariant behind the pin accounting: which      *)
(* packet may exist in which stage (PacketsFit), what a worker holds       *)
(* between two steps of its packet (StepsFit), that the packets of         *)
(* VMRefClosure are never duplicated (AtMostOne), and when                 *)
(* pinned_ppp_children must be empty (KidsFit).                            *)
(*                                                                         *)
(* RegistryInv adds what forwarding means (HeapFits), which entries are    *)
(* known to survive at which point of a collection (RegistryFits), and     *)
(* that every child that must stay is pinned or about to be (KidsCovered); *)
(* LiveInv adds which entries are still needed, for the refinement of      *)
(* WeakRegistry.                                                           *)
(***************************************************************************)
EXTENDS PPP, ChunksProofs, FiniteSetTheorems, TLAPS

SchedTypeOK ==
  /\ bucket \in [GCStage -> SUBSET PacketSet]
  /\ running \in [Worker -> PacketSet \cup {NoPacket}]

Carries(w, kind) == running[w] # NoPacket /\ running[w].kind = kind
Waits(kind) == \E p \in bucket["VMRefClosure"] : p.kind = kind
Somewhere(kind) == Waits(kind) \/ \E w \in Worker : Carries(w, kind)

PacketsFit ==
  /\ \A s \in GCStage : bucket[s] # {} => stage = s /\ s \in {"Prepare", "VMRefClosure"}
  /\ \A p \in bucket["Prepare"] : p.kind = "PinPPPChildren" /\ moving
  /\ \A p \in bucket["VMRefClosure"] : p.kind # "PinPPPChildren"
  /\ \A w \in Worker : running[w] # NoPacket =>
       IF running[w].kind = "PinPPPChildren" THEN stage = "Prepare" /\ moving
                                             ELSE stage = "VMRefClosure"

StepsFit ==
  \A w \in Worker :
    /\ step[w] = "pin" => Carries(w, "PinPPPChildren")
    /\ step[w] = "unpin" => Carries(w, "ProcessWeakRefs")
    /\ step[w] # "pin" => children[w] = {} /\ newly[w] = {}

AtMostOne(kind) ==
  /\ \A p, q \in bucket["VMRefClosure"] : p.kind = kind /\ q.kind = kind => p = q
  /\ Waits(kind) => \A w \in Worker : ~Carries(w, kind)
  /\ \A v, w \in Worker : Carries(v, kind) /\ Carries(w, kind) => v = w

KidsFit ==
  /\ stage \in {"Release", "Mutator"} => pinnedKids = {}
  /\ ~moving => pinnedKids = {}
  /\ stage = "VMRefClosure" /\ ~Somewhere("ProcessWeakRefs") => pinnedKids = {}
  /\ Somewhere("ProcessWeakRefs") => ~Somewhere("UnpinPPPChildren")

PinInv ==
  /\ PPPTyped /\ SchedTypeOK
  /\ PacketsFit /\ StepsFit
  /\ AtMostOne("ProcessWeakRefs") /\ AtMostOne("UnpinPPPChildren")
  /\ KidsFit
  /\ EveryPinHasOneOwner

-----------------------------------------------------------------------------
(* The pin accounting.                                                     *)

LEMMA InitPinInv == PPPInit => PinInv
<1> SUFFICES ASSUME PPPInit PROVE PinInv
  OBVIOUS
<1> USE DEF PPPInit, CoreInit
<1>1. PPPTyped
  <2>1. CoreTypeOK  BY DEF CoreTypeOK, Stage
  <2>2. <<>> \in Seq(Addr)  OBVIOUS
  <2> QED BY <2>1, <2>2 DEF PPPTyped
<1>2. SchedTypeOK
  BY DEF SchedTypeOK
<1>3. PacketsFit /\ StepsFit /\ KidsFit
  BY DEF PacketsFit, StepsFit, KidsFit, Somewhere, Waits, Carries, GCStage
<1>4. AtMostOne("ProcessWeakRefs") /\ AtMostOne("UnpinPPPChildren")
  BY DEF AtMostOne, Waits, Carries, GCStage
<1>5. EveryPinHasOneOwner
  <2>1. UnpinPackets = {}  BY DEF UnpinPackets, GCStage
  <2>2. {p.refs : p \in UnpinPackets} = {}  BY <2>1
  <2>3. \A w \in Worker : newly[w] = {}  OBVIOUS
  <2> QED BY <2>1, <2>2, <2>3 DEF EveryPinHasOneOwner
<1> QED BY <1>1, <1>2, <1>3, <1>4, <1>5 DEF PinInv

(* Steps that touch neither pins, packets nor workers.                     *)
LEMMA FramePinInv ==
  ASSUME PinInv, PPPTyped',
         UNCHANGED <<stage, moving, pinned, schedVars, pinnedKids, pinLocals, userPins>>
  PROVE  PinInv'
<1> USE DEF PinInv, schedVars, pinLocals
<1>1. SchedTypeOK' /\ PacketsFit' /\ StepsFit' /\ KidsFit'
  BY DEF SchedTypeOK, PacketsFit, StepsFit, KidsFit, Somewhere, Waits, Carries
<1>2. AtMostOne("ProcessWeakRefs")' /\ AtMostOne("UnpinPPPChildren")'
  BY DEF AtMostOne, Waits, Carries
<1>3. EveryPinHasOneOwner'
  BY DEF EveryPinHasOneOwner, UnpinPackets
<1> QED BY <1>1, <1>2, <1>3

LEMMA MutatorFramePinInv ==
  ASSUME PinInv,
         \/ \E o \in Obj, a \in Addr : \E S \in SUBSET live : New(o, a, S)
         \/ \E o \in live : Forget(o)
         \/ \E n \in 1 .. 2 : \E objects \in [1 .. n -> AddrsOf(live \cap Parents)] :
              Register(objects)
         \/ \E o \in live \cap Writable : \E S \in SUBSET live : SetFields(o, S)
         \/ \E o \in Parents : BecomePlain(o)
  PROVE  PinInv'
<1> USE DEF PinInv, PPPTyped, CoreTypeOK, coreVars, heapVars, schedVars, pppVars,
            localVars, pinLocals, retainLocals
<1>1. ASSUME NEW o \in Obj, NEW a \in Addr, NEW S \in SUBSET live, New(o, a, S)
      PROVE  PinInv'
  <2>1. PPPTyped'  BY <1>1 DEF New, Alloc
  <2> QED BY <1>1, <2>1, FramePinInv DEF New, Alloc
<1>2. ASSUME NEW o \in live, Forget(o)
      PROVE  PinInv'
  <2>1. PPPTyped'  BY <1>2 DEF Forget, Drop
  <2> QED BY <1>2, <2>1, FramePinInv DEF Forget, Drop
<1>3. ASSUME NEW n \in 1 .. 2, NEW objects \in [1 .. n -> AddrsOf(live \cap Parents)],
             Register(objects)
      PROVE  PinInv'
  <2>1. objects \in Seq(Addr)  BY DEF AddrsOf
  <2>2. PPPTyped'  BY <1>3, <2>1 DEF Register
  <2> QED BY <1>3, <2>2, FramePinInv DEF Register
<1>4. ASSUME NEW o \in Parents, BecomePlain(o)
      PROVE  PinInv'
  <2>1. PPPTyped'  BY <1>4 DEF BecomePlain
  <2> QED BY <1>4, <2>1, FramePinInv DEF BecomePlain
<1>5. ASSUME NEW o \in live, NEW S \in SUBSET live, SetFields(o, S)
      PROVE  PinInv'
  <2>1. PPPTyped'  BY <1>5 DEF SetFields, Write
  <2> QED BY <1>5, <2>1, FramePinInv DEF SetFields, Write
<1> QED BY <1>1, <1>2, <1>3, <1>4, <1>5

LEMMA TracingPinInv ==
  ASSUME PinInv, Tracing
  PROVE  PinInv'
<1> USE DEF PinInv, PPPTyped, CoreTypeOK, schedVars, pppVars, localVars, pinLocals,
            retainLocals
<1>1. ASSUME NEW a \in Addr, TraceInPlace(a)
      PROVE  PinInv'
  <2>1. PPPTyped'  BY <1>1 DEF TraceInPlace, Tracing
  <2> QED BY <1>1, <2>1, FramePinInv DEF TraceInPlace, Tracing
<1>2. ASSUME NEW a \in Addr, NEW b \in Addr, TraceAndCopy(a, b)
      PROVE  PinInv'
  <2>1. PPPTyped'  BY <1>2 DEF TraceAndCopy, Tracing
  <2> QED BY <1>2, <2>1, FramePinInv DEF TraceAndCopy, Tracing
<1> QED BY <1>1, <1>2 DEF Tracing

LEMMA UserPinInv ==
  ASSUME PinInv, NEW a \in Addr, UserPin(a) \/ UserUnpin(a)
  PROVE  PinInv'
<1> USE DEF UserPin, UserUnpin, PinInv, heapVars, schedVars, localVars, pinLocals
<1>1. PPPTyped'  BY DEF PPPTyped, CoreTypeOK, retainLocals
<1>2. SchedTypeOK' /\ PacketsFit' /\ StepsFit' /\ KidsFit'
  BY DEF SchedTypeOK, PacketsFit, StepsFit, KidsFit, Somewhere, Waits, Carries
<1>3. AtMostOne("ProcessWeakRefs")' /\ AtMostOne("UnpinPPPChildren")'
  BY DEF AtMostOne, Waits, Carries
<1>4. EveryPinHasOneOwner'
  <2>1. UnpinPackets' = UnpinPackets  BY DEF UnpinPackets
  <2> QED BY <2>1 DEF EveryPinHasOneOwner, PPPTyped
<1> QED BY <1>1, <1>2, <1>3, <1>4

(* A packet of pin_ppp_children covers a chunk of the registry.            *)
LEMMA PinPacketsType ==
  ASSUME PPPTyped
  PROVE  /\ PinPackets \subseteq PacketSet
         /\ \A p \in PinPackets : p.kind = "PinPPPChildren"
<1> SUFFICES ASSUME NEW p \in PinPackets
             PROVE  p \in PacketSet /\ p.kind = "PinPPPChildren"
  OBVIOUS
<1> DEFINE refs(b) == {ppps[i] : i \in b .. SmallerOf(b + ChunkSize, Len(ppps) + 1) - 1}
<1>1. PICK b \in StepBy(1, Len(ppps) + 1, ChunkSize) :
        p = Packet("PinPPPChildren", b, refs(b))
  BY DEF PinPackets
<1>2. ppps \in Seq(Addr) /\ Len(ppps) \in Nat  BY DEF PPPTyped
<1>3. b \in Nat \ {0}  BY <1>2 DEF StepBy
<1>4. ASSUME NEW i \in b .. SmallerOf(b + ChunkSize, Len(ppps) + 1) - 1
      PROVE  ppps[i] \in Addr
  <2>1. i \in 1 .. Len(ppps)  BY <1>2, <1>3, PPPAssumption DEF SmallerOf
  <2> QED BY <1>2, <2>1
<1>5. refs(b) \in SUBSET Addr  BY <1>4
<1> HIDE DEF refs
<1> QED BY <1>1, <1>3, <1>5 DEF Packet, PacketSet

LEMMA StopAllMutatorsPinInv ==
  ASSUME PinInv, NEW mayMove \in BOOLEAN, StopAllMutators(mayMove)
  PROVE  PinInv'
<1> USE DEF StopAllMutators, StartGC, PinInv, pppVars, localVars, pinLocals, retainLocals
<1>1. /\ stage = "Mutator" /\ stage' = "Prepare" /\ pinnedKids = {}
      /\ \A s \in GCStage : bucket[s] = {}
      /\ \A w \in Worker : running[w] = NoPacket
  BY DEF PacketsFit, KidsFit, GCStage
<1>2. bucket' \in [GCStage -> SUBSET PacketSet]
      /\ bucket'["VMRefClosure"] = {} /\ bucket'["Closure"] = {} /\ bucket'["Release"] = {}
      /\ \A p \in bucket'["Prepare"] : p.kind = "PinPPPChildren" /\ mayMove
  BY <1>1, PinPacketsType DEF SchedTypeOK, GCStage
<1>3. PPPTyped'  BY DEF PPPTyped, CoreTypeOK, Stage, GCStage
<1>4. SchedTypeOK'  BY <1>2 DEF SchedTypeOK
<1>5. PacketsFit'  BY <1>1, <1>2 DEF PacketsFit, GCStage
<1>6. StepsFit'  BY <1>1 DEF StepsFit, Carries
<1>7. KidsFit'  BY <1>1, <1>2 DEF KidsFit, Somewhere, Waits, Carries
<1>8. AtMostOne("ProcessWeakRefs")' /\ AtMostOne("UnpinPPPChildren")'
  BY <1>1, <1>2 DEF AtMostOne, Waits, Carries
<1>9. EveryPinHasOneOwner'
  <2>1. UnpinPackets = {}  BY <1>1 DEF UnpinPackets, GCStage
  <2>2. UnpinPackets' = {}  BY <1>1, <1>2 DEF UnpinPackets
  <2> QED BY <2>1, <2>2 DEF EveryPinHasOneOwner
<1> QED BY <1>3, <1>4, <1>5, <1>6, <1>7, <1>8, <1>9

LEMMA NextStagePinInv ==
  ASSUME PinInv, NextStage
  PROVE  PinInv'
<1> USE DEF PinInv, Advance, heapVars, schedVars, pppVars, localVars, pinLocals,
            retainLocals
<1>1. CASE EndPrepare
  <2> USE <1>1 DEF EndPrepare, NextStage
  <2>1. PPPTyped' /\ SchedTypeOK'
    BY DEF PPPTyped, CoreTypeOK, SchedTypeOK, Stage, GCStage
  <2>2. PacketsFit' /\ StepsFit' /\ KidsFit'
    BY DEF PacketsFit, StepsFit, KidsFit, Somewhere, Waits, Carries, GCStage
  <2>3. AtMostOne("ProcessWeakRefs")' /\ AtMostOne("UnpinPPPChildren")'
    BY DEF AtMostOne, Waits, Carries
  <2>4. EveryPinHasOneOwner'  BY DEF EveryPinHasOneOwner, UnpinPackets
  <2> QED BY <2>1, <2>2, <2>3, <2>4
<1>2. CASE EndClosure(Sentinel)
  <2> USE <1>2 DEF EndClosure, NextStage
  <2>1. /\ bucket["VMRefClosure"] = {} /\ bucket'["VMRefClosure"] = {Sentinel}
        /\ Sentinel \in PacketSet /\ Sentinel.kind = "ProcessWeakRefs"
        /\ \A w \in Worker : running[w] = NoPacket
    BY DEF PacketsFit, SchedTypeOK, Sentinel, Packet, PacketSet, GCStage
  <2>2. PPPTyped' /\ SchedTypeOK'
    BY <2>1 DEF PPPTyped, CoreTypeOK, SchedTypeOK, Stage, GCStage
  <2>3. PacketsFit'
    BY <2>1 DEF PacketsFit, GCStage, SchedTypeOK
  <2>4. StepsFit' /\ KidsFit'
    BY <2>1 DEF StepsFit, KidsFit, Somewhere, Waits, Carries
  <2>5. AtMostOne("ProcessWeakRefs")' /\ AtMostOne("UnpinPPPChildren")'
    BY <2>1 DEF AtMostOne, Waits, Carries
  <2>6. UnpinPackets = {} /\ UnpinPackets' = {}
    BY <2>1 DEF UnpinPackets
  <2>7. EveryPinHasOneOwner'  BY <2>6 DEF EveryPinHasOneOwner
  <2> QED BY <2>2, <2>3, <2>4, <2>5, <2>7
<1>3. CASE EndVMRefClosure
  <2> USE <1>3 DEF EndVMRefClosure, NextStage
  <2>1. PPPTyped' /\ SchedTypeOK'
    BY DEF PPPTyped, CoreTypeOK, SchedTypeOK, Stage, GCStage
  <2>2. PacketsFit' /\ StepsFit' /\ KidsFit'
    BY DEF PacketsFit, StepsFit, KidsFit, Somewhere, Waits, Carries, GCStage
  <2>3. AtMostOne("ProcessWeakRefs")' /\ AtMostOne("UnpinPPPChildren")'
    BY DEF AtMostOne, Waits, Carries
  <2>4. EveryPinHasOneOwner'  BY DEF EveryPinHasOneOwner, UnpinPackets
  <2> QED BY <2>1, <2>2, <2>3, <2>4
<1>4. CASE Reclaim
  <2> USE <1>4 DEF Reclaim, NextStage
  <2>1. PPPTyped' /\ SchedTypeOK'
    BY DEF PPPTyped, CoreTypeOK, SchedTypeOK, Stage, GCStage
  <2>2. PacketsFit' /\ StepsFit' /\ KidsFit'
    BY DEF PacketsFit, StepsFit, KidsFit, Somewhere, Waits, Carries, GCStage
  <2>3. AtMostOne("ProcessWeakRefs")' /\ AtMostOne("UnpinPPPChildren")'
    BY DEF AtMostOne, Waits, Carries
  <2>4. EveryPinHasOneOwner'  BY DEF EveryPinHasOneOwner, UnpinPackets
  <2> QED BY <2>1, <2>2, <2>3, <2>4
<1> QED BY <1>1, <1>2, <1>3, <1>4 DEF NextStage

(* A packet that is taken stays where it counts.                           *)
LEMMA TakeMovesPacket ==
  ASSUME PinInv, NEW w \in Worker, NEW s \in GCStage, NEW p \in bucket[s], Take(w, p),
         NEW kind, kind # "PinPPPChildren", AtMostOne(kind)
  PROVE  AtMostOne(kind)' /\ (Somewhere(kind)' <=> Somewhere(kind))
<1> USE DEF Take, TakePacket, PinInv
<1>1. stage = s /\ s \in {"Prepare", "VMRefClosure"} /\ running[w] = NoPacket
  BY DEF PacketsFit
<1>2. p \in PacketSet /\ p # NoPacket
  BY PPPAssumption DEF SchedTypeOK
<1>3. bucket' = [bucket EXCEPT ![s] = @ \ {p}] /\ running' = [running EXCEPT ![w] = p]
  BY <1>1
<1> DEFINE B == bucket["VMRefClosure"]
<1>4. \A v \in Worker : running'[v] = IF v = w THEN p ELSE running[v]
  BY <1>3 DEF SchedTypeOK
<1>5. CASE s = "VMRefClosure"
  <2>1. p \in B /\ B' = B \ {p}
    BY <1>3, <1>5 DEF SchedTypeOK, GCStage
  <2>2. Somewhere(kind)' <=> Somewhere(kind)
    BY <1>1, <1>2, <1>4, <2>1 DEF Somewhere, Waits, Carries
  <2>3. AtMostOne(kind)'
    BY <1>1, <1>2, <1>4, <2>1 DEF AtMostOne, Waits, Carries
  <2> QED BY <2>2, <2>3
<1>6. CASE s = "Prepare"
  <2>1. bucket["VMRefClosure"] = {} /\ bucket'["VMRefClosure"] = {}
    BY <1>1, <1>3, <1>6 DEF PacketsFit, SchedTypeOK, GCStage
  <2>2. p.kind = "PinPPPChildren"  BY <1>6 DEF PacketsFit
  <2>3. \A v \in Worker : running[v] # NoPacket => running[v].kind = "PinPPPChildren"
    BY <1>1, <1>6 DEF PacketsFit
  <2>4. \A v \in Worker : ~Carries(v, kind) /\ ~Carries(v, kind)'
    BY <1>4, <2>2, <2>3 DEF Carries
  <2> QED BY <2>1, <2>4 DEF AtMostOne, Somewhere, Waits
<1> QED BY <1>1, <1>5, <1>6

LEMMA TakePinInv ==
  ASSUME PinInv, NEW w \in Worker, NEW s \in GCStage, NEW p \in bucket[s], Take(w, p)
  PROVE  PinInv'
<1> USE DEF Take, TakePacket, PinInv, heapVars, pppVars, localVars, pinLocals, retainLocals
<1>1. stage = s /\ s \in {"Prepare", "VMRefClosure"} /\ running[w] = NoPacket
  BY DEF PacketsFit
<1>2. p \in PacketSet /\ p # NoPacket
  BY PPPAssumption DEF SchedTypeOK
<1>3. PPPTyped'  BY DEF PPPTyped, CoreTypeOK
<1>4. SchedTypeOK'  BY <1>1, <1>2 DEF SchedTypeOK
<1>5. bucket' = [bucket EXCEPT ![s] = @ \ {p}] /\ running' = [running EXCEPT ![w] = p]
  BY <1>1
<1>6. PacketsFit'  BY <1>1, <1>2, <1>5 DEF PacketsFit, SchedTypeOK, GCStage
<1>7. StepsFit'  BY <1>1, <1>5 DEF StepsFit, Carries, SchedTypeOK
<1>8. ASSUME NEW kind, kind # "PinPPPChildren", AtMostOne(kind)
      PROVE  AtMostOne(kind)' /\ (Somewhere(kind)' <=> Somewhere(kind))
  BY <1>8, TakeMovesPacket
<1>9. AtMostOne("ProcessWeakRefs")' /\ AtMostOne("UnpinPPPChildren")'
  BY <1>8
<1>10. KidsFit'  BY <1>8 DEF KidsFit
<1>11. UnpinPackets' = UnpinPackets
  <2>1. CASE s = "VMRefClosure"
    BY <1>1, <1>2, <1>5, <2>1 DEF UnpinPackets, SchedTypeOK, GCStage
  <2>2. CASE s = "Prepare"
    BY <1>1, <1>2, <1>5, <2>2 DEF UnpinPackets, PacketsFit, SchedTypeOK, GCStage
  <2> QED BY <1>1, <2>1, <2>2
<1>12. EveryPinHasOneOwner'
  BY <1>11 DEF EveryPinHasOneOwner
<1> QED BY <1>3, <1>4, <1>6, <1>7, <1>9, <1>10, <1>12

(* PinPPPChildren: the packets that carry no other kind stay as they were. *)
LEMMA VisitPinInv ==
  ASSUME PinInv, NEW w \in Worker, VisitPPPs(w)
  PROVE  PinInv'
<1> USE DEF VisitPPPs, Runs, PinInv, coreVars, heapVars, schedVars, retainLocals
<1>1. PPPTyped'  BY DEF PPPTyped, CoreTypeOK, PinnedFields, AddrsOf
<1>2. SchedTypeOK' /\ PacketsFit' /\ KidsFit'
  BY DEF SchedTypeOK, PacketsFit, KidsFit, Somewhere, Waits, Carries
<1>3. StepsFit'  BY DEF StepsFit, Carries, PPPTyped
<1>4. AtMostOne("ProcessWeakRefs")' /\ AtMostOne("UnpinPPPChildren")'
  BY DEF AtMostOne, Waits, Carries
<1>5. EveryPinHasOneOwner'
  <2>1. UnpinPackets' = UnpinPackets  BY DEF UnpinPackets
  <2> QED BY <2>1 DEF EveryPinHasOneOwner
<1> QED BY <1>1, <1>2, <1>3, <1>4, <1>5



LEMMA PinChildPinInv ==
  ASSUME PinInv, NEW w \in Worker, NEW a \in children[w], PinChild(w, a)
  PROVE  PinInv'
<1> USE DEF PinChild, NewlyPinned, Runs, PinInv, heapVars, schedVars, retainLocals
<1>1. a \in Addr  BY DEF PPPTyped
<1>2. PPPTyped'  BY <1>1 DEF PPPTyped, CoreTypeOK
<1>3. SchedTypeOK' /\ PacketsFit' /\ KidsFit'
  BY DEF SchedTypeOK, PacketsFit, KidsFit, Somewhere, Waits, Carries
<1>4. StepsFit'  BY DEF StepsFit, Carries, PPPTyped
<1>5. AtMostOne("ProcessWeakRefs")' /\ AtMostOne("UnpinPPPChildren")'
  BY DEF AtMostOne, Waits, Carries
<1>6. EveryPinHasOneOwner'
  <2>1. UnpinPackets' = UnpinPackets  BY DEF UnpinPackets
  <2>2. CASE a \in pinned
    <3>1. pinned' = pinned /\ newly' = newly  BY <2>2 DEF PPPTyped
    <3> QED BY <2>1, <3>1 DEF EveryPinHasOneOwner
  <2>3. CASE a \notin pinned
    <3>1. \A v \in Worker : newly'[v] = IF v = w THEN newly[v] \cup {a} ELSE newly[v]
      BY <2>3 DEF PPPTyped
    <3>2. /\ a \notin userPins \cup pinnedKids
          /\ \A v \in Worker : a \notin newly[v]
          /\ \A p \in UnpinPackets : a \notin p.refs
      BY <2>3 DEF EveryPinHasOneOwner
    <3>3. pinned' = UNION ({userPins, pinnedKids} \cup {newly'[v] : v \in Worker}
                             \cup {p.refs : p \in UnpinPackets})
      <4>1. pinned = UNION ({userPins, pinnedKids} \cup {newly[v] : v \in Worker}
                              \cup {p.refs : p \in UnpinPackets})
        BY DEF EveryPinHasOneOwner
      <4>2. pinned' = pinned \cup {a}  OBVIOUS
      <4> HIDE DEF PinChild, PinInv
      <4>3. \A x : x \in pinned <=> \/ x \in userPins \/ x \in pinnedKids
                                    \/ \E v \in Worker : x \in newly[v]
                                    \/ \E p \in UnpinPackets : x \in p.refs
        BY <4>1
      <4>4. \A x : (\E v \in Worker : x \in newly'[v])
                     <=> (x = a \/ \E v \in Worker : x \in newly[v])
        BY <3>1
      <4>5. \A x : x \in pinned' <=> \/ x \in userPins \/ x \in pinnedKids
                                     \/ \E v \in Worker : x \in newly'[v]
                                     \/ \E p \in UnpinPackets : x \in p.refs
        BY <4>2, <4>3, <4>4
      <4> DEFINE now == UNION ({userPins, pinnedKids} \cup {newly'[v] : v \in Worker}
                                 \cup {p.refs : p \in UnpinPackets})
      <4>6. \A x : x \in now <=> \/ x \in userPins \/ x \in pinnedKids
                                 \/ \E v \in Worker : x \in newly'[v]
                                 \/ \E p \in UnpinPackets : x \in p.refs
        OBVIOUS
      <4> HIDE DEF now
      <4>7. \A x : x \in pinned' <=> x \in now  BY <4>5, <4>6
      <4>8. pinned' = now  BY <4>7
      <4> QED BY <4>8 DEF now
    <3> QED BY <2>1, <3>1, <3>2, <3>3 DEF EveryPinHasOneOwner
  <2> QED BY <2>2, <2>3
<1> QED BY <1>2, <1>3, <1>4, <1>5, <1>6

LEMMA AppendPinInv ==
  ASSUME PinInv, NEW w \in Worker, AppendPinned(w)
  PROVE  PinInv'
<1> USE DEF AppendPinned, Finish, Runs, PinInv, heapVars, schedVars, retainLocals
<1>1. /\ running[w].kind = "PinPPPChildren" /\ stage = "Prepare" /\ moving
      /\ \A v \in Worker : running'[v] = IF v = w THEN NoPacket ELSE running[v]
  BY DEF PacketsFit, SchedTypeOK
<1>2. PPPTyped'  BY DEF PPPTyped, CoreTypeOK
<1>3. SchedTypeOK' /\ PacketsFit'
  BY <1>1 DEF SchedTypeOK, PacketsFit
<1>4. StepsFit'  BY <1>1 DEF StepsFit, Carries, PPPTyped
<1>5. \A kind : kind # "PinPPPChildren" =>
        \A v \in Worker : Carries(v, kind)' <=> Carries(v, kind)
  BY <1>1 DEF Carries
<1>6. AtMostOne("ProcessWeakRefs")' /\ AtMostOne("UnpinPPPChildren")'
  BY <1>5 DEF AtMostOne, Waits
<1>7. KidsFit'
  BY <1>1, <1>5 DEF KidsFit, Somewhere, Waits
<1>8. EveryPinHasOneOwner'
  <2>1. UnpinPackets' = UnpinPackets  BY <1>1 DEF UnpinPackets
  <2>2. \A v \in Worker : newly'[v] = IF v = w THEN {} ELSE newly[v]
    BY DEF PPPTyped
  <2>3. pinned' = UNION ({userPins, pinnedKids'} \cup {newly'[v] : v \in Worker}
                           \cup {p.refs : p \in UnpinPackets})
    <3>1. pinned = UNION ({userPins, pinnedKids} \cup {newly[v] : v \in Worker}
                            \cup {p.refs : p \in UnpinPackets})
      BY DEF EveryPinHasOneOwner
    <3> QED BY <3>1, <2>2
  <2> QED BY <2>1, <2>2, <2>3 DEF EveryPinHasOneOwner
<1> QED BY <1>2, <1>3, <1>4, <1>6, <1>7, <1>8

(* The packets of VMRefClosure.                                            *)
LEMMA AddRemovePinInv ==
  ASSUME PinInv, NEW w \in Worker, AddRemoveDeadPPPs(w)
  PROVE  PinInv'
<1> USE DEF AddRemoveDeadPPPs, Runs, PinInv, heapVars, retainLocals
<1>1. /\ stage = "VMRefClosure" /\ step[w] = "start"
      /\ RemovePacket \in PacketSet /\ RemovePacket.kind = "RemoveDeadPPPs"
      /\ \A s \in GCStage : bucket'[s] =
           IF s = "VMRefClosure" THEN bucket[s] \cup {RemovePacket} ELSE bucket[s]
  BY DEF PacketsFit, RemovePacket, Packet, PacketSet, SchedTypeOK
<1>2. PPPTyped'  BY DEF PPPTyped, CoreTypeOK
<1>3. SchedTypeOK' /\ PacketsFit'
  BY <1>1 DEF SchedTypeOK, PacketsFit, GCStage
<1>4. StepsFit'  BY <1>1 DEF StepsFit, Carries, PPPTyped
<1>5. ASSUME NEW kind, kind # "RemoveDeadPPPs"
      PROVE  Waits(kind)' <=> Waits(kind)
  BY <1>1, <1>5 DEF Waits, GCStage
<1>6. AtMostOne("ProcessWeakRefs")' /\ AtMostOne("UnpinPPPChildren")'
  BY <1>1, <1>5 DEF AtMostOne, Carries, GCStage
<1>7. KidsFit'  BY <1>1, <1>5 DEF KidsFit, Somewhere, Carries
<1>8. EveryPinHasOneOwner'
  <2>1. UnpinPackets' = UnpinPackets  BY <1>1 DEF UnpinPackets, GCStage
  <2> QED BY <2>1 DEF EveryPinHasOneOwner
<1> QED BY <1>2, <1>3, <1>4, <1>6, <1>7, <1>8

LEMMA AddUnpinPinInv ==
  ASSUME PinInv, NEW w \in Worker, AddUnpinPPPChildren(w)
  PROVE  PinInv'
<1> USE DEF AddUnpinPPPChildren, UnpinWork, ChildrenLeft, Finish, Runs, PinInv, heapVars, retainLocals
<1> DEFINE u == Packet("UnpinPPPChildren", 0, pinnedKids)
<1>1. /\ stage = "VMRefClosure" /\ Carries(w, "ProcessWeakRefs")
      /\ u \in PacketSet /\ u.kind = "UnpinPPPChildren" /\ u.refs = pinnedKids
      /\ u # NoPacket
  BY PPPAssumption DEF PacketsFit, Packet, PacketSet, PPPTyped, Carries
<1>2. \A s \in GCStage : bucket'[s] =
        IF s = "VMRefClosure" /\ moving THEN bucket[s] \cup {u} ELSE bucket[s]
  BY DEF SchedTypeOK, GCStage
<1>3. \A v \in Worker : running'[v] = IF v = w THEN NoPacket ELSE running[v]
  BY DEF SchedTypeOK
<1>4. pinnedKids' = {}
  BY DEF KidsFit
<1>5. PPPTyped'  BY <1>4 DEF PPPTyped, CoreTypeOK
<1>6. SchedTypeOK'
  BY <1>1 DEF SchedTypeOK, GCStage
<1>7. PacketsFit'
  <2>1. "Prepare" \in GCStage /\ "VMRefClosure" \in GCStage  BY DEF GCStage
  <2>2. "Prepare" # "VMRefClosure" /\ bucket'["Prepare"] = bucket["Prepare"]
    BY <1>2, <2>1
  <2>3. \A p \in bucket'["VMRefClosure"] : p \in bucket["VMRefClosure"] \/ p = u
    BY <1>2, <2>1
  <2>4. stage' = stage /\ moving' = moving  OBVIOUS
  <2> HIDE DEF u, AddUnpinPPPChildren
  <2>5. \A s \in GCStage : bucket'[s] # {} => stage = s /\ s \in {"Prepare", "VMRefClosure"}
    BY <1>1, <1>2 DEF PacketsFit
  <2>6. \A p \in bucket'["VMRefClosure"] : p.kind # "PinPPPChildren"
    BY <1>1, <2>3 DEF PacketsFit
  <2> QED BY <1>3, <2>2, <2>4, <2>5, <2>6 DEF PacketsFit
<1>8. StepsFit'
  BY <1>1, <1>3 DEF StepsFit, Carries, PPPTyped
<1>9. ~Somewhere("UnpinPPPChildren")
  BY <1>1 DEF KidsFit, Somewhere
<1>10. ~Somewhere("ProcessWeakRefs")'
  <2>1. \A v \in Worker : ~Carries(v, "ProcessWeakRefs")'
    BY <1>1, <1>3 DEF AtMostOne, Carries
  <2>2. ~Waits("ProcessWeakRefs")
    BY <1>1 DEF AtMostOne
  <2>3. ~Waits("ProcessWeakRefs")'
    BY <1>1, <1>2, <2>2 DEF Waits, GCStage
  <2> QED BY <2>1, <2>3 DEF Somewhere
<1>11. AtMostOne("ProcessWeakRefs")'
  BY <1>10 DEF AtMostOne, Somewhere, Waits
<1>12. AtMostOne("UnpinPPPChildren")'
  <2>1. \A v \in Worker : ~Carries(v, "UnpinPPPChildren")'
    BY <1>3, <1>9 DEF Somewhere, Carries
  <2>2. \A p, q \in bucket'["VMRefClosure"] :
          p.kind = "UnpinPPPChildren" /\ q.kind = "UnpinPPPChildren" => p = q
    BY <1>2, <1>9 DEF Somewhere, Waits, GCStage
  <2> QED BY <2>1, <2>2 DEF AtMostOne
<1>13. KidsFit'
  BY <1>4, <1>10 DEF KidsFit
<1>14. EveryPinHasOneOwner'
  <2>1. UnpinPackets = {}
    BY <1>9 DEF UnpinPackets, Somewhere, Waits, Carries
  <2>2. CASE moving
    <3>1. UnpinPackets' = {u}
      BY <1>1, <1>2, <1>3, <1>9, <2>2 DEF UnpinPackets, Somewhere, Waits, Carries, GCStage
    <3>2. pinned = UNION ({userPins, pinnedKids} \cup {newly[v] : v \in Worker})
      BY <2>1 DEF EveryPinHasOneOwner
    <3>3. {p.refs : p \in UnpinPackets'} = {pinnedKids}
      BY <1>1, <3>1
    <3>4. pinned' = UNION ({userPins, {}} \cup {newly[v] : v \in Worker} \cup {pinnedKids})
      BY <3>2
    <3>5. userPins' = userPins /\ newly' = newly  OBVIOUS
    <3>6. /\ userPins \cap pinnedKids = {}
          /\ \A v \in Worker : newly[v] \cap (userPins \cup pinnedKids) = {}
          /\ \A v, x \in Worker : v # x => newly[v] \cap newly[x] = {}
      BY DEF EveryPinHasOneOwner
    <3> HIDE DEF AddUnpinPPPChildren, PinInv, u
    <3>7. \A p \in UnpinPackets' : p = u  BY <3>1
    <3> QED BY <1>1, <1>4, <3>3, <3>4, <3>5, <3>6, <3>7 DEF EveryPinHasOneOwner
  <2>3. CASE ~moving
    <3>1. UnpinPackets' = {}
      BY <1>2, <1>3, <1>9, <2>3 DEF UnpinPackets, Somewhere, Waits, Carries, GCStage
    <3>2. pinnedKids = pinnedKids'  BY <2>3
    <3> QED BY <2>1, <3>1, <3>2 DEF EveryPinHasOneOwner
  <2> QED BY <2>2, <2>3
<1> QED BY <1>5, <1>6, <1>7, <1>8, <1>11, <1>12, <1>13, <1>14

LEMMA RetainPinInv ==
  ASSUME PinInv, NEW w \in Worker, RetainPPP(w)
  PROVE  PinInv'
<1>1. ppps \in Seq(Addr) /\ kept \in Seq(Addr) /\ cursor \in 1 .. Len(ppps)
  BY DEF RetainPPP, PinInv, PPPTyped
<1>2. ppps[cursor] \in Addr  BY <1>1
<1>3. Forward(ppps[cursor]) \in Addr
  BY <1>2 DEF Forward, PinInv, PPPTyped, CoreTypeOK
<1>4. kept' \in Seq(Addr)  BY <1>1, <1>3 DEF RetainPPP, Retained
<1>5. PPPTyped'
  BY <1>1, <1>4 DEF RetainPPP, PinInv, PPPTyped, CoreTypeOK, coreVars, heapVars, pinLocals
<1> QED BY <1>5, FramePinInv DEF RetainPPP, coreVars, heapVars

LEMMA RemoveDeadPinInv ==
  ASSUME PinInv, NEW w \in Worker, RemoveDeadPPPs(w)
  PROVE  PinInv'
<1> USE DEF RemoveDeadPPPs, Finish, Runs, PinInv, heapVars, pinLocals
<1>1. /\ stage = "VMRefClosure" /\ step[w] = "start"
      /\ \A v \in Worker : running'[v] = IF v = w THEN NoPacket ELSE running[v]
  BY DEF PacketsFit, StepsFit, Carries, SchedTypeOK, PPPTyped
<1>2. PPPTyped'
  <2>1. <<>> \in Seq(Addr)  OBVIOUS
  <2> QED BY <2>1 DEF PPPTyped, CoreTypeOK
<1>3. SchedTypeOK' /\ PacketsFit' /\ StepsFit'
  BY <1>1 DEF SchedTypeOK, PacketsFit, StepsFit, Carries
<1>4. \A kind : kind # "RemoveDeadPPPs" =>
        \A v \in Worker : Carries(v, kind)' <=> Carries(v, kind)
  BY <1>1 DEF Carries
<1>5. AtMostOne("ProcessWeakRefs")' /\ AtMostOne("UnpinPPPChildren")'
  BY <1>4 DEF AtMostOne, Waits
<1>6. KidsFit'  BY <1>4 DEF KidsFit, Somewhere, Waits
<1>7. EveryPinHasOneOwner'
  <2>1. UnpinPackets' = UnpinPackets  BY <1>1 DEF UnpinPackets
  <2> QED BY <2>1 DEF EveryPinHasOneOwner
<1> QED BY <1>2, <1>3, <1>5, <1>6, <1>7

LEMMA UnpinPinInv ==
  ASSUME PinInv, NEW w \in Worker, UnpinPPPChildren(w)
  PROVE  PinInv'
<1> USE DEF UnpinPPPChildren, Finish, Runs, PinInv, heapVars, localVars, pinLocals
<1> DEFINE u == running[w]
<1>1. /\ stage = "VMRefClosure" /\ Carries(w, "UnpinPPPChildren") /\ u \in UnpinPackets
      /\ \A v \in Worker : running'[v] = IF v = w THEN NoPacket ELSE running[v]
  BY DEF PacketsFit, Carries, SchedTypeOK, UnpinPackets
<1>2. PPPTyped'  BY DEF PPPTyped, CoreTypeOK, retainLocals
<1>3. SchedTypeOK' /\ PacketsFit' /\ StepsFit'
  BY <1>1 DEF SchedTypeOK, PacketsFit, StepsFit, Carries
<1>4. \A v \in Worker : Carries(v, "ProcessWeakRefs")' <=> Carries(v, "ProcessWeakRefs")
  BY <1>1 DEF Carries
<1>5. ~Somewhere("ProcessWeakRefs")' /\ ~Somewhere("ProcessWeakRefs")
  BY <1>1, <1>4 DEF KidsFit, Somewhere, Waits
<1>6. \A v \in Worker : ~Carries(v, "UnpinPPPChildren")'
  BY <1>1 DEF AtMostOne, Carries
<1>7. AtMostOne("ProcessWeakRefs")' /\ AtMostOne("UnpinPPPChildren")'
  BY <1>4, <1>6 DEF AtMostOne, Waits
<1>8. KidsFit'  BY <1>1, <1>5 DEF KidsFit
<1>9. EveryPinHasOneOwner'
  <2>1. UnpinPackets = {u}
    BY <1>1 DEF UnpinPackets, AtMostOne, Carries, Waits
  <2>2. UnpinPackets' = {}
    BY <1>1, <1>6 DEF UnpinPackets, AtMostOne, Carries, Waits
  <2>3. pinned = UNION ({userPins, pinnedKids} \cup {newly[v] : v \in Worker} \cup {u.refs})
    BY <2>1 DEF EveryPinHasOneOwner
  <2>4. /\ u.refs \cap (userPins \cup pinnedKids) = {}
        /\ \A v \in Worker : u.refs \cap newly[v] = {}
    BY <1>1 DEF EveryPinHasOneOwner
  <2>5. pinned' = UNION ({userPins, pinnedKids} \cup {newly[v] : v \in Worker})
    BY <2>3, <2>4
  <2> QED BY <2>2, <2>5 DEF EveryPinHasOneOwner
<1> QED BY <1>2, <1>3, <1>7, <1>8, <1>9

LEMMA WorkerPinInv ==
  ASSUME PinInv, NEW w \in Worker, WorkerStep(w)
  PROVE  PinInv'
BY TakePinInv, VisitPinInv, PinChildPinInv, AppendPinInv, AddRemovePinInv,
   AddUnpinPinInv, RetainPinInv, RemoveDeadPinInv, UnpinPinInv DEF WorkerStep

LEMMA MutatorPinInv ==
  ASSUME PinInv, Mutator
  PROVE  PinInv'
BY MutatorFramePinInv, UserPinInv, StopAllMutatorsPinInv DEF Mutator

LEMMA NextPinInv == PinInv /\ [Next]_vars => PinInv'
<1> SUFFICES ASSUME PinInv, [Next]_vars PROVE PinInv'
  OBVIOUS
<1>1. CASE Mutator  BY <1>1, MutatorPinInv
<1>2. CASE Collector
  BY <1>2, TracingPinInv, NextStagePinInv, WorkerPinInv DEF Collector
<1>3. CASE UNCHANGED vars
  <2>1. PPPTyped'
    BY <1>3 DEF PinInv, PPPTyped, CoreTypeOK, vars, coreVars, heapVars, pppVars,
                localVars, pinLocals, retainLocals
  <2> QED BY <1>3, <2>1, FramePinInv DEF vars, coreVars, heapVars, pppVars, localVars
<1> QED BY <1>1, <1>2, <1>3 DEF Next

(* Every reachable state satisfies the pin-accounting invariant, however   *)
(* mutators, packets and workers interleave.                               *)
THEOREM PinInvariant == Spec => []PinInv
BY InitPinInv, NextPinInv, PTL DEF Spec

(* A chunk of the registry has no more than ChunkSize objects.             *)
Bounded(p) == IsFiniteSet(p.refs) /\ Cardinality(p.refs) <= ChunkSize

LEMMA PinPacketsBounded ==
  ASSUME PPPTyped, NEW p \in PinPackets
  PROVE  Bounded(p)
<1> DEFINE n == Len(ppps) + 1
<1> DEFINE refs(b) == {ppps[i] : i \in b .. SmallerOf(b + ChunkSize, n) - 1}
<1>1. PICK b \in StepBy(1, n, ChunkSize) : p = Packet("PinPPPChildren", b, refs(b))
  BY DEF PinPackets
<1>2. n \in Nat  BY DEF PPPTyped
<1> DEFINE hi == SmallerOf(b + ChunkSize, n) - 1
<1> DEFINE f == [i \in b .. hi |-> ppps[i]]
<1>3. b \in Int /\ hi \in Int /\ b <= hi /\ hi - b + 1 <= ChunkSize
  <2> HIDE DEF n
  <2> QED BY <1>2, PPPAssumption DEF StepBy, SmallerOf
<1>4. p.refs = refs(b)  BY <1>1 DEF Packet
<1>5. f \in Surjection(b .. hi, refs(b))  BY DEF Surjection
<1> HIDE DEF f, refs, n, hi
<1>6. IsFiniteSet(b .. hi) /\ Cardinality(b .. hi) = hi - b + 1
  BY <1>3, FS_Interval
<1>7. IsFiniteSet(refs(b)) /\ Cardinality(refs(b)) <= Cardinality(b .. hi)
  BY <1>5, <1>6, FS_Surjection
<1>8. Cardinality(refs(b)) \in Nat  BY <1>7, FS_CardinalityType
<1> QED BY <1>3, <1>4, <1>6, <1>7, <1>8, PPPAssumption DEF Bounded

LEMMA NextPacketsBounded == PinInv /\ PacketsBounded /\ [Next]_vars => PacketsBounded'
<1> SUFFICES ASSUME PinInv, PacketsBounded, [Next]_vars PROVE PacketsBounded'
  OBVIOUS
<1>0. /\ bucket \in [GCStage -> SUBSET PacketSet]
      /\ running \in [Worker -> PacketSet \cup {NoPacket}]
      /\ "Prepare" \in GCStage /\ "VMRefClosure" \in GCStage
  BY DEF PinInv, SchedTypeOK, GCStage
<1>1. ASSUME bucket'["Prepare"] \subseteq bucket["Prepare"],
             \A w \in Worker : \/ running'[w] = running[w]
                               \/ running'[w] = NoPacket
                               \/ running'[w] \in bucket["Prepare"]
                               \/ running'[w].kind # "PinPPPChildren"
      PROVE  PacketsBounded'
  BY <1>1 DEF PacketsBounded
<1>2. ASSUME NEW mayMove \in BOOLEAN, StopAllMutators(mayMove) PROVE PacketsBounded'
  <2>1. running' = running /\ bucket'["Prepare"] = IF mayMove THEN PinPackets ELSE {}
    BY <1>0, <1>2 DEF StopAllMutators, StartGC
  <2>2. \A p \in PinPackets : Bounded(p)
    BY PinPacketsBounded DEF PinInv
  <2> QED BY <2>1, <2>2 DEF PacketsBounded, Bounded
<1>3. ASSUME NEW w \in Worker, NEW s \in GCStage, NEW p \in bucket[s], Take(w, p)
      PROVE  PacketsBounded'
  <2>1. bucket' = [bucket EXCEPT ![stage] = @ \ {p}] /\ running' = [running EXCEPT ![w] = p]
        /\ p \in bucket[stage] /\ stage = s /\ s \in {"Prepare", "VMRefClosure"}
    BY <1>3 DEF Take, TakePacket, PinInv, PacketsFit
  <2>2. p \in bucket["Prepare"] \/ p.kind # "PinPPPChildren"
    BY <2>1 DEF PinInv, PacketsFit
  <2>3. bucket'["Prepare"] \subseteq bucket["Prepare"]
    BY <1>0, <2>1
  <2>4. \A v \in Worker : running'[v] = IF v = w THEN p ELSE running[v]
    BY <1>0, <2>1
  <2> QED BY <1>1, <2>2, <2>3, <2>4
<1>4. CASE UNCHANGED vars \/ Tracing \/ NextStage
  <2>1. running' = running /\ bucket'["Prepare"] \subseteq bucket["Prepare"]
    BY <1>0, <1>4 DEF vars, coreVars, schedVars, Tracing, TraceInPlace, TraceAndCopy,
                      NextStage, EndPrepare, EndClosure, EndVMRefClosure, Reclaim
  <2> QED BY <1>1, <2>1
<1>5. ASSUME Mutator, \A mayMove \in BOOLEAN : ~StopAllMutators(mayMove) PROVE PacketsBounded'
  <2>1. UNCHANGED schedVars
    BY <1>5 DEF Mutator, New, Alloc, Forget, Drop, SetFields, Write, Register, BecomePlain,
                UserPin, UserUnpin, coreVars
  <2> QED BY <1>1, <2>1 DEF schedVars
<1>6. ASSUME NEW w \in Worker, VisitPPPs(w) \/ (\E a \in children[w] : PinChild(w, a))
                               \/ RetainPPP(w)
      PROVE  PacketsBounded'
  <2>1. UNCHANGED schedVars
    BY <1>6 DEF VisitPPPs, PinChild, RetainPPP, coreVars
  <2> QED BY <1>1, <2>1 DEF schedVars
<1>7. ASSUME NEW w \in Worker, AppendPinned(w) \/ AddUnpinPPPChildren(w) \/ RemoveDeadPPPs(w)
                               \/ UnpinPPPChildren(w)
      PROVE  PacketsBounded'
  <2>1. Finish(w) /\ bucket'["Prepare"] = bucket["Prepare"]
    BY <1>0, <1>7 DEF AppendPinned, AddUnpinPPPChildren, RemoveDeadPPPs, UnpinPPPChildren
  <2>2. \A v \in Worker : running'[v] = IF v = w THEN NoPacket ELSE running[v]
    BY <1>0, <2>1 DEF Finish
  <2> QED BY <1>1, <2>1, <2>2
<1>8. ASSUME NEW w \in Worker, AddRemoveDeadPPPs(w) PROVE PacketsBounded'
  <2>1. running' = running /\ bucket'["Prepare"] = bucket["Prepare"]
    BY <1>0, <1>8 DEF AddRemoveDeadPPPs
  <2> QED BY <1>1, <2>1
<1> QED
  BY <1>2, <1>3, <1>4, <1>5, <1>6, <1>7, <1>8 DEF Next, Collector, WorkerStep

(* The state of the registry, of the packets' locals and of the collector  *)
(* keeps its types, and no pinning packet gets more than a chunk.          *)
THEOREM PPPTypeCorrect == Spec => []PPPTypeOK
<1>1. PPPInit => PacketsBounded
  BY DEF PPPInit, CoreInit, PacketsBounded, GCStage
<1>2. PinInv /\ PacketsBounded => PPPTypeOK
  BY DEF PinInv, PPPTypeOK
<1> QED BY <1>1, <1>2, NextPacketsBounded, PinInvariant, PTL DEF Spec

(* Every pin belongs to exactly one of the program, one PinPPPChildren     *)
(* packet, pinned_ppp_children and one UnpinPPPChildren packet, for any    *)
(* number of packets that share children: no child is unpinned twice.      *)
THEOREM PinOwnership == Spec => []EveryPinHasOneOwner
<1>1. PinInv => EveryPinHasOneOwner  BY DEF PinInv
<1> QED BY <1>1, PinInvariant, PTL

(* Outside collections only the program's own pins are set, and a          *)
(* non-moving collection finds pinned_ppp_children empty.                  *)
THEOREM PinsUndone == Spec => []NoPinOutlivesGC
<1>1. PinInv => NoPinOutlivesGC
  <2> SUFFICES ASSUME PinInv PROVE NoPinOutlivesGC
    OBVIOUS
  <2> USE DEF PinInv
  <2>1. ASSUME stage = "Mutator"
        PROVE  pinned = userPins /\ pinnedKids = {}
    <3>1. /\ \A w \in Worker : running[w] = NoPacket
          /\ bucket["VMRefClosure"] = {}
      BY <2>1 DEF PacketsFit, GCStage
    <3>2. UnpinPackets = {}  BY <3>1 DEF UnpinPackets
    <3>3. \A w \in Worker : newly[w] = {}
      BY <3>1 DEF StepsFit, Carries
    <3>4. pinnedKids = {}  BY <2>1 DEF KidsFit
    <3> QED BY <3>2, <3>3, <3>4 DEF EveryPinHasOneOwner
  <2>2. ASSUME ~moving PROVE pinnedKids = {}
    BY <2>2 DEF KidsFit
  <2> QED BY <2>1, <2>2 DEF NoPinOutlivesGC
<1> QED BY <1>1, PinInvariant, PTL
-----------------------------------------------------------------------------
(* A forwarded object was traced, and exists at its new address.           *)
HeapFits ==
  /\ stage \in {"Mutator", "Prepare"} => reached = {} /\ \A a \in Addr : fwd[a] = a
  /\ \A a \in Addr : fwd[a] # a =>
       moving /\ a \in reached /\ heap[fwd[a]] = heap[a] /\ fwd[fwd[a]] = fwd[a]
  /\ \A a \in reached : heap[a] # Free

(* The sentinel has yet to add RemoveDeadPPPs.                             *)
RemovalAhead ==
  \/ Waits("ProcessWeakRefs")
  \/ \E w \in Worker : Runs(w, "ProcessWeakRefs", "start")

(* RemoveDeadPPPs is done, and the memory not yet reclaimed.               *)
RemovalDone ==
  \/ stage = "Release"
  \/ stage = "VMRefClosure" /\ ~RemovalAhead /\ ~Somewhere("RemoveDeadPPPs")

(* Until RemoveDeadPPPs is done entries may be dead; after it all survive. *)
RegistryFits ==
  /\ \A i \in DOMAIN ppps : heap[ppps[i]] # Free
  /\ ~(\E w \in Worker : Carries(w, "RemoveDeadPPPs")) => kept = <<>>
  /\ \A i \in DOMAIN kept :
       kept[i] \in Survivor /\ \E j \in DOMAIN ppps : heap[kept[i]] = heap[ppps[j]]
  /\ RemovalDone => \A i \in DOMAIN ppps : ppps[i] \in Survivor
  /\ AtMostOne("RemoveDeadPPPs")
  /\ RemovalAhead => ~Somewhere("RemoveDeadPPPs")

Kids(r) == AddrsOf(edges[heap[r]] \cap PinKids)
IsPPP(r) == heap[r] \in Obj \ plain

(* A packet that will pin the child a of the entry r is on its way.        *)
PinAhead(r, a) ==
  \/ \E p \in bucket["Prepare"] : r \in p.refs
  \/ \E w \in Worker : Runs(w, "PinPPPChildren", "start") /\ r \in running[w].refs
  \/ \E w \in Worker : Runs(w, "PinPPPChildren", "pin") /\ a \in children[w]

KidsCovered ==
  \A i \in DOMAIN ppps : IsPPP(ppps[i]) =>
    \A a \in Kids(ppps[i]) :
      /\ stage = "Prepare" /\ moving => a \in pinned \/ PinAhead(ppps[i], a)
      /\ stage = "Closure" /\ moving => a \in pinned

RegistryInv == PinInv /\ HeapFits /\ RegistryFits /\ KidsCovered /\ PinnedChildrenStay
-----------------------------------------------------------------------------
(* Forwarding.                                                             *)

LEMMA TracingHeapFits ==
  ASSUME PinInv, HeapFits, Tracing
  PROVE  HeapFits'
<1> USE DEF HeapFits, PinInv, PPPTyped, CoreTypeOK
<1>1. ASSUME NEW a \in Addr, TraceInPlace(a)
      PROVE  HeapFits'
  BY <1>1 DEF TraceInPlace, FromSpace
<1>2. ASSUME NEW a \in Addr, NEW b \in Addr, TraceAndCopy(a, b)
      PROVE  HeapFits'
  <2> USE <1>2 DEF TraceAndCopy
  <2>1. heap[a] # Free /\ heap[b] = Free /\ a # b  BY DEF FromSpace
  <2>2. fwd[b] = b  BY <2>1
  <2>3. \A c \in Addr : c # a => fwd[c] # a
    BY DEF FromSpace
  <2>4. \A c \in reached : c # b  BY <2>1
  <2>5. \A c \in Addr : fwd[c] # c => fwd[c] # b
    BY <2>1
  <2>6. /\ \A c \in Addr : heap'[c] = IF c = b THEN heap[a] ELSE heap[c]
        /\ \A c \in Addr : fwd'[c] = IF c = a THEN b ELSE fwd[c]
    OBVIOUS
  <2>7. ASSUME NEW c \in Addr, fwd'[c] # c
        PROVE  /\ moving' /\ c \in reached' /\ heap'[fwd'[c]] = heap'[c]
               /\ fwd'[fwd'[c]] = fwd'[c]
    <3>1. CASE c = a  BY <2>1, <2>2, <2>6, <3>1
    <3>2. CASE c # a
      <4>1. fwd[c] # c /\ c \in reached /\ heap[fwd[c]] = heap[c] /\ fwd[fwd[c]] = fwd[c]
        BY <2>6, <2>7, <3>2
      <4>2. fwd[c] # b /\ fwd[c] # a /\ c # b /\ fwd[c] \in Addr
        BY <2>3, <2>4, <2>5, <3>2, <4>1
      <4> QED BY <2>6, <3>2, <4>1, <4>2
    <3> QED BY <3>1, <3>2
  <2>8. \A c \in reached' : heap'[c] # Free  BY <2>1, <2>6
  <2> QED BY <2>7, <2>8
<1> QED BY <1>1, <1>2 DEF Tracing

LEMMA NextHeapFits == PinInv /\ HeapFits /\ [Next]_vars => HeapFits'
<1> SUFFICES ASSUME PinInv, HeapFits, [Next]_vars PROVE HeapFits'
  OBVIOUS
<1> USE DEF HeapFits, PinInv, PPPTyped, CoreTypeOK
<1>1. CASE Mutator
  <2>1. stage = "Mutator" /\ fwd' = fwd /\ reached' = reached /\ stage' # "Closure"
        /\ stage' \in {"Mutator", "Prepare"}
    BY <1>1 DEF Mutator, New, Alloc, Forget, Drop, SetFields, Write, Register, BecomePlain,
                UserPin, UserUnpin,
                StopAllMutators, StartGC, coreVars, heapVars
  <2> QED BY <2>1
<1>2. CASE Tracing  BY <1>2, TracingHeapFits
<1>3. CASE NextStage
  <2>1. CASE Reclaim  BY <2>1 DEF Reclaim, Advance
  <2>2. CASE EndPrepare \/ EndClosure(Sentinel) \/ EndVMRefClosure
    BY <2>2 DEF EndPrepare, EndClosure, EndVMRefClosure, Advance, heapVars
  <2> QED BY <1>3, <2>1, <2>2 DEF NextStage
<1>4. ASSUME NEW w \in Worker, WorkerStep(w)
      PROVE  HeapFits'
  <2>1. UNCHANGED <<stage, heapVars>>
    BY <1>4 DEF WorkerStep, Take, TakePacket, VisitPPPs, PinChild, AppendPinned,
                AddRemoveDeadPPPs, AddUnpinPPPChildren, RetainPPP, RemoveDeadPPPs,
                UnpinPPPChildren, coreVars
  <2> QED BY <2>1 DEF heapVars
<1>5. CASE UNCHANGED vars  BY <1>5 DEF vars, coreVars, heapVars
<1> QED BY <1>1, <1>2, <1>3, <1>4, <1>5 DEF Next, Collector
-----------------------------------------------------------------------------
(* The entries of the registry.                                            *)

(* The packets that shorten the registry exist in VMRefClosure only.       *)
LEMMA RemovalInVMRefClosure ==
  ASSUME PinInv, stage # "VMRefClosure"
  PROVE  ~Somewhere("RemoveDeadPPPs") /\ ~RemovalAhead
BY DEF PinInv, PacketsFit, Somewhere, Waits, Carries, RemovalAhead, Runs, GCStage

(* In the other stages there is little to show.                            *)
LEMMA RegistryFitsOutside ==
  ASSUME PinInv', stage' # "VMRefClosure", kept' = <<>>,
         \A i \in DOMAIN ppps' : heap'[ppps'[i]] # Free,
         stage' = "Release" => \A i \in DOMAIN ppps' : ppps'[i] \in Survivor'
  PROVE  RegistryFits'
<1>1. ~Somewhere("RemoveDeadPPPs")' /\ ~RemovalAhead'
  BY DEF PinInv, PacketsFit, Somewhere, Waits, Carries, RemovalAhead, Runs, GCStage
<1>2. AtMostOne("RemoveDeadPPPs")'
  BY <1>1 DEF Somewhere, Waits, AtMostOne
<1> QED BY <1>1, <1>2 DEF RegistryFits, RemovalDone

(* Worker steps that leave the registry and the way it is shortened alone. *)
LEMMA FrameRegistryFits ==
  ASSUME RegistryFits, UNCHANGED <<stage, heap, fwd, reached, ppps, kept>>,
         RemovalAhead' <=> RemovalAhead,
         Somewhere("RemoveDeadPPPs")' <=> Somewhere("RemoveDeadPPPs"),
         \A w \in Worker : Carries(w, "RemoveDeadPPPs") => Carries(w, "RemoveDeadPPPs")',
         AtMostOne("RemoveDeadPPPs")'
  PROVE  RegistryFits'
<1>1. Survivor' = Survivor  BY DEF Survivor
<1> QED BY <1>1 DEF RegistryFits, RemovalDone

LEMMA MutatorRegistryFits ==
  ASSUME PinInv, RegistryFits, Mutator
  PROVE  RegistryFits'
<1>1. PinInv'  BY NextPinInv DEF Next
<1>2. stage = "Mutator" /\ stage' # "VMRefClosure" /\ stage' # "Release" /\ kept' = kept
  BY DEF Mutator, New, Alloc, Forget, Drop, SetFields, Write, Register, BecomePlain,
         UserPin, UserUnpin,
         StopAllMutators, StartGC, coreVars, pppVars, localVars, retainLocals
<1>3. kept' = <<>>
  BY <1>2, RemovalInVMRefClosure DEF RegistryFits, Somewhere
<1>4. \A i \in DOMAIN ppps' : heap'[ppps'[i]] # Free
  <2> USE DEF PinInv, PPPTyped, CoreTypeOK, RegistryFits
  <2>1. ASSUME NEW o \in Obj, NEW a \in Addr, NEW S \in SUBSET live, New(o, a, S)
        PROVE  \A i \in DOMAIN ppps' : heap'[ppps'[i]] # Free
    BY <2>1, CoreAssumption DEF New, Alloc
  <2>2. ASSUME NEW n \in 1 .. 2, NEW objects \in [1 .. n -> AddrsOf(live \cap Parents)],
               Register(objects)
        PROVE  \A i \in DOMAIN ppps' : heap'[ppps'[i]] # Free
    <3>1. /\ objects \in Seq(Addr)
          /\ \A i \in DOMAIN objects : heap[objects[i]] # Free
      BY CoreAssumption DEF AddrsOf
    <3>2. heap' = heap /\ ppps' = ppps \o objects
      BY <2>2 DEF Register, coreVars, heapVars
    <3>3. ASSUME NEW i \in DOMAIN ppps'
          PROVE  heap[ppps'[i]] # Free
      <4>1. \/ i \in DOMAIN ppps /\ ppps'[i] = ppps[i]
            \/ i - Len(ppps) \in DOMAIN objects /\ ppps'[i] = objects[i - Len(ppps)]
        BY <3>1, <3>2
      <4> QED BY <3>1, <4>1
    <3> QED BY <3>2, <3>3
  <2>3. heap' = heap /\ ppps' = ppps => \A i \in DOMAIN ppps' : heap'[ppps'[i]] # Free
    OBVIOUS
  <2>4. \/ heap' = heap /\ ppps' = ppps
        \/ \E o \in Obj, a \in Addr : \E S \in SUBSET live : New(o, a, S)
        \/ \E n \in 1 .. 2 : \E objects \in [1 .. n -> AddrsOf(live \cap Parents)] :
             Register(objects)
    BY DEF Mutator, Forget, Drop, SetFields, Write, BecomePlain, UserPin, UserUnpin,
           StopAllMutators, StartGC,
           coreVars, heapVars, pppVars
  <2> QED BY <2>1, <2>2, <2>3, <2>4
<1> QED BY <1>1, <1>2, <1>3, <1>4, RegistryFitsOutside

LEMMA TracingRegistryFits ==
  ASSUME PinInv, RegistryFits, Tracing
  PROVE  RegistryFits'
<1>1. PinInv'  BY NextPinInv DEF Next, Collector
<1>2. stage = "Closure" /\ stage' = "Closure" /\ kept' = kept /\ ppps' = ppps
  BY DEF Tracing, TraceInPlace, TraceAndCopy, pppVars, localVars, retainLocals
<1>3. kept' = <<>>
  BY <1>2, RemovalInVMRefClosure DEF RegistryFits, Somewhere
<1>4. \A i \in DOMAIN ppps' : heap'[ppps'[i]] # Free
  <2>1. \A a \in Addr : heap[a] # Free => heap'[a] # Free
    BY DEF Tracing, TraceInPlace, TraceAndCopy, FromSpace, PinInv, PPPTyped, CoreTypeOK
  <2> QED BY <1>2, <2>1 DEF RegistryFits, PinInv, PPPTyped
<1> QED BY <1>1, <1>2, <1>3, <1>4, RegistryFitsOutside

LEMMA NextStageRegistryFits ==
  ASSUME PinInv, RegistryFits, NextStage
  PROVE  RegistryFits'
<1> USE DEF Advance, heapVars, schedVars, pppVars, localVars, retainLocals
<1>1. PinInv'  BY NextPinInv DEF Next, Collector
<1>2. /\ ppps' = ppps /\ kept' = kept /\ step' = step
      /\ \A w \in Worker : running[w] = NoPacket
  BY DEF NextStage, EndPrepare, EndClosure, EndVMRefClosure, Reclaim, pinLocals
<1>3. kept' = <<>>  BY <1>2 DEF RegistryFits, Carries
<1>4. CASE EndPrepare
  BY <1>1, <1>2, <1>3, <1>4, RegistryFitsOutside DEF EndPrepare, RegistryFits
<1>5. CASE EndClosure(Sentinel)
  <2>1. /\ stage' = "VMRefClosure" /\ heap' = heap /\ running' = running
        /\ bucket'["VMRefClosure"] = {Sentinel}
    BY <1>5 DEF EndClosure, PinInv, SchedTypeOK, GCStage
  <2>2. Sentinel.kind = "ProcessWeakRefs"  BY DEF Sentinel, Packet
  <2>3. RemovalAhead' /\ ~Somewhere("RemoveDeadPPPs")'
    BY <1>2, <2>1, <2>2 DEF RemovalAhead, Somewhere, Waits, Carries
  <2>4. AtMostOne("RemoveDeadPPPs")'
    BY <2>3 DEF AtMostOne, Somewhere, Waits
  <2> QED BY <1>2, <1>3, <2>1, <2>3, <2>4 DEF RegistryFits, RemovalDone
<1>6. CASE EndVMRefClosure
  <2>1. /\ stage = "VMRefClosure" /\ bucket["VMRefClosure"] = {} /\ stage' = "Release"
        /\ heap' = heap /\ Survivor' = Survivor
    BY <1>6 DEF EndVMRefClosure, Survivor
  <2>2. ~RemovalAhead /\ ~Somewhere("RemoveDeadPPPs")
    BY <1>2, <2>1 DEF RemovalAhead, Runs, Somewhere, Waits, Carries
  <2> QED BY <1>1, <1>2, <1>3, <2>1, <2>2, RegistryFitsOutside DEF RegistryFits, RemovalDone
<1>7. CASE Reclaim
  <2>1. /\ stage = "Release" /\ stage' = "Mutator"
        /\ \A a \in Survivor : a \in Addr => heap'[a] = heap[a]
    BY <1>7 DEF Reclaim
  <2>2. \A i \in DOMAIN ppps : ppps[i] \in Survivor /\ ppps[i] \in Addr
    BY <2>1 DEF RegistryFits, RemovalDone, PinInv, PPPTyped
  <2>3. \A i \in DOMAIN ppps' : heap'[ppps'[i]] # Free
    BY <1>2, <2>1, <2>2 DEF RegistryFits
  <2> QED BY <1>1, <1>3, <2>1, <2>3, RegistryFitsOutside
<1> QED BY <1>4, <1>5, <1>6, <1>7 DEF NextStage

LEMMA TakeRegistryFits ==
  ASSUME PinInv, RegistryFits, NEW w \in Worker, NEW s \in GCStage, NEW p \in bucket[s],
         Take(w, p)
  PROVE  RegistryFits'
<1> USE DEF Take, TakePacket, heapVars, pppVars, localVars, pinLocals, retainLocals
<1>1. /\ UNCHANGED <<stage, heap, fwd, reached, ppps, kept, step>>
      /\ running[w] = NoPacket /\ stage = s /\ s \in {"Prepare", "VMRefClosure"}
      /\ bucket' = [bucket EXCEPT ![s] = @ \ {p}]
      /\ running' = [running EXCEPT ![w] = p] /\ p # NoPacket
  <2>1. stage = s /\ s \in {"Prepare", "VMRefClosure"}
    BY DEF PinInv, PacketsFit
  <2>2. p \in PacketSet
    BY DEF PinInv, SchedTypeOK
  <2>3. p # NoPacket
    BY <2>2, PPPAssumption
  <2> QED BY <2>1, <2>3
<1>2. \A v \in Worker : running'[v] = IF v = w THEN p ELSE running[v]
  BY <1>1 DEF PinInv, SchedTypeOK
<1>3. /\ Somewhere("RemoveDeadPPPs")' <=> Somewhere("RemoveDeadPPPs")
      /\ AtMostOne("RemoveDeadPPPs")'
  BY TakeMovesPacket DEF RegistryFits
<1>4. \A v \in Worker : Carries(v, "RemoveDeadPPPs") => Carries(v, "RemoveDeadPPPs")'
  BY <1>1, <1>2 DEF Carries
<1>5. RemovalAhead' <=> RemovalAhead
  <2>1. step[w] = "start"
    BY <1>1 DEF PinInv, StepsFit, Carries, PPPTyped
  <2>2. CASE s = "VMRefClosure"
    <3>1. /\ p \in bucket["VMRefClosure"]
          /\ bucket'["VMRefClosure"] = bucket["VMRefClosure"] \ {p}
      BY <1>1, <2>2 DEF PinInv, SchedTypeOK
    <3> QED BY <1>1, <1>2, <2>1, <3>1 DEF RemovalAhead, Waits, Runs
  <2>3. CASE s = "Prepare"
    <3>1. bucket["VMRefClosure"] = {} /\ bucket'["VMRefClosure"] = {}
      BY <1>1, <2>3 DEF PinInv, PacketsFit, SchedTypeOK, GCStage
    <3>2. p.kind = "PinPPPChildren"  BY <2>3 DEF PinInv, PacketsFit
    <3> QED BY <1>1, <1>2, <3>1, <3>2 DEF RemovalAhead, Waits, Runs
  <2> QED BY <1>1, <2>2, <2>3
<1> QED BY <1>1, <1>3, <1>4, <1>5, FrameRegistryFits

(* PinPPPChildren runs before the registry is shortened.                   *)
LEMMA PinningRegistryFits ==
  ASSUME PinInv, RegistryFits, NEW w \in Worker,
         VisitPPPs(w) \/ (\E a \in children[w] : PinChild(w, a)) \/ AppendPinned(w)
  PROVE  RegistryFits'
<1> USE DEF VisitPPPs, PinChild, AppendPinned, Runs
<1>1. PinInv'  BY NextPinInv DEF Next, Collector, WorkerStep
<1>2. stage = "Prepare"  BY DEF PinInv, PacketsFit
<1>3. UNCHANGED <<stage, heap, ppps, kept>>
  BY DEF coreVars, heapVars, schedVars, retainLocals
<1>4. kept' = <<>>
  BY <1>2, <1>3, RemovalInVMRefClosure DEF RegistryFits, Somewhere
<1> QED BY <1>1, <1>2, <1>3, <1>4, RegistryFitsOutside DEF RegistryFits

LEMMA AddRemoveRegistryFits ==
  ASSUME PinInv, RegistryFits, NEW w \in Worker, AddRemoveDeadPPPs(w)
  PROVE  RegistryFits'
<1> USE DEF AddRemoveDeadPPPs, Runs, heapVars, retainLocals, PinInv
<1>1. /\ stage' = stage /\ stage = "VMRefClosure" /\ Carries(w, "ProcessWeakRefs")
      /\ RemovePacket.kind = "RemoveDeadPPPs"
      /\ bucket'["VMRefClosure"] = bucket["VMRefClosure"] \cup {RemovePacket}
      /\ running' = running
      /\ \A v \in Worker : step'[v] = IF v = w THEN "unpin" ELSE step[v]
  BY DEF PacketsFit, Carries, RemovePacket, Packet, SchedTypeOK, PPPTyped, GCStage
<1>2. ~Somewhere("RemoveDeadPPPs")  BY DEF RegistryFits, RemovalAhead
<1>3. Somewhere("RemoveDeadPPPs")' /\ AtMostOne("RemoveDeadPPPs")'
  BY <1>1, <1>2 DEF Somewhere, AtMostOne, Waits, Carries
<1>4. ~RemovalAhead'
  <2>1. \A v \in Worker : Carries(v, "ProcessWeakRefs") => v = w
    BY <1>1 DEF AtMostOne
  <2>2. ~Waits("ProcessWeakRefs")  BY <1>1 DEF AtMostOne
  <2> QED BY <1>1, <2>1, <2>2 DEF RemovalAhead, Waits, Carries
<1>5. \A v \in Worker : ~Carries(v, "RemoveDeadPPPs") /\ ~Carries(v, "RemoveDeadPPPs")'
  BY <1>1, <1>2 DEF Somewhere, Carries
<1> QED BY <1>1, <1>3, <1>4, <1>5 DEF RegistryFits, RemovalDone, Survivor

LEMMA AddUnpinRegistryFits ==
  ASSUME PinInv, RegistryFits, NEW w \in Worker, AddUnpinPPPChildren(w)
  PROVE  RegistryFits'
<1> USE DEF AddUnpinPPPChildren, Finish, Runs, heapVars, retainLocals, PinInv
<1>1. /\ step[w] = "unpin" /\ running[w].kind = "ProcessWeakRefs"
      /\ \A v \in Worker : running'[v] = IF v = w THEN NoPacket ELSE running[v]
      /\ \A v \in Worker : step'[v] = IF v = w THEN "start" ELSE step[v]
  BY DEF SchedTypeOK, PPPTyped
<1>2. \A p \in UnpinWork : p.kind = "UnpinPPPChildren"
  BY DEF UnpinWork, Packet
<1>3. bucket'["VMRefClosure"] = bucket["VMRefClosure"] \cup UnpinWork
  BY DEF SchedTypeOK, GCStage
<1>4. \A kind : kind # "UnpinPPPChildren" => (Waits(kind)' <=> Waits(kind))
  BY <1>2, <1>3 DEF Waits
<1>5. RemovalAhead' <=> RemovalAhead
  BY <1>1, <1>4 DEF RemovalAhead
<1>6. \A v \in Worker : Carries(v, "RemoveDeadPPPs")' <=> Carries(v, "RemoveDeadPPPs")
  BY <1>1 DEF Carries
<1>7. AtMostOne("RemoveDeadPPPs")'
  BY <1>2, <1>3, <1>4, <1>6 DEF RegistryFits, AtMostOne
<1>8. UNCHANGED <<stage, heap, fwd, reached, ppps, kept>>  OBVIOUS
<1> QED BY <1>4, <1>5, <1>6, <1>7, <1>8, FrameRegistryFits DEF Somewhere

LEMMA UnpinRegistryFits ==
  ASSUME PinInv, RegistryFits, NEW w \in Worker, UnpinPPPChildren(w)
  PROVE  RegistryFits'
<1> USE DEF UnpinPPPChildren, Finish, Runs, heapVars, localVars, pinLocals, retainLocals,
            PinInv
<1>1. /\ running[w].kind = "UnpinPPPChildren" /\ bucket' = bucket /\ step' = step
      /\ \A v \in Worker : running'[v] = IF v = w THEN NoPacket ELSE running[v]
  BY DEF SchedTypeOK
<1>2. RemovalAhead' <=> RemovalAhead  BY <1>1 DEF RemovalAhead, Waits
<1>3. \A v \in Worker : Carries(v, "RemoveDeadPPPs")' <=> Carries(v, "RemoveDeadPPPs")
  BY <1>1 DEF Carries
<1>4. AtMostOne("RemoveDeadPPPs")'
  BY <1>1, <1>3 DEF RegistryFits, AtMostOne, Waits
<1>5. UNCHANGED <<stage, heap, fwd, reached, ppps, kept>>  OBVIOUS
<1> QED BY <1>1, <1>2, <1>3, <1>4, <1>5, FrameRegistryFits DEF Somewhere, Waits

(* retain_mut keeps an entry at the address its object will survive at.    *)
LEMMA RetainRegistryFits ==
  ASSUME PinInv, HeapFits, RegistryFits, NEW w \in Worker, RetainPPP(w)
  PROVE  RegistryFits'
<1> USE DEF PinInv
<1>1. /\ UNCHANGED <<stage, heap, fwd, reached, ppps, bucket, running, step>>
      /\ Carries(w, "RemoveDeadPPPs") /\ cursor \in DOMAIN ppps
      /\ kept' = kept \o Retained(ppps[cursor])
  BY DEF RetainPPP, Runs, Carries, coreVars, heapVars, schedVars, pinLocals, PPPTyped
<1> DEFINE r == ppps[cursor]
<1>2. r \in Addr  BY <1>1 DEF PPPTyped
<1>3. r \in reached => /\ Forward(r) \in Survivor /\ Forward(r) \in Addr
                       /\ heap[Forward(r)] = heap[r]
  BY <1>2 DEF Forward, Survivor, HeapFits, PPPTyped, CoreTypeOK
<1>4. ASSUME NEW i \in DOMAIN kept'
      PROVE  /\ kept'[i] \in Survivor
             /\ \E j \in DOMAIN ppps : heap[kept'[i]] = heap[ppps[j]]
  <2>1. kept \in Seq(Addr)  BY DEF PPPTyped
  <2>2. CASE Retained(r) = <<>>
    <3>1. kept' = kept  BY <1>1, <2>1, <2>2
    <3> QED BY <3>1 DEF RegistryFits
  <2>3. CASE Retained(r) = <<Forward(r)>> /\ r \in reached
    <3>1. \/ i \in DOMAIN kept /\ kept'[i] = kept[i]
          \/ kept'[i] = Forward(r)
      BY <1>1, <1>3, <2>1, <2>3
    <3> QED BY <1>1, <1>3, <2>3, <3>1 DEF RegistryFits
  <2> QED BY <2>2, <2>3 DEF Retained, IsReachable
<1>5. Survivor' = Survivor /\ (RemovalAhead' <=> RemovalAhead) /\ (RemovalDone' <=> RemovalDone)
  BY <1>1 DEF Survivor, RemovalDone, RemovalAhead, Runs, Somewhere, Waits, Carries
<1>6. /\ AtMostOne("RemoveDeadPPPs")' /\ Carries(w, "RemoveDeadPPPs")'
      /\ Somewhere("RemoveDeadPPPs")' <=> Somewhere("RemoveDeadPPPs")
  BY <1>1 DEF RegistryFits, AtMostOne, Somewhere, Waits, Carries
<1> QED BY <1>1, <1>4, <1>5, <1>6 DEF RegistryFits

(* What RemoveDeadPPPs leaves in the registry survives.                    *)
LEMMA RemoveDeadRegistryFits ==
  ASSUME PinInv, RegistryFits, NEW w \in Worker, RemoveDeadPPPs(w)
  PROVE  RegistryFits'
<1> USE DEF RemoveDeadPPPs, Finish, Runs, heapVars, pinLocals, PinInv
<1>1. /\ Carries(w, "RemoveDeadPPPs") /\ bucket' = bucket /\ step' = step
      /\ \A v \in Worker : running'[v] = IF v = w THEN NoPacket ELSE running[v]
  BY DEF Carries, SchedTypeOK
<1>2. ~RemovalAhead  BY <1>1 DEF RegistryFits, Somewhere
<1>3. ~RemovalAhead'  BY <1>1, <1>2 DEF RemovalAhead, Waits
<1>4. ~Somewhere("RemoveDeadPPPs")' /\ AtMostOne("RemoveDeadPPPs")'
  BY <1>1 DEF RegistryFits, AtMostOne, Somewhere, Waits, Carries
<1>5. ppps' = kept /\ kept' = <<>> /\ heap' = heap /\ Survivor' = Survivor
  BY DEF Survivor
<1>6. \A i \in DOMAIN kept : kept[i] \in Survivor /\ heap[kept[i]] # Free
  BY DEF RegistryFits
<1> QED BY <1>3, <1>4, <1>5, <1>6 DEF RegistryFits

LEMMA NextRegistryFits == PinInv /\ HeapFits /\ RegistryFits /\ [Next]_vars => RegistryFits'
<1> SUFFICES ASSUME PinInv, HeapFits, RegistryFits, [Next]_vars PROVE RegistryFits'
  OBVIOUS
<1>1. CASE Mutator  BY <1>1, MutatorRegistryFits
<1>2. CASE Tracing  BY <1>2, TracingRegistryFits
<1>3. CASE NextStage  BY <1>3, NextStageRegistryFits
<1>4. ASSUME NEW w \in Worker, WorkerStep(w)
      PROVE  RegistryFits'
  BY <1>4, TakeRegistryFits, PinningRegistryFits, AddRemoveRegistryFits, AddUnpinRegistryFits,
     UnpinRegistryFits, RetainRegistryFits, RemoveDeadRegistryFits DEF WorkerStep
<1>5. CASE UNCHANGED vars
  <2> USE <1>5 DEF vars, coreVars, heapVars, schedVars, pppVars, localVars, pinLocals,
                   retainLocals
  <2>1. /\ RemovalAhead' <=> RemovalAhead
        /\ Somewhere("RemoveDeadPPPs")' <=> Somewhere("RemoveDeadPPPs")
        /\ \A w \in Worker : Carries(w, "RemoveDeadPPPs")' <=> Carries(w, "RemoveDeadPPPs")
        /\ AtMostOne("RemoveDeadPPPs")'
    BY DEF RemovalAhead, Runs, Somewhere, Waits, Carries, RegistryFits, AtMostOne
  <2> QED BY <2>1, FrameRegistryFits
<1> QED BY <1>1, <1>2, <1>3, <1>4, <1>5 DEF Next, Collector
-----------------------------------------------------------------------------
(* The children of the entries.                                            *)

(* chunks(packet_size) leaves no entry out.                                *)
LEMMA PinPacketsCover ==
  ASSUME PPPTyped, NEW i \in DOMAIN ppps
  PROVE  \E p \in PinPackets : ppps[i] \in p.refs
<1> DEFINE hi == Len(ppps) + 1
<1>1. Len(ppps) \in Nat /\ i \in 1 .. hi - 1 /\ hi \in Int  BY DEF PPPTyped
<1>2. PICK b \in StepBy(1, hi, ChunkSize) : b <= i /\ i < b + ChunkSize
  <2> HIDE DEF hi
  <2> QED BY <1>1, StepByCovers, PPPAssumption
<1> DEFINE refs == {ppps[j] : j \in b .. SmallerOf(b + ChunkSize, hi) - 1}
<1>3. b \in Int  BY <1>1 DEF StepBy
<1>4. i \in b .. SmallerOf(b + ChunkSize, hi) - 1
  BY <1>1, <1>2, <1>3, PPPAssumption DEF SmallerOf
<1>5. ppps[i] \in refs  BY <1>4
<1>6. Packet("PinPPPChildren", b, refs) \in PinPackets  BY DEF PinPackets
<1>7. Packet("PinPPPChildren", b, refs).refs = refs  BY DEF Packet
<1> QED BY <1>5, <1>6, <1>7

LEMMA StopAllMutatorsKids ==
  ASSUME PinInv, HeapFits, NEW mayMove \in BOOLEAN, StopAllMutators(mayMove)
  PROVE  KidsCovered' /\ PinnedChildrenStay'
<1> USE DEF StopAllMutators, StartGC, pppVars
<1>1. stage = "Mutator" /\ stage' = "Prepare" /\ fwd' = fwd /\ ppps' = ppps
      /\ moving' = mayMove
  OBVIOUS
<1>2. PinnedChildrenStay'
  BY <1>1 DEF HeapFits, PinnedChildrenStay, Forward, AddrsOf
<1>3. ASSUME mayMove, NEW i \in DOMAIN ppps
      PROVE  \E p \in bucket'["Prepare"] : ppps'[i] \in p.refs
  <2>1. bucket'["Prepare"] = PinPackets
    BY <1>3 DEF PinInv, SchedTypeOK, GCStage
  <2> QED BY <1>1, <2>1, PinPacketsCover DEF PinInv
<1>4. KidsCovered'
  BY <1>1, <1>3 DEF KidsCovered, PinAhead
<1> QED BY <1>2, <1>4

(* A child of an entry is pinned, so it is not what is copied, nor is a    *)
(* copy of it made.                                                        *)
LEMMA TraceAndCopyKids ==
  ASSUME PinInv, RegistryFits, KidsCovered, PinnedChildrenStay,
         NEW a \in Addr, NEW b \in Addr, TraceAndCopy(a, b), UNCHANGED pppVars
  PROVE  KidsCovered' /\ PinnedChildrenStay'
<1> USE DEF TraceAndCopy, pppVars
<1>1. /\ stage = "Closure" /\ stage' = stage /\ moving /\ moving' = moving
      /\ pinned' = pinned /\ edges' = edges /\ ppps' = ppps /\ plain' = plain
      /\ a \notin pinned /\ heap[b] = Free
  OBVIOUS
<1>2. /\ \A c \in Addr : heap'[c] = IF c = b THEN heap[a] ELSE heap[c]
      /\ \A c \in Addr : c # a => fwd'[c] = fwd[c]
  BY DEF PinInv, PPPTyped, CoreTypeOK
<1>3. ASSUME NEW i \in DOMAIN ppps', IsPPP(ppps[i])', NEW x \in Kids(ppps[i])'
      PROVE  x \in pinned /\ x \in Kids(ppps[i]) /\ x # a
  <2>1. i \in DOMAIN ppps /\ ppps[i] \in Addr /\ ppps[i] # b
    BY <1>1 DEF RegistryFits, PinInv, PPPTyped
  <2>2. heap'[ppps[i]] = heap[ppps[i]] /\ IsPPP(ppps[i])
    BY <1>1, <1>2, <1>3, <2>1 DEF IsPPP
  <2>3. x \in Addr /\ heap'[x] \in edges[heap[ppps[i]]] \cap PinKids
    BY <1>1, <1>3, <2>2 DEF Kids, AddrsOf
  <2>4. \A y \in Kids(ppps[i]) : y \in pinned
    BY <1>1, <2>1, <2>2 DEF KidsCovered
  <2>5. x # b
    <3> SUFFICES ASSUME x = b PROVE FALSE
      OBVIOUS
    <3>1. a \in Kids(ppps[i])  BY <1>2, <2>3 DEF Kids, AddrsOf
    <3> QED BY <1>1, <2>4, <3>1
  <2>6. x \in Kids(ppps[i])  BY <1>2, <2>3, <2>5 DEF Kids, AddrsOf
  <2> QED BY <1>1, <2>4, <2>6
<1>4. KidsCovered'
  BY <1>1, <1>3 DEF KidsCovered
<1>5. PinnedChildrenStay'
  <2> SUFFICES ASSUME NEW i \in DOMAIN ppps', IsPPP(ppps[i])', NEW x \in Kids(ppps[i])'
               PROVE  Forward(x)' = x
    BY <1>1 DEF PinnedChildrenStay, IsPPP, Kids
  <2>1. x \in Addr /\ x # a /\ x \in Kids(ppps[i])  BY <1>3 DEF Kids, AddrsOf
  <2>2. IsPPP(ppps[i]) /\ i \in DOMAIN ppps
    BY <1>1, <1>2 DEF IsPPP, RegistryFits, PinInv, PPPTyped
  <2>3. fwd[x] = x
    BY <1>1, <2>1, <2>2 DEF PinnedChildrenStay, IsPPP, Kids, Forward
  <2> QED BY <1>2, <2>1, <2>3 DEF Forward
<1> QED BY <1>4, <1>5

(* Steps that leave the entries, their children and forwarding alone.      *)
LEMMA FrameStay ==
  ASSUME PinnedChildrenStay, stage # "Mutator",
         UNCHANGED <<heap, fwd, edges, plain, ppps>>
  PROVE  PinnedChildrenStay'
BY DEF PinnedChildrenStay, AddrsOf, Forward

(* A step of Prepare only has to see to it that no pin ahead gets lost.    *)
LEMMA FrameKids ==
  ASSUME KidsCovered, UNCHANGED <<stage, moving, heap, edges, plain, ppps>>,
         \A i \in DOMAIN ppps : \A a \in Kids(ppps[i]) :
           /\ a \in pinned => a \in pinned'
           /\ IsPPP(ppps[i]) /\ PinAhead(ppps[i], a) => a \in pinned' \/ PinAhead(ppps[i], a)'
  PROVE  KidsCovered'
<1>1. \A r : Kids(r)' = Kids(r) /\ (IsPPP(r)' <=> IsPPP(r))
  BY DEF Kids, IsPPP, AddrsOf
<1> QED BY <1>1 DEF KidsCovered

LEMMA NextStageKids ==
  ASSUME PinInv, KidsCovered, PinnedChildrenStay, NextStage
  PROVE  KidsCovered' /\ PinnedChildrenStay'
<1> USE DEF Advance, heapVars, schedVars, pppVars
<1>1. CASE EndPrepare
  <2>1. \A r \in Addr, a \in Addr : ~PinAhead(r, a)
    BY <1>1 DEF EndPrepare, PinAhead, Runs
  <2>2. stage = "Prepare" /\ stage' = "Closure" /\ \A i \in DOMAIN ppps : ppps[i] \in Addr
    BY <1>1 DEF EndPrepare, PinInv, PPPTyped
  <2>3. KidsCovered'
    BY <1>1, <2>1, <2>2 DEF EndPrepare, NextStage, KidsCovered, Kids, IsPPP, AddrsOf
  <2> QED BY <1>1, <2>2, <2>3, FrameStay DEF EndPrepare, NextStage
<1>2. CASE EndClosure(Sentinel)
  BY <1>2, FrameStay DEF EndClosure, NextStage, KidsCovered
<1>3. CASE EndVMRefClosure
  BY <1>3, FrameStay DEF EndVMRefClosure, NextStage, KidsCovered
<1>4. CASE Reclaim
  BY <1>4 DEF Reclaim, KidsCovered, PinnedChildrenStay
<1> QED BY <1>1, <1>2, <1>3, <1>4 DEF NextStage

LEMMA TakeKids ==
  ASSUME PinInv, KidsCovered, PinnedChildrenStay,
         NEW w \in Worker, NEW s \in GCStage, NEW p \in bucket[s], Take(w, p)
  PROVE  KidsCovered' /\ PinnedChildrenStay'
<1> USE DEF Take, TakePacket, heapVars, pppVars, localVars, pinLocals
<1>0. running[w] = NoPacket /\ stage = s /\ s \in {"Prepare", "VMRefClosure"}
  BY DEF PinInv, PacketsFit
<1>1. /\ running[w] = NoPacket /\ stage = s /\ s \in {"Prepare", "VMRefClosure"}
      /\ p # NoPacket /\ step[w] = "start"
      /\ bucket' = [bucket EXCEPT ![s] = @ \ {p}]
      /\ \A v \in Worker : running'[v] = IF v = w THEN p ELSE running[v]
  <2>1. p # NoPacket  BY PPPAssumption DEF PinInv, SchedTypeOK
  <2>2. step[w] = "start"  BY <1>0 DEF PinInv, StepsFit, Carries, PPPTyped
  <2>3. \A v \in Worker : running'[v] = IF v = w THEN p ELSE running[v]
    BY DEF PinInv, SchedTypeOK
  <2> QED BY <1>0, <2>1, <2>2, <2>3
<1>2. s = "Prepare" => /\ p.kind = "PinPPPChildren"
                       /\ \A q \in bucket["Prepare"] : q = p \/ q \in bucket'["Prepare"]
  BY <1>1 DEF PinInv, PacketsFit, SchedTypeOK
<1>3. s # "Prepare" => bucket'["Prepare"] = bucket["Prepare"]
  BY <1>1 DEF PinInv, SchedTypeOK, GCStage
<1>4. ASSUME NEW r, NEW a, PinAhead(r, a)
      PROVE  PinAhead(r, a)'
  <2>1. CASE \E q \in bucket["Prepare"] : r \in q.refs
    BY <1>1, <1>2, <1>3, <2>1 DEF PinAhead, Runs
  <2>2. CASE \E v \in Worker : Runs(v, "PinPPPChildren", "start") /\ r \in running[v].refs
    BY <1>1, <2>2 DEF PinAhead, Runs
  <2>3. CASE \E v \in Worker : Runs(v, "PinPPPChildren", "pin") /\ a \in children[v]
    BY <1>1, <2>3 DEF PinAhead, Runs
  <2> QED BY <1>4, <2>1, <2>2, <2>3 DEF PinAhead
<1>5. KidsCovered'  BY <1>4, FrameKids
<1> QED BY <1>5, FrameStay

LEMMA PinnedFieldsComplete ==
  ASSUME NEW refs, NEW r \in refs, heap[r] \notin plain,
         NEW a \in Addr, heap[a] \in edges[heap[r]], heap[a] \in PinKids
  PROVE  a \in PinnedFields(refs)
<1> DEFINE P == {b \in refs : heap[b] \notin plain}
<1>1. r \in P  OBVIOUS
<1> HIDE DEF P
<1>2. edges[heap[r]] \in {edges[heap[d]] : d \in P}  BY <1>1
<1>3. heap[a] \in UNION {edges[heap[d]] : d \in P}  BY <1>2
<1>4. a \in AddrsOf(PinKids \cap UNION {edges[heap[d]] : d \in P})
  BY <1>3 DEF AddrsOf
<1> QED BY <1>4, Zenon DEF PinnedFields, P

(* PinPPPChildren hands its PPPs on to its children, and these to the      *)
(* pinning bits.                                                           *)
LEMMA PinningKids ==
  ASSUME PinInv, KidsCovered, PinnedChildrenStay, NEW w \in Worker,
         VisitPPPs(w) \/ (\E a \in children[w] : PinChild(w, a)) \/ AppendPinned(w)
  PROVE  KidsCovered' /\ PinnedChildrenStay'
<1> USE DEF Runs, PinInv, coreVars, heapVars, schedVars, retainLocals
<1>1. UNCHANGED <<stage, moving, heap, fwd, edges, plain, ppps, bucket>> /\ stage = "Prepare"
  BY DEF VisitPPPs, PinChild, AppendPinned, PacketsFit
<1>2. PinnedChildrenStay'  BY <1>1, FrameStay
<1>3. CASE VisitPPPs(w)
  <2> USE <1>3 DEF VisitPPPs
  <2>1. /\ pinned' = pinned /\ running' = running
        /\ \A v \in Worker \ {w} : children'[v] = children[v] /\ step'[v] = step[v]
        /\ step'[w] = "pin" /\ step[w] = "start"
        /\ children'[w] = PinnedFields(running[w].refs)
    BY DEF PPPTyped
  <2>2. ASSUME NEW i \in DOMAIN ppps, IsPPP(ppps[i]), NEW a \in Kids(ppps[i]),
               PinAhead(ppps[i], a)
        PROVE  PinAhead(ppps[i], a)'
    <3> DEFINE r == ppps[i]
    <3>1. CASE \E v \in Worker \ {w} :
                 \/ Runs(v, "PinPPPChildren", "start") /\ r \in running[v].refs
                 \/ Runs(v, "PinPPPChildren", "pin") /\ a \in children[v]
      BY <2>1, <3>1 DEF PinAhead
    <3>2. CASE r \in running[w].refs
      <4>1. a \in children'[w]
        <5>1. a \in Addr /\ heap[a] \in edges[heap[r]] /\ heap[a] \in PinKids
          BY <2>2 DEF Kids, AddrsOf
        <5>2. heap[r] \notin plain  BY <2>2 DEF IsPPP
        <5>3. a \in PinnedFields(running[w].refs)
          BY <3>2, <5>1, <5>2, PinnedFieldsComplete
        <5> QED BY <2>1, <5>3
      <4> QED BY <2>1, <4>1 DEF PinAhead
    <3>3. CASE \E p \in bucket["Prepare"] : r \in p.refs
      BY <1>1, <3>3 DEF PinAhead
    <3> QED BY <2>1, <2>2, <3>1, <3>2, <3>3 DEF PinAhead
  <2>3. KidsCovered'  BY <1>1, <2>1, <2>2, FrameKids
  <2> QED BY <1>2, <2>3
<1>4. ASSUME NEW c \in children[w], PinChild(w, c)
      PROVE  KidsCovered'
  <2>1. /\ pinned' = pinned \cup {c} /\ running' = running /\ step' = step
        /\ \A v \in Worker : \A a \in children[v] : a = c \/ a \in children'[v]
    BY <1>4 DEF PinChild, PPPTyped
  <2>2. \A r, a : PinAhead(r, a) => a \in pinned' \/ PinAhead(r, a)'
    BY <1>1, <2>1 DEF PinAhead
  <2> QED BY <1>1, <2>1, <2>2, FrameKids
<1>5. CASE AppendPinned(w)
  <2>1. /\ pinned' = pinned /\ children' = children /\ children[w] = {}
        /\ \A v \in Worker \ {w} : running'[v] = running[v] /\ step'[v] = step[v]
        /\ step[w] = "pin"
    BY <1>5 DEF AppendPinned, Finish, SchedTypeOK, PPPTyped
  <2>2. \A r, a : PinAhead(r, a) => PinAhead(r, a)'
    BY <1>1, <2>1 DEF PinAhead
  <2> QED BY <1>1, <1>2, <2>1, <2>2, FrameKids
<1> QED BY <1>2, <1>3, <1>4, <1>5

LEMMA WeakStuffKids ==
  ASSUME PinInv, RegistryFits, PinnedChildrenStay, NEW w \in Worker,
         \/ AddRemoveDeadPPPs(w) \/ AddUnpinPPPChildren(w) \/ RetainPPP(w)
         \/ RemoveDeadPPPs(w) \/ UnpinPPPChildren(w)
  PROVE  KidsCovered' /\ PinnedChildrenStay'
<1> USE DEF AddRemoveDeadPPPs, AddUnpinPPPChildren, RetainPPP, RemoveDeadPPPs,
            UnpinPPPChildren, coreVars, heapVars
<1>1. stage = "VMRefClosure" /\ UNCHANGED <<stage, heap, fwd, edges, plain>>
  BY DEF Runs, PinInv, PacketsFit
<1>2. KidsCovered'  BY <1>1 DEF KidsCovered
<1>3. CASE ppps' = ppps  BY <1>1, <1>2, <1>3, FrameStay
<1>4. CASE ppps' = kept
  <2>1. \A i \in DOMAIN kept : \E j \in DOMAIN ppps : heap[kept[i]] = heap[ppps[j]]
    BY DEF RegistryFits
  <2> QED BY <1>1, <1>2, <1>4, <2>1 DEF PinnedChildrenStay, AddrsOf, Forward
<1>5. ppps' = ppps \/ ppps' = kept  OBVIOUS
<1> QED BY <1>2, <1>3, <1>4, <1>5

LEMMA NextKids ==
  ASSUME RegistryInv, [Next]_vars
  PROVE  KidsCovered' /\ PinnedChildrenStay'
<1> USE DEF RegistryInv
<1>1. CASE Mutator
  <2>1. ASSUME NEW mayMove \in BOOLEAN, StopAllMutators(mayMove)
        PROVE  KidsCovered' /\ PinnedChildrenStay'
    BY <2>1, StopAllMutatorsKids
  <2>2. stage' = "Mutator" \/ \E mayMove \in BOOLEAN : StopAllMutators(mayMove)
    BY <1>1 DEF Mutator, New, Alloc, Forget, Drop, SetFields, Write, Register, BecomePlain,
                UserPin, UserUnpin,
                coreVars
  <2> QED BY <2>1, <2>2 DEF KidsCovered, PinnedChildrenStay
<1>2. CASE Tracing
  <2>1. ASSUME NEW a \in Addr, TraceInPlace(a)
        PROVE  KidsCovered' /\ PinnedChildrenStay'
    <3>1. /\ stage = "Closure" /\ UNCHANGED <<stage, moving, heap, fwd, edges, pinned>>
          /\ UNCHANGED <<ppps, plain>>
      BY <1>2, <2>1 DEF TraceInPlace, Tracing, pppVars
    <3>2. KidsCovered'  BY <3>1 DEF KidsCovered, Kids, IsPPP, AddrsOf
    <3> QED BY <3>1, <3>2, FrameStay
  <2> QED BY <1>2, <2>1, TraceAndCopyKids DEF Tracing
<1>3. CASE NextStage  BY <1>3, NextStageKids
<1>4. ASSUME NEW w \in Worker, WorkerStep(w)
      PROVE  KidsCovered' /\ PinnedChildrenStay'
  BY <1>4, TakeKids, PinningKids, WeakStuffKids DEF WorkerStep
<1>5. CASE UNCHANGED vars
  <2> USE <1>5 DEF vars, coreVars, heapVars, schedVars, pppVars, localVars, pinLocals
  <2>1. KidsCovered'  BY DEF KidsCovered, Kids, IsPPP, AddrsOf, PinAhead, Runs
  <2>2. PinnedChildrenStay'  BY DEF PinnedChildrenStay, AddrsOf, Forward
  <2> QED BY <2>1, <2>2
<1> QED BY <1>1, <1>2, <1>3, <1>4, <1>5 DEF Next, Collector

LEMMA InitRegistryInv == PPPInit => RegistryInv
<1> SUFFICES ASSUME PPPInit PROVE RegistryInv
  OBVIOUS
<1>1. PinInv  BY InitPinInv
<1> USE DEF PPPInit, CoreInit
<1>2. HeapFits  BY DEF HeapFits
<1>3. RegistryFits
  <2>1. ~RemovalDone /\ ~RemovalAhead /\ AtMostOne("RemoveDeadPPPs")
    BY DEF RemovalDone, RemovalAhead, AtMostOne, Waits, Runs, Carries, GCStage
  <2> QED BY <2>1 DEF RegistryFits
<1>4. KidsCovered /\ PinnedChildrenStay  BY DEF KidsCovered, PinnedChildrenStay
<1> QED BY <1>1, <1>2, <1>3, <1>4 DEF RegistryInv

LEMMA NextRegistryInv == RegistryInv /\ [Next]_vars => RegistryInv'
BY NextPinInv, NextHeapFits, NextRegistryFits, NextKids DEF RegistryInv

(* Every reachable state satisfies the registry invariant.                 *)
THEOREM RegistryInvariant == Spec => []RegistryInv
BY InitRegistryInv, NextRegistryInv, PTL DEF Spec

(* What a registered PPP refers to with pin = true is never moved, in any  *)
(* heap, for any cut of the registry into packets and any order in which   *)
(* the workers run them.                                                   *)
THEOREM ChildrenStay == Spec => []PinnedChildrenStay
<1>1. RegistryInv => PinnedChildrenStay  BY DEF RegistryInv
<1> QED BY <1>1, RegistryInvariant, PTL

(* When the program runs, every entry of the registry is the address of an *)
(* object on the heap: entries were dropped or forwarded before Release.   *)
THEOREM RegistryDoesNotDangle == Spec => []NoDanglingPPP
<1>1. RegistryInv => NoDanglingPPP  BY DEF RegistryInv, RegistryFits, NoDanglingPPP
<1> QED BY <1>1, RegistryInvariant, PTL
-----------------------------------------------------------------------------
(* The registry as WeakRegistry tells it.                                  *)
(*                                                                         *)
(* LiveInv adds what is needed to see that no PPP still in use is dropped: *)
(* every live object is in from-space and, once tracing has ended, was     *)
(* reached there (LiveFits); the entries RemoveDeadPPPs has yet to look at *)
(* are still from-space addresses, so that is_reachable tells the truth    *)
(* about them; and what it has passed over and still needs is in what it   *)
(* keeps (RetainFits).                                                     *)

LiveFits ==
  /\ \A o \in live : \E a \in FromSpace : heap[a] = o
  /\ stage \in {"VMRefClosure", "Release"} =>
       \A a \in FromSpace : heap[a] \in live => a \in reached

EntriesInFromSpace == ~RemovalDone => \A i \in DOMAIN ppps : ppps[i] \in FromSpace

RetainFits ==
  /\ ~(\E w \in Worker : Carries(w, "RemoveDeadPPPs")) => cursor = 1
  /\ \A i \in DOMAIN ppps : i < cursor /\ heap[ppps[i]] \in live \ plain =>
       \E j \in DOMAIN kept : heap[kept[j]] = heap[ppps[i]]

LiveInv == RegistryInv /\ LiveFits /\ EntriesInFromSpace /\ RetainFits

(* Copying adds an address, and no object, to the heap.                    *)
LEMMA CopyAddsNoObject ==
  ASSUME PinInv, HeapFits, NEW a \in Addr, NEW b \in Addr, TraceAndCopy(a, b)
  PROVE  /\ FromSpace' = FromSpace /\ OnHeap' = OnHeap
         /\ \A c \in Addr : heap[c] # Free => heap'[c] = heap[c]
<1> USE DEF TraceAndCopy, PinInv, PPPTyped, CoreTypeOK
<1>1. heap[a] # Free /\ heap[b] = Free /\ a # b  BY DEF FromSpace
<1>2. /\ \A c \in Addr : heap'[c] = IF c = b THEN heap[a] ELSE heap[c]
      /\ \A c \in Addr : fwd'[c] = IF c = a THEN b ELSE fwd[c]
  OBVIOUS
<1>3. fwd[a] = a /\ fwd[b] = b  BY <1>1 DEF HeapFits, FromSpace
<1>4. OnHeap' = OnHeap  BY <1>1, <1>2 DEF OnHeap
<1>5. ASSUME NEW c \in Addr
      PROVE  c \in FromSpace' <=> c \in FromSpace
  <2>1. CASE c = b  BY <1>1, <1>2, <2>1 DEF FromSpace
  <2>2. CASE c # b
    <3>1. heap'[c] = heap[c]  BY <1>2, <2>2
    <3>2. \A d \in Addr : fwd'[d] = c /\ d # c <=> d # a /\ fwd[d] = c /\ d # c
      BY <1>2, <2>2
    <3>3. \A d \in Addr : fwd[d] = c /\ d # c => d # a  BY <1>3
    <3> QED BY <3>1, <3>2, <3>3 DEF FromSpace
  <2> QED BY <2>1, <2>2
<1>6. FromSpace' = FromSpace  BY <1>5 DEF FromSpace
<1> QED BY <1>1, <1>2, <1>4, <1>6

(* Without forwarding, from-space is the heap.                             *)
LEMMA UnmovedFromSpace ==
  ASSUME \A a \in Addr : fwd[a] = a
  PROVE  FromSpace = {a \in Addr : heap[a] # Free}
BY DEF FromSpace

LEMMA MutatorLiveFits ==
  ASSUME RegistryInv, LiveFits, Mutator
  PROVE  LiveFits' /\ EntriesInFromSpace'
<1> USE DEF RegistryInv, PinInv, PPPTyped, CoreTypeOK
<1>1. RegistryInv'  BY NextRegistryInv DEF Next
<1>2. stage = "Mutator" /\ stage' \in {"Mutator", "Prepare"}
  BY DEF Mutator, New, Alloc, Forget, Drop, SetFields, Write, Register, BecomePlain,
         UserPin, UserUnpin, StopAllMutators, StartGC, coreVars
<1>3. \A a \in Addr : fwd[a] = a /\ fwd'[a] = a  BY <1>1, <1>2 DEF HeapFits
<1>4. FromSpace = {a \in Addr : heap[a] # Free}  BY <1>3, UnmovedFromSpace
<1>5. FromSpace' = {a \in Addr : heap'[a] # Free}  BY <1>3 DEF FromSpace
<1>6. EntriesInFromSpace'
  BY <1>1, <1>5 DEF EntriesInFromSpace, RegistryFits
<1>7. ASSUME NEW o \in Obj, NEW a \in Addr, NEW S \in SUBSET live, New(o, a, S)
      PROVE  \A x \in live' : \E c \in FromSpace' : heap'[c] = x
  <2>1. \A c \in Addr : heap'[c] = IF c = a THEN o ELSE heap[c]
    BY <1>7 DEF New, Alloc
  <2>2. o # Free /\ heap[a] = Free /\ live' = live \cup {o}
    BY <1>7, CoreAssumption DEF New, Alloc
  <2> QED BY <1>4, <1>5, <2>1, <2>2 DEF LiveFits
<1>8. \/ heap' = heap /\ live' \subseteq live
      \/ \E o \in Obj, a \in Addr : \E S \in SUBSET live : New(o, a, S)
  BY DEF Mutator, Forget, Drop, SetFields, Write, Register, BecomePlain, UserPin, UserUnpin,
         StopAllMutators, StartGC, coreVars, heapVars
<1>9. \A x \in live' : \E c \in FromSpace' : heap'[c] = x
  BY <1>4, <1>5, <1>7, <1>8 DEF LiveFits
<1> QED BY <1>2, <1>6, <1>9 DEF LiveFits

(* A collection loses no live object, and finds all of them.               *)
LEMMA NextStageLiveFits ==
  ASSUME RegistryInv, LiveFits, EntriesInFromSpace, NextStage
  PROVE  LiveFits' /\ EntriesInFromSpace'
<1> USE DEF RegistryInv, Advance, heapVars, pppVars
<1>1. RegistryInv'  BY NextRegistryInv DEF Next, Collector
<1>2. ppps' = ppps /\ live' = live
  BY DEF NextStage, EndPrepare, EndClosure, EndVMRefClosure, Reclaim
<1>3. CASE EndPrepare \/ EndClosure(Sentinel)
  <2>1. /\ FromSpace' = FromSpace /\ UNCHANGED <<heap, live, reached>>
        /\ stage \in {"Prepare", "Closure"} /\ stage' # "Release"
    BY <1>3 DEF EndPrepare, EndClosure, FromSpace
  <2>2. stage' = "VMRefClosure" => \A a \in FromSpace : heap[a] \in live => a \in reached
    BY <1>3 DEF EndPrepare, EndClosure
  <2>3. ~RemovalDone  BY <2>1 DEF RemovalDone
  <2> QED BY <1>2, <2>1, <2>2, <2>3 DEF LiveFits, EntriesInFromSpace
<1>4. CASE EndVMRefClosure
  <2>1. /\ FromSpace' = FromSpace /\ UNCHANGED <<heap, live, reached>>
        /\ stage = "VMRefClosure" /\ stage' = "Release"
    BY <1>4 DEF EndVMRefClosure, FromSpace
  <2> QED BY <2>1 DEF LiveFits, EntriesInFromSpace, RemovalDone
<1>5. CASE Reclaim
  <2>1. /\ stage = "Release" /\ stage' = "Mutator" /\ \A a \in Addr : fwd'[a] = a
        /\ \A a \in Addr : a \in Survivor => heap'[a] = heap[a]
    BY <1>5 DEF Reclaim
  <2>2. FromSpace' = {a \in Addr : heap'[a] # Free}  BY <2>1 DEF FromSpace
  <2>3. ASSUME NEW o \in live
        PROVE  \E c \in FromSpace' : heap'[c] = o
    <3>1. PICK a \in FromSpace : heap[a] = o  BY DEF LiveFits
    <3>2. a \in Addr /\ a \in reached /\ heap[a] # Free
      BY <2>1, <3>1 DEF LiveFits, FromSpace
    <3>3. fwd[a] \in Survivor /\ fwd[a] \in Addr /\ heap[fwd[a]] = o
      BY <3>1, <3>2 DEF Survivor, HeapFits, PinInv, PPPTyped, CoreTypeOK
    <3> QED BY <2>1, <2>2, <3>1, <3>2, <3>3
  <2>4. EntriesInFromSpace'
    BY <1>1, <2>2 DEF EntriesInFromSpace, RegistryFits, PinInv, PPPTyped
  <2> QED BY <1>2, <2>1, <2>3, <2>4 DEF LiveFits
<1> QED BY <1>3, <1>4, <1>5 DEF NextStage

LEMMA TracingLiveFits ==
  ASSUME RegistryInv, LiveFits, EntriesInFromSpace, Tracing
  PROVE  /\ LiveFits' /\ EntriesInFromSpace' /\ OnHeap' = OnHeap
         /\ \A i \in DOMAIN ppps : heap'[ppps[i]] = heap[ppps[i]]
<1> USE DEF RegistryInv, pppVars
<1>1. /\ stage = "Closure" /\ stage' = "Closure" /\ ppps' = ppps /\ live' = live
      /\ ~RemovalDone
  BY DEF Tracing, TraceInPlace, TraceAndCopy, RemovalDone
<1>2. /\ FromSpace' = FromSpace /\ OnHeap' = OnHeap
      /\ \A c \in Addr : heap[c] # Free => heap'[c] = heap[c]
  <2>1. ASSUME NEW a \in Addr, TraceInPlace(a)
        PROVE  heap' = heap /\ fwd' = fwd
    BY <2>1 DEF TraceInPlace
  <2>2. heap' = heap /\ fwd' = fwd => FromSpace' = FromSpace /\ OnHeap' = OnHeap
    BY DEF FromSpace, OnHeap
  <2> QED BY <2>1, <2>2, CopyAddsNoObject DEF Tracing
<1>3. \A i \in DOMAIN ppps : ppps[i] \in Addr /\ heap[ppps[i]] # Free
  BY DEF RegistryFits, PinInv, PPPTyped
<1>4. \A c \in FromSpace : c \in Addr /\ heap[c] # Free  BY DEF FromSpace
<1> QED BY <1>1, <1>2, <1>3, <1>4 DEF LiveFits, EntriesInFromSpace

(* Worker steps change neither the heap nor what is live.                  *)
LEMMA WorkerKeepsHeap ==
  ASSUME NEW w \in Worker, WorkerStep(w)
  PROVE  /\ UNCHANGED <<stage, heapVars, plain>>
         /\ RemoveDeadPPPs(w) \/ ppps' = ppps
BY DEF WorkerStep, Take, TakePacket, VisitPPPs, PinChild, AppendPinned, AddRemoveDeadPPPs,
       AddUnpinPPPChildren, RetainPPP, RemoveDeadPPPs, UnpinPPPChildren, coreVars, pppVars

(* Nobody adds a second RemoveDeadPPPs.                                    *)
LEMMA RemovalStaysDone ==
  ASSUME PinInv, NEW w \in Worker, WorkerStep(w), RemovalDone
  PROVE  RemovalDone'
<1> USE DEF PinInv, SchedTypeOK, PPPTyped, GCStage
<1>1. stage' = stage  BY WorkerKeepsHeap
<1>2. CASE stage = "VMRefClosure"
  <2> USE <1>2
  <2>1. ~RemovalAhead /\ ~Somewhere("RemoveDeadPPPs")  BY DEF RemovalDone
  <2>2. CASE \E s \in GCStage : \E p \in bucket[s] : Take(w, p)
    <3>1. PICK p \in bucket["VMRefClosure"] : Take(w, p)
      BY <2>2 DEF PacketsFit
    <3>2. p.kind # "ProcessWeakRefs" /\ p.kind # "RemoveDeadPPPs"
      BY <2>1 DEF RemovalAhead, Somewhere, Waits
    <3>3. /\ \A v \in Worker : running'[v] = IF v = w THEN p ELSE running[v]
          /\ bucket'["VMRefClosure"] \subseteq bucket["VMRefClosure"]
          /\ step' = step
      BY <3>1 DEF Take, TakePacket, pppVars, localVars, pinLocals
    <3> QED BY <1>1, <2>1, <3>2, <3>3 DEF RemovalDone, RemovalAhead, Somewhere, Waits, Carries, Runs
  <2>3. CASE AddUnpinPPPChildren(w)
    <3>1. /\ \A v \in Worker : running'[v] = IF v = w THEN NoPacket ELSE running[v]
          /\ \A v \in Worker : v # w => step'[v] = step[v]
          /\ bucket'["VMRefClosure"] = bucket["VMRefClosure"] \cup UnpinWork
      BY <2>3 DEF AddUnpinPPPChildren, Finish
    <3>2. \A p \in UnpinWork : p.kind = "UnpinPPPChildren"  BY DEF UnpinWork, Packet
    <3> QED BY <1>1, <2>1, <3>1, <3>2 DEF RemovalDone, RemovalAhead, Somewhere, Waits, Carries, Runs
  <2>4. CASE UnpinPPPChildren(w)
    <3>1. /\ \A v \in Worker : running'[v] = IF v = w THEN NoPacket ELSE running[v]
          /\ step' = step /\ bucket' = bucket
      BY <2>4 DEF UnpinPPPChildren, Finish, localVars, pinLocals
    <3> QED BY <1>1, <2>1, <3>1 DEF RemovalDone, RemovalAhead, Somewhere, Waits, Carries, Runs
  <2>5. ~VisitPPPs(w) /\ ~(\E a \in children[w] : PinChild(w, a)) /\ ~AppendPinned(w)
    BY DEF VisitPPPs, PinChild, AppendPinned, Runs, PacketsFit
  <2>6. ~AddRemoveDeadPPPs(w) /\ ~RetainPPP(w) /\ ~RemoveDeadPPPs(w)
    BY <2>1 DEF AddRemoveDeadPPPs, RetainPPP, RemoveDeadPPPs, RemovalAhead, Somewhere,
                Carries, Runs
  <2> QED BY <2>2, <2>3, <2>4, <2>5, <2>6 DEF WorkerStep
<1> QED BY <1>1, <1>2 DEF RemovalDone

LEMMA WorkerLiveFits ==
  ASSUME RegistryInv, LiveFits, EntriesInFromSpace, NEW w \in Worker, WorkerStep(w)
  PROVE  LiveFits' /\ EntriesInFromSpace'
<1> USE DEF RegistryInv
<1>1. UNCHANGED <<stage, heap, fwd, reached, live>>  BY WorkerKeepsHeap DEF heapVars
<1>2. FromSpace' = FromSpace  BY <1>1 DEF FromSpace
<1>3. LiveFits'  BY <1>1, <1>2 DEF LiveFits
<1>4. CASE RemoveDeadPPPs(w)
  <2>1. RemovalDone'
    <3>1. PinInv' /\ RegistryFits'  BY <1>4, NextRegistryInv DEF Next, Collector, WorkerStep
    <3>2. stage = "VMRefClosure" /\ Carries(w, "RemoveDeadPPPs")
      BY <1>4 DEF RemoveDeadPPPs, Runs, Carries, PinInv, PacketsFit
    <3>3. /\ \A v \in Worker : running'[v] = IF v = w THEN NoPacket ELSE running[v]
          /\ step' = step /\ bucket' = bucket
      BY <1>4 DEF RemoveDeadPPPs, Finish, pinLocals, PinInv, SchedTypeOK
    <3>4. ~RemovalAhead /\ AtMostOne("RemoveDeadPPPs")
      BY <3>2 DEF RegistryFits, Somewhere
    <3>5. ~RemovalAhead'  BY <3>3, <3>4 DEF RemovalAhead, Waits, Runs
    <3>6. ~Somewhere("RemoveDeadPPPs")'
      BY <3>2, <3>3, <3>4 DEF AtMostOne, Somewhere, Waits, Carries
    <3> QED BY <1>1, <3>2, <3>5, <3>6 DEF RemovalDone
  <2> QED BY <1>3, <2>1 DEF EntriesInFromSpace
<1>5. CASE ~RemoveDeadPPPs(w)
  <2>1. ppps' = ppps  BY <1>5, WorkerKeepsHeap
  <2> QED BY <1>2, <1>3, <2>1, RemovalStaysDone DEF EntriesInFromSpace
<1> QED BY <1>4, <1>5

(* An entry that is still needed is reachable where it stands, and kept.   *)
LEMMA RetainKeepsNeeded ==
  ASSUME LiveInv, NEW w \in Worker, RetainPPP(w)
  PROVE  RetainFits'
<1> USE DEF LiveInv, RegistryInv, PinInv, PPPTyped, CoreTypeOK
<1>1. /\ UNCHANGED <<stage, heap, fwd, reached, live, plain, ppps, running>>
      /\ Carries(w, "RemoveDeadPPPs") /\ stage = "VMRefClosure"
      /\ cursor \in DOMAIN ppps /\ cursor' = cursor + 1
      /\ kept' = kept \o Retained(ppps[cursor])
  BY DEF RetainPPP, Runs, Carries, coreVars, heapVars, schedVars, PacketsFit
<1>2. Carries(w, "RemoveDeadPPPs")'  BY <1>1 DEF Carries
<1> DEFINE r == ppps[cursor]
<1>3. r \in Addr /\ Forward(r) \in Addr  BY <1>1 DEF Forward
<1>4. kept \in Seq(Addr) /\ Retained(r) \in Seq(Addr)
  BY <1>3 DEF Retained
<1>5. \A j \in DOMAIN kept : j \in DOMAIN kept' /\ kept'[j] = kept[j]
  BY <1>1, <1>4
<1>6. ASSUME heap[r] \in live \ plain
      PROVE  \E j \in DOMAIN kept' : heap[kept'[j]] = heap[r]
  <2>1. ~RemovalDone  BY <1>1 DEF RemovalDone, Somewhere
  <2>2. r \in FromSpace  BY <1>1, <2>1 DEF EntriesInFromSpace
  <2>3. r \in reached  BY <1>1, <1>6, <2>2 DEF LiveFits
  <2>4. heap[Forward(r)] = heap[r]
    BY <1>3, <2>3 DEF Forward, HeapFits
  <2>5. Retained(r) = <<Forward(r)>>
    BY <1>6, <2>3, <2>4 DEF Retained, IsReachable
  <2>6. Len(kept) + 1 \in DOMAIN kept' /\ kept'[Len(kept) + 1] = Forward(r)
    BY <1>1, <1>3, <1>4, <2>5
  <2> QED BY <2>4, <2>6
<1>7. ASSUME NEW i \in DOMAIN ppps, i < cursor', heap[ppps[i]] \in live \ plain
      PROVE  \E j \in DOMAIN kept' : heap[kept'[j]] = heap[ppps[i]]
  <2>1. CASE i < cursor
    <3>1. PICK j \in DOMAIN kept : heap[kept[j]] = heap[ppps[i]]
      BY <1>7, <2>1 DEF RetainFits
    <3> QED BY <1>5, <3>1
  <2>2. CASE i = cursor  BY <1>6, <1>7, <2>2
  <2> QED BY <1>1, <1>7, <2>1, <2>2
<1> QED BY <1>1, <1>2, <1>7 DEF RetainFits

(* Between two runs of RemoveDeadPPPs the walk stands at the first entry.  *)
LEMMA NextRetainFits ==
  ASSUME LiveInv, [Next]_vars
  PROVE  RetainFits'
<1> USE DEF LiveInv, RegistryInv, PinInv
<1>1. ASSUME cursor' = 1
      PROVE  RetainFits'
  <2>1. RegistryInv'  BY NextRegistryInv
  <2>2. \A i \in DOMAIN ppps' : ~(i < 1)  BY <2>1 DEF PPPTyped
  <2> QED BY <1>1, <2>2 DEF RetainFits
<1>2. ASSUME stage # "VMRefClosure" \/ \A w \in Worker : running[w] = NoPacket
      PROVE  cursor = 1
  <2>1. \A w \in Worker : ~Carries(w, "RemoveDeadPPPs")
    BY <1>2 DEF Carries, PacketsFit
  <2> QED BY <2>1 DEF RetainFits
<1>3. CASE Mutator \/ Tracing \/ NextStage
  <2>1. stage # "VMRefClosure" \/ \A w \in Worker : running[w] = NoPacket
    BY <1>3 DEF Mutator, New, Alloc, Forget, Drop, SetFields, Write, Register, BecomePlain,
                UserPin, UserUnpin, StopAllMutators, StartGC, Tracing, TraceInPlace,
                TraceAndCopy, NextStage, EndPrepare, EndClosure, EndVMRefClosure, Reclaim,
                Advance
  <2>2. cursor' = cursor
    BY <1>3 DEF Mutator, New, Forget, SetFields, Register, BecomePlain,
                UserPin, UserUnpin, StopAllMutators, Tracing, NextStage,
                pppVars, localVars, retainLocals
  <2> QED BY <1>1, <1>2, <2>1, <2>2
<1>4. ASSUME NEW w \in Worker, WorkerStep(w)
      PROVE  RetainFits'
  <2>1. CASE RetainPPP(w)  BY <2>1, RetainKeepsNeeded
  <2>2. CASE RemoveDeadPPPs(w)  BY <1>1, <2>2 DEF RemoveDeadPPPs
  <2>3. CASE ~RetainPPP(w) /\ ~RemoveDeadPPPs(w)
    <3>1. UNCHANGED <<heap, live, plain, ppps, kept, cursor>>
      BY <1>4, <2>3, WorkerKeepsHeap
      DEF heapVars, WorkerStep, Take, TakePacket, VisitPPPs, PinChild, AppendPinned,
          AddRemoveDeadPPPs, AddUnpinPPPChildren, UnpinPPPChildren, pppVars, localVars,
          retainLocals
    <3>2. \A v \in Worker : Carries(v, "RemoveDeadPPPs") => Carries(v, "RemoveDeadPPPs")'
      <4>1. ~Carries(w, "RemoveDeadPPPs") \/ running' = running
        BY <1>4, <2>3
        DEF WorkerStep, Take, TakePacket, VisitPPPs, PinChild, AppendPinned,
            AddRemoveDeadPPPs, AddUnpinPPPChildren, UnpinPPPChildren, coreVars, schedVars,
            Runs, Carries
      <4>2. \A v \in Worker : v # w => running'[v] = running[v]
        BY <1>4, <2>3
        DEF WorkerStep, Take, TakePacket, VisitPPPs, PinChild, AppendPinned,
            AddRemoveDeadPPPs, AddUnpinPPPChildren, UnpinPPPChildren, coreVars, schedVars,
            Finish, SchedTypeOK
      <4> QED BY <4>1, <4>2 DEF Carries
    <3> QED BY <3>1, <3>2 DEF RetainFits
  <2> QED BY <2>1, <2>2, <2>3
<1>5. CASE UNCHANGED vars
  BY <1>5 DEF vars, coreVars, heapVars, schedVars, pppVars, localVars, retainLocals,
              RetainFits, Carries
<1> QED BY <1>3, <1>4, <1>5 DEF Next, Collector

LEMMA NextLiveInv == LiveInv /\ [Next]_vars => LiveInv'
<1> SUFFICES ASSUME LiveInv, [Next]_vars PROVE LiveInv'
  OBVIOUS
<1> USE DEF LiveInv
<1>1. RegistryInv' /\ RetainFits'  BY NextRegistryInv, NextRetainFits
<1>2. CASE UNCHANGED vars
  <2>1. UNCHANGED <<stage, heap, fwd, reached, live, ppps, bucket, running, step>>
    BY <1>2 DEF vars, coreVars, heapVars, schedVars, pppVars, localVars, pinLocals
  <2>2. FromSpace' = FromSpace /\ (RemovalDone' <=> RemovalDone)
    BY <2>1 DEF FromSpace, RemovalDone, RemovalAhead, Runs, Somewhere, Waits, Carries
  <2>3. LiveFits' /\ EntriesInFromSpace'
    BY <2>1, <2>2 DEF LiveFits, EntriesInFromSpace
  <2> QED BY <1>1, <2>3
<1>3. CASE ~UNCHANGED vars
  <2>1. LiveFits' /\ EntriesInFromSpace'
    BY <1>3, MutatorLiveFits, TracingLiveFits, NextStageLiveFits, WorkerLiveFits
    DEF Next, Collector
  <2> QED BY <1>1, <2>1
<1> QED BY <1>2, <1>3

LEMMA InitLiveInv == PPPInit => LiveInv
<1> SUFFICES ASSUME PPPInit PROVE LiveInv
  OBVIOUS
<1>1. RegistryInv  BY InitRegistryInv
<1>2. LiveFits /\ EntriesInFromSpace /\ RetainFits
  BY DEF PPPInit, CoreInit, LiveFits, EntriesInFromSpace, RetainFits
<1> QED BY <1>1, <1>2 DEF LiveInv
needed == live \ plain
members == {heap[ppps[i]] : i \in DOMAIN ppps}

(* Who is registered depends only on what the entries refer to.            *)
LEMMA SameEntriesSameMembers ==
  ASSUME ppps' = ppps, \A i \in DOMAIN ppps : heap'[ppps[i]] = heap[ppps[i]]
  PROVE  members' = members
<1>1. members' = {heap'[ppps[i]] : i \in DOMAIN ppps}  BY DEF members
<1>2. \A x : x \in members' <=> x \in members  BY <1>1 DEF members
<1> QED BY <1>2, Zenon DEF members

(* What the program does maps to Alloc, Register, Forget or a stutter.      *)
LEMMA MutatorRegistry ==
  ASSUME LiveInv, Mutator
  PROVE  [Registry!Next]_(Registry!vars)
<1> USE DEF LiveInv, RegistryInv, PinInv, PPPTyped, CoreTypeOK, Registry!vars,
            pppVars, coreVars, heapVars
<1>1. live \subseteq OnHeap
  BY CoreAssumption DEF LiveFits, OnHeap, FromSpace
<1>2. ASSUME NEW o \in Obj, NEW a \in Addr, NEW S \in SUBSET live, New(o, a, S)
      PROVE  Registry!Next
  <2>1. /\ \A c \in Addr : heap'[c] = IF c = a THEN o ELSE heap[c]
        /\ heap[a] = Free /\ o # Free /\ o \notin OnHeap
        /\ live' = live \cup {o} /\ plain' = plain \ {o} /\ ppps' = ppps
    BY <1>2, CoreAssumption DEF New, Alloc
  <2>2. OnHeap' = OnHeap \cup {o}  BY <2>1 DEF OnHeap
  <2>3. members' = members
    <3>1. \A i \in DOMAIN ppps : ppps[i] \in Addr /\ ppps[i] # a
      BY <2>1 DEF RegistryFits
    <3>2. \A i \in DOMAIN ppps : heap'[ppps[i]] = heap[ppps[i]]  BY <2>1, <3>1
    <3> QED BY <2>1, <3>2, SameEntriesSameMembers
  <2>4. needed' = needed \cup {o}  BY <1>1, <2>1 DEF needed
  <2>5. Registry!Alloc(o, {o})
    BY <2>1, <2>2, <2>3, <2>4 DEF Registry!Alloc, needed, members
  <2> QED BY <2>5 DEF Registry!Next
<1>3. ASSUME NEW o \in live, Forget(o)
      PROVE  Registry!Next
  <2>1. UNCHANGED <<heap, ppps, plain>> /\ live' = live \ {o}
    BY <1>3 DEF Forget, Drop
  <2>2. OnHeap' = OnHeap /\ members' = members /\ needed' = needed \ {o}
    BY <2>1 DEF OnHeap, members, needed
  <2>3. Registry!Forget({o})  BY <2>2 DEF Registry!Forget, needed, members
  <2>4. {o} \in SUBSET Obj  OBVIOUS
  <2> QED BY <2>3, <2>4 DEF Registry!Next
<1>4. ASSUME NEW n \in 1 .. 2, NEW objects \in [1 .. n -> AddrsOf(live \cap Parents)],
             Register(objects)
      PROVE  Registry!Next
  <2> DEFINE S == {heap[objects[i]] : i \in DOMAIN objects}
  <2>1. objects \in Seq(Addr)  BY DEF AddrsOf
  <2>2. /\ UNCHANGED <<heap, live>> /\ ppps' = ppps \o objects /\ plain' = plain \ S
        /\ S \subseteq live
    BY <1>4 DEF Register
  <2>3. members' = members \cup S
    <3>1. /\ \A i \in DOMAIN ppps : i \in DOMAIN ppps' /\ ppps'[i] = ppps[i]
          /\ \A i \in DOMAIN objects : i + Len(ppps) \in DOMAIN ppps'
                                       /\ ppps'[i + Len(ppps)] = objects[i]
          /\ \A i \in DOMAIN ppps' :
               \/ i \in DOMAIN ppps /\ ppps'[i] = ppps[i]
               \/ i - Len(ppps) \in DOMAIN objects /\ ppps'[i] = objects[i - Len(ppps)]
      BY <2>1, <2>2
    <3>2. members \subseteq members'  BY <2>2, <3>1 DEF members
    <3>3. ASSUME NEW i \in DOMAIN objects
          PROVE  heap[objects[i]] \in members'
      <4>1. i + Len(ppps) \in DOMAIN ppps' /\ ppps'[i + Len(ppps)] = objects[i]  BY <3>1
      <4> QED BY <2>2, <4>1 DEF members
    <3>4. members' \subseteq members \cup S  BY <2>2, <3>1 DEF members
    <3> QED BY <3>2, <3>3, <3>4
  <2> HIDE DEF S
  <2>4. OnHeap' = OnHeap /\ needed' = needed \cup S /\ S \subseteq OnHeap
    <3>1. OnHeap' = OnHeap  BY <2>2 DEF OnHeap
    <3>2. S \subseteq OnHeap  BY <1>1, <2>2
    <3> QED BY <2>2, <3>1, <3>2 DEF needed
  <2>5. PICK D \in SUBSET Obj : D = S  BY <2>2
  <2>6. Registry!Register(D)
    BY <2>3, <2>4, <2>5 DEF Registry!Register, needed, members
  <2> QED BY <2>6 DEF Registry!Next
<1>5. ASSUME NEW o \in Parents, BecomePlain(o)
      PROVE  Registry!Next
  <2>1. UNCHANGED <<heap, ppps, live>> /\ plain' = plain \cup {o} /\ o \in Obj
    BY <1>5 DEF BecomePlain
  <2>2. OnHeap' = OnHeap /\ members' = members /\ needed' = needed \ {o}
    BY <2>1 DEF OnHeap, members, needed
  <2>3. Registry!Forget({o})  BY <2>2 DEF Registry!Forget, needed, members
  <2>4. {o} \in SUBSET Obj  BY <2>1
  <2> QED BY <2>3, <2>4 DEF Registry!Next
<1>6. ASSUME UNCHANGED <<heap, ppps, live, plain>>
      PROVE  UNCHANGED Registry!vars
  BY <1>6 DEF OnHeap
<1>7. \/ \E o \in Obj, a \in Addr : \E S \in SUBSET live : New(o, a, S)
      \/ \E o \in live : Forget(o)
      \/ \E n \in 1 .. 2 : \E objects \in [1 .. n -> AddrsOf(live \cap Parents)] :
           Register(objects)
      \/ \E o \in Parents : BecomePlain(o)
      \/ UNCHANGED <<heap, ppps, live, plain>>
  BY DEF Mutator, SetFields, Write, UserPin, UserUnpin, StopAllMutators, StartGC
<1> QED BY <1>2, <1>3, <1>4, <1>5, <1>6, <1>7

(* What is reclaimed was no longer registered, and not in use.             *)
LEMMA ReclaimRegistry ==
  ASSUME LiveInv, Reclaim, UNCHANGED pppVars
  PROVE  [Registry!Next]_(Registry!vars)
<1> USE DEF LiveInv, RegistryInv, PinInv, PPPTyped, CoreTypeOK, pppVars
<1> DEFINE S == OnHeap \ OnHeap'
<1>1. /\ \A a \in Addr : heap'[a] = IF a \in Survivor THEN heap[a] ELSE Free
      /\ stage = "Release" /\ UNCHANGED <<live, plain, ppps>>
  BY DEF Reclaim, Advance
<1>2. \A i \in DOMAIN ppps : ppps[i] \in Addr /\ ppps[i] \in Survivor /\ heap[ppps[i]] # Free
  BY <1>1 DEF RegistryFits, RemovalDone
<1>3. members' = members /\ members \subseteq OnHeap'
  <2>1. \A i \in DOMAIN ppps : ppps[i] \in Addr /\ heap'[ppps[i]] = heap[ppps[i]]
    BY <1>1, <1>2
  <2>2. members' = members  BY <1>1, <2>1, SameEntriesSameMembers
  <2>3. \A i \in DOMAIN ppps : heap[ppps[i]] \in OnHeap'
    BY <1>2, <2>1 DEF OnHeap
  <2> QED BY <2>2, <2>3, Zenon DEF members
<1>4. live \subseteq OnHeap'
  <2>1. LiveFits'  BY NextLiveInv DEF Next, Collector, NextStage
  <2> QED BY <1>1, <2>1, CoreAssumption DEF LiveFits, OnHeap, FromSpace
<1>5. OnHeap' \subseteq OnHeap  BY <1>1 DEF OnHeap
<1>6. Registry!Reclaim(S)
  BY <1>1, <1>3, <1>4, <1>5 DEF Registry!Reclaim, members
<1>7. S \in SUBSET Obj  BY DEF OnHeap
<1> QED BY <1>6, <1>7 DEF Registry!Next

(* What RemoveDeadPPPs drops is dead, or no longer a PPP.                  *)
LEMMA RemoveDeadRegistry ==
  ASSUME LiveInv, NEW w \in Worker, RemoveDeadPPPs(w)
  PROVE  [Registry!Next]_(Registry!vars)
<1> USE DEF LiveInv, RegistryInv, PinInv, PPPTyped, CoreTypeOK
<1> DEFINE S == members \ members'
<1>1. /\ UNCHANGED <<heap, live, plain>> /\ ppps' = kept /\ cursor > Len(ppps)
  BY DEF RemoveDeadPPPs, heapVars
<1>2. members' \subseteq members
  BY <1>1 DEF members, RegistryFits
<1>3. ASSUME NEW i \in DOMAIN ppps, heap[ppps[i]] \in live \ plain
      PROVE  heap[ppps[i]] \in members'
  <2>1. i < cursor  BY <1>1
  <2>2. PICK j \in DOMAIN kept : heap[kept[j]] = heap[ppps[i]]
    BY <1>3, <2>1 DEF RetainFits
  <2> QED BY <1>1, <2>2 DEF members
<1>4. S \cap (live \ plain) = {}  BY <1>3 DEF members
<1>5. OnHeap' = OnHeap  BY <1>1 DEF OnHeap
<1>6. PICK D \in SUBSET Obj : D = S
  <2>1. S \in SUBSET Obj  BY DEF members, RegistryFits
  <2> HIDE DEF S
  <2> QED BY <2>1
<1>7. Registry!Sweep(D)
  BY <1>1, <1>2, <1>4, <1>5, <1>6 DEF Registry!Sweep, members
<1> QED BY <1>7 DEF Registry!Next

LEMMA StepRegistry ==
  ASSUME LiveInv, [Next]_vars
  PROVE  [Registry!Next]_(Registry!vars)
<1> USE DEF Registry!vars
<1>1. CASE Mutator  BY <1>1, MutatorRegistry
<1>2. CASE Tracing
  BY <1>2, TracingLiveFits DEF LiveInv, Tracing, TraceInPlace, TraceAndCopy, pppVars
<1>3. CASE NextStage
  <2>1. ASSUME EndPrepare \/ EndClosure(Sentinel) \/ EndVMRefClosure
        PROVE  UNCHANGED heap /\ UNCHANGED live
    BY <2>1 DEF EndPrepare, EndClosure, EndVMRefClosure, heapVars
  <2> QED BY <1>3, <2>1, ReclaimRegistry DEF NextStage, LiveInv, OnHeap, pppVars
<1>4. ASSUME NEW w \in Worker, WorkerStep(w)
      PROVE  [Registry!Next]_(Registry!vars)
  <2>1. CASE RemoveDeadPPPs(w)  BY <2>1, RemoveDeadRegistry
  <2>2. CASE ~RemoveDeadPPPs(w)
    BY <1>4, <2>2, WorkerKeepsHeap DEF heapVars, OnHeap
  <2> QED BY <2>1, <2>2
<1>5. CASE UNCHANGED vars  BY <1>5 DEF vars, coreVars, heapVars, pppVars, OnHeap
<1> QED BY <1>1, <1>2, <1>3, <1>4, <1>5 DEF Next, Collector

LEMMA InitRegistry == PPPInit => Registry!Init
<1> SUFFICES ASSUME PPPInit PROVE Registry!Init
  OBVIOUS
<1>1. OnHeap = {}  BY DEF PPPInit, CoreInit, OnHeap
<1> QED BY <1>1 DEF PPPInit, CoreInit, Registry!Init

(* Every reachable state satisfies the invariant of the live entries.      *)
LEMMA LiveInvariant == Spec => []LiveInv
BY InitLiveInv, NextLiveInv, PTL DEF Spec

(* Registration, retain_mut and forwarding on any number of workers        *)
(* implement a weak registry: no object that is live and still a PPP is    *)
(* dropped, and none is reclaimed while it is registered.                  *)
THEOREM PPPImplementsRegistry == Spec => ImplementsRegistry
<1>1. LiveInv /\ [Next]_vars => [Registry!Next]_(Registry!vars)  BY StepRegistry
<1> QED
  BY InitRegistry, <1>1, LiveInvariant, PTL DEF Spec, ImplementsRegistry, Registry!Spec
=============================================================================
