------------------------------- MODULE ObjFree -------------------------------
(***************************************************************************)
(* Objects whose obj_free must be called when they die (weak_proc.rs).     *)
(* Mutators add candidates; during VMRefClosure one packet walks the list, *)
(* calls obj_free for the candidates that were not reached and keeps the   *)
(* others, forwarded.  At exit the runtime takes the whole list and frees  *)
(* what is left.                                                           *)
(***************************************************************************)
EXTENDS MMTkCore, Sequences, SequencesExt

VARIABLES
  cands,        (* WeakProcessor::obj_free_candidates                      *)
  next,         (* the candidate ProcessObjFreeCandidates looks at         *)
  newCands,     (* its new_candidates                                      *)
  rawVec,       (* the list handed over to the runtime at exit             *)
  exiting,      (* the runtime is shutting down: no more collections       *)
  registered,   (* history: objects on the heap added as candidates        *)
  freed         (* history: objects on the heap obj_free was called for    *)

listVars == <<cands, next, newCands>>
historyVars == <<registered, freed>>
freeVars == <<listVars, rawVec, exiting, historyVars>>
vars == <<coreVars, freeVars>>

Packet(kind) == [kind |-> kind]
Runs(w, kind) == running[w] = Packet(kind)
Finish(w) == running' = [running EXCEPT ![w] = NoPacket]

PacketSet == {Packet("ProcessWeakRefs"), Packet("ProcessObjFreeCandidates")}

ASSUME ObjFreeAssumption == NoPacket \notin PacketSet

ObjFreeInit ==
  /\ CoreInit
  /\ cands = <<>>
  /\ next = 1
  /\ newCands = <<>>
  /\ rawVec = <<>>
  /\ exiting = FALSE
  /\ registered = {}
  /\ freed = {}

-----------------------------------------------------------------------------
(* Mutators.                                                               *)

New(o, a, S) ==
  /\ ~exiting
  /\ Alloc(o, a, S)
  /\ UNCHANGED freeVars

Forget(o) ==
  /\ ~exiting
  /\ Drop(o)
  /\ UNCHANGED freeVars

(* add_obj_free_candidate and add_obj_free_candidates.  The runtime adds   *)
(* an object once, while it holds it.                                      *)
AddCandidates(objects) ==
  /\ stage = "Mutator"
  /\ ~exiting
  /\ \A i \in DOMAIN objects : heap[objects[i]] \in live \ registered
  /\ IsInjective(objects)
  /\ cands' = cands \o objects
  /\ registered' = registered \cup {heap[objects[i]] : i \in DOMAIN objects}
  /\ UNCHANGED <<coreVars, next, newCands, rawVec, exiting, freed>>

(* Mutants: the list is copied and not taken; it is taken and dropped.     *)
TakeAllCandidatesCopied ==
  /\ stage = "Mutator"
  /\ ~exiting
  /\ exiting' = TRUE
  /\ rawVec' = cands
  /\ UNCHANGED <<coreVars, listVars, historyVars>>

TakeAllCandidatesLost ==
  /\ stage = "Mutator"
  /\ ~exiting
  /\ exiting' = TRUE
  /\ cands' = <<>>
  /\ UNCHANGED <<coreVars, next, newCands, rawVec, historyVars>>

(* get_all_obj_free_candidates at exit: the list is taken, not copied.     *)
TakeAllCandidates ==
  /\ stage = "Mutator"
  /\ ~exiting
  /\ exiting' = TRUE
  /\ rawVec' = cands
  /\ cands' = <<>>
  /\ UNCHANGED <<coreVars, next, newCands, historyVars>>

(* The runtime frees the objects of the list it took, front to back.       *)
FreeAtExit ==
  /\ rawVec # <<>>
  /\ freed' = freed \cup {heap[Head(rawVec)]}
  /\ rawVec' = Tail(rawVec)
  /\ UNCHANGED <<coreVars, listVars, exiting, registered>>

-----------------------------------------------------------------------------
(* The collection.                                                         *)

Sentinel == Packet("ProcessWeakRefs")

StopAllMutators(mayMove) ==
  /\ ~exiting
  /\ StartGC(mayMove, {})
  /\ UNCHANGED freeVars

Take(w, p) ==
  /\ TakePacket(w, p)
  /\ UNCHANGED freeVars

(* process_weak_stuff adds the packet.                                     *)
ProcessWeakStuff(w) ==
  /\ Runs(w, "ProcessWeakRefs")
  /\ bucket' = [bucket EXCEPT !["VMRefClosure"] =
                  @ \cup {Packet("ProcessObjFreeCandidates")}]
  /\ Finish(w)
  /\ UNCHANGED <<stage, heapVars, pinned, freeVars>>

(* Mutant: a candidate is kept at its old address.                         *)
KeptUnforwarded(r) == IF IsReachable(r) THEN <<r>> ELSE <<>>

Kept(r) == IF IsReachable(r) THEN <<Forward(r)>> ELSE <<>>

(* Mutants: only what moved counts as live; a dead candidate is dropped    *)
(* without a call.                                                         *)
FreedByUnmoved(r) == IF Forward(r) # r THEN {} ELSE {heap[r]}
FreedBySkipped(r) == {}

FreedBy(r) == IF IsReachable(r) THEN {} ELSE {heap[r]}

(* The body of the loop over the candidates.                               *)
ProcessCandidate(w) ==
  /\ Runs(w, "ProcessObjFreeCandidates")
  /\ next <= Len(cands)
  /\ newCands' = newCands \o Kept(cands[next])
  /\ freed' = freed \cup FreedBy(cands[next])
  /\ next' = next + 1
  /\ UNCHANGED <<coreVars, cands, rawVec, exiting, registered>>

ReplaceCandidates(w) ==
  /\ Runs(w, "ProcessObjFreeCandidates")
  /\ next > Len(cands)
  /\ cands' = newCands
  /\ newCands' = <<>>
  /\ next' = 1
  /\ Finish(w)
  /\ UNCHANGED <<stage, heapVars, pinned, bucket, rawVec, exiting, historyVars>>

-----------------------------------------------------------------------------
Mutator ==
  \/ \E o \in Obj, a \in Addr : \E S \in SUBSET live : New(o, a, S)
  \/ \E o \in live : Forget(o)
  \/ \E n \in 1 .. 2 : \E objects \in [1 .. n -> AddrsOf(live)] : AddCandidates(objects)
  \/ TakeAllCandidates
  \/ \E mayMove \in BOOLEAN : StopAllMutators(mayMove)

Tracing ==
  /\ \E a \in Addr : TraceInPlace(a) \/ \E b \in Addr : TraceAndCopy(a, b)
  /\ UNCHANGED freeVars

ReclaimMemory ==
  /\ Reclaim
  /\ registered' = registered \cap OnHeap'
  /\ freed' = freed \cap OnHeap'
  /\ UNCHANGED <<listVars, rawVec, exiting>>

NextStage ==
  \/ EndPrepare /\ UNCHANGED freeVars
  \/ EndClosure(Sentinel) /\ UNCHANGED freeVars
  \/ EndVMRefClosure /\ UNCHANGED freeVars
  \/ ReclaimMemory

WorkerStep(w) ==
  \/ \E s \in GCStage : \E p \in bucket[s] : Take(w, p)
  \/ ProcessWeakStuff(w)
  \/ ProcessCandidate(w)
  \/ ReplaceCandidates(w)

Collector == Tracing \/ NextStage \/ \E w \in Worker : WorkerStep(w)

Next == Mutator \/ FreeAtExit \/ Collector

(* GC threads that can take a step do, and the runtime, once shutting      *)
(* down, works through the list it took.                                   *)
Spec == ObjFreeInit /\ [][Next]_vars /\ WF_vars(Collector) /\ WF_vars(FreeAtExit)

-----------------------------------------------------------------------------
Elements(s) == {heap[s[i]] : i \in DOMAIN s}

(* The types of the variables.                                             *)
ObjFreeTyped ==
  /\ CoreTypeOK
  /\ cands \in Seq(Addr) /\ newCands \in Seq(Addr) /\ rawVec \in Seq(Addr)
  /\ next \in 1 .. Len(cands) + 1
  /\ exiting \in BOOLEAN
  /\ registered \subseteq Obj
  /\ freed \subseteq Obj

(* The list has one owner, the binding or the runtime that is exiting, and *)
(* the one being built is no longer than what it is built from.            *)
ListsFit ==
  /\ exiting => cands = <<>> /\ newCands = <<>>
  /\ ~exiting => rawVec = <<>>
  /\ Len(newCands) < next

(* Type correctness, with the owner of the candidates.                     *)
ObjFreeTypeOK == ObjFreeTyped /\ ListsFit

(* Candidates still to be looked at, wherever they are.                    *)
Waiting == SubSeq(cands, next, Len(cands)) \o newCands \o rawVec

(* Every object added as a candidate is either still waiting, exactly      *)
(* once, or has had its obj_free called, and never both: across moves,     *)
(* collections and shutdown none is lost, duplicated or freed twice.       *)
EachCandidateOnce ==
  /\ Elements(Waiting) \cap freed = {}
  /\ Elements(Waiting) \cup freed = registered
  /\ \A i, j \in DOMAIN Waiting :
       heap[Waiting[i]] = heap[Waiting[j]] => i = j

(* Before shutdown obj_free is called only for objects the program can no  *)
(* longer use.                                                             *)
OnlyGarbageFreed == ~exiting => freed \cap live = {}

(* The memory of a registered object is reclaimed only after its obj_free, *)
(* and obj_free is called only for what is still in memory.                *)
FreedBeforeReclaimed ==
  [][/\ (registered \ freed) \subseteq OnHeap'
     /\ freed' \ freed \subseteq OnHeap]_vars

(* At shutdown every object still registered has its obj_free called.      *)
AllFreedAtExit == exiting ~> freed = registered

(* Until the list is handed over it is a weak registry of the objects that *)
(* are still in use.                                                       *)
Registry == INSTANCE WeakRegistry WITH
  onHeap <- OnHeap,
  needed <- IF exiting THEN {} ELSE live,
  members <- registered \ freed
ImplementsRegistry == Registry!Spec
=============================================================================
