---------------------------- MODULE RootScanning ----------------------------
(***************************************************************************)
(* Root scanning (scanning.rs) and the registry of WB-unprotected objects  *)
(* (binding.rs, weak_proc.rs).  In Prepare, parallel packets ask CRuby for *)
(* its roots through the worker's object closure (abi.rs), buffer what is  *)
(* visited and hand full buffers over.  A nursery collection does not scan *)
(* old objects; the ones whose writes CRuby does not announce are scanned  *)
(* as additional roots, from the registry, which is updated afterwards.    *)
(***************************************************************************)
EXTENDS StickyHeap, Sequences

CONSTANTS
  Worker,        (* GC worker threads                                      *)
  NoPacket,      (* what an idle worker runs                               *)
  MutatorThread, (* the scanners that are stacks of mutator threads        *)
  BufferSize,    (* OBJECT_BUFFER_SIZE (4096 in the code)                  *)
  ChunkSize,     (* objects per ScanWbUnprotectedRoots packet (128)        *)
  CallInfo       (* objects the runtime keeps in the ci table              *)

PacketSet ==
  [kind : {"ScanRoots"}, of : Scanner]
    \cup [kind : {"ScanWbUnprotectedRoots"}, objects : SUBSET Addr]
    \cup [kind : {"ScanVMSpecificRoots", "ProcessWeakRefs", "UpdateCiTable",
                  "UpdateWbUnprotectedObjectsList"}]

ASSUME RootScanningAssumption ==
  /\ MutatorThread \subseteq Scanner
  /\ BufferSize \in Nat \ {0}
  /\ ChunkSize \in Nat \ {0}
  /\ NoPacket \notin PacketSet

VARIABLES
  registry,  (* RubyBinding::wb_unprotected_objects                        *)
  ciTable,   (* CRuby's ci table: the addresses it holds weakly            *)
  interned,  (* history: objects on the heap put into the ci table         *)
  bucket,    (* packets waiting in the open bucket                         *)
  running,   (* the packet each worker executes                            *)
  collecting,  (* scan_vm_specific_roots is past its first packets         *)
  uncollected, (* registry entries not yet in a vector                     *)
  currentVec,  (* ChunkedVecCollector::current_vec                         *)
  vecs,        (* ChunkedVecCollector::vecs                                *)
  closure,   (* ObjectClosure of each worker: what a visit does            *)
  todo,      (* objects the running upcall has yet to visit                *)
  buffer     (* the worker's buffer of visited roots                       *)

vecVars == <<collecting, uncollected, currentVec, vecs>>
tableVars == <<ciTable, interned>>
schedVars == <<bucket, running>>
scanVars == <<closure, todo, buffer>>
vars == <<heapVars, registry, tableVars, schedVars, vecVars, scanVars>>

(* ObjectClosure::default: a call of it panics.                            *)
Unregistered == "unregistered"

Simple(kind) == [kind |-> kind]
ScanRoots(s) == [kind |-> "ScanRoots", of |-> s]
ScanWbUnprotectedRoots(S) == [kind |-> "ScanWbUnprotectedRoots", objects |-> S]

Runs(w, kind) == running[w] # NoPacket /\ running[w].kind = kind
Finish(w) == running' = [running EXCEPT ![w] = NoPacket]

Init ==
  /\ HeapInit
  /\ registry = {}
  /\ ciTable = {}
  /\ interned = {}
  /\ bucket = {}
  /\ running = [w \in Worker |-> NoPacket]
  /\ collecting = FALSE
  /\ uncollected = {}
  /\ currentVec = <<>>
  /\ vecs = {}
  /\ closure = [w \in Worker |-> Unregistered]
  /\ todo = [w \in Worker |-> {}]
  /\ buffer = [w \in Worker |-> <<>>]

-----------------------------------------------------------------------------
(* Mutators.                                                               *)

New(o, a, s) ==
  /\ Alloc(o, a, s)
  /\ UNCHANGED <<registry, tableVars, schedVars, scanVars, vecVars>>

LoadRoots(s, S) ==
  /\ SetRoots(s, S)
  /\ UNCHANGED <<registry, tableVars, schedVars, scanVars, vecVars>>

Write(o, S) ==
  /\ SetFields(o, S)
  /\ UNCHANGED <<registry, tableVars, schedVars, scanVars, vecVars>>

(* register_wb_unprotected_object: o gives up its write barrier.           *)
RegisterWbUnprotected(a) ==
  /\ stage = "Mutator"
  /\ heap[a] \in (Live \cap Holder) \ unprotected
  /\ unprotected' = unprotected \cup {heap[a]}
  /\ registry' = registry \cup {a}
  /\ UNCHANGED <<stage, nursery, heap, edges, roots, old, remembered, traceVars,
                 tableVars, schedVars, scanVars, vecVars>>

Intern(a) ==
  /\ stage = "Mutator"
  /\ heap[a] \in Live \cap CallInfo
  /\ ciTable' = ciTable \cup {a}
  /\ interned' = interned \cup {heap[a]}
  /\ UNCHANGED <<heapVars, registry, schedVars, scanVars, vecVars>>

(* stop_all_mutators, then mmtk-core adds a packet per mutator it visited. *)
StopAllMutators(isNursery) ==
  /\ StartGC(isNursery)
  /\ bucket' = {Simple("ScanVMSpecificRoots")} \cup {ScanRoots(s) : s \in MutatorThread}
  /\ UNCHANGED <<registry, tableVars, running, scanVars, vecVars>>

-----------------------------------------------------------------------------
(* Prepare.                                                                *)

Take(w, p) ==
  /\ running[w] = NoPacket
  /\ p \in bucket
  /\ bucket' = bucket \ {p}
  /\ running' = [running EXCEPT ![w] = p]
  /\ UNCHANGED <<heapVars, registry, tableVars, scanVars, vecVars>>

(* scan_vm_specific_roots adds a packet per global place, and in a nursery *)
(* collection starts to distribute the registry over vectors.              *)
ScanVMSpecificRoots(w) ==
  /\ Runs(w, "ScanVMSpecificRoots")
  /\ ~collecting
  /\ collecting' = TRUE
  /\ bucket' = bucket \cup {ScanRoots(s) : s \in Scanner \ MutatorThread}
  /\ uncollected' = IF nursery THEN registry ELSE {}
  /\ UNCHANGED <<heapVars, registry, tableVars, running, currentVec, vecs, scanVars>>

(* ChunkedVecCollector::add: a full vector is flushed.                     *)
AddToVec(w, a) ==
  /\ Runs(w, "ScanVMSpecificRoots")
  /\ a \in uncollected
  /\ uncollected' = uncollected \ {a}
  /\ LET v == Append(currentVec, a)
     IN  IF Len(v) = ChunkSize
         THEN vecs' = vecs \cup {Range(v)} /\ currentVec' = <<>>
         ELSE vecs' = vecs /\ currentVec' = v
  /\ UNCHANGED <<heapVars, registry, tableVars, schedVars, collecting, scanVars>>

(* Mutant: what is left in a partly filled vector is dropped.              *)
IntoVecsFullOnly == vecs

(* into_vecs flushes the last vector, unless it is empty.                  *)
IntoVecs == vecs \cup (IF currentVec = <<>> THEN {} ELSE {Range(currentVec)})

AddWbUnprotectedPackets(w) ==
  /\ Runs(w, "ScanVMSpecificRoots")
  /\ collecting
  /\ uncollected = {}
  /\ bucket' = bucket \cup {ScanWbUnprotectedRoots(v) : v \in IntoVecs}
  /\ collecting' = FALSE
  /\ currentVec' = <<>>
  /\ vecs' = {}
  /\ Finish(w)
  /\ UNCHANGED <<heapVars, registry, tableVars, uncollected, scanVars>>

(* What CRuby visits while the packet's callback runs: the roots of one    *)
(* place, or the fields of those WB-unprotected objects that are old.      *)
Reported(p) ==
  IF p.kind = "ScanRoots" THEN AddrsOf(roots[p.of])
  ELSE UNION {Kids(a) : a \in {b \in p.objects : IsReachable(b)}}

(* collect_object_roots_in registers its closure and calls CRuby.          *)
CollectObjectRootsIn(w) ==
  /\ Runs(w, "ScanRoots") \/ Runs(w, "ScanWbUnprotectedRoots")
  /\ closure[w] = Unregistered
  /\ closure' = [closure EXCEPT ![w] = "collect"]
  /\ todo' = [todo EXCEPT ![w] = Reported(running[w])]
  /\ UNCHANGED <<heapVars, registry, tableVars, schedVars, buffer, vecVars>>

(* Mutant: a full buffer is cleared and not handed over.                   *)
HandedOverNever(b) == {}

(* What create_process_pinning_roots_work is given after a push.           *)
HandedOver(b) == IF Len(b) >= BufferSize THEN Range(b) ELSE {}

(* Mutant: a copy of the buffer is handed over.                            *)
BufferKept(b) == b

(* mem::take leaves an empty buffer behind.                                *)
BufferAfter(b) == IF Len(b) >= BufferSize THEN <<>> ELSE b

(* visit_object of collect_object_roots_in.                                *)
VisitRoot(w, a) ==
  /\ closure[w] = "collect"
  /\ a \in todo[w]
  /\ todo' = [todo EXCEPT ![w] = @ \ {a}]
  /\ LET b == Append(buffer[w], a)
     IN  /\ pinnedRoots' = pinnedRoots \cup HandedOver(b)
         /\ buffer' = [buffer EXCEPT ![w] = BufferAfter(b)]
  /\ UNCHANGED <<stage, nursery, heap, programVars, old, remembered, reached, fwd,
                 registry, tableVars, schedVars, closure, vecVars>>

(* Mutant: the closure stays registered.                                   *)
ClosureKept(w) == closure[w]

(* set_temporarily_and_run_code when the code has returned.                *)
ClosureAfter(w) == Unregistered

EndCollect(w) ==
  /\ closure[w] = "collect"
  /\ todo[w] = {}
  /\ closure' = [closure EXCEPT ![w] = ClosureAfter(w)]
  /\ pinnedRoots' = pinnedRoots \cup Range(buffer[w])
  /\ buffer' = [buffer EXCEPT ![w] = <<>>]
  /\ Finish(w)
  /\ UNCHANGED <<stage, nursery, heap, programVars, old, remembered, reached, fwd,
                 registry, tableVars, bucket, todo, vecVars>>

BucketDrained == bucket = {} /\ \A w \in Worker : running[w] = NoPacket

EndPrepare(copies) ==
  /\ BucketDrained
  /\ TraceClosure(copies)
  /\ bucket' = {Simple("ProcessWeakRefs")}
  /\ UNCHANGED <<registry, tableVars, running, scanVars, vecVars>>

-----------------------------------------------------------------------------
(* VMRefClosure.                                                           *)

ProcessWeakStuff(w) ==
  /\ Runs(w, "ProcessWeakRefs")
  /\ bucket' = bucket \cup {Simple("UpdateCiTable"), Simple("UpdateWbUnprotectedObjectsList")}
  /\ Finish(w)
  /\ UNCHANGED <<heapVars, registry, tableVars, scanVars, vecVars>>

(* GlobalTableProcessingWork registers the forwarding closure ...          *)
StartUpdateCiTable(w) ==
  /\ Runs(w, "UpdateCiTable")
  /\ closure[w] = Unregistered
  /\ closure' = [closure EXCEPT ![w] = "forward"]
  /\ UNCHANGED <<heapVars, registry, tableVars, schedVars, todo, buffer, vecVars>>

(* ... for CRuby's cleaner of the table (update_ci_table), which drops     *)
(* what is not reachable and asks the closure where the rest is.           *)
Cleaned == {Forward(a) : a \in {b \in ciTable : IsReachable(b)}}

UpdateCiTable(w) ==
  /\ Runs(w, "UpdateCiTable")
  /\ closure[w] = "forward"
  /\ ciTable' = Cleaned
  /\ closure' = [closure EXCEPT ![w] = ClosureAfter(w)]
  /\ Finish(w)
  /\ UNCHANGED <<heapVars, registry, interned, bucket, todo, buffer, vecVars>>

(* Mutants: the survivors are put back at their old addresses; what is not *)
(* reachable is put back as well.                                          *)
RetainedUnforwarded == {a \in registry : IsReachable(a)}
RetainedUnchecked == {Forward(a) : a \in registry}

Retained == {Forward(a) : a \in {b \in registry : IsReachable(b)}}

UpdateWbUnprotectedObjectsList(w) ==
  /\ Runs(w, "UpdateWbUnprotectedObjectsList")
  /\ registry' = Retained
  /\ Finish(w)
  /\ UNCHANGED <<heapVars, tableVars, bucket, scanVars, vecVars>>

EndGC ==
  /\ BucketDrained
  /\ Reclaim
  /\ interned' = interned \cap OnHeap'
  /\ UNCHANGED <<registry, ciTable, schedVars, scanVars, vecVars>>

-----------------------------------------------------------------------------
Mutator ==
  \/ \E o \in Obj, a \in Addr, s \in Scanner : New(o, a, s)
  \/ \E s \in Scanner : \E S \in SUBSET Live : LoadRoots(s, S)
  \/ \E o \in Holder : \E S \in SUBSET Live : Write(o, S)
  \/ \E a \in Addr : RegisterWbUnprotected(a) \/ Intern(a)
  \/ \E isNursery \in BOOLEAN : StopAllMutators(isNursery)

WorkerStep(w) ==
  \/ \E p \in bucket : Take(w, p)
  \/ ScanVMSpecificRoots(w)
  \/ \E a \in uncollected : AddToVec(w, a)
  \/ AddWbUnprotectedPackets(w)
  \/ CollectObjectRootsIn(w)
  \/ \E a \in todo[w] : VisitRoot(w, a)
  \/ EndCollect(w)
  \/ ProcessWeakStuff(w)
  \/ StartUpdateCiTable(w)
  \/ UpdateCiTable(w)
  \/ UpdateWbUnprotectedObjectsList(w)

Collector ==
  \/ \E copies \in Copies : EndPrepare(copies)
  \/ EndGC
  \/ \E w \in Worker : WorkerStep(w)

Next == Mutator \/ Collector

Spec == Init /\ [][Next]_vars

-----------------------------------------------------------------------------
(* The types of the variables.                                             *)
RootScanningTyped ==
  /\ stage \in {"Mutator", "Prepare", "VMRefClosure"}
  /\ nursery \in BOOLEAN
  /\ heap \in [Addr -> Obj \cup {Free}]
  /\ edges \in [Obj -> SUBSET Obj]
  /\ roots \in [Scanner -> SUBSET Obj]
  /\ unprotected \subseteq Obj
  /\ old \cup remembered \cup pinnedRoots \cup reached \subseteq Addr
  /\ fwd \in [Addr -> Addr]
  /\ registry \cup ciTable \subseteq Addr
  /\ interned \subseteq Obj
  /\ bucket \subseteq PacketSet
  /\ running \in [Worker -> PacketSet \cup {NoPacket}]
  /\ collecting \in BOOLEAN
  /\ uncollected \subseteq Addr
  /\ currentVec \in Seq(Addr)
  /\ vecs \subseteq SUBSET Addr
  /\ closure \in [Worker -> {Unregistered, "collect", "forward"}]
  /\ todo \in [Worker -> SUBSET Addr]
  /\ buffer \in [Worker -> Seq(Addr)]

(* Whatever has been filled has been handed over.                          *)
BuffersFit ==
  /\ \A w \in Worker : Len(buffer[w]) < BufferSize
  /\ Len(currentVec) < ChunkSize

(* Type correctness, with the length of the buffers between two steps.     *)
RootScanningTypeOK == RootScanningTyped /\ BuffersFit

(* No collection loses an object the program can still reach: the roots of *)
(* every place arrive, whatever the buffers and chunks they travel in, and *)
(* what only an old object without a write barrier refers to is found.     *)
NothingLiveIsLost == stage = "Mutator" => Live \subseteq OnHeap

(* What CRuby refers to from a root stays where it is: collect_object_     *)
(* roots_in answers every visit with the address it was given.             *)
RootsStay == \A a \in AddrsOf(AllRoots) : Forward(a) = a

(* Whenever the program runs, the registry has exactly the objects without *)
(* a write barrier, under their current addresses, and no dead one; and so *)
(* has the table that is updated through the forwarding closure.           *)
RegistriesExact ==
  stage = "Mutator" => registry = AddrsOf(unprotected) /\ ciTable = AddrsOf(interned)

(* A worker's closure is registered exactly while CRuby code runs for one  *)
(* of its packets, and it is that packet's: no visit panics in             *)
(* c_function_unregistered or runs the closure of an earlier packet.       *)
ClosureFits ==
  \A w \in Worker :
    /\ closure[w] = "collect" => Runs(w, "ScanRoots") \/ Runs(w, "ScanWbUnprotectedRoots")
    /\ closure[w] = "forward" => Runs(w, "UpdateCiTable")
    /\ todo[w] # {} \/ buffer[w] # <<>> => closure[w] = "collect"

(* Each table is a weak registry of the live objects it is about, from the *)
(* step that adds one to the collection that finds it dead.                *)
WbRegistry == INSTANCE WeakRegistry WITH
  onHeap <- OnHeap,
  needed <- Live \cap unprotected,
  members <- {heap[a] : a \in registry}
CiRegistry == INSTANCE WeakRegistry WITH
  onHeap <- OnHeap,
  needed <- Live \cap interned,
  members <- {heap[a] : a \in ciTable}
ImplementsRegistries == WbRegistry!Spec /\ CiRegistry!Spec
=============================================================================
