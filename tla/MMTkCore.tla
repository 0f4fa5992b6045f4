------------------------------ MODULE MMTkCore ------------------------------
(***************************************************************************)
(* What the binding relies on from its two neighbours, none of whose code  *)
(* is in this repository: mmtk-core (the heap, tracing, the work-bucket    *)
(* scheduler) and CRuby (which objects the program still uses).  The       *)
(* component modules EXTEND this one and add the binding's own state.      *)
(*                                                                         *)
(* An ObjectReference is an address.  An object keeps its identity when it *)
(* is copied, so the heap maps addresses to identities, and "the binding   *)
(* lost track of an object" can be said about identities.                  *)
(***************************************************************************)
EXTENDS Naturals, FiniteSets

CONSTANTS
  Obj,       (* identities of Ruby objects                                 *)
  Addr,      (* object references                                          *)
  Worker,    (* GC worker threads                                          *)
  Free,      (* content of an address that holds no object                 *)
  NoPacket   (* what an idle worker runs                                   *)

ASSUME CoreAssumption == Free \notin Obj

VARIABLES
  stage,     (* the open work bucket, or "Mutator" between collections     *)
  moving,    (* get_plan().current_gc_may_move_object()                    *)
  heap,      (* the object at each address                                 *)
  fwd,       (* forwarding pointers of this collection, else the identity  *)
  reached,   (* addresses of the objects traced in this collection         *)
  live,      (* objects the Ruby program can still use                     *)
  edges,     (* the objects each object refers to                          *)
  pinned,    (* addresses whose pinning bit is set                         *)
  bucket,    (* packets waiting in each bucket                             *)
  running    (* the packet each worker executes                            *)

heapVars == <<moving, heap, fwd, reached, live, edges>>
schedVars == <<bucket, running>>
coreVars == <<stage, heapVars, pinned, schedVars>>

GCStage == {"Prepare", "Closure", "VMRefClosure", "Release"}
Stage == GCStage \cup {"Mutator"}

OnHeap == {heap[a] : a \in Addr} \ {Free}
AddrsOf(S) == {a \in Addr : heap[a] \in S}

(* The objects of from-space: on the heap, and not a copy made by this     *)
(* collection.                                                             *)
FromSpace == {a \in Addr : heap[a] # Free /\ \A b \in Addr : fwd[b] = a => b = a}

(* ObjectReference::is_reachable / is_live as seen during weak processing. *)
IsReachable(a) == a \in reached

(* Forwardable::forward: the new address, or the object's own.             *)
Forward(a) == fwd[a]

CoreInit ==
  /\ stage = "Mutator"
  /\ moving = FALSE
  /\ heap = [a \in Addr |-> Free]
  /\ fwd = [a \in Addr |-> a]
  /\ reached = {}
  /\ live = {}
  /\ edges = [o \in Obj |-> {}]
  /\ pinned = {}
  /\ bucket = [s \in GCStage |-> {}]
  /\ running = [w \in Worker |-> NoPacket]

-----------------------------------------------------------------------------
(* The Ruby program.                                                       *)

(* A new object may hold references to anything the program can use.       *)
Alloc(o, a, S) ==
  /\ stage = "Mutator"
  /\ o \notin OnHeap
  /\ heap[a] = Free
  /\ S \subseteq live
  /\ heap' = [heap EXCEPT ![a] = o]
  /\ live' = live \cup {o}
  /\ edges' = [edges EXCEPT ![o] = S]
  /\ UNCHANGED <<stage, moving, fwd, reached, pinned, schedVars>>

(* o becomes garbage: no root and no live object refers to it any more.  A *)
(* pinned object is in use by whoever pinned it.                           *)
Drop(o) ==
  /\ stage = "Mutator"
  /\ o \in live
  /\ \A p \in live : o \notin edges[p]
  /\ \A a \in pinned : heap[a] # o
  /\ live' = live \ {o}
  /\ UNCHANGED <<stage, moving, heap, fwd, reached, edges, pinned, schedVars>>

(* The program overwrites the fields of o.                                 *)
Write(o, S) ==
  /\ stage = "Mutator"
  /\ o \in live
  /\ S \subseteq live
  /\ edges' = [edges EXCEPT ![o] = S]
  /\ UNCHANGED <<stage, moving, heap, fwd, reached, live, pinned, schedVars>>

-----------------------------------------------------------------------------
(* The scheduler: a worker may take any packet of the open bucket; the     *)
(* next bucket opens when the open one is empty and every worker is parked.*)

StartGC(mayMove, packets) ==
  /\ stage = "Mutator"
  /\ stage' = "Prepare"
  /\ moving' = mayMove
  /\ bucket' = [bucket EXCEPT !["Prepare"] = packets]
  /\ UNCHANGED <<heap, fwd, reached, live, edges, pinned, running>>

TakePacket(w, p) ==
  /\ stage # "Mutator"
  /\ running[w] = NoPacket
  /\ p \in bucket[stage]
  /\ bucket' = [bucket EXCEPT ![stage] = @ \ {p}]
  /\ running' = [running EXCEPT ![w] = p]
  /\ UNCHANGED <<stage, heapVars, pinned>>

Advance(from, to) ==
  /\ stage = from
  /\ bucket[from] = {}
  /\ \A w \in Worker : running[w] = NoPacket
  /\ stage' = to

EndPrepare ==
  /\ Advance("Prepare", "Closure")
  /\ UNCHANGED <<heapVars, pinned, schedVars>>

(* The VMRefClosure bucket opens with its sentinel packet.                 *)
EndClosure(sentinel) ==
  /\ Advance("Closure", "VMRefClosure")
  /\ \A a \in FromSpace :
       (heap[a] \in live \/ \E b \in reached : heap[a] \in edges[heap[b]])
         => a \in reached
  /\ bucket' = [bucket EXCEPT !["VMRefClosure"] = {sentinel}]
  /\ UNCHANGED <<heapVars, pinned, running>>

EndVMRefClosure ==
  /\ Advance("VMRefClosure", "Release")
  /\ UNCHANGED <<heapVars, pinned, schedVars>>

(* Release: what was not traced is gone, and so are the old copies.        *)
Survivor == {fwd[a] : a \in reached}

Reclaim ==
  /\ Advance("Release", "Mutator")
  /\ heap' = [a \in Addr |-> IF a \in Survivor THEN heap[a] ELSE Free]
  /\ edges' = [o \in Obj |-> IF o \in {heap[a] : a \in Survivor}
                             THEN edges[o] ELSE {}]
  /\ fwd' = [a \in Addr |-> a]
  /\ reached' = {}
  /\ moving' = FALSE
  /\ UNCHANGED <<live, pinned, schedVars>>

-----------------------------------------------------------------------------
(* Tracing.  Every live object is traced; garbage may be, too (a mature    *)
(* object in a nursery collection, a conservatively found one), with what  *)
(* it refers to.  An object that is not pinned may be copied to a free     *)
(* address if the collection moves objects at all.                         *)

TraceInPlace(a) ==
  /\ stage = "Closure"
  /\ a \in FromSpace \ reached
  /\ reached' = reached \cup {a}
  /\ UNCHANGED <<stage, moving, heap, fwd, live, edges, pinned, schedVars>>

TraceAndCopy(a, b) ==
  /\ stage = "Closure"
  /\ moving
  /\ a \in FromSpace \ reached
  /\ a \notin pinned
  /\ heap[b] = Free
  /\ reached' = reached \cup {a}
  /\ heap' = [heap EXCEPT ![b] = heap[a]]
  /\ fwd' = [fwd EXCEPT ![a] = b]
  /\ UNCHANGED <<stage, moving, live, edges, pinned, schedVars>>

CoreTypeOK ==
  /\ stage \in Stage
  /\ moving \in BOOLEAN
  /\ heap \in [Addr -> Obj \cup {Free}]
  /\ fwd \in [Addr -> Addr]
  /\ reached \subseteq Addr
  /\ live \subseteq Obj
  /\ edges \in [Obj -> SUBSET Obj]
  /\ pinned \subseteq Addr
=============================================================================
