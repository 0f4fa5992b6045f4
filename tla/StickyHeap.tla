------------------------------ MODULE StickyHeap ------------------------------
(***************************************************************************)
(* The generational heap of mmtk-core (StickyImmix) and the Ruby program   *)
(* on it, as scanning.rs and binding.rs rely on them; none of this code is *)
(* in the repository.  In contrast to MMTkCore, which lets a collection    *)
(* reach whatever is live, tracing here starts from the roots the binding  *)
(* hands over and from the remembered set, and from nothing else: what the *)
(* binding forgets is lost.                                                *)
(***************************************************************************)
EXTENDS Naturals, FiniteSets, Functions

CONSTANTS
  Obj,       (* identities of Ruby objects                                 *)
  Addr,      (* object references                                          *)
  Free,      (* content of an address that holds no object                 *)
  Scanner,   (* the places CRuby keeps roots, one upcall each              *)
  Holder,    (* objects that have fields                                   *)
  MaxFields, (* bound: objects one of them refers to                       *)
  MaxMoved   (* bound: objects one collection moves                        *)

ASSUME HeapAssumption == Free \notin Obj /\ Holder \subseteq Obj

VARIABLES
  stage,       (* "Mutator", or the open work bucket                       *)
  nursery,     (* is_current_gc_nursery()                                  *)
  heap,        (* the object at each address                               *)
  edges,       (* the objects each object refers to                        *)
  roots,       (* the objects CRuby refers to from each place              *)
  unprotected, (* objects whose header says: writes without barrier        *)
  old,         (* addresses that survived a collection (mark bit kept)     *)
  remembered,  (* old addresses the write barrier has logged               *)
  pinnedRoots, (* what create_process_pinning_roots_work was given         *)
  reached,     (* addresses whose mark bit is set                          *)
  fwd          (* forwarding pointers of this collection, else identity    *)

programVars == <<edges, roots, unprotected>>
traceVars == <<pinnedRoots, reached, fwd>>
heapVars == <<stage, nursery, heap, programVars, old, remembered, traceVars>>

OnHeap == {heap[a] : a \in Addr} \ {Free}
AddrsOf(S) == {a \in Addr : heap[a] \in S}

(* Where the objects that the object at a refers to are.                   *)
Kids(a) == IF heap[a] \in Obj THEN AddrsOf(edges[heap[a]]) ELSE {}

AllRoots == UNION {roots[s] : s \in Scanner}

(* The least set with the roots that is closed under references.           *)
Live ==
  {o \in Obj : \A S \in SUBSET Obj :
     (AllRoots \subseteq S /\ \A p \in S : edges[p] \subseteq S) => o \in S}

IsReachable(a) == a \in reached
Forward(a) == fwd[a]

HeapInit ==
  /\ stage = "Mutator"
  /\ nursery = FALSE
  /\ heap = [a \in Addr |-> Free]
  /\ edges = [o \in Obj |-> {}]
  /\ roots = [s \in Scanner |-> {}]
  /\ unprotected = {}
  /\ old = {}
  /\ remembered = {}
  /\ pinnedRoots = {}
  /\ reached = {}
  /\ fwd = [a \in Addr |-> a]

-----------------------------------------------------------------------------
(* The Ruby program.                                                       *)

Alloc(o, a, s) ==
  /\ stage = "Mutator"
  /\ o \notin OnHeap
  /\ heap[a] = Free
  /\ heap' = [heap EXCEPT ![a] = o]
  /\ roots' = [roots EXCEPT ![s] = @ \cup {o}]
  /\ UNCHANGED <<stage, nursery, edges, unprotected, old, remembered, traceVars>>

(* A reference is loaded into a root, or a root is overwritten.            *)
SetRoots(s, S) ==
  /\ stage = "Mutator"
  /\ S \subseteq Live
  /\ roots' = [roots EXCEPT ![s] = S]
  /\ UNCHANGED <<stage, nursery, heap, edges, unprotected, old, remembered, traceVars>>

(* What object_reference_write_post logs for a write to o.                 *)
Logged(o) == IF o \in unprotected THEN {} ELSE AddrsOf({o}) \cap old

SetFields(o, S) ==
  /\ stage = "Mutator"
  /\ o \in Live \cap Holder
  /\ S \subseteq Live
  /\ Cardinality(S) <= MaxFields
  /\ edges' = [edges EXCEPT ![o] = S]
  /\ remembered' = remembered \cup Logged(o)
  /\ UNCHANGED <<stage, nursery, heap, roots, unprotected, old, traceVars>>

-----------------------------------------------------------------------------
(* The collection.                                                         *)

(* A nursery collection keeps the mark bits of the old objects.            *)
StartGC(isNursery) ==
  /\ stage = "Mutator"
  /\ stage' = "Prepare"
  /\ nursery' = isNursery
  /\ reached' = IF isNursery THEN old ELSE {}
  /\ UNCHANGED <<heap, programVars, old, remembered, pinnedRoots, fwd>>

Seeds == pinnedRoots \cup (IF nursery THEN UNION {Kids(a) : a \in remembered} ELSE {})

(* What tracing adds to the marked objects: the least set with the seeds   *)
(* that is closed under references to objects not marked before.           *)
Traced ==
  {a \in Addr : \A S \in SUBSET Addr :
     (Seeds \ reached \subseteq S /\ \A b \in S : Kids(b) \ reached \subseteq S) => a \in S}

(* What is traced may be copied, roots excepted: they are pinned.          *)
Copies ==
  UNION {Injection(S, {b \in Addr : heap[b] = Free}) :
           S \in {T \in SUBSET (Traced \ pinnedRoots) : Cardinality(T) <= MaxMoved}}

TraceClosure(copies) ==
  /\ stage = "Prepare"
  /\ stage' = "VMRefClosure"
  /\ reached' = reached \cup Traced
  /\ fwd' = [a \in Addr |-> IF a \in DOMAIN copies THEN copies[a] ELSE a]
  /\ heap' = [b \in Addr |-> IF \E a \in DOMAIN copies : copies[a] = b
                             THEN heap[CHOOSE a \in DOMAIN copies : copies[a] = b]
                             ELSE heap[b]]
  /\ UNCHANGED <<nursery, programVars, old, remembered, pinnedRoots>>

Survivor == {fwd[a] : a \in reached}

(* Release: what is not marked is gone; the survivors are old.             *)
Reclaim ==
  /\ stage = "VMRefClosure"
  /\ stage' = "Mutator"
  /\ nursery' = FALSE
  /\ heap' = [a \in Addr |-> IF a \in Survivor THEN heap[a] ELSE Free]
  /\ edges' = [o \in Obj |-> IF o \in {heap[a] : a \in Survivor} THEN edges[o] ELSE {}]
  /\ unprotected' = unprotected \cap {heap[a] : a \in Survivor}
  /\ old' = Survivor
  /\ remembered' = {}
  /\ pinnedRoots' = {}
  /\ reached' = {}
  /\ fwd' = [a \in Addr |-> a]
  /\ UNCHANGED roots
=============================================================================
