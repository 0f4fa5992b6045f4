------------------------------- MODULE GivTbl -------------------------------
(***************************************************************************)
(* Generic instance variables of objects that move.  CRuby keeps the       *)
(* variables of an object with FL_EXIVAR in generic_iv_tbl_, a hash table  *)
(* keyed by the object's address that is not thread-safe.  While tracing,  *)
(* workers therefore only record the moves in moved_givtbl                 *)
(* (object_model.rs, copy), look a table up in either place                *)
(* (abi.rs, get_givtbl), and the table is re-keyed and cleaned by one      *)
(* packet of VMRefClosure (weak_proc.rs, update_generic_iv_tbl).           *)
(***************************************************************************)
EXTENDS MMTkCore

CONSTANT NoTable  (* no variables stored under a key                       *)

VARIABLES
  exivar,      (* objects whose FL_EXIVAR flag is set                      *)
  givtbl,      (* generic_iv_tbl_: the object whose variables a key holds  *)
  movedGivtbl, (* RubyBinding::moved_givtbl                                *)
  toScan,      (* traced objects that are still to be scanned              *)
  task         (* what each worker does with an object while tracing       *)

tblVars == <<exivar, givtbl, movedGivtbl>>
givVars == <<tblVars, toScan, task>>
vars == <<coreVars, givVars>>

Idle == [pc |-> "idle"]
Copying(pc, a, b, t) == [pc |-> pc, from |-> a, to |-> b, tbl |-> t]
Scanning(pc, r) == [pc |-> pc, obj |-> r]

Moved(b, a, t) == [new |-> b, old |-> a, tbl |-> t]

Packet(kind) == [kind |-> kind]
Runs(w, kind) == running[w] = Packet(kind)

PacketSet == {Packet("ProcessWeakRefs"), Packet("UpdateGenericIvTbl")}

ASSUME GivTblAssumption == NoTable \notin Obj /\ NoPacket \notin PacketSet

GivInit ==
  /\ CoreInit
  /\ exivar = {}
  /\ givtbl = [a \in Addr |-> NoTable]
  /\ movedGivtbl = {}
  /\ toScan = {}
  /\ task = [w \in Worker |-> Idle]

-----------------------------------------------------------------------------
(* Mutators.                                                               *)

New(o, a, S) ==
  /\ Alloc(o, a, S)
  /\ UNCHANGED givVars

Forget(o) ==
  /\ Drop(o)
  /\ UNCHANGED givVars

(* The first generic instance variable of o is set.                        *)
SetIvar(o) ==
  /\ stage = "Mutator"
  /\ o \in live \ exivar
  /\ exivar' = exivar \cup {o}
  /\ givtbl' = [a \in Addr |-> IF heap[a] = o THEN o ELSE givtbl[a]]
  /\ UNCHANGED <<coreVars, movedGivtbl, toScan, task>>

(* Its last one is removed.                                                *)
RemoveIvars(o) ==
  /\ stage = "Mutator"
  /\ o \in live \cap exivar
  /\ exivar' = exivar \ {o}
  /\ givtbl' = [a \in Addr |-> IF heap[a] = o THEN NoTable ELSE givtbl[a]]
  /\ UNCHANGED <<coreVars, movedGivtbl, toScan, task>>

StopAllMutators(mayMove) ==
  /\ StartGC(mayMove, {})
  /\ UNCHANGED givVars

-----------------------------------------------------------------------------
(* Tracing.  mmtk-core lets one worker at a time copy an object.           *)

BeingCopied == {task[w].from : w \in {v \in Worker : task[v].pc \in {"insert", "publish"}}}
Reserved == {task[w].to : w \in {v \in Worker : task[v].pc \in {"insert", "publish"}}}

KeepInPlace(w, a) ==
  /\ task[w] = Idle
  /\ a \notin BeingCopied
  /\ TraceInPlace(a)
  /\ toScan' = toScan \cup {a}
  /\ UNCHANGED <<tblVars, task>>

AfterAllocCopy(a) == IF heap[a] \in exivar THEN "insert" ELSE "publish"

(* copy, up to and with the copying of the bytes: the table is looked up   *)
(* before the space is allocated.                                          *)
StartCopy(w, a, b) ==
  /\ stage = "Closure"
  /\ moving
  /\ task[w] = Idle
  /\ a \in FromSpace \ (reached \cup pinned \cup BeingCopied)
  /\ heap[b] = Free
  /\ b \notin Reserved
  /\ task' = [task EXCEPT ![w] = Copying(AfterAllocCopy(a), a, b, givtbl[a])]
  /\ UNCHANGED <<coreVars, tblVars, toScan>>

(* Mutant: the entry is keyed by the address the object leaves.            *)
EntryOfOldKey(t) == Moved(t.from, t.from, t.tbl)

EntryOf(t) == Moved(t.to, t.from, t.tbl)

InsertMoved(w) ==
  /\ task[w].pc = "insert"
  /\ movedGivtbl' = {m \in movedGivtbl : m.new # EntryOf(task[w]).new}
                       \cup {EntryOf(task[w])}
  /\ task' = [task EXCEPT ![w].pc = "publish"]
  /\ UNCHANGED <<coreVars, exivar, givtbl, toScan>>

(* copy has returned: mmtk-core installs the forwarding pointer and queues *)
(* the object to be scanned.                                               *)
Publish(w) ==
  /\ task[w].pc = "publish"
  /\ TraceAndCopy(task[w].from, task[w].to)
  /\ toScan' = toScan \cup {task[w].to}
  /\ task' = [task EXCEPT ![w] = Idle]
  /\ UNCHANGED tblVars

(* scan_object_and_trace_edges; CRuby asks for the table of an object      *)
(* whose FL_EXIVAR is set.                                                 *)
StartScan(w, r) ==
  /\ task[w] = Idle
  /\ r \in toScan
  /\ toScan' = toScan \ {r}
  /\ task' = [task EXCEPT ![w] = IF heap[r] \in exivar THEN Scanning("lookup", r) ELSE Idle]
  /\ UNCHANGED <<coreVars, tblVars>>

(* get_givtbl: generic_iv_tbl_ first, then moved_givtbl under its lock; it *)
(* panics if the object is in neither.                                     *)
LookupOriginal(w) ==
  /\ task[w].pc = "lookup"
  /\ task' = [task EXCEPT ![w] = IF givtbl[@.obj] = NoTable
                                 THEN Scanning("lookupMoved", @.obj) ELSE Idle]
  /\ UNCHANGED <<coreVars, tblVars, toScan>>

LookupMoved(w) ==
  /\ task[w].pc = "lookupMoved"
  /\ \E m \in movedGivtbl : m.new = task[w].obj
  /\ task' = [task EXCEPT ![w] = Idle]
  /\ UNCHANGED <<coreVars, tblVars, toScan>>

-----------------------------------------------------------------------------
(* After tracing.                                                          *)

Sentinel == Packet("ProcessWeakRefs")

Take(w, p) ==
  /\ TakePacket(w, p)
  /\ UNCHANGED givVars

(* process_weak_stuff adds the packet.                                     *)
ProcessWeakStuff(w) ==
  /\ Runs(w, "ProcessWeakRefs")
  /\ bucket' = [bucket EXCEPT !["VMRefClosure"] = @ \cup {Packet("UpdateGenericIvTbl")}]
  /\ running' = [running EXCEPT ![w] = NoPacket]
  /\ UNCHANGED <<stage, heapVars, pinned, givVars>>

(* Mutants of move_givtbl: the old key is removed and nothing inserted;    *)
(* what is inserted is the old reference.                                  *)
RekeyedLost(m) == [givtbl EXCEPT ![m.old] = NoTable]
RekeyedToOld(m) == [givtbl EXCEPT ![m.new] = m.old, ![m.old] = NoTable]

Rekeyed(m) == [givtbl EXCEPT ![m.new] = givtbl[m.old], ![m.old] = NoTable]

(* update_generic_iv_tbl: drain moved_givtbl in any order ...              *)
MoveGivTbl(w, m) ==
  /\ Runs(w, "UpdateGenericIvTbl")
  /\ m \in movedGivtbl
  /\ movedGivtbl' = movedGivtbl \ {m}
  /\ givtbl' = Rekeyed(m)
  /\ UNCHANGED <<coreVars, exivar, toScan, task>>

(* Mutants of the cleaning: it looks at the addresses objects were traced  *)
(* at; it does nothing.                                                    *)
KeysOfTraced == reached
KeysOfAll == Addr

KeysOfLive == Survivor

(* ... then cleanup_generic_iv_tbl deletes the keys that are not reachable.*)
CleanupGivTbl(w) ==
  /\ Runs(w, "UpdateGenericIvTbl")
  /\ movedGivtbl = {}
  /\ givtbl' = [a \in Addr |-> IF a \in KeysOfLive THEN givtbl[a] ELSE NoTable]
  /\ running' = [running EXCEPT ![w] = NoPacket]
  /\ UNCHANGED <<stage, heapVars, pinned, bucket, exivar, movedGivtbl, toScan, task>>

-----------------------------------------------------------------------------
Mutator ==
  \/ \E o \in Obj, a \in Addr : \E S \in SUBSET live : New(o, a, S)
  \/ \E o \in live : Forget(o)
  \/ \E o \in Obj : SetIvar(o) \/ RemoveIvars(o)
  \/ \E mayMove \in BOOLEAN : StopAllMutators(mayMove)

(* A closure ends when nothing is left to scan; the flags of reclaimed     *)
(* objects go with their memory.                                           *)
NextStage ==
  \/ EndPrepare /\ UNCHANGED givVars
  \/ /\ EndClosure(Sentinel)
     /\ toScan = {}
     /\ \A w \in Worker : task[w] = Idle
     /\ UNCHANGED givVars
  \/ EndVMRefClosure /\ UNCHANGED givVars
  \/ Reclaim /\ exivar' = exivar \cap OnHeap'
             /\ UNCHANGED <<givtbl, movedGivtbl, toScan, task>>

WorkerStep(w) ==
  \/ \E a \in Addr : KeepInPlace(w, a) \/ \E b \in Addr : StartCopy(w, a, b)
  \/ InsertMoved(w)
  \/ Publish(w)
  \/ \E r \in toScan : StartScan(w, r)
  \/ LookupOriginal(w)
  \/ LookupMoved(w)
  \/ \E s \in GCStage : \E p \in bucket[s] : Take(w, p)
  \/ ProcessWeakStuff(w)
  \/ \E m \in movedGivtbl : MoveGivTbl(w, m)
  \/ CleanupGivTbl(w)

Collector == NextStage \/ \E w \in Worker : WorkerStep(w)

Next == Mutator \/ Collector

Spec == GivInit /\ [][Next]_vars /\ WF_vars(Collector)

-----------------------------------------------------------------------------
(* Type correctness.                                                       *)
GivTypeOK ==
  /\ CoreTypeOK
  /\ exivar \subseteq Obj
  /\ givtbl \in [Addr -> Obj \cup {NoTable}]
  /\ movedGivtbl \subseteq [new : Addr, old : Addr, tbl : Obj]
  /\ toScan \subseteq Addr
  /\ task \in [Worker ->
       {Idle} \cup [pc : {"insert", "publish"}, from : Addr, to : Addr,
                    tbl : Obj \cup {NoTable}]
              \cup [pc : {"lookup", "lookupMoved"}, obj : Addr]]

(* get_givtbl never panics and never answers with another object's         *)
(* variables: a scanned object has its own under exactly one of the two    *)
(* keys, because its move is recorded before anyone can see the copy.      *)
LookupSucceeds ==
  \A w \in Worker :
    /\ task[w].pc = "lookup" => givtbl[task[w].obj] \in {heap[task[w].obj], NoTable}
    /\ task[w].pc = "lookupMoved" =>
         {m.tbl : m \in {n \in movedGivtbl : n.new = task[w].obj}} = {heap[task[w].obj]}

(* copy finds the table of every object with FL_EXIVAR (it panics if there *)
(* is none), after any number of earlier moves.                            *)
CopyFindsTable ==
  \A w \in Worker : task[w].pc = "insert" => task[w].tbl = heap[task[w].from]

(* Whenever the program runs, generic_iv_tbl_ holds the variables of       *)
(* exactly the objects on the heap that have any, under their current      *)
(* addresses, and no move is left unprocessed.                             *)
IvarsFollowObject ==
  stage = "Mutator" =>
    /\ movedGivtbl = {}
    /\ \A a \in Addr : givtbl[a] = IF heap[a] \in exivar THEN heap[a] ELSE NoTable

(* A recorded move reaches generic_iv_tbl_, under fair GC threads: tracing *)
(* does not get stuck, and nothing is left in moved_givtbl.                *)
MovesAreApplied == (movedGivtbl # {}) ~> (movedGivtbl = {} /\ stage = "Mutator")

(* The table is a weak registry of the objects that have variables.        *)
Registry == INSTANCE WeakRegistry WITH
  onHeap <- OnHeap,
  needed <- live \cap exivar,
  members <- {givtbl[a] : a \in Addr} \ {NoTable}
ImplementsRegistry == Registry!Spec
=============================================================================
