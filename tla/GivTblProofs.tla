---------------------------- MODULE GivTblProofs ----------------------------
(***************************************************************************)
(* Proofs about GivTbl, for every heap and set of workers.                 *)
(*                                                                         *)
(* GivInv is the inductive invariant: one packet after the other is on its *)
(* way in VMRefClosure (PacketsFit), what forwarding means (HeapFits),     *)
(* what a worker may be doing with an object (TasksFit), which moves are   *)
(* recorded (MovesFit), and under which of its addresses the variables of  *)
(* an object are kept at every point between two collections (TableFits).  *)
(***************************************************************************)
EXTENDS GivTbl, TLAPS

SchedTypeOK ==
  /\ bucket \in [GCStage -> SUBSET PacketSet]
  /\ running \in [Worker -> PacketSet \cup {NoPacket}]

AllIdle == \A w \in Worker : running[w] = NoPacket

(* At most one packet exists, and only in VMRefClosure.                    *)
PacketsFit ==
  /\ \A s \in GCStage : bucket[s] # {} => s = "VMRefClosure" /\ stage = s /\ AllIdle
  /\ ~AllIdle => stage = "VMRefClosure"
  /\ \A p, q \in bucket["VMRefClosure"] : p = q
  /\ \A v, w \in Worker : running[v] # NoPacket /\ running[w] # NoPacket => v = w

(* update_generic_iv_tbl is done and the memory not yet reclaimed.         *)
Cleaned ==
  \/ stage = "Release"
  \/ stage = "VMRefClosure" /\ bucket["VMRefClosure"] = {} /\ AllIdle

HeapFits ==
  /\ stage \in {"Mutator", "Prepare"} => reached = {} /\ \A a \in Addr : fwd[a] = a
  /\ \A a \in Addr : fwd[a] # a =>
       a \in reached /\ heap[fwd[a]] = heap[a] /\ fwd[fwd[a]] = fwd[a]
  /\ reached \subseteq FromSpace
  /\ \A a, b \in Addr : heap[a] = heap[b] /\ heap[a] # Free =>
       a = b \/ fwd[a] = b \/ fwd[b] = a
  /\ live \subseteq OnHeap
  /\ stage \in {"VMRefClosure", "Release"} =>
       \A a \in FromSpace : heap[a] \in live => a \in reached

IsCopying(w) == task[w].pc \in {"insert", "publish"}
IsScanning(w) == task[w].pc \in {"lookup", "lookupMoved"}

(* A worker copies an object nobody else copies, to a place nobody else    *)
(* was given; it scans objects where they are after the collection.        *)
TasksFit ==
  /\ stage # "Closure" => toScan = {} /\ \A w \in Worker : task[w] = Idle
  /\ toScan \subseteq Survivor
  /\ \A w \in Worker : IsCopying(w) =>
       /\ task[w].from \in FromSpace \ reached
       /\ task[w].from \notin pinned /\ moving
       /\ heap[task[w].to] = Free
  /\ \A v, w \in Worker : IsCopying(v) /\ IsCopying(w)
                            /\ (task[v].from = task[w].from \/ task[v].to = task[w].to) =>
       v = w
  /\ \A w \in Worker : IsScanning(w) =>
       task[w].obj \in Survivor /\ heap[task[w].obj] \in exivar
  /\ \A w \in Worker : task[w].pc = "lookupMoved" => task[w].obj \notin FromSpace
  /\ \A w \in Worker : task[w].pc = "insert" => heap[task[w].from] \in exivar

Recorded(a, b) == Moved(b, a, heap[a]) \in movedGivtbl

(* A record is of a copy that was published or is about to be; tracing has *)
(* a record of every published copy of an object with variables.           *)
MovesFit ==
  /\ stage \in {"Mutator", "Prepare"} => movedGivtbl = {}
  /\ Cleaned => movedGivtbl = {}
  /\ \A m \in movedGivtbl :
       /\ m.new # m.old /\ m.tbl = heap[m.old] /\ m.tbl \in exivar
       /\ \/ fwd[m.old] = m.new
          \/ \E w \in Worker : task[w].pc = "publish" /\ task[w].from = m.old /\ task[w].to = m.new
  /\ \A w \in Worker : task[w].pc = "publish" /\ heap[task[w].from] \in exivar =>
       Recorded(task[w].from, task[w].to)
  /\ stage = "Closure" =>
       \A a \in Addr : fwd[a] # a /\ heap[a] \in exivar => Recorded(a, fwd[a])

Leaves(a) == \E m \in movedGivtbl : m.old = a
Arrives(a) == \E m \in movedGivtbl : m.new = a

(* The variables of the object at a are kept under a: they stay there      *)
(* until a recorded move from a is applied, and are not at the new address *)
(* before.                                                                 *)
KeyedBy(a) ==
  /\ heap[a] \in exivar
  /\ a \in FromSpace => fwd[a] = a \/ Leaves(a)
  /\ a \notin FromSpace => ~Arrives(a)

TableFits ==
  /\ ~Cleaned => \A a \in Addr : givtbl[a] = IF KeyedBy(a) THEN heap[a] ELSE NoTable
  /\ Cleaned => \A a \in Addr :
       givtbl[a] = IF a \in Survivor /\ heap[a] \in exivar THEN heap[a] ELSE NoTable

GivInv ==
  /\ GivTypeOK /\ SchedTypeOK /\ PacketsFit /\ HeapFits
  /\ exivar \subseteq OnHeap
  /\ TasksFit /\ MovesFit /\ TableFits /\ CopyFindsTable

-----------------------------------------------------------------------------
LEMMA InitGivInv == GivInit => GivInv
<1> SUFFICES ASSUME GivInit PROVE GivInv
  OBVIOUS
<1> USE DEF GivInit, CoreInit
<1>1. \A w \in Worker : task[w] = Idle /\ task[w].pc = "idle"  BY DEF Idle
<1>2. GivTypeOK /\ SchedTypeOK
  BY <1>1 DEF GivTypeOK, CoreTypeOK, Stage, SchedTypeOK
<1>3. PacketsFit /\ ~Cleaned  BY DEF PacketsFit, AllIdle, GCStage, Cleaned
<1>4. HeapFits  BY DEF HeapFits, FromSpace, OnHeap
<1>5. TasksFit /\ CopyFindsTable
  BY <1>1 DEF TasksFit, CopyFindsTable, IsCopying, IsScanning
<1>6. MovesFit  BY <1>1, <1>3 DEF MovesFit
<1>7. TableFits  BY <1>3, CoreAssumption DEF TableFits, KeyedBy
<1> QED BY <1>2, <1>3, <1>4, <1>5, <1>6, <1>7 DEF GivInv

(* Outside VMRefClosure no packet exists.                                  *)
LEMMA NoPackets ==
  ASSUME GivInv, stage # "VMRefClosure"
  PROVE  AllIdle /\ \A s \in GCStage : bucket[s] = {}
BY DEF GivInv, PacketsFit

LEMMA TaskShape ==
  ASSUME GivInv, NEW w \in Worker
  PROVE  /\ task[w] = Idle => task[w].pc = "idle"
         /\ task[w].pc = "idle" => task[w] = Idle
         /\ IsCopying(w) =>
              /\ task[w] = Copying(task[w].pc, task[w].from, task[w].to, task[w].tbl)
              /\ task[w].from \in Addr /\ task[w].to \in Addr
              /\ task[w].tbl \in Obj \cup {NoTable}
         /\ IsScanning(w) =>
              task[w] = Scanning(task[w].pc, task[w].obj) /\ task[w].obj \in Addr
         /\ task[w].pc \in {"idle", "insert", "publish", "lookup", "lookupMoved"}
<1>1. task[w] \in {Idle} \cup [pc : {"insert", "publish"}, from : Addr, to : Addr,
                               tbl : Obj \cup {NoTable}]
                         \cup [pc : {"lookup", "lookupMoved"}, obj : Addr]
  BY DEF GivInv, GivTypeOK
<1> QED BY <1>1 DEF Idle, Copying, Scanning, IsCopying, IsScanning

LEMMA SurvivorsFit ==
  ASSUME GivInv
  PROVE  /\ \A a \in Survivor : a \in Addr /\ heap[a] # Free /\ fwd[a] = a
         /\ \A a, b \in Survivor : heap[a] = heap[b] => a = b
         /\ \A a \in Survivor \cap FromSpace : a \in reached
<1> USE DEF GivInv
<1>1. ASSUME NEW a \in Survivor
      PROVE  /\ a \in Addr /\ heap[a] # Free /\ fwd[a] = a
             /\ a \in FromSpace => a \in reached
  <2>1. PICK c \in reached : a = fwd[c]  BY DEF Survivor
  <2>2. c \in Addr /\ a \in Addr /\ heap[c] # Free
    BY <2>1 DEF GivTypeOK, CoreTypeOK, HeapFits, FromSpace
  <2>3. CASE c = a  BY <2>1, <2>2, <2>3
  <2>4. CASE c # a
    BY <2>1, <2>2, <2>4 DEF HeapFits, FromSpace
  <2> QED BY <2>3, <2>4
<1>2. ASSUME NEW a \in Survivor, NEW b \in Survivor, heap[a] = heap[b]
      PROVE  a = b
  BY <1>1, <1>2 DEF HeapFits
<1> QED BY <1>1, <1>2

-----------------------------------------------------------------------------
(* The program.                                                            *)

(* Between collections the table says who has variables, address by        *)
(* address.                                                                *)
LEMMA MutatorTable ==
  ASSUME GivInv, stage \in {"Mutator", "Prepare"}
  PROVE  /\ ~Cleaned /\ movedGivtbl = {}
         /\ \A w \in Worker : task[w] = Idle
         /\ \A a \in Addr : givtbl[a] = IF heap[a] \in exivar THEN heap[a] ELSE NoTable
         /\ \A a \in Addr : a \in FromSpace <=> heap[a] # Free
<1> USE DEF GivInv
<1>1. ~Cleaned  BY DEF Cleaned
<1>2. movedGivtbl = {}  BY DEF MovesFit
<1>3. \A a \in Addr : a \in FromSpace <=> heap[a] # Free  BY DEF HeapFits, FromSpace
<1>4. \A a \in Addr : KeyedBy(a) <=> heap[a] \in exivar
  BY <1>2 DEF KeyedBy, Arrives, HeapFits
<1> QED BY <1>1, <1>2, <1>3, <1>4 DEF TableFits, TasksFit

(* And a state in which it does is one the invariant allows.               *)
LEMMA MutatorStep ==
  ASSUME GivInv, stage = "Mutator",
         UNCHANGED <<stage, fwd, reached, movedGivtbl, toScan, task>>,
         GivTypeOK', SchedTypeOK', PacketsFit', HeapFits', (exivar \subseteq OnHeap)',
         \A a \in Addr : givtbl'[a] = IF heap'[a] \in exivar' THEN heap'[a] ELSE NoTable
  PROVE  GivInv'
<1> USE DEF GivInv
<1>1. ~Cleaned'  BY DEF Cleaned
<1>2. movedGivtbl = {} /\ \A w \in Worker : task[w] = Idle /\ task[w].pc = "idle"
  BY MutatorTable, TaskShape
<1>3. TasksFit' /\ CopyFindsTable'
  BY <1>2 DEF TasksFit, IsCopying, IsScanning, CopyFindsTable, Survivor
<1>4. MovesFit'  BY <1>1, <1>2 DEF MovesFit
<1>5. \A a \in Addr : KeyedBy(a)' <=> heap'[a] \in exivar'
  BY <1>2 DEF KeyedBy, Arrives, HeapFits
<1>6. TableFits'  BY <1>1, <1>5 DEF TableFits
<1> QED BY <1>3, <1>4, <1>6

LEMMA NewGivInv ==
  ASSUME GivInv, NEW o \in Obj, NEW a \in Addr, NEW S \in SUBSET live, New(o, a, S)
  PROVE  GivInv'
<1> USE DEF GivInv, New, Alloc, givVars, tblVars, schedVars
<1>1. GivTypeOK'  BY DEF GivTypeOK, CoreTypeOK
<1>2. SchedTypeOK' /\ PacketsFit'  BY DEF SchedTypeOK, PacketsFit, AllIdle
<1>3. /\ o # Free
      /\ \A b \in Addr : heap'[b] = IF b = a THEN o ELSE heap[b]
      /\ \A b \in Addr : heap[b] # Free => b # a /\ heap[b] # o
      /\ OnHeap' = OnHeap \cup {o}
  BY CoreAssumption DEF OnHeap, GivTypeOK, CoreTypeOK
<1>4. HeapFits'
  BY <1>3 DEF HeapFits, FromSpace, GivTypeOK, CoreTypeOK
<1>5. o \notin exivar /\ Free \notin exivar  BY <1>3 DEF OnHeap
<1>6. \A b \in Addr : givtbl'[b] = IF heap'[b] \in exivar' THEN heap'[b] ELSE NoTable
  BY <1>3, <1>5, MutatorTable
<1> QED BY <1>1, <1>2, <1>3, <1>4, <1>6, MutatorStep

LEMMA ForgetGivInv ==
  ASSUME GivInv, NEW o \in live, Forget(o)
  PROVE  GivInv'
<1> USE DEF GivInv, Forget, Drop, givVars, tblVars, schedVars
<1>1. GivTypeOK' /\ SchedTypeOK' /\ PacketsFit'
  BY DEF GivTypeOK, CoreTypeOK, SchedTypeOK, PacketsFit, AllIdle
<1>2. HeapFits' /\ OnHeap' = OnHeap  BY DEF HeapFits, OnHeap, FromSpace
<1> QED BY <1>1, <1>2, MutatorTable, MutatorStep

LEMMA SetIvarGivInv ==
  ASSUME GivInv, NEW o \in Obj, SetIvar(o)
  PROVE  GivInv' /\ o \in OnHeap
<1> USE DEF GivInv, SetIvar, coreVars, heapVars, schedVars
<1>1. GivTypeOK' /\ SchedTypeOK' /\ PacketsFit'
  BY DEF GivTypeOK, CoreTypeOK, SchedTypeOK, PacketsFit, AllIdle
<1>2. HeapFits' /\ OnHeap' = OnHeap /\ o \in OnHeap  BY DEF HeapFits, OnHeap, FromSpace
<1>3. \A a \in Addr : givtbl'[a] = IF heap'[a] \in exivar' THEN heap'[a] ELSE NoTable
  BY MutatorTable
<1> QED BY <1>1, <1>2, <1>3, MutatorStep

LEMMA RemoveIvarsGivInv ==
  ASSUME GivInv, NEW o \in Obj, RemoveIvars(o)
  PROVE  GivInv'
<1> USE DEF GivInv, RemoveIvars, coreVars, heapVars, schedVars
<1>1. GivTypeOK' /\ SchedTypeOK' /\ PacketsFit'
  BY DEF GivTypeOK, CoreTypeOK, SchedTypeOK, PacketsFit, AllIdle
<1>2. HeapFits' /\ OnHeap' = OnHeap  BY DEF HeapFits, OnHeap, FromSpace
<1>3. \A a \in Addr : givtbl'[a] = IF heap'[a] \in exivar' THEN heap'[a] ELSE NoTable
  BY MutatorTable
<1> QED BY <1>1, <1>2, <1>3, MutatorStep

LEMMA StopGivInv ==
  ASSUME GivInv, NEW mayMove \in BOOLEAN, StopAllMutators(mayMove)
  PROVE  GivInv'
<1> USE DEF GivInv, StopAllMutators, StartGC, givVars, tblVars
<1>1. AllIdle /\ \A s \in GCStage : bucket[s] = {}  BY NoPackets
<1>2. \A s \in GCStage : bucket'[s] = {}
  BY <1>1 DEF SchedTypeOK
<1>3. GivTypeOK' /\ SchedTypeOK' /\ PacketsFit'
  BY <1>1, <1>2 DEF GivTypeOK, CoreTypeOK, SchedTypeOK, PacketsFit, AllIdle, Stage, GCStage
<1>4. HeapFits' /\ OnHeap' = OnHeap  BY DEF HeapFits, OnHeap, FromSpace
<1>5. ~Cleaned' /\ ~Cleaned  BY DEF Cleaned
<1>6. \A w \in Worker : task[w] = Idle /\ task[w].pc = "idle"
  BY MutatorTable, TaskShape
<1>7. TasksFit' /\ CopyFindsTable'
  BY <1>6 DEF TasksFit, IsCopying, IsScanning, CopyFindsTable, Survivor
<1>8. MovesFit'  BY <1>5, <1>6 DEF MovesFit
<1>9. TableFits'
  BY <1>5 DEF TableFits, KeyedBy, Leaves, Arrives, FromSpace
<1> QED BY <1>3, <1>4, <1>7, <1>8, <1>9

-----------------------------------------------------------------------------
(* Tracing.                                                                *)

LEMMA KeepInPlaceGivInv ==
  ASSUME GivInv, NEW w \in Worker, NEW a \in Addr, KeepInPlace(w, a)
  PROVE  GivInv'
<1> USE DEF GivInv, KeepInPlace, TraceInPlace, tblVars, schedVars
<1>1. GivTypeOK'  BY DEF GivTypeOK, CoreTypeOK
<1>2. SchedTypeOK' /\ PacketsFit'  BY DEF SchedTypeOK, PacketsFit, AllIdle
<1>3. HeapFits' /\ OnHeap' = OnHeap  BY DEF HeapFits, OnHeap, FromSpace
<1>4. ~Cleaned' /\ ~Cleaned  BY DEF Cleaned
<1>5. fwd[a] = a  BY DEF HeapFits
<1>6. Survivor' = Survivor \cup {a}  BY <1>5 DEF Survivor
<1>7. TasksFit'
  <2>1. \A v \in Worker : IsCopying(v) => task[v].from # a
    BY DEF BeingCopied, IsCopying
  <2> QED BY <1>6, <2>1 DEF TasksFit, IsCopying, IsScanning, FromSpace
<1>8. MovesFit'  BY <1>4 DEF MovesFit, Recorded
<1>9. TableFits' /\ CopyFindsTable'
  BY <1>4 DEF TableFits, KeyedBy, Leaves, Arrives, FromSpace, CopyFindsTable
<1> QED BY <1>1, <1>2, <1>3, <1>7, <1>8, <1>9

(* A step that changes neither the heap nor the table.                     *)
LEMMA SameHeap ==
  ASSUME GivInv, UNCHANGED <<coreVars, exivar, givtbl>>
  PROVE  /\ CoreTypeOK' /\ SchedTypeOK' /\ PacketsFit' /\ HeapFits'
         /\ (exivar \subseteq OnHeap)' /\ (Cleaned' <=> Cleaned)
         /\ FromSpace' = FromSpace /\ Survivor' = Survivor
BY DEF GivInv, GivTypeOK, coreVars, heapVars, schedVars, CoreTypeOK, SchedTypeOK, PacketsFit,
       AllIdle, HeapFits, OnHeap, Cleaned, FromSpace, Survivor

LEMMA StartCopyGivInv ==
  ASSUME GivInv, NEW w \in Worker, NEW a \in Addr, NEW b \in Addr, StartCopy(w, a, b)
  PROVE  GivInv'
<1> USE DEF GivInv, StartCopy, tblVars, coreVars, heapVars
<1> DEFINE t == Copying(AfterAllocCopy(a), a, b, givtbl[a])
<1>1. /\ CoreTypeOK' /\ SchedTypeOK' /\ PacketsFit' /\ HeapFits' /\ (exivar \subseteq OnHeap)'
      /\ (Cleaned' <=> Cleaned) /\ FromSpace' = FromSpace /\ Survivor' = Survivor
  BY SameHeap
<1>2. task'[w] = t /\ \A v \in Worker : v # w => task'[v] = task[v]
  BY DEF GivTypeOK
<1>3. /\ t.from = a /\ t.to = b /\ t.tbl = givtbl[a] /\ t.pc = AfterAllocCopy(a)
      /\ t.pc \in {"insert", "publish"}
      /\ t \in [pc : {"insert", "publish"}, from : Addr, to : Addr, tbl : Obj \cup {NoTable}]
  BY DEF Copying, AfterAllocCopy, GivTypeOK
<1>4. GivTypeOK'
  BY <1>1, <1>3 DEF GivTypeOK
<1>5. \A v \in Worker : IsCopying(v) => v # w /\ task[v].from # a /\ task[v].to # b
  BY TaskShape DEF IsCopying, BeingCopied, Reserved
<1>6. TasksFit'
  <2>1. \A v \in Worker : v # w =>
          (IsCopying(v)' <=> IsCopying(v)) /\ (IsScanning(v)' <=> IsScanning(v))
    BY <1>2 DEF IsCopying, IsScanning
  <2>2. IsCopying(w)' /\ ~IsScanning(w)' /\ task'[w].pc # "lookupMoved"
    BY <1>2, <1>3 DEF IsCopying, IsScanning
  <2>3. \A v \in Worker : IsCopying(v)' =>
          /\ task'[v].from \in FromSpace \ reached
          /\ task'[v].from \notin pinned /\ moving
          /\ heap[task'[v].to] = Free
    BY <1>2, <1>3, <2>1 DEF TasksFit
  <2>4. \A u, v \in Worker : IsCopying(u)' /\ IsCopying(v)'
               /\ (task'[u].from = task'[v].from \/ task'[u].to = task'[v].to) => u = v
    BY <1>2, <1>3, <1>5, <2>1 DEF TasksFit
  <2>5. \A v \in Worker : IsScanning(v)' =>
          task'[v].obj \in Survivor /\ heap[task'[v].obj] \in exivar
    BY <1>2, <2>1, <2>2 DEF TasksFit
  <2>6. \A v \in Worker : task'[v].pc = "lookupMoved" => task'[v].obj \notin FromSpace
    BY <1>2, <2>2 DEF TasksFit
  <2>7. \A v \in Worker : task'[v].pc = "insert" => heap[task'[v].from] \in exivar
    BY <1>2, <1>3 DEF TasksFit, AfterAllocCopy
  <2> QED BY <1>1, <2>3, <2>4, <2>5, <2>6, <2>7 DEF TasksFit
<1>7. MovesFit'
  <2>1. \A v \in Worker : task[v].pc = "publish" =>
          task'[v] = task[v]
    BY <1>2, TaskShape
  <2>2. task'[w].pc = "publish" => heap[task'[w].from] \notin exivar
    BY <1>2, <1>3 DEF AfterAllocCopy
  <2> QED BY <1>1, <1>2, <2>1, <2>2 DEF MovesFit, Recorded
<1>8. TableFits'
  BY <1>1 DEF TableFits, KeyedBy, Leaves, Arrives
<1>9. CopyFindsTable'
  <2>1. ~Cleaned /\ fwd[a] = a /\ heap[a] # Free  BY DEF Cleaned, HeapFits, FromSpace
  <2>2. heap[a] \in exivar => givtbl[a] = heap[a]
    BY <2>1 DEF TableFits, KeyedBy
  <2>3. t.pc = "insert" => heap[a] \in exivar  BY <1>3 DEF AfterAllocCopy
  <2> QED BY <1>2, <1>3, <2>2, <2>3 DEF CopyFindsTable
<1> QED BY <1>1, <1>4, <1>6, <1>7, <1>8, <1>9

LEMMA InsertMovedGivInv ==
  ASSUME GivInv, NEW w \in Worker, InsertMoved(w)
  PROVE  GivInv'
<1> USE DEF GivInv, InsertMoved, coreVars, heapVars
<1> DEFINE a == task[w].from
           b == task[w].to
           e == EntryOf(task[w])
<1>1. /\ CoreTypeOK' /\ SchedTypeOK' /\ PacketsFit' /\ HeapFits' /\ (exivar \subseteq OnHeap)'
      /\ (Cleaned' <=> Cleaned) /\ FromSpace' = FromSpace /\ Survivor' = Survivor
  BY SameHeap
<1>2. /\ IsCopying(w) /\ a \in Addr /\ b \in Addr /\ task[w].tbl = heap[a]
      /\ task[w] = Copying("insert", a, b, heap[a])
  BY TaskShape DEF IsCopying, CopyFindsTable
<1>3. task'[w] = Copying("publish", a, b, heap[a]) /\ \A v \in Worker : v # w => task'[v] = task[v]
  BY <1>2 DEF GivTypeOK, Copying
<1>4. /\ task'[w].pc = "publish" /\ task'[w].from = a /\ task'[w].to = b
      /\ task'[w].tbl = heap[a]
  BY <1>3 DEF Copying
<1>5. a \in FromSpace \ reached /\ heap[b] = Free /\ heap[a] # Free /\ a # b /\ heap[a] \in Obj
  BY <1>2 DEF TasksFit, FromSpace, GivTypeOK, CoreTypeOK
<1>6. stage = "Closure" /\ ~Cleaned
  BY <1>2, TaskShape DEF TasksFit, IsCopying, Cleaned
<1>7. e = Moved(b, a, heap[a]) /\ e.new = b /\ e.old = a /\ e.tbl = heap[a]
  BY <1>2 DEF EntryOf, Moved
<1>8. GivTypeOK'
  <2>1. task'[w] \in [pc : {"insert", "publish"}, from : Addr, to : Addr, tbl : Obj \cup {NoTable}]
    BY <1>2, <1>3, <1>5 DEF Copying
  <2>2. task' \in [Worker ->
          {Idle} \cup [pc : {"insert", "publish"}, from : Addr, to : Addr,
                       tbl : Obj \cup {NoTable}]
                 \cup [pc : {"lookup", "lookupMoved"}, obj : Addr]]
    BY <1>3, <2>1 DEF GivTypeOK
  <2>3. e \in [new : Addr, old : Addr, tbl : Obj]  BY <1>2, <1>5, <1>7 DEF Moved
  <2> QED BY <1>1, <2>2, <2>3 DEF GivTypeOK
<1>9. \A v \in Worker : /\ IsCopying(v)' <=> IsCopying(v)
                        /\ IsScanning(v)' <=> IsScanning(v)
                        /\ IsCopying(v) => task'[v].from = task[v].from /\ task'[v].to = task[v].to
                        /\ IsScanning(v) => task'[v] = task[v]
  BY <1>2, <1>3, <1>4 DEF IsCopying, IsScanning
<1>10. TasksFit'
  <2>1. \A v \in Worker : task'[v].pc = "insert" => task'[v] = task[v]
    BY <1>3, <1>4
  <2>2. \A v \in Worker : task'[v].pc = "lookupMoved" => task'[v] = task[v]
    BY <1>3, <1>4
  <2>3. \A v \in Worker : IsCopying(v)' =>
          /\ task'[v].from \in FromSpace \ reached
          /\ task'[v].from \notin pinned /\ moving
          /\ heap[task'[v].to] = Free
    BY <1>9 DEF TasksFit
  <2>4. \A u, v \in Worker : IsCopying(u)' /\ IsCopying(v)'
               /\ (task'[u].from = task'[v].from \/ task'[u].to = task'[v].to) => u = v
    BY <1>9 DEF TasksFit
  <2>5. \A v \in Worker : IsScanning(v)' =>
          task'[v].obj \in Survivor /\ heap[task'[v].obj] \in exivar
    BY <1>9 DEF TasksFit
  <2> QED BY <1>1, <1>6, <2>1, <2>2, <2>3, <2>4, <2>5 DEF TasksFit
<1>11. \A m \in movedGivtbl : m.new = b => FALSE
  <2> SUFFICES ASSUME NEW m \in movedGivtbl, m.new = b PROVE FALSE
    OBVIOUS
  <2>1. CASE fwd[m.old] = m.new
    <3>1. m.old \in Addr /\ m.new # m.old /\ m.tbl = heap[m.old] /\ m.tbl \in exivar
      BY DEF MovesFit, GivTypeOK
    <3>2. heap[b] = heap[m.old]  BY <2>1, <3>1 DEF HeapFits
    <3> QED BY <1>5, <3>1, <3>2, CoreAssumption DEF GivTypeOK
  <2>2. CASE \E v \in Worker : task[v].pc = "publish" /\ task[v].from = m.old /\ task[v].to = m.new
    <3>1. PICK v \in Worker : task[v].pc = "publish" /\ task[v].to = b  BY <2>2
    <3> QED BY <1>2, <3>1 DEF TasksFit, IsCopying
  <2> QED BY <2>1, <2>2 DEF MovesFit
<1>12. movedGivtbl' = movedGivtbl \cup {e}
  BY <1>7, <1>11
<1>13. heap[a] \in exivar  BY DEF TasksFit
<1>14. MovesFit'
  <2>1. \A v \in Worker : task[v].pc = "publish" => task'[v] = task[v]
    BY <1>3
  <2>2. ASSUME NEW m \in movedGivtbl'
        PROVE  /\ m.new # m.old /\ m.tbl = heap[m.old] /\ m.tbl \in exivar
               /\ \/ fwd[m.old] = m.new
                  \/ \E v \in Worker : task'[v].pc = "publish" /\ task'[v].from = m.old
                                         /\ task'[v].to = m.new
    <3>1. CASE m = e  BY <1>4, <1>5, <1>7, <1>13, <3>1
    <3>2. CASE m \in movedGivtbl  BY <2>1, <3>2 DEF MovesFit
    <3> QED BY <1>12, <3>1, <3>2
  <2>3. ASSUME NEW v \in Worker, task'[v].pc = "publish", heap[task'[v].from] \in exivar
        PROVE  Moved(task'[v].to, task'[v].from, heap[task'[v].from]) \in movedGivtbl'
    <3>1. CASE v = w  BY <1>4, <1>7, <1>12, <3>1 DEF Recorded
    <3>2. CASE v # w
      <4>1. task'[v] = task[v]  BY <1>3, <3>2
      <4> QED BY <1>12, <2>3, <4>1 DEF MovesFit, Recorded
    <3> QED BY <3>1, <3>2
  <2>4. \A c \in Addr : fwd[c] # c /\ heap[c] \in exivar => Recorded(c, fwd[c])'
    BY <1>6, <1>12 DEF MovesFit, Recorded
  <2> QED BY <1>1, <1>6, <2>2, <2>3, <2>4 DEF MovesFit, Recorded
<1>15. TableFits'
  <2>1. \A c \in Addr : Leaves(c)' <=> Leaves(c) \/ c = a  BY <1>7, <1>12 DEF Leaves
  <2>2. \A c \in Addr : Arrives(c)' <=> Arrives(c) \/ c = b  BY <1>7, <1>12 DEF Arrives
  <2>3. fwd[a] = a /\ heap[b] \notin exivar
    BY <1>2, <1>5, CoreAssumption DEF HeapFits, GivTypeOK
  <2>4. \A c \in Addr : KeyedBy(c)' <=> KeyedBy(c)
    BY <1>1, <2>1, <2>2, <2>3 DEF KeyedBy
  <2> QED BY <1>1, <1>6, <2>4 DEF TableFits
<1>16. CopyFindsTable'
  BY <1>3, <1>4 DEF CopyFindsTable
<1> QED BY <1>1, <1>8, <1>10, <1>14, <1>15, <1>16

LEMMA PublishGivInv ==
  ASSUME GivInv, NEW w \in Worker, Publish(w)
  PROVE  GivInv' /\ OnHeap' = OnHeap
<1> USE DEF GivInv, Publish, TraceAndCopy, tblVars, schedVars
<1> DEFINE a == task[w].from
           b == task[w].to
<1>1. IsCopying(w) /\ a \in Addr /\ b \in Addr
  BY TaskShape DEF IsCopying
<1>2. /\ a \in FromSpace \ reached /\ heap[a] # Free /\ heap[b] = Free /\ a # b
      /\ fwd[a] = a /\ fwd[b] = b
  BY <1>1 DEF TasksFit, FromSpace, HeapFits
<1>3. /\ \A c \in Addr : heap'[c] = IF c = b THEN heap[a] ELSE heap[c]
      /\ \A c \in Addr : fwd'[c] = IF c = a THEN b ELSE fwd[c]
      /\ \A c \in Addr : fwd[c] \in Addr
  BY <1>1 DEF GivTypeOK, CoreTypeOK
<1>4. task'[w] = Idle /\ \A v \in Worker : v # w => task'[v] = task[v]
  BY DEF GivTypeOK
<1>5. task'[w].pc = "idle" /\ ~IsCopying(w)' /\ ~IsScanning(w)'
  BY <1>4 DEF Idle, IsCopying, IsScanning
<1>6. OnHeap' = OnHeap  BY <1>1, <1>2, <1>3 DEF OnHeap
<1>7. GivTypeOK'
  BY <1>1, <1>4 DEF GivTypeOK, CoreTypeOK
<1>8. SchedTypeOK' /\ PacketsFit' /\ ~Cleaned' /\ ~Cleaned
  BY DEF SchedTypeOK, PacketsFit, AllIdle, Cleaned
<1>9. b \notin FromSpace /\ FromSpace' = FromSpace
  <2>1. b \notin FromSpace /\ b \notin FromSpace'
    BY <1>1, <1>2, <1>3 DEF FromSpace
  <2>2. \A c \in Addr : c # b => (c \in FromSpace <=> c \in FromSpace')
    BY <1>1, <1>2, <1>3 DEF FromSpace
  <2>3. FromSpace \subseteq Addr /\ FromSpace' \subseteq Addr  BY DEF FromSpace
  <2> QED BY <2>1, <2>2, <2>3
<1>10. HeapFits'
  <2>1. ASSUME NEW c \in Addr, fwd'[c] # c
        PROVE  /\ c \in reached' /\ heap'[fwd'[c]] = heap'[c] /\ fwd'[fwd'[c]] = fwd'[c]
    <3>1. CASE c = a  BY <1>1, <1>2, <1>3, <3>1
    <3>2. CASE c # a
      <4>1. c \in reached /\ heap[fwd[c]] = heap[c] /\ fwd[fwd[c]] = fwd[c] /\ heap[c] # Free
        BY <1>3, <2>1, <3>2 DEF HeapFits, FromSpace
      <4>2. fwd[c] # a  BY <1>2, <3>2 DEF FromSpace
      <4>3. fwd[c] # b /\ c # b  BY <1>2, <4>1
      <4> QED BY <1>3, <3>2, <4>1, <4>2, <4>3
    <3> QED BY <3>1, <3>2
  <2>2. reached' \subseteq FromSpace'  BY <1>2, <1>9 DEF HeapFits
  <2>3. ASSUME NEW c \in Addr, heap[c] = heap[a] PROVE c = a
    BY <1>1, <1>2, <2>3 DEF HeapFits, FromSpace
  <2>4. \A c, d \in Addr : heap'[c] = heap'[d] /\ heap'[c] # Free =>
          c = d \/ fwd'[c] = d \/ fwd'[d] = c
    <3> SUFFICES ASSUME NEW c \in Addr, NEW d \in Addr, heap'[c] = heap'[d], heap'[c] # Free
                 PROVE  c = d \/ fwd'[c] = d \/ fwd'[d] = c
      OBVIOUS
    <3>1. CASE c = b
      <4>1. d = b \/ d = a  BY <1>3, <2>3, <3>1
      <4> QED BY <1>1, <1>3, <3>1, <4>1
    <3>2. CASE d = b
      <4>1. c = b \/ c = a  BY <1>3, <2>3, <3>2
      <4> QED BY <1>1, <1>3, <3>2, <4>1
    <3>3. CASE c # b /\ d # b
      <4>1. c = d \/ fwd[c] = d \/ fwd[d] = c  BY <1>3, <3>3 DEF HeapFits
      <4> QED BY <1>2, <1>3, <4>1
    <3> QED BY <3>1, <3>2, <3>3
  <2> QED BY <1>6, <2>1, <2>2, <2>4 DEF HeapFits
<1>11. Survivor' = Survivor \cup {b} /\ a \notin Survivor
  <2>1. \A c \in reached : c # a /\ c \in Addr /\ fwd'[c] = fwd[c]
    BY <1>2, <1>3 DEF GivTypeOK, CoreTypeOK
  <2>2. a \notin Survivor  BY <1>2, SurvivorsFit
  <2> QED BY <1>1, <1>3, <2>1, <2>2 DEF Survivor
<1>12. \A v \in Worker : v # w =>
         /\ IsCopying(v)' <=> IsCopying(v)
         /\ IsScanning(v)' <=> IsScanning(v)
         /\ IsCopying(v) => task[v].from # a /\ task[v].to # b /\ task[v].to \in Addr
                            /\ task[v].from # b /\ task[v].from \in Addr
                            /\ heap[task[v].to] = Free
  BY <1>1, <1>2, <1>4, TaskShape DEF IsCopying, IsScanning, TasksFit, FromSpace
<1>13. TasksFit'
  <2>1. toScan' \subseteq Survivor'  BY <1>11 DEF TasksFit
  <2>2. \A v \in Worker : IsCopying(v)' =>
          /\ task'[v].from \in FromSpace' \ reached'
          /\ task'[v].from \notin pinned /\ moving
          /\ heap'[task'[v].to] = Free
    BY <1>3, <1>4, <1>5, <1>9, <1>12 DEF TasksFit
  <2>3. \A u, v \in Worker : IsCopying(u)' /\ IsCopying(v)'
               /\ (task'[u].from = task'[v].from \/ task'[u].to = task'[v].to) => u = v
    BY <1>4, <1>5, <1>12 DEF TasksFit
  <2>4. \A v \in Worker : IsScanning(v)' =>
          task'[v].obj \in Survivor' /\ heap'[task'[v].obj] \in exivar
    <3> SUFFICES ASSUME NEW v \in Worker, v # w, IsScanning(v)
                 PROVE  task[v].obj \in Survivor' /\ heap'[task[v].obj] \in exivar
      BY <1>4, <1>5, <1>12
    <3>1. task[v].obj \in Survivor /\ heap[task[v].obj] \in exivar  BY DEF TasksFit
    <3>2. task[v].obj # b /\ task[v].obj \in Addr  BY <1>2, <3>1, SurvivorsFit
    <3> QED BY <1>3, <1>11, <3>1, <3>2
  <2>5. \A v \in Worker : task'[v].pc = "lookupMoved" => task'[v].obj \notin FromSpace'
    BY <1>4, <1>5, <1>9 DEF TasksFit
  <2>6. \A v \in Worker : task'[v].pc = "insert" => heap'[task'[v].from] \in exivar
    <3> SUFFICES ASSUME NEW v \in Worker, v # w, task[v].pc = "insert"
                 PROVE  heap'[task[v].from] \in exivar
      BY <1>4, <1>5
    <3>1. IsCopying(v)  BY DEF IsCopying
    <3> QED BY <1>3, <1>12, <3>1 DEF TasksFit
  <2> QED BY <2>1, <2>2, <2>3, <2>4, <2>5, <2>6 DEF TasksFit
<1>14. \A m \in movedGivtbl : /\ m.old \in Addr /\ m.new \in Addr /\ m.tbl \in Obj
                              /\ m.old # b /\ heap'[m.old] = heap[m.old]
  <2> SUFFICES ASSUME NEW m \in movedGivtbl
               PROVE  /\ m.old \in Addr /\ m.new \in Addr /\ m.tbl \in Obj
                      /\ m.old # b
    BY <1>3
  <2>1. m.old \in Addr /\ m.new \in Addr /\ m.tbl \in Obj /\ m.tbl = heap[m.old]
    BY DEF GivTypeOK, MovesFit
  <2> QED BY <1>2, <2>1, CoreAssumption
<1>15. MovesFit'
  <2>1. ASSUME NEW m \in movedGivtbl
        PROVE  \/ fwd'[m.old] = m.new
               \/ \E v \in Worker : task'[v].pc = "publish" /\ task'[v].from = m.old
                                      /\ task'[v].to = m.new
    <3>1. CASE fwd[m.old] = m.new
      <4>1. m.old # a  BY <1>2, <3>1 DEF MovesFit
      <4> QED BY <1>3, <1>14, <3>1, <4>1
    <3>2. CASE \E v \in Worker : task[v].pc = "publish" /\ task[v].from = m.old
                                   /\ task[v].to = m.new
      <4>1. PICK v \in Worker : task[v].pc = "publish" /\ task[v].from = m.old
                                  /\ task[v].to = m.new
        BY <3>2
      <4>2. CASE v = w  BY <1>1, <1>3, <4>1, <4>2
      <4>3. CASE v # w  BY <1>4, <4>1, <4>3
      <4> QED BY <4>2, <4>3
    <3> QED BY <3>1, <3>2 DEF MovesFit
  <2>2. ASSUME NEW v \in Worker, task'[v].pc = "publish", heap'[task'[v].from] \in exivar
        PROVE  Moved(task'[v].to, task'[v].from, heap'[task'[v].from]) \in movedGivtbl
    <3>1. v # w /\ task'[v] = task[v]  BY <1>4, <1>5, <2>2
    <3>2. IsCopying(v)  BY <2>2, <3>1 DEF IsCopying
    <3>3. heap'[task[v].from] = heap[task[v].from]  BY <1>3, <1>12, <3>1, <3>2
    <3> QED BY <2>2, <3>1, <3>3 DEF MovesFit, Recorded
  <2>3. ASSUME NEW c \in Addr, fwd'[c] # c, heap'[c] \in exivar
        PROVE  Moved(fwd'[c], c, heap'[c]) \in movedGivtbl
    <3>1. c # b  BY <1>2, <1>3, <2>3
    <3>2. CASE c = a  BY <1>1, <1>3, <2>3, <3>1, <3>2 DEF MovesFit, Recorded
    <3>3. CASE c # a  BY <1>3, <2>3, <3>1, <3>3 DEF MovesFit, Recorded
    <3> QED BY <3>2, <3>3
  <2> QED BY <1>8, <1>14, <2>1, <2>2, <2>3 DEF MovesFit, Recorded
<1>16. TableFits'
  <2>1. heap[b] \notin exivar  BY <1>2, CoreAssumption DEF GivTypeOK
  <2>2. heap[a] \in exivar => Leaves(a) /\ Arrives(b)
    <3>1. heap[a] \in exivar => Moved(b, a, heap[a]) \in movedGivtbl
      BY DEF MovesFit, Recorded
    <3>2. Moved(b, a, heap[a]).old = a /\ Moved(b, a, heap[a]).new = b  BY DEF Moved
    <3> QED BY <3>1, <3>2 DEF Leaves, Arrives
  <2>3. \A c \in Addr : (Leaves(c)' <=> Leaves(c)) /\ (Arrives(c)' <=> Arrives(c))
    BY DEF Leaves, Arrives
  <2>4. \A c \in Addr : KeyedBy(c)' <=> KeyedBy(c)
    <3> SUFFICES ASSUME NEW c \in Addr PROVE KeyedBy(c)' <=> KeyedBy(c)
      OBVIOUS
    <3>1. CASE c = a  BY <1>2, <1>3, <1>9, <2>2, <2>3, <3>1 DEF KeyedBy
    <3>2. CASE c = b  BY <1>2, <1>3, <1>9, <2>1, <2>2, <2>3, <3>2 DEF KeyedBy
    <3>3. CASE c # a /\ c # b  BY <1>3, <1>9, <2>3, <3>3 DEF KeyedBy
    <3> QED BY <3>1, <3>2, <3>3
  <2>5. ~KeyedBy(b)  BY <2>1 DEF KeyedBy
  <2> QED BY <1>3, <1>8, <2>4, <2>5 DEF TableFits
<1>17. CopyFindsTable'
  <2> SUFFICES ASSUME NEW v \in Worker, v # w, task[v].pc = "insert"
               PROVE  task[v].tbl = heap'[task[v].from]
    BY <1>4, <1>5 DEF CopyFindsTable
  <2>1. IsCopying(v)  BY DEF IsCopying
  <2> QED BY <1>3, <1>12, <2>1 DEF CopyFindsTable
<1> QED BY <1>6, <1>7, <1>8, <1>10, <1>13, <1>15, <1>16, <1>17

(* Scanning changes what one worker does, and nothing else.                *)
LEMMA ScanStep ==
  ASSUME GivInv, UNCHANGED <<coreVars, tblVars>>, toScan' \subseteq toScan, stage = "Closure",
         NEW w \in Worker, ~IsCopying(w), NEW t, task' = [task EXCEPT ![w] = t],
         \/ t = Idle
         \/ \E r \in Survivor : t = Scanning("lookup", r) /\ heap[r] \in exivar
         \/ \E r \in Survivor \ FromSpace : t = Scanning("lookupMoved", r) /\ heap[r] \in exivar
  PROVE  GivInv'
<1> USE DEF GivInv, tblVars, coreVars, heapVars
<1>1. /\ CoreTypeOK' /\ SchedTypeOK' /\ PacketsFit' /\ HeapFits' /\ (exivar \subseteq OnHeap)'
      /\ (Cleaned' <=> Cleaned) /\ FromSpace' = FromSpace /\ Survivor' = Survivor
  BY SameHeap
<1>2. task'[w] = t /\ \A v \in Worker : v # w => task'[v] = task[v]
  BY DEF GivTypeOK
<1>3. /\ t = Idle \/ t \in [pc : {"lookup", "lookupMoved"}, obj : Addr]
      /\ t.pc \in {"idle", "lookup", "lookupMoved"}
      /\ t.pc \in {"lookup", "lookupMoved"} => t.obj \in Survivor /\ heap[t.obj] \in exivar
      /\ t.pc = "lookupMoved" => t.obj \notin FromSpace
  BY SurvivorsFit DEF Idle, Scanning
<1>4. GivTypeOK'  BY <1>1, <1>3 DEF GivTypeOK
<1>5. \A v \in Worker : IsCopying(v)' => v # w /\ IsCopying(v) /\ task'[v] = task[v]
  BY <1>2, <1>3 DEF IsCopying
<1>6. TasksFit'
  <2>1. \A v \in Worker : IsScanning(v)' =>
          task'[v].obj \in Survivor /\ heap[task'[v].obj] \in exivar
    BY <1>2, <1>3 DEF TasksFit, IsScanning
  <2>2. \A v \in Worker : task'[v].pc = "lookupMoved" => task'[v].obj \notin FromSpace
    BY <1>2, <1>3 DEF TasksFit
  <2>3. \A v \in Worker : task'[v].pc = "insert" => heap[task'[v].from] \in exivar
    BY <1>2, <1>3 DEF TasksFit
  <2>4. \A v \in Worker : IsCopying(v)' =>
          /\ task'[v].from \in FromSpace \ reached
          /\ task'[v].from \notin pinned /\ moving
          /\ heap[task'[v].to] = Free
    BY <1>5 DEF TasksFit
  <2>5. \A u, v \in Worker : IsCopying(u)' /\ IsCopying(v)'
               /\ (task'[u].from = task'[v].from \/ task'[u].to = task'[v].to) => u = v
    BY <1>5 DEF TasksFit
  <2> QED BY <1>1, <2>1, <2>2, <2>3, <2>4, <2>5 DEF TasksFit
<1>7. MovesFit'
  <2>1. \A v \in Worker : (task'[v].pc = "publish" <=> task[v].pc = "publish")
                          /\ (task[v].pc = "publish" => task'[v] = task[v])
    BY <1>2, <1>3 DEF IsCopying
  <2> QED BY <1>1, <2>1 DEF MovesFit, Recorded
<1>8. TableFits' /\ CopyFindsTable'
  BY <1>1, <1>2, <1>3 DEF TableFits, KeyedBy, Leaves, Arrives, CopyFindsTable
<1> QED BY <1>1, <1>4, <1>6, <1>7, <1>8

LEMMA StartScanGivInv ==
  ASSUME GivInv, NEW w \in Worker, NEW r \in toScan, StartScan(w, r)
  PROVE  GivInv'
<1>1. r \in Survivor  BY DEF GivInv, TasksFit
<1>2. stage = "Closure"  BY DEF GivInv, TasksFit
<1>3. ~IsCopying(w)  BY TaskShape DEF StartScan, IsCopying
<1> DEFINE t == IF heap[r] \in exivar THEN Scanning("lookup", r) ELSE Idle
<1>4. task' = [task EXCEPT ![w] = t] /\ toScan' \subseteq toScan
  BY DEF StartScan
<1>5. \/ t = Idle
      \/ \E s \in Survivor : t = Scanning("lookup", s) /\ heap[s] \in exivar
  BY <1>1
<1> QED BY <1>2, <1>3, <1>4, <1>5, ScanStep DEF StartScan

(* An object without an entry of its own in generic_iv_tbl_ was moved.     *)
LEMMA NotFoundWasMoved ==
  ASSUME GivInv, stage = "Closure", NEW r \in Survivor, heap[r] \in exivar, givtbl[r] = NoTable
  PROVE  r \notin FromSpace
<1>1. r \in Addr /\ fwd[r] = r  BY SurvivorsFit
<1>2. heap[r] # NoTable  BY GivTblAssumption DEF GivInv, GivTypeOK
<1>3. ~Cleaned  BY DEF Cleaned
<1> QED BY <1>1, <1>2, <1>3 DEF GivInv, TableFits, KeyedBy

LEMMA LookupOriginalGivInv ==
  ASSUME GivInv, NEW w \in Worker, LookupOriginal(w)
  PROVE  GivInv'
<1> DEFINE r == task[w].obj
           t == IF givtbl[r] = NoTable THEN Scanning("lookupMoved", r) ELSE Idle
<1>1. IsScanning(w) /\ ~IsCopying(w)  BY DEF LookupOriginal, IsScanning, IsCopying
<1>2. stage = "Closure"  BY <1>1, TaskShape DEF GivInv, TasksFit, IsScanning
<1>3. r \in Survivor /\ heap[r] \in exivar  BY <1>1 DEF GivInv, TasksFit
<1>4. task' = [task EXCEPT ![w] = t] /\ toScan' = toScan
  BY DEF LookupOriginal, GivInv, GivTypeOK
<1>5. \/ t = Idle
      \/ \E s \in Survivor \ FromSpace : t = Scanning("lookupMoved", s) /\ heap[s] \in exivar
  BY <1>2, <1>3, NotFoundWasMoved
<1> QED BY <1>1, <1>2, <1>4, <1>5, ScanStep DEF LookupOriginal

LEMMA LookupMovedGivInv ==
  ASSUME GivInv, NEW w \in Worker, LookupMoved(w)
  PROVE  GivInv'
<1>1. IsScanning(w) /\ ~IsCopying(w)  BY DEF LookupMoved, IsScanning, IsCopying
<1>2. stage = "Closure"  BY <1>1, TaskShape DEF GivInv, TasksFit, IsScanning
<1> QED BY <1>1, <1>2, ScanStep DEF LookupMoved

-----------------------------------------------------------------------------
(* The stages.                                                             *)

LEMMA EndPrepareGivInv ==
  ASSUME GivInv, EndPrepare, UNCHANGED givVars
  PROVE  GivInv'
<1> USE DEF GivInv, EndPrepare, Advance, givVars, tblVars, schedVars, heapVars
<1>1. GivTypeOK' /\ SchedTypeOK' /\ PacketsFit'
  BY NoPackets DEF GivTypeOK, CoreTypeOK, SchedTypeOK, PacketsFit, AllIdle, Stage, GCStage
<1>2. HeapFits' /\ OnHeap' = OnHeap  BY DEF HeapFits, OnHeap, FromSpace
<1>3. ~Cleaned' /\ ~Cleaned  BY DEF Cleaned
<1>4. \A w \in Worker : task[w] = Idle /\ task[w].pc = "idle"
  BY MutatorTable, TaskShape
<1>5. TasksFit' /\ CopyFindsTable'
  BY <1>4 DEF TasksFit, IsCopying, IsScanning, CopyFindsTable, Survivor
<1>6. MovesFit'  BY <1>3, <1>4 DEF MovesFit, Recorded, HeapFits
<1>7. TableFits'
  BY <1>3 DEF TableFits, KeyedBy, Leaves, Arrives, FromSpace
<1> QED BY <1>1, <1>2, <1>5, <1>6, <1>7

LEMMA EndClosureGivInv ==
  ASSUME GivInv, EndClosure(Sentinel), toScan = {}, \A w \in Worker : task[w] = Idle,
         UNCHANGED givVars
  PROVE  GivInv'
<1> USE DEF GivInv, EndClosure, Advance, givVars, tblVars, schedVars, heapVars
<1>1. AllIdle /\ \A s \in GCStage : bucket[s] = {}  BY NoPackets
<1>2. \A s \in GCStage : bucket'[s] = IF s = "VMRefClosure" THEN {Sentinel} ELSE {}
  BY <1>1 DEF SchedTypeOK
<1>3. "VMRefClosure" \in GCStage /\ Sentinel \in PacketSet
  BY DEF GCStage, PacketSet, Sentinel
<1>4. GivTypeOK'  BY DEF GivTypeOK, CoreTypeOK, Stage, GCStage
<1>5. SchedTypeOK'  BY <1>3 DEF SchedTypeOK
<1>6. PacketsFit'  BY <1>1, <1>2, <1>3 DEF PacketsFit, AllIdle
<1>7. HeapFits' /\ OnHeap' = OnHeap  BY DEF HeapFits, OnHeap, FromSpace
<1>8. ~Cleaned' /\ ~Cleaned  BY <1>2, <1>3 DEF Cleaned
<1>9. \A w \in Worker : task[w].pc = "idle"  BY TaskShape
<1>10. TasksFit' /\ CopyFindsTable'
  BY <1>9 DEF TasksFit, IsCopying, IsScanning, CopyFindsTable, Survivor
<1>11. MovesFit'  BY <1>8, <1>9 DEF MovesFit
<1>12. TableFits'
  BY <1>8 DEF TableFits, KeyedBy, Leaves, Arrives, FromSpace
<1> QED BY <1>4, <1>5, <1>6, <1>7, <1>10, <1>11, <1>12

LEMMA EndVMRefClosureGivInv ==
  ASSUME GivInv, EndVMRefClosure, UNCHANGED givVars
  PROVE  GivInv'
<1> USE DEF GivInv, EndVMRefClosure, Advance, givVars, tblVars, schedVars, heapVars
<1>1. GivTypeOK' /\ SchedTypeOK' /\ PacketsFit'
  BY DEF GivTypeOK, CoreTypeOK, SchedTypeOK, PacketsFit, AllIdle, Stage, GCStage
<1>2. HeapFits' /\ OnHeap' = OnHeap  BY DEF HeapFits, OnHeap, FromSpace
<1>3. Cleaned' /\ Cleaned  BY DEF Cleaned, AllIdle
<1>4. \A w \in Worker : task[w] = Idle /\ task[w].pc = "idle"
  BY TaskShape DEF TasksFit
<1>5. TasksFit' /\ CopyFindsTable'
  BY <1>4 DEF TasksFit, IsCopying, IsScanning, CopyFindsTable, Survivor
<1>6. MovesFit'  BY <1>3, <1>4 DEF MovesFit
<1>7. TableFits'  BY <1>3 DEF TableFits, Survivor
<1> QED BY <1>1, <1>2, <1>5, <1>6, <1>7

(* What the program can use outlives the collection.                       *)
LEMMA LiveSurvives ==
  ASSUME GivInv, stage \in {"VMRefClosure", "Release"}
  PROVE  \A o \in live : \E a \in Survivor : heap[a] = o
<1> SUFFICES ASSUME NEW o \in live PROVE \E a \in Survivor : heap[a] = o
  OBVIOUS
<1>1. PICK a \in Addr : heap[a] = o /\ o # Free
  BY DEF GivInv, HeapFits, OnHeap
<1>2. CASE a \in FromSpace
  <2>1. a \in reached  BY <1>1, <1>2 DEF GivInv, HeapFits
  <2>2. heap[fwd[a]] = heap[a]
    BY DEF GivInv, HeapFits
  <2> QED BY <1>1, <2>1, <2>2 DEF Survivor
<1>3. CASE a \notin FromSpace
  <2>1. PICK b \in Addr : fwd[b] = a /\ b # a  BY <1>1, <1>3 DEF FromSpace
  <2>2. b \in reached  BY <2>1 DEF GivInv, HeapFits
  <2> QED BY <1>1, <2>1, <2>2 DEF Survivor
<1> QED BY <1>2, <1>3
ReclaimMemory ==
  /\ Reclaim
  /\ exivar' = exivar \cap OnHeap'
  /\ UNCHANGED <<givtbl, movedGivtbl, toScan, task>>

LEMMA ReclaimGivInv ==
  ASSUME GivInv, ReclaimMemory
  PROVE  GivInv' /\ live \subseteq OnHeap' /\ OnHeap' \subseteq OnHeap
<1> USE DEF GivInv, ReclaimMemory, Reclaim, Advance, schedVars
<1>1. /\ \A a \in Addr : heap'[a] = IF a \in Survivor THEN heap[a] ELSE Free
      /\ \A a \in Survivor : a \in Addr /\ heap'[a] = heap[a] /\ heap[a] \in Obj /\ heap[a] # Free
  <2>1. \A a \in Survivor : a \in Addr /\ heap[a] # Free  BY SurvivorsFit
  <2> QED BY <2>1 DEF GivTypeOK, CoreTypeOK
<1>2. \A o : o \in OnHeap' <=> \E a \in Survivor : heap[a] = o
  BY <1>1 DEF OnHeap
<1>3. GivTypeOK'
  <2>1. heap' \in [Addr -> Obj \cup {Free}]
    BY <1>1 DEF GivTypeOK, CoreTypeOK
  <2>2. edges' \in [Obj -> SUBSET Obj]  BY DEF GivTypeOK, CoreTypeOK
  <2> QED BY <2>1, <2>2 DEF GivTypeOK, CoreTypeOK, Stage
<1>4. SchedTypeOK' /\ PacketsFit'
  BY NoPackets DEF SchedTypeOK, PacketsFit, AllIdle, GCStage
<1>5. \A a \in Addr : fwd'[a] = a  OBVIOUS
<1>6. HeapFits'
  <2>1. \A a, b \in Addr : heap'[a] = heap'[b] /\ heap'[a] # Free => a = b
    BY <1>1, SurvivorsFit
  <2>2. live \subseteq OnHeap'  BY <1>2, LiveSurvives
  <2> QED BY <1>5, <2>1, <2>2 DEF HeapFits
<1>7. ~Cleaned' /\ Cleaned  BY DEF Cleaned
<1>8. movedGivtbl = {}  BY <1>7 DEF MovesFit
<1>9. \A w \in Worker : task[w] = Idle /\ task[w].pc = "idle"
  BY TaskShape DEF TasksFit
<1>10. TasksFit' /\ CopyFindsTable'
  BY <1>9 DEF TasksFit, IsCopying, IsScanning, CopyFindsTable
<1>11. MovesFit'  BY <1>7, <1>8, <1>9 DEF MovesFit
<1>12. TableFits'
  <2>1. \A a \in Addr : KeyedBy(a)' <=> heap'[a] \in exivar'
    BY <1>5, <1>8 DEF KeyedBy, Arrives
  <2>2. \A a \in Addr : heap'[a] \in exivar' <=> a \in Survivor /\ heap[a] \in exivar
    <3>1. Free \notin exivar  BY CoreAssumption DEF GivTypeOK
    <3> QED BY <1>1, <1>2, <3>1
  <2>3. \A a \in Addr : givtbl[a] = IF a \in Survivor /\ heap[a] \in exivar THEN heap[a]
                                    ELSE NoTable
    BY <1>7 DEF TableFits
  <2> QED BY <1>1, <1>7, <2>1, <2>2, <2>3 DEF TableFits
<1>13. OnHeap' \subseteq OnHeap  BY <1>1, <1>2 DEF OnHeap
<1> QED BY <1>3, <1>4, <1>6, <1>10, <1>11, <1>12, <1>13 DEF HeapFits

-----------------------------------------------------------------------------
(* The packets.                                                            *)

(* A step of the scheduler that does not touch heap and table.             *)
LEMMA PacketStep ==
  ASSUME GivInv, stage # "Closure", UNCHANGED <<stage, heapVars, pinned, givVars>>,
         SchedTypeOK', PacketsFit', ~Cleaned, ~Cleaned'
  PROVE  GivInv'
<1> USE DEF GivInv, heapVars, givVars, tblVars
<1>1. GivTypeOK'  BY DEF GivTypeOK, CoreTypeOK
<1>2. HeapFits' /\ OnHeap' = OnHeap  BY DEF HeapFits, OnHeap, FromSpace
<1>3. TasksFit' /\ CopyFindsTable'
  BY DEF TasksFit, IsCopying, IsScanning, CopyFindsTable, Survivor, FromSpace
<1>4. MovesFit'  BY DEF MovesFit, Recorded
<1>5. TableFits'
  BY DEF TableFits, KeyedBy, Leaves, Arrives, FromSpace
<1> QED BY <1>1, <1>2, <1>3, <1>4, <1>5

LEMMA TakeGivInv ==
  ASSUME GivInv, NEW w \in Worker, NEW s \in GCStage, NEW p \in bucket[s], Take(w, p)
  PROVE  GivInv'
<1> USE DEF GivInv, Take, TakePacket
<1>1. stage \in GCStage  BY DEF GivTypeOK, CoreTypeOK, Stage
<1>2. stage = "VMRefClosure" /\ AllIdle /\ "VMRefClosure" \in GCStage
  BY <1>1 DEF PacketsFit, GCStage
<1>3. p \in PacketSet /\ p # NoPacket
  BY <1>2, GivTblAssumption DEF SchedTypeOK
<1>4. /\ bucket'["VMRefClosure"] = {}
      /\ \A r \in GCStage : r # "VMRefClosure" => bucket'[r] = {}
      /\ running'[w] = p /\ \A v \in Worker : v # w => running'[v] = NoPacket
  BY <1>2 DEF SchedTypeOK, PacketsFit, AllIdle
<1>5. SchedTypeOK'
  BY <1>2, <1>3 DEF SchedTypeOK
<1>6. PacketsFit'  BY <1>2, <1>4 DEF PacketsFit
<1>7. ~Cleaned /\ ~Cleaned'
  BY <1>2, <1>3, <1>4 DEF Cleaned, AllIdle
<1> QED BY <1>2, <1>5, <1>6, <1>7, PacketStep

(* The worker that runs a packet is the only one, and no packet waits.     *)
LEMMA RunnerAlone ==
  ASSUME GivInv, NEW w \in Worker, NEW kind, Runs(w, kind), Packet(kind) \in PacketSet
  PROVE  /\ stage = "VMRefClosure" /\ ~AllIdle /\ ~Cleaned
         /\ \A v \in Worker : v # w => running[v] = NoPacket
         /\ \A s \in GCStage : bucket[s] = {}
<1>1. running[w] # NoPacket  BY GivTblAssumption DEF Runs
<1> QED BY <1>1 DEF GivInv, PacketsFit, AllIdle, Cleaned

LEMMA ProcessWeakStuffGivInv ==
  ASSUME GivInv, NEW w \in Worker, ProcessWeakStuff(w)
  PROVE  GivInv'
<1> USE DEF GivInv, ProcessWeakStuff
<1>1. /\ stage = "VMRefClosure" /\ ~Cleaned
      /\ \A v \in Worker : v # w => running[v] = NoPacket
      /\ \A s \in GCStage : bucket[s] = {}
  BY RunnerAlone DEF PacketSet
<1> DEFINE p == Packet("UpdateGenericIvTbl")
<1>2. "VMRefClosure" \in GCStage /\ p \in PacketSet  BY DEF GCStage, PacketSet
<1>3. /\ \A s \in GCStage : bucket'[s] = IF s = "VMRefClosure" THEN {p} ELSE {}
      /\ \A v \in Worker : running'[v] = NoPacket
  BY <1>1, <1>2 DEF SchedTypeOK
<1>4. SchedTypeOK'
  BY <1>1, <1>2 DEF SchedTypeOK
<1>5. PacketsFit'  BY <1>1, <1>2, <1>3 DEF PacketsFit, AllIdle
<1>6. ~Cleaned'  BY <1>1, <1>2, <1>3 DEF Cleaned
<1> QED BY <1>1, <1>4, <1>5, <1>6, PacketStep

(* In VMRefClosure a record says where its object went, and the record of  *)
(* an object, or for an address, is the only one.                          *)
LEMMA RecordsAfterTracing ==
  ASSUME GivInv, stage = "VMRefClosure", NEW m \in movedGivtbl
  PROVE  /\ m.old \in FromSpace /\ m.new \in Addr \ FromSpace /\ m.new # m.old
         /\ fwd[m.old] = m.new /\ heap[m.new] = heap[m.old] /\ heap[m.old] \in exivar
         /\ \A n \in movedGivtbl : n.old = m.old \/ n.new = m.new => n = m
<1> USE DEF GivInv
<1>1. ASSUME NEW n \in movedGivtbl
      PROVE  /\ n.old \in Addr /\ n.new \in Addr /\ n.new # n.old /\ fwd[n.old] = n.new
             /\ n.tbl = heap[n.old] /\ n.tbl \in exivar /\ n.old \in FromSpace
             /\ heap[n.new] = heap[n.old] /\ n = Moved(n.new, n.old, heap[n.old])
  <2>1. n.old \in Addr /\ n.new \in Addr /\ n.new # n.old /\ fwd[n.old] = n.new
        /\ n.tbl = heap[n.old] /\ n.tbl \in exivar
    BY TaskShape DEF MovesFit, TasksFit, GivTypeOK
  <2>2. n = Moved(n.new, n.old, n.tbl)  BY DEF GivTypeOK, Moved
  <2> QED BY <2>1, <2>2 DEF HeapFits
<1>2. m.new \notin FromSpace  BY <1>1 DEF FromSpace
<1>3. ASSUME NEW n \in movedGivtbl, n.old = m.old \/ n.new = m.new
      PROVE  n = m
  <2>1. CASE n.old = m.old
    <3>1. n.new = m.new  BY <1>1, <2>1
    <3> QED BY <1>1, <2>1, <3>1
  <2>2. CASE n.new = m.new
    <3>1. heap[n.old] = heap[m.old] /\ heap[m.old] # Free  BY <1>1, <2>2 DEF FromSpace
    <3>2. n.old = m.old \/ fwd[n.old] = m.old \/ fwd[m.old] = n.old
      BY <1>1, <3>1 DEF HeapFits
    <3>3. n.old = m.old  BY <1>1, <2>2, <3>2
    <3> QED BY <1>1, <2>2, <3>3
  <2> QED BY <1>3, <2>1, <2>2
<1> QED BY <1>1, <1>2, <1>3

LEMMA MoveGivInv ==
  ASSUME GivInv, NEW w \in Worker, NEW m \in movedGivtbl, MoveGivTbl(w, m)
  PROVE  /\ GivInv'
         /\ {givtbl'[a] : a \in Addr} \ {NoTable} = {givtbl[a] : a \in Addr} \ {NoTable}
<1> USE DEF GivInv, MoveGivTbl, coreVars, heapVars
<1> DEFINE a == m.old
           b == m.new
<1>1. stage = "VMRefClosure" /\ ~Cleaned  BY RunnerAlone DEF PacketSet
<1>2. /\ CoreTypeOK' /\ SchedTypeOK' /\ PacketsFit' /\ HeapFits' /\ (exivar \subseteq OnHeap)'
      /\ (Cleaned' <=> Cleaned) /\ FromSpace' = FromSpace /\ Survivor' = Survivor
  BY DEF GivTypeOK, schedVars, CoreTypeOK, SchedTypeOK, PacketsFit, AllIdle, HeapFits, OnHeap,
         Cleaned, FromSpace, Survivor
<1>3. /\ a \in FromSpace /\ b \in Addr \ FromSpace /\ b # a /\ a \in Addr
      /\ fwd[a] = b /\ heap[b] = heap[a] /\ heap[a] \in exivar
      /\ \A n \in movedGivtbl : n.old = a \/ n.new = b => n = m
  BY <1>1, RecordsAfterTracing DEF FromSpace
<1>4. \A c \in Addr : givtbl'[c] = IF c = a THEN NoTable
                                   ELSE IF c = b THEN givtbl[a] ELSE givtbl[c]
  BY <1>3 DEF Rekeyed, GivTypeOK
<1>5. GivTypeOK'
  BY <1>2, <1>3 DEF GivTypeOK, Rekeyed
<1>6. \A v \in Worker : task[v] = Idle /\ task[v].pc = "idle"
  BY <1>1, TaskShape DEF TasksFit
<1>7. TasksFit' /\ CopyFindsTable'
  BY <1>1, <1>2, <1>6 DEF TasksFit, IsCopying, IsScanning, CopyFindsTable
<1>8. MovesFit'  BY <1>1, <1>2, <1>6 DEF MovesFit
<1>9. Leaves(a) /\ ~Leaves(a)' /\ Arrives(b) /\ ~Arrives(b)'
  BY <1>3 DEF Leaves, Arrives
<1>10. \A c \in Addr : (c # a => (Leaves(c)' <=> Leaves(c)))
                       /\ (c # b => (Arrives(c)' <=> Arrives(c)))
  BY DEF Leaves, Arrives
<1>11. KeyedBy(a) /\ ~KeyedBy(a)' /\ ~KeyedBy(b) /\ KeyedBy(b)'
  BY <1>2, <1>3, <1>9 DEF KeyedBy
<1>12. \A c \in Addr : c # a /\ c # b => (KeyedBy(c)' <=> KeyedBy(c))
  BY <1>2, <1>3, <1>10 DEF KeyedBy
<1>13. TableFits'
  BY <1>1, <1>2, <1>3, <1>4, <1>11, <1>12 DEF TableFits
<1>14. givtbl[b] = NoTable
  BY <1>1, <1>3, <1>11 DEF TableFits
<1>15. {givtbl'[c] : c \in Addr} \ {NoTable} = {givtbl[c] : c \in Addr} \ {NoTable}
  BY <1>3, <1>4, <1>14
<1> QED BY <1>2, <1>5, <1>7, <1>8, <1>13, <1>15

LEMMA CleanupGivInv ==
  ASSUME GivInv, NEW w \in Worker, CleanupGivTbl(w)
  PROVE  GivInv'
<1> USE DEF GivInv, CleanupGivTbl, heapVars
<1>1. /\ stage = "VMRefClosure" /\ ~Cleaned
      /\ \A v \in Worker : v # w => running[v] = NoPacket
      /\ \A s \in GCStage : bucket[s] = {}
  BY RunnerAlone DEF PacketSet
<1>2. "VMRefClosure" \in GCStage /\ \A v \in Worker : running'[v] = NoPacket
  BY <1>1 DEF SchedTypeOK, GCStage
<1>3. GivTypeOK'  BY DEF GivTypeOK, CoreTypeOK
<1>4. SchedTypeOK' /\ PacketsFit' /\ Cleaned'
  BY <1>1, <1>2 DEF SchedTypeOK, PacketsFit, AllIdle, Cleaned
<1>5. HeapFits' /\ OnHeap' = OnHeap /\ FromSpace' = FromSpace /\ Survivor' = Survivor
  BY DEF HeapFits, OnHeap, FromSpace, Survivor
<1>6. \A v \in Worker : task[v] = Idle /\ task[v].pc = "idle"
  BY <1>1, TaskShape DEF TasksFit
<1>7. TasksFit' /\ CopyFindsTable'
  BY <1>1, <1>5, <1>6 DEF TasksFit, IsCopying, IsScanning, CopyFindsTable
<1>8. MovesFit'  BY <1>1, <1>6 DEF MovesFit
<1>9. TableFits'
  <2>1. \A a \in Survivor : a \in Addr /\ fwd[a] = a  BY SurvivorsFit
  <2>2. \A a \in Survivor : KeyedBy(a) <=> heap[a] \in exivar
    BY <2>1 DEF KeyedBy, Arrives
  <2> QED BY <1>1, <1>4, <1>5, <2>1, <2>2 DEF TableFits, KeysOfLive
<1> QED BY <1>3, <1>4, <1>5, <1>7, <1>8, <1>9

LEMMA NextGivInv == GivInv /\ [Next]_vars => GivInv'
<1> SUFFICES ASSUME GivInv, [Next]_vars PROVE GivInv'
  OBVIOUS
<1>1. CASE Mutator
  BY <1>1, NewGivInv, ForgetGivInv, SetIvarGivInv, RemoveIvarsGivInv, StopGivInv DEF Mutator
<1>2. CASE NextStage
  BY <1>2, EndPrepareGivInv, EndClosureGivInv, EndVMRefClosureGivInv, ReclaimGivInv
  DEF NextStage, ReclaimMemory
<1>3. ASSUME NEW w \in Worker, WorkerStep(w)
      PROVE  GivInv'
  BY <1>3, KeepInPlaceGivInv, StartCopyGivInv, InsertMovedGivInv, PublishGivInv,
     StartScanGivInv, LookupOriginalGivInv, LookupMovedGivInv, TakeGivInv,
     ProcessWeakStuffGivInv, MoveGivInv, CleanupGivInv
  DEF WorkerStep
<1>4. CASE UNCHANGED vars
  <2> USE <1>4 DEF GivInv, vars, givVars, tblVars
  <2>1. /\ CoreTypeOK' /\ SchedTypeOK' /\ PacketsFit' /\ HeapFits' /\ (exivar \subseteq OnHeap)'
        /\ (Cleaned' <=> Cleaned) /\ FromSpace' = FromSpace /\ Survivor' = Survivor
    BY SameHeap
  <2>2. GivTypeOK' /\ CopyFindsTable'
    BY <2>1 DEF GivTypeOK, CopyFindsTable, coreVars, heapVars
  <2>3. TasksFit'
    BY <2>1 DEF TasksFit, IsCopying, IsScanning, coreVars, heapVars
  <2>4. MovesFit'  BY <2>1 DEF MovesFit, Recorded, coreVars, heapVars
  <2>5. TableFits'  BY <2>1 DEF TableFits, KeyedBy, Leaves, Arrives, coreVars, heapVars
  <2> QED BY <2>1, <2>2, <2>3, <2>4, <2>5
<1> QED BY <1>1, <1>2, <1>3, <1>4 DEF Next, Collector

(* What get_givtbl finds.                                                  *)
LEMMA LookupFits == GivInv => LookupSucceeds
<1> SUFFICES ASSUME GivInv, NEW w \in Worker
             PROVE  /\ task[w].pc = "lookup" =>
                         givtbl[task[w].obj] \in {heap[task[w].obj], NoTable}
                    /\ task[w].pc = "lookupMoved" =>
                         {m.tbl : m \in {n \in movedGivtbl : n.new = task[w].obj}}
                           = {heap[task[w].obj]}
  BY DEF LookupSucceeds
<1> USE DEF GivInv
<1> DEFINE r == task[w].obj
<1>1. ASSUME IsScanning(w)
      PROVE  /\ stage = "Closure" /\ ~Cleaned /\ r \in Survivor /\ heap[r] \in exivar
             /\ r \in Addr /\ heap[r] # Free
  BY <1>1, TaskShape, SurvivorsFit DEF TasksFit, IsScanning, Cleaned
<1>2. ASSUME task[w].pc = "lookup"
      PROVE  givtbl[r] \in {heap[r], NoTable}
  BY <1>1, <1>2 DEF IsScanning, TableFits
<1>3. ASSUME task[w].pc = "lookupMoved"
      PROVE  {m.tbl : m \in {n \in movedGivtbl : n.new = r}} = {heap[r]}
  <2>1. stage = "Closure" /\ heap[r] \in exivar /\ r \in Addr /\ heap[r] # Free
        /\ r \notin FromSpace
    BY <1>1, <1>3 DEF IsScanning, TasksFit
  <2>2. PICK c \in Addr : fwd[c] = r /\ c # r  BY <2>1 DEF FromSpace
  <2>3. heap[c] = heap[r]  BY <2>2 DEF HeapFits
  <2>4. Moved(r, c, heap[r]) \in movedGivtbl
    BY <2>1, <2>2, <2>3 DEF MovesFit, Recorded
  <2>5. ASSUME NEW m \in movedGivtbl, m.new = r
        PROVE  m.tbl = heap[r]
    <3>1. m.old \in Addr /\ m.new # m.old /\ m.tbl = heap[m.old]
      BY DEF MovesFit, GivTypeOK
    <3>2. CASE fwd[m.old] = m.new  BY <2>5, <3>1, <3>2 DEF HeapFits
    <3>3. CASE \E v \in Worker : task[v].pc = "publish" /\ task[v].from = m.old
                                   /\ task[v].to = m.new
      BY <2>1, <2>5, <3>3 DEF TasksFit, IsCopying
    <3> QED BY <3>2, <3>3 DEF MovesFit
  <2>6. Moved(r, c, heap[r]).new = r /\ Moved(r, c, heap[r]).tbl = heap[r]  BY DEF Moved
  <2> QED BY <2>4, <2>5, <2>6
<1> QED BY <1>2, <1>3

LEMMA TableFollows == GivInv => IvarsFollowObject
<1> QED BY MutatorTable DEF IvarsFollowObject

-----------------------------------------------------------------------------
(* The inductive invariant of the generic instance variables: tasks,       *)
(* records of moves and the table fit together at every step of tracing    *)
(* and of update_generic_iv_tbl.                                           *)
THEOREM GivInvariant == Spec => []GivInv
BY InitGivInv, NextGivInv, PTL DEF Spec

(* Type correctness of table, records and what the workers do.             *)
THEOREM GivTypeCorrect == Spec => []GivTypeOK
<1>1. GivInv => GivTypeOK  BY DEF GivInv
<1> QED BY <1>1, GivInvariant, PTL

(* get_givtbl never panics and answers with the object's own variables.    *)
THEOREM LookupsSucceed == Spec => []LookupSucceeds
<1> QED BY LookupFits, GivInvariant, PTL

(* copy finds the table of every object with FL_EXIVAR.                    *)
THEOREM CopiesFindTheirTable == Spec => []CopyFindsTable
<1>1. GivInv => CopyFindsTable  BY DEF GivInv
<1> QED BY <1>1, GivInvariant, PTL

(* After update_generic_iv_tbl the table is keyed by current addresses and *)
(* has the variables of exactly the objects that have any.                 *)
THEOREM TableFollowsObjects == Spec => []IvarsFollowObject
<1> QED BY TableFollows, GivInvariant, PTL

-----------------------------------------------------------------------------
(* The table as WeakRegistry tells it.                                     *)

needed == live \cap exivar
members == {givtbl[a] : a \in Addr} \ {NoTable}

LEMMA InitRegistry == GivInit => Registry!Init
<1> SUFFICES ASSUME GivInit PROVE Registry!Init
  OBVIOUS
<1>1. OnHeap = {}  BY DEF GivInit, CoreInit, OnHeap
<1>2. members = {}  BY DEF GivInit, members
<1> QED BY <1>1, <1>2 DEF GivInit, CoreInit, Registry!Init, members

(* Between collections the members are exactly the objects with variables. *)
LEMMA MutatorMembers ==
  ASSUME GivInv, stage = "Mutator"
  PROVE  members = exivar /\ exivar \subseteq OnHeap /\ live \subseteq OnHeap
<1> USE DEF GivInv
<1>1. \A a \in Addr : givtbl[a] = IF heap[a] \in exivar THEN heap[a] ELSE NoTable
  BY MutatorTable
<1>2. exivar \subseteq OnHeap /\ live \subseteq OnHeap  BY DEF HeapFits
<1>3. NoTable \notin exivar /\ Free \notin exivar
  BY GivTblAssumption, CoreAssumption DEF GivTypeOK
<1> QED BY <1>1, <1>2, <1>3 DEF members, OnHeap

LEMMA MutatorRegistry ==
  ASSUME GivInv, Mutator
  PROVE  [Registry!Next]_(Registry!vars)
<1> USE DEF Registry!vars
<1>1. stage = "Mutator" /\ members = exivar /\ exivar \subseteq OnHeap /\ live \subseteq OnHeap
  BY MutatorMembers DEF Mutator, New, Alloc, Forget, Drop, SetIvar, RemoveIvars,
     StopAllMutators, StartGC
<1>2. /\ \A a \in Addr : givtbl[a] = IF heap[a] \in exivar THEN heap[a] ELSE NoTable
      /\ NoTable \notin Obj /\ givtbl \in [Addr -> Obj \cup {NoTable}]
  BY <1>1, MutatorTable, GivTblAssumption DEF GivInv, GivTypeOK
<1>3. members \in SUBSET Obj /\ live \in SUBSET Obj /\ exivar \in SUBSET Obj
  BY <1>1 DEF GivInv, GivTypeOK, CoreTypeOK
<1>4. ASSUME NEW o \in Obj, NEW a \in Addr, NEW S \in SUBSET live, New(o, a, S)
      PROVE  Registry!Next
  <2> USE <1>4 DEF New, Alloc, givVars, tblVars
  <2>1. o # Free /\ heap \in [Addr -> Obj \cup {Free}]
    BY CoreAssumption DEF GivInv, GivTypeOK, CoreTypeOK
  <2>2. OnHeap' = OnHeap \cup {o}  BY <2>1 DEF OnHeap
  <2>3. needed' = needed /\ members' = members  BY <1>1 DEF needed, members
  <2>4. Registry!Alloc(o, {})
    BY <2>2, <2>3 DEF Registry!Alloc, needed, members
  <2> QED BY <2>4 DEF Registry!Next
<1>5. ASSUME NEW o \in live, Forget(o)
      PROVE  Registry!Next
  <2>1. OnHeap' = OnHeap /\ members' = members /\ needed' = needed \ {o}
    BY <1>5 DEF Forget, Drop, givVars, tblVars, OnHeap, members, needed
  <2>2. Registry!Forget({o})  BY <2>1 DEF Registry!Forget, needed, members
  <2>3. {o} \in SUBSET Obj  BY <1>3
  <2> QED BY <2>2, <2>3 DEF Registry!Next
<1>6. ASSUME NEW o \in Obj, SetIvar(o)
      PROVE  Registry!Next
  <2>1. stage' = "Mutator" /\ OnHeap' = OnHeap /\ live' = live /\ exivar' = exivar \cup {o}
        /\ o \in live
    BY <1>6 DEF SetIvar, coreVars, heapVars, OnHeap
  <2>2. members' = members \cup {o}
    BY <1>1, <1>2, <1>6, <2>1 DEF SetIvar, members, OnHeap
  <2>3. members' = members \cup {o} /\ needed' = needed \cup {o}
    BY <1>1, <2>1, <2>2 DEF needed
  <2>4. Registry!Register({o})
    BY <1>1, <2>1, <2>3 DEF Registry!Register, needed, members
  <2> QED BY <2>4 DEF Registry!Next
<1>7. ASSUME NEW o \in Obj, RemoveIvars(o)
      PROVE  Registry!Next
  <2>1. stage' = "Mutator" /\ OnHeap' = OnHeap /\ live' = live /\ exivar' = exivar \ {o}
    BY <1>7 DEF RemoveIvars, coreVars, heapVars, OnHeap
  <2>2. members' = members \ {o}
    BY <1>1, <1>2, <1>7, <2>1 DEF RemoveIvars, members, OnHeap
  <2>3. members' = members \ {o} /\ needed' = needed \ {o}
    BY <1>1, <2>1, <2>2 DEF needed
  <2>4. Registry!Unregister({o})
    BY <2>1, <2>3 DEF Registry!Unregister, needed, members
  <2> QED BY <2>4 DEF Registry!Next
<1>8. ASSUME NEW mayMove \in BOOLEAN, StopAllMutators(mayMove)
      PROVE  UNCHANGED Registry!vars
  BY <1>8 DEF StopAllMutators, StartGC, givVars, tblVars, OnHeap
<1> QED BY <1>4, <1>5, <1>6, <1>7, <1>8 DEF Mutator

LEMMA TracingRegistry ==
  ASSUME GivInv, NEW w \in Worker, WorkerStep(w),
         \A m \in movedGivtbl : ~MoveGivTbl(w, m), ~CleanupGivTbl(w)
  PROVE  UNCHANGED Registry!vars
<1> USE DEF Registry!vars, givVars, tblVars, coreVars, heapVars
<1>1. ASSUME NEW a \in Addr, KeepInPlace(w, a) PROVE UNCHANGED Registry!vars
  BY <1>1 DEF KeepInPlace, TraceInPlace, OnHeap
<1>2. ASSUME NEW a \in Addr, NEW b \in Addr, StartCopy(w, a, b) PROVE UNCHANGED Registry!vars
  BY <1>2 DEF StartCopy, OnHeap
<1>3. CASE InsertMoved(w)  BY <1>3 DEF InsertMoved, OnHeap
<1>4. CASE Publish(w)
  <2>1. OnHeap' = OnHeap  BY <1>4, PublishGivInv
  <2> QED BY <1>4, <2>1 DEF Publish, TraceAndCopy
<1>5. ASSUME NEW r \in toScan, StartScan(w, r) PROVE UNCHANGED Registry!vars
  BY <1>5 DEF StartScan, OnHeap
<1>6. CASE LookupOriginal(w) \/ LookupMoved(w)
  BY <1>6 DEF LookupOriginal, LookupMoved, OnHeap
<1>7. ASSUME NEW s \in GCStage, NEW p \in bucket[s], Take(w, p) PROVE UNCHANGED Registry!vars
  BY <1>7 DEF Take, TakePacket, OnHeap
<1>8. CASE ProcessWeakStuff(w)  BY <1>8 DEF ProcessWeakStuff, OnHeap
<1> QED BY <1>1, <1>2, <1>3, <1>4, <1>5, <1>6, <1>7, <1>8 DEF WorkerStep

(* cleanup_generic_iv_tbl drops nothing that is needed.                    *)
LEMMA CleanupRegistry ==
  ASSUME GivInv, NEW w \in Worker, CleanupGivTbl(w)
  PROVE  Registry!Next
<1> USE DEF GivInv, CleanupGivTbl, heapVars
<1>1. stage = "VMRefClosure" /\ ~Cleaned  BY RunnerAlone DEF PacketSet
<1>2. members' \subseteq members /\ members \in SUBSET Obj
  BY DEF members, GivTypeOK
<1>3. \A o \in live \cap exivar : o \in members'
  <2> SUFFICES ASSUME NEW o \in live \cap exivar PROVE o \in members'
    OBVIOUS
  <2>1. PICK a \in Survivor : heap[a] = o  BY <1>1, LiveSurvives
  <2>2. a \in Addr /\ fwd[a] = a  BY <2>1, SurvivorsFit
  <2>3. KeyedBy(a)  BY <2>1, <2>2 DEF KeyedBy, Arrives
  <2>4. givtbl'[a] = o /\ o # NoTable
    BY <1>1, <2>1, <2>2, <2>3, GivTblAssumption DEF TableFits, KeysOfLive, GivTypeOK
  <2> QED BY <2>2, <2>4 DEF members
<1>4. UNCHANGED <<OnHeap, live, exivar>>  BY DEF OnHeap
<1>5. PICK S \in SUBSET Obj : S = members \ members'  BY <1>2
<1>6. S \cap needed = {} /\ members' = members \ S
  BY <1>2, <1>3, <1>5 DEF needed
<1>7. Registry!Sweep(S)
  BY <1>4, <1>6 DEF Registry!Sweep, needed, members
<1> QED BY <1>7 DEF Registry!Next

(* Reclaiming memory takes nothing that is needed or registered.           *)
LEMMA ReclaimRegistry ==
  ASSUME GivInv, ReclaimMemory
  PROVE  Registry!Next
<1> USE DEF GivInv, ReclaimMemory, Reclaim, Advance
<1>1. live \subseteq OnHeap' /\ OnHeap' \subseteq OnHeap  BY ReclaimGivInv
<1>2. \A a \in Addr : givtbl[a] = IF a \in Survivor /\ heap[a] \in exivar THEN heap[a] ELSE NoTable
  BY DEF TableFits, Cleaned
<1>3. members \subseteq OnHeap'
  <2> SUFFICES ASSUME NEW o \in members PROVE o \in OnHeap'
    OBVIOUS
  <2>1. PICK a \in Addr : a \in Survivor /\ heap[a] = o  BY <1>2 DEF members
  <2>2. heap'[a] = o /\ o # Free  BY <2>1, SurvivorsFit
  <2> QED BY <2>2 DEF OnHeap
<1> DEFINE S == OnHeap \ OnHeap'
<1>4. S \in SUBSET Obj /\ OnHeap' = OnHeap \ S
  BY <1>1 DEF OnHeap, GivTypeOK, CoreTypeOK
<1>5. members' = members /\ needed' = needed
  BY <1>1 DEF members, needed
<1>6. S \cap (needed \cup members) = {}
  BY <1>1, <1>3 DEF needed
<1>7. Registry!Reclaim(S)
  BY <1>4, <1>5, <1>6 DEF Registry!Reclaim, needed, members
<1> QED BY <1>4, <1>7 DEF Registry!Next

LEMMA StepRegistry == GivInv /\ [Next]_vars => [Registry!Next]_(Registry!vars)
<1> SUFFICES ASSUME GivInv, [Next]_vars PROVE [Registry!Next]_(Registry!vars)
  OBVIOUS
<1> USE DEF Registry!vars
<1>1. CASE Mutator  BY <1>1, MutatorRegistry
<1>2. ASSUME NEW w \in Worker, WorkerStep(w)
      PROVE  [Registry!Next]_(Registry!vars)
  <2>1. CASE CleanupGivTbl(w)  BY <2>1, CleanupRegistry
  <2>2. ASSUME NEW m \in movedGivtbl, MoveGivTbl(w, m)
        PROVE  UNCHANGED Registry!vars
    <3>1. {givtbl'[a] : a \in Addr} \ {NoTable} = {givtbl[a] : a \in Addr} \ {NoTable}
      BY <2>2, MoveGivInv
    <3> QED BY <2>2, <3>1 DEF MoveGivTbl, coreVars, heapVars, OnHeap
  <2> QED BY <1>2, <2>1, <2>2, TracingRegistry
<1>3. CASE ReclaimMemory  BY <1>3, ReclaimRegistry
<1>4. CASE NextStage /\ ~ReclaimMemory
  BY <1>4 DEF NextStage, ReclaimMemory, EndPrepare, EndClosure, EndVMRefClosure, givVars, tblVars,
     heapVars, OnHeap
<1>5. CASE UNCHANGED vars
  BY <1>5 DEF vars, coreVars, heapVars, givVars, tblVars, OnHeap
<1> QED BY <1>1, <1>2, <1>3, <1>4, <1>5 DEF Next, Collector

(* Moves, records, packets and workers implement a weak registry: while an *)
(* object with variables is in use its table is not lost, and no memory is *)
(* reclaimed while the table still has its object.                         *)
THEOREM GivTblImplementsRegistry == Spec => ImplementsRegistry
BY InitRegistry, StepRegistry, GivInvariant, PTL DEF Spec, ImplementsRegistry, Registry!Spec
=============================================================================
