------------------------- MODULE RootScanningProofs -------------------------
(***************************************************************************)
(* Proofs about RootScanning, for every heap, set of root places, workers, *)
(* buffer and chunk size.                                                  *)
(*                                                                         *)
(* ScanInv is the inductive invariant.  Between collections an old object  *)
(* refers to young ones only if it is remembered or without barrier        *)
(* (GenerationsFit).  During Prepare every root, and everything an old     *)
(* object without barrier refers to, is handed over or in somebody's hand  *)
(* (RootsInHand, UnprotectedInHand); so tracing reaches what it must       *)
(* (TracedFits), and the registries are exact before or after their own    *)
(* update packet, whichever packets have run (TablesFit).                  *)
(***************************************************************************)
EXTENDS RootScanning, TLAPS

InUse == {a \in Addr : heap[a] # Free}

HeapFits ==
  /\ stage # "VMRefClosure" => \A a \in Addr : fwd[a] = a
  /\ stage = "Mutator" => reached = {} /\ pinnedRoots = {}
  /\ stage = "Prepare" => reached = IF nursery THEN old ELSE {}
  /\ reached \cup pinnedRoots \subseteq InUse
  /\ \A a \in Addr : fwd[a] # a =>
       a \in reached /\ heap[fwd[a]] = heap[a] /\ fwd[a] \notin reached /\ fwd[fwd[a]] = fwd[a]
  /\ \A a, b \in Addr : heap[a] = heap[b] /\ heap[a] # Free =>
       a = b \/ fwd[a] = b \/ fwd[b] = a

(* Nothing refers to an object that is not on the heap.                    *)
ReferencesFit ==
  /\ AllRoots \cup unprotected \cup interned \subseteq OnHeap
  /\ \A o \in Obj : edges[o] \subseteq OnHeap
  /\ \A o \in Obj \ OnHeap : edges[o] = {}

GenerationsFit ==
  stage # "VMRefClosure" =>
    /\ remembered \subseteq old /\ old \subseteq InUse
    /\ \A a \in old : heap[a] \in unprotected \/ a \in remembered \/ Kids(a) \subseteq old

TracedFits ==
  stage = "VMRefClosure" =>
    /\ AddrsOf(AllRoots) \subseteq pinnedRoots
    /\ pinnedRoots \subseteq reached
    /\ \A a \in pinnedRoots : fwd[a] = a
    /\ \A a \in reached : edges[heap[a]] \subseteq {heap[b] : b \in reached}

-----------------------------------------------------------------------------
ScanKinds == {"ScanRoots", "ScanWbUnprotectedRoots"}
WeakKinds == {"ProcessWeakRefs", "UpdateCiTable", "UpdateWbUnprotectedObjectsList"}
SimpleKinds == WeakKinds \cup {"ScanVMSpecificRoots"}

Around(k) == Simple(k) \in bucket \/ \E w \in Worker : Runs(w, k)

Once(k) ==
  /\ Simple(k) \in bucket => \A w \in Worker : ~Runs(w, k)
  /\ \A v, w \in Worker : Runs(v, k) /\ Runs(w, k) => v = w

Present == bucket \cup {running[w] : w \in {v \in Worker : running[v] # NoPacket}}

PacketsFit ==
  /\ stage = "Mutator" => Present = {}
  /\ stage = "Prepare" => \A p \in Present : p.kind \notin WeakKinds
  /\ stage = "VMRefClosure" => \A p \in Present : p.kind \in WeakKinds
  /\ \A k \in SimpleKinds : Once(k)
  /\ Around("ProcessWeakRefs") => ~Around("UpdateCiTable") /\ ~Around("UpdateWbUnprotectedObjectsList")

(* The collector is in use only inside scan_vm_specific_roots.             *)
VecsFit ==
  /\ collecting => \E w \in Worker : Runs(w, "ScanVMSpecificRoots")
  /\ ~collecting => uncollected = {} /\ currentVec = <<>> /\ vecs = {}

(* The addresses a table of the objects S has before and after its update. *)
Before(S) == {a \in AddrsOf(S) : \A b \in Addr : fwd[b] = a => b = a}
After(S) == Survivor \cap AddrsOf(S)

Updated(k) == stage = "VMRefClosure" /\ ~Around("ProcessWeakRefs") /\ ~Around(k)

TablesFit ==
  /\ registry = IF Updated("UpdateWbUnprotectedObjectsList") THEN After(unprotected)
                ELSE Before(unprotected)
  /\ ciTable = IF Updated("UpdateCiTable") THEN After(interned) ELSE Before(interned)

-----------------------------------------------------------------------------
(* What a packet still waiting, or taken and not begun, will visit.        *)
WillReport(p) == IF p.kind \in ScanKinds THEN Reported(p) ELSE {}
Untouched(w) == closure[w] = Unregistered /\ running[w] # NoPacket
InBuffer(w, x) == \E i \in DOMAIN buffer[w] : buffer[w][i] = x

InHand(x) ==
  \/ x \in pinnedRoots
  \/ \E p \in bucket : x \in WillReport(p)
  \/ \E w \in Worker : \/ x \in todo[w] \/ InBuffer(w, x)
                       \/ Untouched(w) /\ x \in WillReport(running[w])

VMRootsToCome == Around("ScanVMSpecificRoots") /\ ~collecting

RootsInHand ==
  stage = "Prepare" => \A s \in Scanner :
    \/ s \notin MutatorThread /\ VMRootsToCome
    \/ \A x \in AddrsOf(roots[s]) : InHand(x)

InVecs(a) ==
  \/ a \in uncollected
  \/ \E i \in DOMAIN currentVec : currentVec[i] = a
  \/ \E v \in vecs : a \in v

UnprotectedInHand ==
  stage = "Prepare" /\ nursery => \A a \in registry \cap old :
    VMRootsToCome \/ InVecs(a) \/ \A x \in Kids(a) : InHand(x)

(* What is in somebody's hand is in memory.                                *)
HandsFit ==
  \A w \in Worker : /\ todo[w] \subseteq InUse
                    /\ \A i \in DOMAIN buffer[w] : buffer[w][i] \in InUse

ScanInv ==
  /\ RootScanningTyped
  /\ HeapFits /\ ReferencesFit /\ GenerationsFit /\ TracedFits
  /\ PacketsFit /\ VecsFit /\ TablesFit /\ ClosureFits
  /\ RootsInHand /\ UnprotectedInHand /\ HandsFit

-----------------------------------------------------------------------------
LEMMA InitScanInv == Init => ScanInv
<1> SUFFICES ASSUME Init PROVE ScanInv
  OBVIOUS
<1> USE DEF Init, HeapInit
<1>1. RootScanningTyped
  <2>1. /\ heap \in [Addr -> Obj \cup {Free}] /\ edges \in [Obj -> SUBSET Obj]
        /\ roots \in [Scanner -> SUBSET Obj] /\ fwd \in [Addr -> Addr]
    OBVIOUS
  <2>2. /\ running \in [Worker -> PacketSet \cup {NoPacket}] /\ todo \in [Worker -> SUBSET Addr]
        /\ closure \in [Worker -> {Unregistered, "collect", "forward"}]
        /\ currentVec \in Seq(Addr) /\ buffer \in [Worker -> Seq(Addr)]
    OBVIOUS
  <2> QED BY <2>1, <2>2 DEF RootScanningTyped
<1>2. OnHeap = {} /\ AllRoots = {}  BY DEF OnHeap, AllRoots
<1>3. HeapFits /\ ReferencesFit
  BY <1>2 DEF HeapFits, ReferencesFit, OnHeap
<1>4. GenerationsFit /\ TracedFits  BY DEF GenerationsFit, TracedFits
<1>5. Present = {} /\ \A k : ~Around(k) /\ \A w \in Worker : ~Runs(w, k)
  BY DEF Present, Around, Runs
<1>6. PacketsFit /\ VecsFit
  BY <1>5 DEF PacketsFit, VecsFit, Once
<1>7. TablesFit
  BY DEF TablesFit, Updated, Before, AddrsOf
<1>8. RootsInHand /\ UnprotectedInHand
  BY DEF RootsInHand, UnprotectedInHand
<1>9. ClosureFits  BY DEF ClosureFits, Unregistered
<1>10. HandsFit
  <2>1. \A w \in Worker : todo[w] = {} /\ DOMAIN buffer[w] = {}  OBVIOUS
  <2> QED BY <2>1 DEF HandsFit
<1> QED BY <1>1, <1>3, <1>4, <1>6, <1>7, <1>8, <1>9, <1>10 DEF ScanInv

(* A packet without parameters is known by its kind.                       *)
LEMMA KnownByKind ==
  /\ \A p \in PacketSet : p.kind \in SimpleKinds \cup ScanKinds
  /\ \A p \in PacketSet, k \in SimpleKinds : p.kind = k <=> p = Simple(k)
  /\ \A k \in SimpleKinds : Simple(k) \in PacketSet /\ Simple(k).kind = k /\ k \notin ScanKinds
  /\ \A s \in Scanner : ScanRoots(s) \in PacketSet /\ ScanRoots(s).kind = "ScanRoots"
  /\ \A v \in SUBSET Addr : /\ ScanWbUnprotectedRoots(v) \in PacketSet
                            /\ ScanWbUnprotectedRoots(v).kind = "ScanWbUnprotectedRoots"
BY DEF PacketSet, SimpleKinds, WeakKinds, ScanKinds, Simple, ScanRoots, ScanWbUnprotectedRoots

LEMMA PacketsTyped ==
  ASSUME ScanInv
  PROVE  /\ \A p \in bucket : p \in PacketSet /\ p # NoPacket
         /\ \A w \in Worker : running[w] # NoPacket => running[w] \in PacketSet
         /\ \A k : \A w \in Worker : Runs(w, k) => running[w] \in PacketSet /\ running[w] \in Present
         /\ bucket \subseteq Present
BY RootScanningAssumption DEF ScanInv, RootScanningTyped, Runs, Present

(* The program never gets hold of what is not in memory.                   *)
LEMMA LiveOnHeap ==
  ASSUME ScanInv
  PROVE  Live \subseteq OnHeap /\ OnHeap \subseteq Obj
<1>1. OnHeap \subseteq Obj  BY DEF OnHeap, ScanInv, RootScanningTyped
<1>2. AllRoots \subseteq OnHeap /\ \A p \in OnHeap : edges[p] \subseteq OnHeap
  BY <1>1 DEF ScanInv, ReferencesFit
<1> QED BY <1>1, <1>2 DEF Live

(* Between collections each object is at one address, nothing is in        *)
(* anybody's hand, and the registries are exact.                           *)
LEMMA Calm ==
  ASSUME ScanInv, stage = "Mutator"
  PROVE  /\ bucket = {} /\ (\A w \in Worker : running[w] = NoPacket)
         /\ \A k : ~Around(k) /\ ~Updated(k) /\ \A w \in Worker : ~Runs(w, k)
         /\ ~collecting /\ uncollected = {} /\ currentVec = <<>> /\ vecs = {}
         /\ \A w \in Worker : closure[w] = Unregistered /\ todo[w] = {} /\ buffer[w] = <<>>
         /\ registry = AddrsOf(unprotected) /\ ciTable = AddrsOf(interned)
         /\ \A a, b \in Addr : heap[a] = heap[b] /\ heap[a] # Free => a = b
<1> USE DEF ScanInv
<1>1. bucket = {} /\ (\A w \in Worker : running[w] = NoPacket)
  BY DEF PacketsFit, Present
<1>2. \A k : ~Around(k) /\ ~Updated(k) /\ \A w \in Worker : ~Runs(w, k)
  BY <1>1 DEF Around, Updated, Runs
<1>3. ~collecting /\ uncollected = {} /\ currentVec = <<>> /\ vecs = {}
  BY <1>2 DEF VecsFit
<1>4. \A w \in Worker : closure[w] = Unregistered /\ todo[w] = {} /\ buffer[w] = <<>>
  BY <1>2 DEF ClosureFits, RootScanningTyped, Unregistered
<1>5. registry = AddrsOf(unprotected) /\ ciTable = AddrsOf(interned)
  BY <1>2 DEF TablesFit, Before, HeapFits, AddrsOf
<1>6. \A a, b \in Addr : heap[a] = heap[b] /\ heap[a] # Free => a = b
  BY DEF HeapFits
<1> QED BY <1>1, <1>2, <1>3, <1>4, <1>5, <1>6

-----------------------------------------------------------------------------
(* The program.                                                            *)

LEMMA MutatorStep ==
  ASSUME ScanInv, stage = "Mutator", UNCHANGED <<stage, fwd, schedVars, vecVars, scanVars>>,
         RootScanningTyped', HeapFits', ReferencesFit', GenerationsFit',
         registry' = AddrsOf(unprotected)', ciTable' = AddrsOf(interned)'
  PROVE  ScanInv'
<1> USE DEF ScanInv, schedVars, vecVars, scanVars
<1>1. TracedFits' /\ RootsInHand' /\ UnprotectedInHand'
  BY DEF TracedFits, RootsInHand, UnprotectedInHand
<1>2. PacketsFit' /\ VecsFit' /\ ClosureFits'
  BY DEF PacketsFit, Present, Once, Around, Runs, VecsFit, ClosureFits
<1>3. \A k : ~Updated(k)'  BY DEF Updated
<1>4. TablesFit'  BY <1>3 DEF TablesFit, Before, HeapFits, AddrsOf
<1>5. HandsFit'  BY Calm DEF HandsFit
<1> QED BY <1>1, <1>2, <1>4, <1>5

LEMMA NewScanInv ==
  ASSUME ScanInv, NEW o \in Obj, NEW a \in Addr, NEW s \in Scanner, New(o, a, s)
  PROVE  ScanInv'
<1> USE DEF ScanInv, New, Alloc, tableVars, traceVars
<1>1. /\ \A x, y \in Addr : heap[x] = heap[y] /\ heap[x] # Free => x = y
      /\ registry = AddrsOf(unprotected) /\ ciTable = AddrsOf(interned)
  BY Calm
<1>2. /\ o # Free
      /\ \A b \in Addr : heap'[b] = IF b = a THEN o ELSE heap[b]
      /\ \A b \in Addr : heap[b] # Free => b # a /\ heap[b] # o
      /\ OnHeap' = OnHeap \cup {o}
  BY HeapAssumption DEF OnHeap, RootScanningTyped
<1>3. RootScanningTyped'
  BY DEF RootScanningTyped, schedVars, vecVars, scanVars
<1>4. HeapFits'
  BY <1>1, <1>2 DEF HeapFits, InUse
<1>5. ReferencesFit'
  <2>1. AllRoots' \subseteq AllRoots \cup {o}  BY DEF AllRoots, RootScanningTyped
  <2> QED BY <1>2, <2>1 DEF ReferencesFit
<1>6. o \notin unprotected /\ o \notin interned /\ (\A p \in Obj : o \notin edges[p])
      /\ Free \notin unprotected /\ Free \notin interned
  BY <1>2 DEF ReferencesFit, OnHeap
<1>7. GenerationsFit'
  <2>1. \A b \in old : b # a /\ heap'[b] = heap[b] /\ heap[b] \in Obj /\ b \in Addr /\ b \in InUse
    BY <1>2 DEF GenerationsFit, InUse, RootScanningTyped
  <2>2. ASSUME NEW b \in old PROVE Kids(b)' = Kids(b)
    <3>1. heap'[b] = heap[b] /\ heap[b] \in Obj  BY <2>1
    <3>2. \A x \in Addr : heap'[x] \in edges[heap[b]] <=> heap[x] \in edges[heap[b]]
      BY <1>2, <1>6, <3>1 DEF ReferencesFit, OnHeap
    <3> QED BY <3>1, <3>2 DEF Kids, AddrsOf
  <2>3. old \subseteq InUse'  BY <1>2, <2>1 DEF InUse
  <2> QED BY <2>1, <2>2, <2>3 DEF GenerationsFit
<1>8. AddrsOf(unprotected)' = AddrsOf(unprotected) /\ AddrsOf(interned)' = AddrsOf(interned)
  BY <1>2, <1>6 DEF AddrsOf
<1> QED BY <1>1, <1>3, <1>4, <1>5, <1>7, <1>8, MutatorStep

LEMMA LoadRootsScanInv ==
  ASSUME ScanInv, NEW s \in Scanner, NEW S \in SUBSET Live, LoadRoots(s, S)
  PROVE  ScanInv'
<1> USE DEF ScanInv, LoadRoots, SetRoots, tableVars, traceVars
<1>1. registry = AddrsOf(unprotected) /\ ciTable = AddrsOf(interned)
  BY Calm
<1>2. S \subseteq OnHeap /\ S \subseteq Obj  BY LiveOnHeap
<1>3. RootScanningTyped'
  BY <1>2 DEF RootScanningTyped, schedVars, vecVars, scanVars
<1>4. HeapFits' /\ OnHeap' = OnHeap /\ GenerationsFit'
  BY DEF HeapFits, InUse, OnHeap, GenerationsFit, Kids, AddrsOf
<1>5. ReferencesFit'
  <2>1. AllRoots' \subseteq AllRoots \cup S  BY DEF AllRoots, RootScanningTyped
  <2> QED BY <1>2, <1>4, <2>1 DEF ReferencesFit
<1>6. AddrsOf(unprotected)' = AddrsOf(unprotected) /\ AddrsOf(interned)' = AddrsOf(interned)
  BY DEF AddrsOf
<1> QED BY <1>1, <1>3, <1>4, <1>5, <1>6, MutatorStep

LEMMA WriteScanInv ==
  ASSUME ScanInv, NEW o \in Holder, NEW S \in SUBSET Live, Write(o, S)
  PROVE  ScanInv'
<1> USE DEF ScanInv, Write, SetFields, tableVars, traceVars
<1>1. registry = AddrsOf(unprotected) /\ ciTable = AddrsOf(interned)
  BY Calm
<1>2. S \subseteq OnHeap /\ S \subseteq Obj /\ o \in OnHeap /\ o \in Obj  BY LiveOnHeap
<1>3. \A p \in Obj : edges'[p] = IF p = o THEN S ELSE edges[p]
  BY DEF RootScanningTyped
<1>4. RootScanningTyped'
  BY <1>2 DEF RootScanningTyped, schedVars, vecVars, scanVars, Logged
<1>5. HeapFits' /\ OnHeap' = OnHeap
  BY DEF HeapFits, InUse, OnHeap
<1>6. ReferencesFit'
  BY <1>2, <1>3, <1>5 DEF ReferencesFit, AllRoots
<1>7. GenerationsFit'
  <2>1. remembered' \subseteq old /\ remembered \subseteq remembered'
    BY DEF GenerationsFit, Logged
  <2>2. ASSUME NEW a \in old
        PROVE  heap[a] \in unprotected \/ a \in remembered' \/ Kids(a)' \subseteq old
    <3>1. CASE heap[a] = o
      BY <3>1 DEF Logged, AddrsOf, RootScanningTyped
    <3>2. CASE heap[a] # o
      <4>1. Kids(a)' = Kids(a)  BY <1>3, <3>2 DEF Kids, AddrsOf
      <4> QED BY <2>1, <4>1 DEF GenerationsFit
    <3> QED BY <3>1, <3>2
  <2> QED BY <2>1, <2>2 DEF GenerationsFit, InUse
<1>8. AddrsOf(unprotected)' = AddrsOf(unprotected) /\ AddrsOf(interned)' = AddrsOf(interned)
  BY DEF AddrsOf
<1> QED BY <1>1, <1>4, <1>5, <1>6, <1>7, <1>8, MutatorStep

LEMMA RegisterScanInv ==
  ASSUME ScanInv, NEW a \in Addr, RegisterWbUnprotected(a) \/ Intern(a)
  PROVE  ScanInv'
<1> USE DEF ScanInv, tableVars
<1>1. /\ stage = "Mutator" /\ heap[a] \in Obj /\ heap[a] \in OnHeap /\ heap[a] # Free
      /\ UNCHANGED <<stage, nursery, heap, edges, roots, old, remembered, pinnedRoots, reached, fwd,
                     schedVars, scanVars, vecVars>>
      /\ unprotected \subseteq unprotected' /\ unprotected' \subseteq unprotected \cup {heap[a]}
      /\ interned' \subseteq interned \cup {heap[a]}
  BY LiveOnHeap DEF RegisterWbUnprotected, Intern, heapVars, traceVars, programVars, OnHeap
<1>2. /\ registry = AddrsOf(unprotected) /\ ciTable = AddrsOf(interned)
      /\ \A b \in Addr : heap[b] = heap[a] => b = a
  BY <1>1, Calm
<1>3. registry' = AddrsOf(unprotected)' /\ ciTable' = AddrsOf(interned)'
  BY <1>1, <1>2 DEF RegisterWbUnprotected, Intern, heapVars, programVars, AddrsOf
<1>4. RootScanningTyped'
  BY <1>1, <1>3 DEF RootScanningTyped, schedVars, vecVars, scanVars, AddrsOf
<1>5. HeapFits' /\ OnHeap' = OnHeap /\ AllRoots' = AllRoots
  BY <1>1 DEF HeapFits, InUse, OnHeap, AllRoots
<1>6. ReferencesFit'  BY <1>1, <1>5 DEF ReferencesFit
<1>7. GenerationsFit'  BY <1>1 DEF GenerationsFit, InUse, Kids, AddrsOf
<1> QED BY <1>1, <1>3, <1>4, <1>5, <1>6, <1>7, MutatorStep

LEMMA StopScanInv ==
  ASSUME ScanInv, NEW isNursery \in BOOLEAN, StopAllMutators(isNursery)
  PROVE  ScanInv'
<1> USE DEF ScanInv, StopAllMutators, StartGC, programVars, tableVars, vecVars, scanVars
<1> DEFINE p == Simple("ScanVMSpecificRoots")
<1>1. /\ bucket = {} /\ (\A w \in Worker : running[w] = NoPacket) /\ ~collecting
      /\ \A w \in Worker : closure[w] = Unregistered /\ todo[w] = {} /\ buffer[w] = <<>>
      /\ registry = AddrsOf(unprotected) /\ ciTable = AddrsOf(interned)
  BY Calm
<1>2. \A q \in bucket' : q \in PacketSet /\ (q = p \/ q.kind = "ScanRoots")
  BY KnownByKind, RootScanningAssumption DEF SimpleKinds
<1>3. RootScanningTyped'
  <2>1. bucket' \subseteq PacketSet  BY <1>2
  <2> QED BY <2>1 DEF RootScanningTyped
<1>4. HeapFits' /\ OnHeap' = OnHeap
  BY DEF HeapFits, InUse, OnHeap, GenerationsFit
<1>5. ReferencesFit' /\ GenerationsFit' /\ TracedFits'
  BY <1>4 DEF ReferencesFit, AllRoots, GenerationsFit, InUse, Kids, AddrsOf, TracedFits
<1>6. (\A k : \A w \in Worker : ~Runs(w, k)') /\ Present' = bucket'
  BY <1>1 DEF Runs, Present
<1>7. PacketsFit'
  <2>1. \A q \in bucket' : q.kind \notin WeakKinds
    BY <1>2, KnownByKind DEF WeakKinds, SimpleKinds
  <2>2. Simple("ProcessWeakRefs") \notin bucket'
    BY <2>1, KnownByKind DEF WeakKinds, SimpleKinds
  <2> QED BY <1>6, <2>1, <2>2 DEF PacketsFit, Once, Around
<1>8. VecsFit' /\ ClosureFits'
  BY <1>1, <1>6 DEF VecsFit, ClosureFits, Unregistered
<1>9. TablesFit'
  BY <1>1 DEF TablesFit, Updated, Before, HeapFits, AddrsOf
<1>10. VMRootsToCome'  BY <1>1 DEF VMRootsToCome, Around
<1>11. RootsInHand'
  <2> SUFFICES ASSUME NEW s \in MutatorThread, NEW x \in AddrsOf(roots[s])
               PROVE  InHand(x)'
    BY <1>10, RootScanningAssumption DEF RootsInHand, AddrsOf
  <2>1. ScanRoots(s) \in bucket' /\ ScanRoots(s).kind = "ScanRoots" /\ ScanRoots(s).of = s
    BY DEF ScanRoots
  <2>2. WillReport(ScanRoots(s))' = AddrsOf(roots[s])
    BY <2>1 DEF WillReport, Reported, AddrsOf, ScanKinds
  <2> QED BY <2>1, <2>2 DEF InHand
<1>12. UnprotectedInHand'  BY <1>10 DEF UnprotectedInHand
<1>13. HandsFit'  BY <1>1 DEF HandsFit
<1> QED BY <1>3, <1>4, <1>5, <1>7, <1>8, <1>9, <1>11, <1>12, <1>13

-----------------------------------------------------------------------------
(* Prepare.                                                                *)

LEMMA PrepareStep ==
  ASSUME ScanInv, stage = "Prepare",
         UNCHANGED <<stage, nursery, heap, programVars, old, remembered, reached, fwd, registry,
                     tableVars>>,
         pinnedRoots' \subseteq InUse,
         RootScanningTyped', PacketsFit', VecsFit', ClosureFits', HandsFit',
         RootsInHand', UnprotectedInHand'
  PROVE  ScanInv'
<1> USE DEF ScanInv, programVars, tableVars
<1>1. HeapFits' /\ OnHeap' = OnHeap  BY DEF HeapFits, InUse, OnHeap
<1>2. ReferencesFit' /\ GenerationsFit' /\ TracedFits'
  BY <1>1 DEF ReferencesFit, AllRoots, GenerationsFit, InUse, Kids, AddrsOf, TracedFits
<1>3. TablesFit'
  BY DEF TablesFit, Updated, Before, AddrsOf
<1> QED BY <1>1, <1>2, <1>3

(* What a packet will visit does not change during Prepare.                *)
LEMMA SameReports ==
  ASSUME UNCHANGED <<heap, roots, edges, reached>>, NEW p
  PROVE  WillReport(p)' = WillReport(p) /\ \A a : Kids(a)' = Kids(a)
<1>1. \A a : Kids(a)' = Kids(a)  BY DEF Kids, AddrsOf
<1>2. Reported(p)' = Reported(p)
  BY <1>1 DEF Reported, AddrsOf, IsReachable
<1> QED BY <1>1, <1>2 DEF WillReport

LEMMA ReportsInUse ==
  ASSUME ScanInv, NEW p \in PacketSet, p.kind \in ScanKinds
  PROVE  Reported(p) \subseteq InUse
<1>1. \A S \in SUBSET Obj : AddrsOf(S) \subseteq InUse
  BY HeapAssumption DEF AddrsOf, InUse
<1>2. \A a : Kids(a) \subseteq InUse
  BY <1>1 DEF Kids, ScanInv, RootScanningTyped
<1>3. CASE p.kind = "ScanRoots"
  <2>1. p.of \in Scanner  BY <1>3 DEF PacketSet
  <2> QED BY <1>1, <1>3, <2>1 DEF Reported, ScanInv, RootScanningTyped
<1>4. CASE p.kind # "ScanRoots"  BY <1>2, <1>4 DEF Reported
<1> QED BY <1>3, <1>4

LEMMA HandsKept ==
  ASSUME ScanInv, UNCHANGED <<stage, nursery, heap, programVars, old, registry>>,
         VMRootsToCome => VMRootsToCome', \A a \in Addr : InVecs(a) => InVecs(a)',
         \A x \in Addr : InHand(x) => InHand(x)'
  PROVE  RootsInHand' /\ UnprotectedInHand'
<1> USE DEF ScanInv, programVars
<1>1. RootsInHand'  BY DEF RootsInHand, AddrsOf
<1>2. \A a : Kids(a)' = Kids(a) /\ Kids(a) \subseteq Addr  BY DEF Kids, AddrsOf
<1>3. UnprotectedInHand'  BY <1>2 DEF UnprotectedInHand, RootScanningTyped
<1> QED BY <1>1, <1>3

LEMMA TakeScanInv ==
  ASSUME ScanInv, NEW w \in Worker, NEW p \in bucket, Take(w, p)
  PROVE  ScanInv'
<1> USE DEF ScanInv, Take, heapVars, programVars, traceVars, tableVars, vecVars, scanVars
<1>1. /\ p \in PacketSet /\ p # NoPacket /\ p \in Present
      /\ \A v \in Worker : running'[v] = IF v = w THEN p ELSE running[v]
  BY PacketsTyped DEF RootScanningTyped
<1>2. RootScanningTyped'
  <2>1. bucket' \subseteq PacketSet /\ running' \in [Worker -> PacketSet \cup {NoPacket}]
    BY <1>1 DEF RootScanningTyped
  <2> QED BY <2>1 DEF RootScanningTyped
<1>3. HeapFits' /\ OnHeap' = OnHeap  BY DEF HeapFits, InUse, OnHeap
<1>4. ReferencesFit' /\ GenerationsFit' /\ TracedFits'
  BY <1>3 DEF ReferencesFit, AllRoots, GenerationsFit, InUse, Kids, AddrsOf, TracedFits
<1>5. \A k : \A v \in Worker : Runs(v, k)' <=> (Runs(v, k) \/ (v = w /\ p.kind = k))
  BY <1>1 DEF Runs
<1>6. Present' \subseteq Present  BY <1>1 DEF Present
<1>7. \A k \in SimpleKinds : Around(k)' <=> Around(k)
  BY <1>1, <1>5, KnownByKind DEF Around, Runs
<1>8. PacketsFit'
  <2>1. ASSUME NEW k \in SimpleKinds PROVE Once(k)'
    <3>1. Once(k)  BY DEF PacketsFit
    <3>2. p.kind = k <=> p = Simple(k)  BY <1>1, KnownByKind
    <3> QED BY <1>5, <3>1, <3>2 DEF Once
  <2>2. /\ stage = "Mutator" => Present' = {}
        /\ stage = "Prepare" => \A q \in Present' : q.kind \notin WeakKinds
        /\ stage = "VMRefClosure" => \A q \in Present' : q.kind \in WeakKinds
    BY <1>6 DEF PacketsFit
  <2> QED BY <1>7, <2>1, <2>2 DEF PacketsFit, SimpleKinds, WeakKinds
<1>9. VecsFit' /\ ClosureFits'
  BY <1>5 DEF VecsFit, ClosureFits
<1>10. TablesFit'
  BY <1>7 DEF TablesFit, Updated, Before, After, Survivor, AddrsOf, SimpleKinds, WeakKinds
<1>11. \A x \in Addr : InHand(x) => InHand(x)'
  <2>1. closure[w] = Unregistered /\ Untouched(w)'
    BY <1>1, <1>5 DEF ClosureFits, Untouched, Runs, RootScanningTyped
  <2>2. \A v \in Worker : Untouched(v) => Untouched(v)' /\ running'[v] = running[v]
    BY <1>1 DEF Untouched
  <2> SUFFICES ASSUME NEW x \in Addr, InHand(x) PROVE InHand(x)'
    OBVIOUS
  <2>3. CASE \E q \in bucket : x \in WillReport(q)
    <3>1. PICK q \in bucket : x \in WillReport(q)  BY <2>3
    <3>2. x \in WillReport(q)'  BY <3>1, SameReports
    <3>3. q \in bucket' \/ (q = p /\ running'[w] = q)  BY <1>1
    <3> QED BY <2>1, <3>2, <3>3 DEF InHand
  <2>4. CASE \E v \in Worker : Untouched(v) /\ x \in WillReport(running[v])
    <3>1. PICK v \in Worker : Untouched(v) /\ x \in WillReport(running[v])  BY <2>4
    <3>2. Untouched(v)' /\ running'[v] = running[v]  BY <2>2, <3>1
    <3>3. x \in WillReport(running[v])'  BY <3>1, <3>2 DEF WillReport, Reported, Kids, AddrsOf, IsReachable
    <3> QED BY <3>2, <3>3 DEF InHand
  <2> QED BY <2>3, <2>4 DEF InHand, InBuffer
<1>12. VMRootsToCome' <=> VMRootsToCome
  BY <1>7 DEF VMRootsToCome, SimpleKinds
<1>13. \A a : InVecs(a)' <=> InVecs(a)  BY DEF InVecs
<1>14. HandsFit'  BY DEF HandsFit, InUse
<1>15. RootsInHand' /\ UnprotectedInHand'
  BY <1>11, <1>12, <1>13, HandsKept
<1> QED BY <1>2, <1>3, <1>4, <1>8, <1>9, <1>10, <1>14, <1>15

LEMMA InPrepare ==
  ASSUME ScanInv, NEW w \in Worker, NEW k \in ScanKinds \cup {"ScanVMSpecificRoots"}, Runs(w, k)
  PROVE  /\ stage = "Prepare"
         /\ running[w] \in PacketSet /\ running[w] # NoPacket /\ running[w].kind = k
<1>1. running[w] \in Present /\ running[w].kind = k /\ running[w] \in PacketSet
  BY PacketsTyped DEF Runs
<1>2. k \notin WeakKinds  BY DEF ScanKinds, WeakKinds
<1> QED BY <1>1, <1>2 DEF ScanInv, PacketsFit, RootScanningTyped, Runs

LEMMA ScanVMScanInv ==
  ASSUME ScanInv, NEW w \in Worker, ScanVMSpecificRoots(w)
  PROVE  ScanInv'
<1> USE DEF ScanInv, ScanVMSpecificRoots, heapVars, programVars, traceVars, tableVars, scanVars
<1>1. stage = "Prepare"  BY InPrepare
<1>2. \A q \in bucket' \ bucket : q \in PacketSet /\ q.kind = "ScanRoots" /\ q.kind \notin SimpleKinds
  BY KnownByKind DEF SimpleKinds, WeakKinds
<1>3. RootScanningTyped'
  <2>1. bucket' \subseteq PacketSet /\ uncollected' \subseteq Addr
    BY <1>2 DEF RootScanningTyped
  <2> QED BY <2>1 DEF RootScanningTyped
<1>4. \A k : \A v \in Worker : Runs(v, k)' <=> Runs(v, k)  BY DEF Runs
<1>5. \A k \in SimpleKinds : Simple(k) \in bucket' <=> Simple(k) \in bucket
  BY <1>2, KnownByKind
<1>6. PacketsFit'
  <2>1. \A q \in Present' : q \in Present \/ q \in bucket' \ bucket  BY DEF Present
  <2>2. \A q \in Present' : q.kind \notin WeakKinds
    BY <1>1, <1>2, <2>1 DEF PacketsFit, SimpleKinds
  <2>3. \A k \in SimpleKinds : Once(k)' /\ (Around(k)' <=> Around(k))
    BY <1>4, <1>5 DEF PacketsFit, Once, Around
  <2> QED BY <1>1, <2>2, <2>3 DEF PacketsFit, SimpleKinds, WeakKinds
<1>7. VecsFit' /\ ClosureFits'
  BY <1>4 DEF VecsFit, ClosureFits
<1>8. \A x \in Addr : InHand(x) => InHand(x)'
  <2>1. \A q : WillReport(q)' = WillReport(q)
    BY DEF WillReport, Reported, Kids, AddrsOf, IsReachable
  <2> QED BY <2>1 DEF InHand, InBuffer, Untouched, WillReport, Reported, Kids, AddrsOf, IsReachable
<1>9. RootsInHand'
  <2> SUFFICES ASSUME NEW s \in Scanner, NEW x \in AddrsOf(roots[s]) PROVE InHand(x)'
    BY DEF RootsInHand, AddrsOf
  <2>1. CASE s \in MutatorThread
    BY <1>1, <1>8, <2>1 DEF RootsInHand, AddrsOf
  <2>2. CASE s \notin MutatorThread
    <3>1. ScanRoots(s) \in bucket' /\ ScanRoots(s).kind = "ScanRoots" /\ ScanRoots(s).of = s
      BY <2>2 DEF ScanRoots
    <3>2. WillReport(ScanRoots(s))' = AddrsOf(roots[s])
      BY <3>1 DEF WillReport, Reported, AddrsOf, ScanKinds
    <3> QED BY <3>1, <3>2 DEF InHand
  <2> QED BY <2>1, <2>2
<1>10. UnprotectedInHand'  BY DEF UnprotectedInHand, InVecs
<1>11. HandsFit' /\ pinnedRoots' \subseteq InUse  BY DEF HandsFit, HeapFits, InUse
<1> QED BY <1>1, <1>3, <1>6, <1>7, <1>9, <1>10, <1>11, PrepareStep

LEMMA AddToVecScanInv ==
  ASSUME ScanInv, NEW w \in Worker, NEW a \in uncollected, AddToVec(w, a)
  PROVE  ScanInv'
<1> USE DEF ScanInv, AddToVec, heapVars, programVars, traceVars, tableVars, schedVars, scanVars
<1>1. stage = "Prepare"  BY InPrepare
<1> DEFINE v == Append(currentVec, a)
<1>2. /\ currentVec \in Seq(Addr) /\ v \in Seq(Addr) /\ a \in Addr
      /\ DOMAIN currentVec \subseteq DOMAIN v
      /\ \A i \in DOMAIN currentVec : v[i] = currentVec[i]
      /\ Len(v) \in DOMAIN v /\ v[Len(v)] = a
      /\ Range(v) \in SUBSET Addr /\ \A i \in DOMAIN v : v[i] \in Range(v)
  <2>1. currentVec \in Seq(Addr) /\ a \in Addr  BY DEF RootScanningTyped
  <2>2. v \in Seq(Addr) /\ Len(v) = Len(currentVec) + 1 /\ v[Len(v)] = a
        /\ DOMAIN v = 1..Len(v) /\ DOMAIN currentVec = 1..Len(currentVec)
        /\ \A i \in 1..Len(currentVec) : v[i] = currentVec[i]
    BY <2>1
  <2>3. Len(currentVec) \in Nat  BY <2>1
  <2> HIDE DEF v
  <2>4. Range(v) \in SUBSET Addr /\ \A i \in DOMAIN v : v[i] \in Range(v)
    BY <2>2 DEF Range
  <2> QED BY <2>1, <2>2, <2>3, <2>4
<1>3. \/ vecs' = vecs \cup {Range(v)} /\ currentVec' = <<>>
      \/ vecs' = vecs /\ currentVec' = v
  OBVIOUS
<1> HIDE DEF v
<1>4. RootScanningTyped'
  <2>1. currentVec' \in Seq(Addr) /\ vecs' \subseteq SUBSET Addr
    <3>1. vecs \subseteq SUBSET Addr /\ <<>> \in Seq(Addr)  BY DEF RootScanningTyped
    <3>2. CASE vecs' = vecs \cup {Range(v)} /\ currentVec' = <<>>
      BY <1>2, <3>1, <3>2
    <3>3. CASE vecs' = vecs /\ currentVec' = v
      BY <1>2, <3>1, <3>3
    <3> QED BY <1>3, <3>2, <3>3
  <2> QED BY <2>1 DEF RootScanningTyped
<1>5. PacketsFit' /\ ClosureFits' /\ HandsFit' /\ pinnedRoots' \subseteq InUse
  BY DEF PacketsFit, Once, Around, Present, Runs, ClosureFits, HandsFit, HeapFits, InUse
<1>6. VecsFit'  BY DEF VecsFit, Runs
<1>7. \A x \in Addr : InHand(x)' <=> InHand(x)
  BY DEF InHand, InBuffer, Untouched, WillReport, Reported, Kids, AddrsOf, IsReachable
<1>8. \A b \in Addr : InVecs(b) => InVecs(b)'
  <2> SUFFICES ASSUME NEW b \in Addr, InVecs(b) PROVE InVecs(b)'
    OBVIOUS
  <2>1. CASE vecs' = vecs \cup {Range(v)} /\ currentVec' = <<>>
    BY <1>2, <2>1 DEF InVecs
  <2>2. CASE vecs' = vecs /\ currentVec' = v
    BY <1>2, <2>2 DEF InVecs
  <2> QED BY <1>3, <2>1, <2>2
<1>9. RootsInHand' /\ UnprotectedInHand'
  BY <1>7, <1>8, HandsKept DEF VMRootsToCome, Around, Runs
<1> QED BY <1>1, <1>4, <1>5, <1>6, <1>9, PrepareStep

LEMMA AddPacketsScanInv ==
  ASSUME ScanInv, NEW w \in Worker, AddWbUnprotectedPackets(w)
  PROVE  ScanInv'
<1> USE DEF ScanInv, AddWbUnprotectedPackets, Finish, heapVars, programVars, traceVars, tableVars,
            scanVars
<1>1. /\ stage = "Prepare" /\ running[w] # NoPacket /\ running[w].kind = "ScanVMSpecificRoots"
      /\ "ScanVMSpecificRoots" \notin ScanKinds
  BY InPrepare DEF ScanKinds
<1>2. /\ \A v \in IntoVecs : v \in SUBSET Addr
      /\ \A a \in Addr : InVecs(a) => \E v \in IntoVecs : a \in v
  <2>1. currentVec \in Seq(Addr) /\ vecs \subseteq SUBSET Addr  BY DEF RootScanningTyped
  <2>2. Range(currentVec) \in SUBSET Addr /\ \A i \in DOMAIN currentVec : currentVec[i] \in Range(currentVec)
    BY <2>1 DEF Range
  <2>3. \A i \in DOMAIN currentVec : currentVec # <<>>  OBVIOUS
  <2> QED BY <2>1, <2>2, <2>3 DEF IntoVecs, InVecs
<1>3. \A q \in bucket' \ bucket : q \in PacketSet /\ q.kind \in ScanKinds /\ q.kind \notin SimpleKinds
  BY <1>2, KnownByKind DEF SimpleKinds, WeakKinds, ScanKinds
<1>4. \A v \in Worker : running'[v] = IF v = w THEN NoPacket ELSE running[v]
  BY DEF RootScanningTyped
<1>5. RootScanningTyped'
  <2>1. bucket' \subseteq PacketSet /\ running' \in [Worker -> PacketSet \cup {NoPacket}]
    BY <1>3, <1>4 DEF RootScanningTyped
  <2>2. currentVec' \in Seq(Addr) /\ vecs' \subseteq SUBSET Addr  OBVIOUS
  <2> QED BY <2>1, <2>2 DEF RootScanningTyped
<1>6. \A k : \A v \in Worker : Runs(v, k)' <=> (v # w /\ Runs(v, k))  BY <1>4 DEF Runs
<1>7. \A k \in SimpleKinds : Simple(k) \in bucket' <=> Simple(k) \in bucket
  BY <1>3, KnownByKind
<1>8. PacketsFit'
  <2>1. \A q \in Present' : q \in Present \/ q \in bucket' \ bucket  BY <1>4 DEF Present
  <2>2. \A q \in Present' : q.kind \notin WeakKinds
    BY <1>1, <1>3, <2>1 DEF PacketsFit, SimpleKinds
  <2>3. \A k \in SimpleKinds : Once(k)' /\ (Around(k)' => Around(k))
    BY <1>6, <1>7 DEF PacketsFit, Once, Around
  <2> QED BY <1>1, <2>2, <2>3 DEF PacketsFit, SimpleKinds, WeakKinds
<1>9. VecsFit' /\ HandsFit' /\ pinnedRoots' \subseteq InUse
  BY DEF VecsFit, HandsFit, HeapFits, InUse
<1>10. ClosureFits'
  BY <1>1, <1>6 DEF ClosureFits, Runs
<1>11. \A x \in Addr : InHand(x) => InHand(x)'
  <2> SUFFICES ASSUME NEW x \in Addr, InHand(x) PROVE InHand(x)'
    OBVIOUS
  <2>1. \A q : WillReport(q)' = WillReport(q)
    BY DEF WillReport, Reported, Kids, AddrsOf, IsReachable
  <2>2. CASE \E v \in Worker : Untouched(v) /\ x \in WillReport(running[v])
    <3>1. PICK v \in Worker : Untouched(v) /\ x \in WillReport(running[v])  BY <2>2
    <3>2. v # w /\ running'[v] = running[v]  BY <1>1, <1>4, <3>1 DEF WillReport
    <3>3. Untouched(v)'  BY <3>1, <3>2 DEF Untouched
    <3>4. x \in WillReport(running[v])'
      BY <3>1, <3>2 DEF WillReport, Reported, Kids, AddrsOf, IsReachable
    <3> QED BY <3>3, <3>4 DEF InHand
  <2> QED BY <2>1, <2>2 DEF InHand, InBuffer
<1>12. RootsInHand'
  BY <1>1, <1>11 DEF RootsInHand, AddrsOf, VMRootsToCome
<1>13. UnprotectedInHand'
  <2> SUFFICES ASSUME nursery, NEW a \in registry \cap old, NEW x \in Kids(a) PROVE InHand(x)'
    BY DEF UnprotectedInHand, Kids, AddrsOf
  <2>1. a \in Addr /\ x \in Addr  BY DEF Kids, AddrsOf, RootScanningTyped
  <2>2. CASE InHand(x)  BY <1>11, <2>1, <2>2
  <2>3. CASE InVecs(a)
    <3>1. PICK v \in IntoVecs : a \in v  BY <1>2, <2>1, <2>3
    <3>2. ScanWbUnprotectedRoots(v) \in bucket'  BY <3>1
    <3>3. a \in reached  BY <1>1 DEF HeapFits
    <3>4. x \in WillReport(ScanWbUnprotectedRoots(v))'
      BY <3>1, <3>3 DEF WillReport, Reported, ScanWbUnprotectedRoots, ScanKinds, IsReachable, Kids, AddrsOf
    <3> QED BY <3>2, <3>4 DEF InHand
  <2> QED BY <1>1, <2>2, <2>3 DEF UnprotectedInHand, VMRootsToCome
<1> QED BY <1>1, <1>5, <1>8, <1>9, <1>10, <1>12, <1>13, PrepareStep

LEMMA CollectScanInv ==
  ASSUME ScanInv, NEW w \in Worker, CollectObjectRootsIn(w)
  PROVE  ScanInv'
<1> USE DEF ScanInv, CollectObjectRootsIn, heapVars, programVars, traceVars, tableVars, schedVars,
            vecVars
<1>1. /\ stage = "Prepare" /\ running[w] \in PacketSet /\ running[w] # NoPacket
      /\ running[w].kind \in ScanKinds
  BY InPrepare DEF ScanKinds
<1>2. Reported(running[w]) \subseteq InUse /\ InUse \subseteq Addr  BY <1>1, ReportsInUse DEF InUse
<1>3. /\ \A v \in Worker : closure'[v] = IF v = w THEN "collect" ELSE closure[v]
      /\ \A v \in Worker : todo'[v] = IF v = w THEN Reported(running[w]) ELSE todo[v]
  BY DEF RootScanningTyped
<1>4. RootScanningTyped'
  <2>1. todo' \in [Worker -> SUBSET Addr]
        /\ closure' \in [Worker -> {Unregistered, "collect", "forward"}]
    BY <1>2 DEF RootScanningTyped
  <2> QED BY <2>1 DEF RootScanningTyped
<1>5. PacketsFit' /\ VecsFit' /\ pinnedRoots' \subseteq InUse
  BY DEF PacketsFit, Once, Around, Present, Runs, VecsFit, HeapFits, InUse
<1>6. HandsFit'
  BY <1>2, <1>3 DEF HandsFit, InUse
<1>7. ClosureFits'
  BY <1>3 DEF ClosureFits, Runs
<1>8. \A x \in Addr : InHand(x) => InHand(x)'
  <2> SUFFICES ASSUME NEW x \in Addr, InHand(x) PROVE InHand(x)'
    OBVIOUS
  <2>1. \A q : WillReport(q)' = WillReport(q)
    BY DEF WillReport, Reported, Kids, AddrsOf, IsReachable
  <2>2. CASE \E v \in Worker : Untouched(v) /\ x \in WillReport(running[v])
    <3>1. PICK v \in Worker : Untouched(v) /\ x \in WillReport(running[v])  BY <2>2
    <3>2. CASE v = w  BY <1>3, <3>1, <3>2 DEF InHand, WillReport
    <3>3. CASE v # w
      <4>1. Untouched(v)'  BY <1>3, <3>1, <3>3 DEF Untouched
      <4>2. x \in WillReport(running[v])'
        BY <3>1 DEF WillReport, Reported, Kids, AddrsOf, IsReachable
      <4> QED BY <4>1, <4>2 DEF InHand
    <3> QED BY <3>2, <3>3
  <2>3. CASE \E v \in Worker : x \in todo[v]
    <3>1. PICK v \in Worker : x \in todo[v]  BY <2>3
    <3>2. v # w  BY <3>1 DEF ClosureFits, Unregistered
    <3> QED BY <1>3, <3>1, <3>2 DEF InHand
  <2> QED BY <2>1, <2>2, <2>3 DEF InHand, InBuffer
<1>9. RootsInHand' /\ UnprotectedInHand'
  BY <1>8, HandsKept DEF VMRootsToCome, Around, Runs, InVecs
<1> QED BY <1>1, <1>4, <1>5, <1>6, <1>7, <1>9, PrepareStep

LEMMA VisitRootScanInv ==
  ASSUME ScanInv, NEW w \in Worker, NEW a \in todo[w], VisitRoot(w, a)
  PROVE  ScanInv'
<1> USE DEF ScanInv, VisitRoot, programVars, tableVars, schedVars, vecVars
<1> DEFINE b == Append(buffer[w], a)
<1>1. stage = "Prepare"  BY InPrepare DEF ClosureFits, ScanKinds
<1>2. /\ buffer[w] \in Seq(Addr) /\ b \in Seq(Addr) /\ a \in InUse /\ a \in Addr
      /\ DOMAIN buffer[w] \subseteq DOMAIN b /\ \A i \in DOMAIN buffer[w] : b[i] = buffer[w][i]
      /\ \E i \in DOMAIN b : b[i] = a
      /\ \A i \in DOMAIN b : b[i] \in InUse /\ b[i] \in Range(b)
      /\ Range(b) \subseteq InUse
  <2>1. buffer[w] \in Seq(Addr) /\ a \in Addr /\ a \in InUse
    BY DEF RootScanningTyped, HandsFit
  <2>2. /\ b \in Seq(Addr) /\ Len(b) = Len(buffer[w]) + 1 /\ b[Len(b)] = a
        /\ DOMAIN b = 1..Len(b) /\ DOMAIN buffer[w] = 1..Len(buffer[w])
        /\ \A i \in 1..Len(buffer[w]) : b[i] = buffer[w][i]
    BY <2>1
  <2>3. Len(buffer[w]) \in Nat  BY <2>1
  <2> HIDE DEF b
  <2>4. \A i \in DOMAIN b : i = Len(b) \/ i \in DOMAIN buffer[w]  BY <2>2, <2>3
  <2>5. \A i \in DOMAIN b : b[i] \in InUse  BY <2>1, <2>2, <2>4 DEF HandsFit
  <2>6. \E i \in DOMAIN b : b[i] = a  BY <2>2, <2>3
  <2>7. DOMAIN buffer[w] \subseteq DOMAIN b  BY <2>2, <2>3
  <2> QED BY <2>1, <2>2, <2>5, <2>6, <2>7 DEF Range
<1>3. \/ pinnedRoots' = pinnedRoots \cup Range(b) /\ buffer' = [buffer EXCEPT ![w] = <<>>]
      \/ pinnedRoots' = pinnedRoots /\ buffer' = [buffer EXCEPT ![w] = b]
  <2>1. CASE Len(b) >= BufferSize  BY <2>1 DEF HandedOver, BufferAfter
  <2>2. CASE ~(Len(b) >= BufferSize)
    <3>1. pinnedRoots \cup {} = pinnedRoots  OBVIOUS
    <3> QED BY <2>2, <3>1 DEF HandedOver, BufferAfter
  <2> QED BY <2>1, <2>2
<1> HIDE DEF b
<1>4. \A v \in Worker : todo'[v] = IF v = w THEN todo[w] \ {a} ELSE todo[v]
  BY DEF RootScanningTyped
<1>5. buffer' \in [Worker -> Seq(Addr)] /\ pinnedRoots' \subseteq InUse
      /\ pinnedRoots \subseteq pinnedRoots'
      /\ \A v \in Worker : v # w => buffer'[v] = buffer[v]
  <2>1. buffer \in [Worker -> Seq(Addr)] /\ pinnedRoots \subseteq InUse /\ <<>> \in Seq(Addr)
    BY DEF RootScanningTyped, HeapFits
  <2>2. CASE pinnedRoots' = pinnedRoots \cup Range(b) /\ buffer' = [buffer EXCEPT ![w] = <<>>]
    BY <1>2, <2>1, <2>2
  <2>3. CASE pinnedRoots' = pinnedRoots /\ buffer' = [buffer EXCEPT ![w] = b]
    BY <1>2, <2>1, <2>3
  <2> QED BY <1>3, <2>2, <2>3
<1>6. \/ buffer'[w] = b /\ pinnedRoots' = pinnedRoots
      \/ buffer'[w] = <<>> /\ pinnedRoots' = pinnedRoots \cup Range(b)
  BY <1>3 DEF RootScanningTyped
<1>7. RootScanningTyped'
  <2>1. todo' \in [Worker -> SUBSET Addr]  BY DEF RootScanningTyped
  <2>2. pinnedRoots' \subseteq Addr  BY <1>5 DEF InUse
  <2> QED BY <1>5, <2>1, <2>2 DEF RootScanningTyped
<1>8. PacketsFit' /\ VecsFit'
  BY DEF PacketsFit, Once, Around, Present, Runs, VecsFit
<1>9. HandsFit'
  <2>1. \A v \in Worker : todo'[v] \subseteq InUse  BY <1>4 DEF HandsFit
  <2>2. ASSUME NEW v \in Worker, NEW i \in DOMAIN buffer'[v] PROVE buffer'[v][i] \in InUse
    BY <1>2, <1>5, <1>6, <2>2 DEF HandsFit
  <2> QED BY <2>1, <2>2 DEF HandsFit, InUse
<1>10. ClosureFits'
  BY <1>4, <1>5 DEF ClosureFits, Runs
<1>11. \A x \in Addr : InHand(x) => InHand(x)'
  <2> SUFFICES ASSUME NEW x \in Addr, InHand(x) PROVE InHand(x)'
    OBVIOUS
  <2>1. ASSUME \E i \in DOMAIN b : b[i] = x PROVE InHand(x)'
    BY <1>2, <1>6, <2>1 DEF InHand, InBuffer
  <2>2. \A q : WillReport(q)' = WillReport(q)
    BY DEF WillReport, Reported, Kids, AddrsOf, IsReachable
  <2>3. CASE x \in pinnedRoots  BY <1>5, <2>3 DEF InHand
  <2>4. CASE \E q \in bucket : x \in WillReport(q)  BY <2>2, <2>4 DEF InHand
  <2>5. CASE \E v \in Worker : Untouched(v) /\ x \in WillReport(running[v])
    <3>1. PICK v \in Worker : Untouched(v) /\ x \in WillReport(running[v])  BY <2>5
    <3>2. x \in WillReport(running[v])'
      BY <3>1 DEF WillReport, Reported, Kids, AddrsOf, IsReachable
    <3> QED BY <3>1, <3>2 DEF InHand, Untouched
  <2>6. CASE \E v \in Worker : x \in todo[v]
    <3>1. x = a => InHand(x)'  BY <1>2, <2>1
    <3> QED BY <1>4, <2>6, <3>1 DEF InHand
  <2>7. CASE \E v \in Worker : InBuffer(v, x)
    <3>1. PICK v \in Worker : InBuffer(v, x)  BY <2>7
    <3>2. CASE v = w  BY <1>2, <2>1, <3>1, <3>2 DEF InBuffer
    <3>3. CASE v # w  BY <1>5, <3>1, <3>3 DEF InBuffer, InHand
    <3> QED BY <3>2, <3>3
  <2> QED BY <2>3, <2>4, <2>5, <2>6, <2>7 DEF InHand
<1>12. RootsInHand' /\ UnprotectedInHand'
  BY <1>11, HandsKept DEF VMRootsToCome, Around, Runs, InVecs
<1> QED BY <1>1, <1>5, <1>7, <1>8, <1>9, <1>10, <1>12, PrepareStep

LEMMA EndCollectScanInv ==
  ASSUME ScanInv, NEW w \in Worker, EndCollect(w)
  PROVE  ScanInv'
<1> USE DEF ScanInv, EndCollect, Finish, ClosureAfter, programVars, tableVars, vecVars
<1>1. /\ stage = "Prepare" /\ running[w] # NoPacket /\ running[w].kind \in ScanKinds
      /\ running[w].kind \notin SimpleKinds
  BY InPrepare DEF ClosureFits, ScanKinds, SimpleKinds, WeakKinds
<1>2. \A v \in Worker : /\ running'[v] = IF v = w THEN NoPacket ELSE running[v]
                        /\ closure'[v] = IF v = w THEN Unregistered ELSE closure[v]
                        /\ buffer'[v] = IF v = w THEN <<>> ELSE buffer[v]
  BY DEF RootScanningTyped
<1>3. /\ buffer[w] \in Seq(Addr) /\ Range(buffer[w]) \subseteq InUse /\ InUse \subseteq Addr
      /\ \A x : InBuffer(w, x) => x \in Range(buffer[w])
  BY DEF RootScanningTyped, HandsFit, InUse, InBuffer, Range
<1>4. RootScanningTyped'
  <2>1. /\ running' \in [Worker -> PacketSet \cup {NoPacket}]
        /\ closure' \in [Worker -> {Unregistered, "collect", "forward"}]
    BY DEF RootScanningTyped
  <2>2. buffer' \in [Worker -> Seq(Addr)] /\ pinnedRoots' \subseteq Addr
    BY <1>3 DEF RootScanningTyped
  <2> QED BY <2>1, <2>2 DEF RootScanningTyped
<1>5. \A k : \A v \in Worker : Runs(v, k)' <=> (v # w /\ Runs(v, k))  BY <1>2 DEF Runs
<1>6. \A k \in SimpleKinds : Around(k)' <=> Around(k)
  BY <1>1, <1>5 DEF Around, Runs
<1>7. PacketsFit'
  <2>1. Present' \subseteq Present  BY <1>2 DEF Present
  <2>2. \A k \in SimpleKinds : Once(k)'  BY <1>5 DEF PacketsFit, Once
  <2> QED BY <1>1, <1>6, <2>1, <2>2 DEF PacketsFit, SimpleKinds, WeakKinds
<1>8. VecsFit'
  BY <1>1, <1>5 DEF VecsFit, Runs, SimpleKinds
<1>9. ClosureFits'
  BY <1>2, <1>5 DEF ClosureFits, Unregistered
<1>10. HandsFit' /\ pinnedRoots' \subseteq InUse
  <2>1. \A v \in Worker : \A i \in DOMAIN buffer'[v] : buffer'[v][i] \in InUse
    BY <1>2 DEF HandsFit
  <2> QED BY <1>3, <2>1 DEF HandsFit, HeapFits, InUse
<1>11. \A x \in Addr : InHand(x) => InHand(x)'
  <2> SUFFICES ASSUME NEW x \in Addr, InHand(x) PROVE InHand(x)'
    OBVIOUS
  <2>1. \A q : WillReport(q)' = WillReport(q)
    BY DEF WillReport, Reported, Kids, AddrsOf, IsReachable
  <2>2. CASE x \in pinnedRoots \/ \E q \in bucket : x \in WillReport(q)
    BY <2>1, <2>2 DEF InHand
  <2>3. CASE \E v \in Worker : Untouched(v) /\ x \in WillReport(running[v])
    <3>1. PICK v \in Worker : Untouched(v) /\ x \in WillReport(running[v])  BY <2>3
    <3>2. v # w  BY <3>1 DEF Untouched, Unregistered
    <3>3. Untouched(v)' /\ running'[v] = running[v]  BY <1>2, <3>1, <3>2 DEF Untouched
    <3>4. x \in WillReport(running[v])'
      BY <3>1, <3>3 DEF WillReport, Reported, Kids, AddrsOf, IsReachable
    <3> QED BY <3>3, <3>4 DEF InHand
  <2>4. CASE \E v \in Worker : x \in todo[v]  BY <2>4 DEF InHand
  <2>5. CASE \E v \in Worker : InBuffer(v, x)
    BY <1>2, <1>3, <2>5 DEF InHand, InBuffer
  <2> QED BY <2>2, <2>3, <2>4, <2>5 DEF InHand
<1>12. VMRootsToCome' <=> VMRootsToCome
  BY <1>6 DEF VMRootsToCome, SimpleKinds
<1>13. RootsInHand' /\ UnprotectedInHand'
  BY <1>11, <1>12, HandsKept DEF InVecs
<1> QED BY <1>1, <1>4, <1>7, <1>8, <1>9, <1>10, <1>13, PrepareStep

-----------------------------------------------------------------------------
(* Tracing.                                                                *)

(* When the last packet has ended nothing is in anybody's hand any more.   *)
LEMMA Drained ==
  ASSUME ScanInv, BucketDrained
  PROVE  /\ \A k : ~Around(k) /\ \A w \in Worker : ~Runs(w, k)
         /\ ~collecting /\ \A a : ~InVecs(a)
         /\ \A w \in Worker : closure[w] = Unregistered /\ todo[w] = {} /\ buffer[w] = <<>>
         /\ \A x : InHand(x) => x \in pinnedRoots
<1> USE DEF ScanInv
<1>1. \A k : ~Around(k) /\ \A w \in Worker : ~Runs(w, k)
  BY DEF BucketDrained, Around, Runs
<1>2. ~collecting /\ uncollected = {} /\ currentVec = <<>> /\ vecs = {}
  BY <1>1 DEF VecsFit
<1>3. \A a : ~InVecs(a)
  <2>1. DOMAIN currentVec = {}  BY <1>2
  <2> QED BY <1>2, <2>1 DEF InVecs
<1>4. \A w \in Worker : closure[w] = Unregistered /\ todo[w] = {} /\ buffer[w] = <<>>
  BY <1>1 DEF ClosureFits, RootScanningTyped
<1>5. \A w \in Worker, x \in Addr : ~InBuffer(w, x)
  BY <1>4 DEF InBuffer
<1>6. ASSUME NEW x, InHand(x) PROVE x \in pinnedRoots
  <2>1. \A w \in Worker : ~InBuffer(w, x)
    <3>1. \A w \in Worker : DOMAIN buffer[w] = {}  BY <1>4
    <3> QED BY <3>1 DEF InBuffer
  <2>2. bucket = {} /\ \A w \in Worker : ~Untouched(w)  BY DEF BucketDrained, Untouched
  <2> QED BY <1>4, <1>6, <2>1, <2>2 DEF InHand
<1> QED BY <1>1, <1>2, <1>3, <1>4, <1>6

(* So the seeds of the tracing suffice: what it reaches, together with     *)
(* what was marked before, has the roots and is closed under references.   *)
LEMMA TracingReaches ==
  ASSUME ScanInv, BucketDrained, stage = "Prepare"
  PROVE  /\ AddrsOf(AllRoots) \subseteq pinnedRoots
         /\ pinnedRoots \subseteq reached \cup Traced
         /\ reached \cup Traced \subseteq InUse
         /\ \A a \in reached \cup Traced : Kids(a) \subseteq reached \cup Traced
<1> USE DEF ScanInv
<1>1. AddrsOf(AllRoots) \subseteq pinnedRoots
  <2> SUFFICES ASSUME NEW x \in Addr, NEW s \in Scanner, heap[x] \in roots[s]
               PROVE  x \in pinnedRoots
    BY DEF AddrsOf, AllRoots
  <2> QED BY Drained DEF RootsInHand, VMRootsToCome, AddrsOf
<1>2. nursery => \A a \in old : heap[a] \in unprotected => Kids(a) \subseteq pinnedRoots
  <2> SUFFICES ASSUME nursery, NEW a \in old, heap[a] \in unprotected
               PROVE  Kids(a) \subseteq pinnedRoots
    OBVIOUS
  <2>1. a \in registry
    BY DEF TablesFit, Updated, Before, HeapFits, AddrsOf, RootScanningTyped
  <2> QED BY <2>1, Drained DEF UnprotectedInHand, VMRootsToCome
<1>3. /\ \A a : Kids(a) \subseteq Addr /\ Kids(a) \subseteq InUse
      /\ Seeds \subseteq Addr /\ Seeds \subseteq InUse /\ pinnedRoots \subseteq Seeds
      /\ nursery => \A a \in remembered : Kids(a) \subseteq Seeds
  <2>1. \A S \in SUBSET Obj : AddrsOf(S) \subseteq InUse /\ AddrsOf(S) \subseteq Addr
    BY HeapAssumption DEF AddrsOf, InUse
  <2>2. \A a : Kids(a) \subseteq InUse /\ Kids(a) \subseteq Addr
    BY <2>1 DEF Kids, RootScanningTyped
  <2> QED BY <2>2 DEF Seeds, HeapFits, InUse
<1>4. Seeds \subseteq reached \cup Traced
  BY <1>3 DEF Traced
<1>5. \A a \in Traced : Kids(a) \subseteq reached \cup Traced
  BY <1>3 DEF Traced
<1>6. Traced \subseteq InUse
  <2>1. Seeds \ reached \subseteq InUse /\ \A b \in InUse : Kids(b) \ reached \subseteq InUse
    BY <1>3
  <2>2. InUse \in SUBSET Addr  BY DEF InUse
  <2> QED BY <2>1, <2>2 DEF Traced
<1>7. \A a \in reached : Kids(a) \subseteq reached \cup Traced
  BY <1>2, <1>3, <1>4 DEF HeapFits, GenerationsFit
<1> QED BY <1>1, <1>3, <1>4, <1>5, <1>6, <1>7 DEF HeapFits

(* Copies are made to free memory, and only of what is not a root.         *)
LEMMA Copied ==
  ASSUME ScanInv, BucketDrained, NEW copies \in Copies, TraceClosure(copies)
  PROVE  \E S \in SUBSET (Traced \ pinnedRoots) :
           /\ \A a \in S : fwd'[a] \in Addr /\ heap[fwd'[a]] = Free /\ heap'[fwd'[a]] = heap[a]
           /\ \A a \in Addr \ S : fwd'[a] = a
           /\ \A a \in InUse : heap'[a] = heap[a]
           /\ \A b \in Addr \ InUse : heap'[b] = Free \/ \E a \in S : fwd'[a] = b
           /\ \A a, b \in S : fwd'[a] = fwd'[b] => a = b
<1> USE DEF ScanInv, TraceClosure
<1>1. PICK S \in SUBSET (Traced \ pinnedRoots) : copies \in Injection(S, {b \in Addr : heap[b] = Free})
  BY DEF Copies
<1>2. /\ DOMAIN copies = S /\ S \subseteq Addr /\ S \subseteq InUse
      /\ \A a \in S : copies[a] \in Addr /\ heap[copies[a]] = Free
      /\ \A a, b \in S : copies[a] = copies[b] => a = b
  BY <1>1, TracingReaches DEF Injection, IsInjective, Traced
<1>3. \A a \in Addr : fwd'[a] = IF a \in S THEN copies[a] ELSE a
  BY <1>2
<1>4. ASSUME NEW a \in S PROVE heap'[copies[a]] = heap[a]
  <2>1. copies[a] \in Addr /\ \E c \in DOMAIN copies : copies[c] = copies[a]  BY <1>2, <1>4
  <2>2. (CHOOSE c \in DOMAIN copies : copies[c] = copies[a]) = a  BY <1>2
  <2> QED BY <2>1, <2>2
<1>5. ASSUME NEW b \in Addr, \A a \in S : copies[a] # b PROVE heap'[b] = heap[b]
  BY <1>2, <1>5
<1>6. \A a \in InUse : heap'[a] = heap[a]
  BY <1>2, <1>5 DEF InUse
<1>7. \A b \in Addr \ InUse : heap'[b] = Free \/ \E a \in S : fwd'[a] = b
  BY <1>2, <1>3, <1>5 DEF InUse
<1>8. /\ \A a \in S : fwd'[a] \in Addr /\ heap[fwd'[a]] = Free /\ heap'[fwd'[a]] = heap[a]
      /\ \A a \in Addr \ S : fwd'[a] = a
      /\ \A a, b \in S : fwd'[a] = fwd'[b] => a = b
  BY <1>2, <1>3, <1>4
<1> QED BY <1>6, <1>7, <1>8

LEMMA EndPrepareScanInv ==
  ASSUME ScanInv, NEW copies \in Copies, EndPrepare(copies)
  PROVE  ScanInv'
<1> USE DEF ScanInv
<1>0. /\ BucketDrained /\ TraceClosure(copies) /\ bucket' = {Simple("ProcessWeakRefs")}
      /\ stage = "Prepare" /\ stage' = "VMRefClosure" /\ reached' = reached \cup Traced
      /\ UNCHANGED <<nursery, edges, roots, unprotected, old, remembered, pinnedRoots, registry,
                     ciTable, interned, running, closure, todo, buffer, collecting, uncollected,
                     currentVec, vecs>>
  BY DEF EndPrepare, TraceClosure, programVars, tableVars, scanVars, vecVars
<1> DEFINE p == Simple("ProcessWeakRefs")
<1>1. PICK S \in SUBSET (Traced \ pinnedRoots) :
        /\ \A a \in S : fwd'[a] \in Addr /\ heap[fwd'[a]] = Free /\ heap'[fwd'[a]] = heap[a]
        /\ \A a \in Addr \ S : fwd'[a] = a
        /\ \A a \in InUse : heap'[a] = heap[a]
        /\ \A b \in Addr \ InUse : heap'[b] = Free \/ \E a \in S : fwd'[a] = b
        /\ \A a, b \in S : fwd'[a] = fwd'[b] => a = b
  BY <1>0, Copied
<1>2. /\ AddrsOf(AllRoots) \subseteq pinnedRoots
      /\ pinnedRoots \subseteq reached' /\ reached' \subseteq InUse /\ S \subseteq reached'
      /\ \A a \in reached' : Kids(a) \subseteq reached'
      /\ S \cap pinnedRoots = {} /\ S \subseteq InUse /\ InUse \subseteq Addr
  BY <1>0, TracingReaches DEF InUse
<1>3. \A a, b \in Addr : heap[a] = heap[b] /\ heap[a] # Free => a = b
  BY <1>0 DEF HeapFits
<1>4. /\ InUse \subseteq InUse' /\ \A a \in InUse : heap[a] # Free
      /\ \A a \in S : fwd'[a] \notin InUse
      /\ \A b \in InUse' : b \in InUse \/ \E a \in S : fwd'[a] = b /\ heap'[b] = heap[a]
  BY <1>1, <1>2 DEF InUse
<1>5. RootScanningTyped'
  <2>1. fwd' \in [Addr -> Addr]
    <3>1. \A a \in Addr : fwd'[a] \in Addr  BY <1>1
    <3>2. fwd' = [a \in Addr |-> fwd'[a]]  BY <1>0 DEF TraceClosure
    <3> QED BY <3>1, <3>2
  <2>3. heap' \in [Addr -> Obj \cup {Free}]
    <3>1. \A a \in Addr : heap[a] \in Obj \cup {Free}  BY DEF RootScanningTyped
    <3>2. ASSUME NEW b \in Addr PROVE heap'[b] \in Obj \cup {Free}
      <4>1. CASE b \in InUse  BY <1>1, <3>1, <4>1
      <4>2. CASE b \notin InUse
        <5>1. CASE \E a \in S : fwd'[a] = b
          <6>1. PICK a \in S : fwd'[a] = b  BY <5>1
          <6>2. heap'[b] = heap[a] /\ a \in Addr  BY <1>1, <1>2, <6>1
          <6> QED BY <3>1, <6>2
        <5> QED BY <1>1, <4>2, <5>1
      <4> QED BY <4>1, <4>2
    <3>3. heap' = [a \in Addr |-> heap'[a]]  BY <1>0 DEF TraceClosure
    <3> QED BY <3>2, <3>3
  <2>4. bucket' \subseteq PacketSet  BY <1>0, KnownByKind DEF SimpleKinds, WeakKinds
  <2>5. reached' \subseteq Addr  BY <1>2
  <2> QED BY <1>0, <2>1, <2>3, <2>4, <2>5 DEF RootScanningTyped
<1>6. OnHeap' = OnHeap
  <2>1. ASSUME NEW o, o \in OnHeap' PROVE o \in OnHeap
    <3>1. PICK b \in Addr : heap'[b] = o /\ o # Free  BY <2>1 DEF OnHeap
    <3>2. \E a \in Addr : heap[a] = o  BY <1>1, <1>2, <1>4, <3>1 DEF InUse
    <3> QED BY <3>1, <3>2 DEF OnHeap
  <2>2. ASSUME NEW o, o \in OnHeap PROVE o \in OnHeap'
    <3>1. PICK a \in InUse : heap[a] = o /\ o # Free  BY <2>2 DEF OnHeap, InUse
    <3> QED BY <1>1, <1>2, <3>1 DEF OnHeap
  <2> QED BY <2>1, <2>2
<1>7. HeapFits'
  <2>1. (reached \cup pinnedRoots)' \subseteq InUse'  BY <1>0, <1>2, <1>4
  <2>2. ASSUME NEW a \in Addr, fwd'[a] # a
        PROVE  /\ a \in reached' /\ heap'[fwd'[a]] = heap'[a] /\ fwd'[a] \notin reached'
               /\ fwd'[fwd'[a]] = fwd'[a]
    <3>1. a \in S  BY <1>1, <2>2
    <3>2. fwd'[a] \notin InUse /\ fwd'[a] \in Addr  BY <1>1, <1>4, <3>1
    <3>3. fwd'[a] \notin S /\ fwd'[a] \notin reached'  BY <1>2, <3>2
    <3> QED BY <1>1, <1>2, <3>1, <3>2, <3>3
  <2>3. ASSUME NEW a \in InUse', NEW b \in InUse', heap'[a] = heap'[b]
        PROVE  a = b \/ fwd'[a] = b \/ fwd'[b] = a
    <3>1. CASE a \in InUse /\ b \in InUse
      BY <1>1, <1>2, <1>3, <1>4, <2>3, <3>1
    <3>2. CASE a \in InUse /\ b \notin InUse
      <4>1. PICK c \in S : fwd'[c] = b /\ heap'[b] = heap[c]  BY <1>4, <3>2
      <4>2. heap[a] = heap[c] /\ heap[a] # Free  BY <1>1, <1>4, <2>3, <3>2, <4>1
      <4>3. a = c  BY <1>2, <1>3, <3>2, <4>2
      <4> QED BY <4>1, <4>3
    <3>3. CASE a \notin InUse /\ b \in InUse
      <4>1. PICK c \in S : fwd'[c] = a /\ heap'[a] = heap[c]  BY <1>4, <3>3
      <4>2. heap[b] = heap[c] /\ heap[b] # Free  BY <1>1, <1>4, <2>3, <3>3, <4>1
      <4>3. b = c  BY <1>2, <1>3, <3>3, <4>2
      <4> QED BY <4>1, <4>3
    <3>4. CASE a \notin InUse /\ b \notin InUse
      <4>1. PICK c \in S : fwd'[c] = a /\ heap'[a] = heap[c]  BY <1>4, <3>4
      <4>2. PICK d \in S : fwd'[d] = b /\ heap'[b] = heap[d]  BY <1>4, <3>4
      <4>3. heap[c] = heap[d] /\ heap[c] # Free /\ c \in Addr /\ d \in Addr
        BY <1>2, <1>4, <2>3, <4>1, <4>2
      <4>4. c = d  BY <1>3, <4>3
      <4> QED BY <4>1, <4>2, <4>4
    <3> QED BY <3>1, <3>2, <3>3, <3>4
  <2> QED BY <1>0, <2>1, <2>2, <2>3 DEF HeapFits, InUse
<1>8. ReferencesFit' /\ GenerationsFit'
  BY <1>0, <1>6 DEF ReferencesFit, AllRoots, GenerationsFit
<1>9. TracedFits'
  <2>1. AddrsOf(AllRoots)' \subseteq pinnedRoots
    <3> SUFFICES ASSUME NEW x \in Addr, heap'[x] \in AllRoots PROVE x \in pinnedRoots
      BY <1>0 DEF AddrsOf, AllRoots
    <3>1. heap'[x] # Free  BY DEF ReferencesFit, OnHeap
    <3>2. CASE x \in InUse  BY <1>1, <1>2, <3>2 DEF AddrsOf
    <3>3. CASE x \notin InUse
      <4>1. PICK c \in S : heap'[x] = heap[c]  BY <1>4, <3>1, <3>3 DEF InUse
      <4>2. c \in pinnedRoots  BY <1>2, <4>1 DEF AddrsOf
      <4> QED BY <1>2, <4>2
    <3> QED BY <3>2, <3>3
  <2>2. \A a \in pinnedRoots : fwd'[a] = a  BY <1>1, <1>2
  <2>3. ASSUME NEW a \in reached', NEW o \in edges[heap'[a]] PROVE \E b \in reached' : heap'[b] = o
    <3>1. a \in InUse /\ heap'[a] = heap[a] /\ heap[a] \in Obj
      BY <1>1, <1>2 DEF InUse, RootScanningTyped
    <3>2. o \in OnHeap  BY <2>3, <3>1 DEF ReferencesFit
    <3>3. PICK k \in Addr : heap[k] = o  BY <3>2 DEF OnHeap
    <3>4. k \in Kids(a)  BY <2>3, <3>1, <3>3 DEF Kids, AddrsOf
    <3>5. k \in reached' /\ heap'[k] = o  BY <1>1, <1>2, <3>3, <3>4
    <3> QED BY <3>5
  <2>4. \A a \in reached' : edges[heap'[a]] \subseteq {heap'[b] : b \in reached'}
    BY <2>3
  <2> QED BY <1>0, <1>2, <2>1, <2>2, <2>4 DEF TracedFits
<1>10. /\ Present' = {p} /\ p.kind = "ProcessWeakRefs"
       /\ \A k : \A w \in Worker : ~Runs(w, k)'
       /\ \A k \in SimpleKinds : Around(k)' <=> k = "ProcessWeakRefs"
  <2>1. running' = running /\ \A w \in Worker : running[w] = NoPacket  BY <1>0 DEF BucketDrained
  <2>2. Present' = {p} /\ \A k : \A w \in Worker : ~Runs(w, k)'  BY <1>0, <2>1 DEF Present, Runs
  <2>3. p.kind = "ProcessWeakRefs"  BY DEF Simple
  <2>4. \A k \in SimpleKinds : Simple(k) = p <=> k = "ProcessWeakRefs"  BY DEF Simple
  <2>5. \A k \in SimpleKinds : Around(k)' <=> k = "ProcessWeakRefs"
    BY <1>0, <2>2, <2>4 DEF Around
  <2> QED BY <2>2, <2>3, <2>5
<1>11. PacketsFit'
  BY <1>0, <1>10 DEF PacketsFit, Once, WeakKinds, SimpleKinds
<1>12. VecsFit' /\ ClosureFits' /\ HandsFit'
  <2>1. \A w \in Worker : DOMAIN buffer[w] = {}  BY <1>0, Drained
  <2> QED BY <1>0, <1>10, <2>1, Drained DEF VecsFit, ClosureFits, HandsFit, Unregistered
<1>13. \A k : ~Updated(k)'  BY <1>0, <1>10 DEF Updated, SimpleKinds, WeakKinds
<1>14. ASSUME NEW T \in SUBSET OnHeap
       PROVE  {a \in Addr : heap'[a] \in T /\ \A b \in Addr : fwd'[b] = a => b = a} = AddrsOf(T)
  <2>1. Free \notin T  BY DEF OnHeap
  <2>2. ASSUME NEW a \in Addr
        PROVE  (heap'[a] \in T /\ \A b \in Addr : fwd'[b] = a => b = a) <=> heap[a] \in T
    <3>1. CASE a \in InUse
      <4>1. \A b \in Addr : fwd'[b] = a => b = a  BY <1>1, <1>4, <3>1
      <4> QED BY <1>1, <3>1, <4>1
    <3>2. CASE a \notin InUse
      <4>1. heap[a] \notin T  BY <2>1, <3>2 DEF InUse
      <4>2. heap'[a] = Free \/ \E c \in S : fwd'[c] = a /\ c # a /\ c \in Addr
        BY <1>1, <1>2, <3>2
      <4> QED BY <2>1, <4>1, <4>2
    <3> QED BY <3>1, <3>2
  <2> QED BY <2>2 DEF AddrsOf
<1>15. TablesFit'
  <2>1. registry = Before(unprotected) /\ ciTable = Before(interned)
    BY <1>0 DEF TablesFit, Updated
  <2>2. /\ \A a \in Addr : fwd[a] = a
        /\ unprotected \in SUBSET OnHeap /\ interned \in SUBSET OnHeap
    BY <1>0 DEF HeapFits, ReferencesFit
  <2>3. registry = AddrsOf(unprotected) /\ ciTable = AddrsOf(interned)
    BY <2>1, <2>2 DEF Before, AddrsOf
  <2>4. Before(unprotected)' = AddrsOf(unprotected)
    BY <1>0, <1>14, <2>2 DEF Before, AddrsOf
  <2>5. Before(interned)' = AddrsOf(interned)
    BY <1>0, <1>14, <2>2 DEF Before, AddrsOf
  <2> QED BY <1>0, <1>13, <2>3, <2>4, <2>5 DEF TablesFit
<1>16. RootsInHand' /\ UnprotectedInHand'
  BY <1>0 DEF RootsInHand, UnprotectedInHand
<1> QED BY <1>5, <1>7, <1>8, <1>9, <1>11, <1>12, <1>15, <1>16

-----------------------------------------------------------------------------
(* VMRefClosure.                                                           *)

LEMMA InVMRefClosure ==
  ASSUME ScanInv, NEW w \in Worker, NEW k \in WeakKinds, Runs(w, k)
  PROVE  /\ stage = "VMRefClosure" /\ ~collecting
         /\ running[w] # NoPacket /\ running[w].kind = k
         /\ Around(k) /\ Simple(k) \notin bucket /\ \A v \in Worker : Runs(v, k) => v = w
<1> USE DEF ScanInv
<1>1. running[w] \in Present /\ running[w].kind = k /\ running[w] # NoPacket
  BY PacketsTyped DEF Runs
<1>2. stage = "VMRefClosure"  BY <1>1 DEF PacketsFit, RootScanningTyped
<1>3. ~collecting
  <2>1. \A v \in Worker : Runs(v, "ScanVMSpecificRoots") =>
          running[v] \in Present /\ running[v].kind \notin WeakKinds
    BY PacketsTyped DEF Runs, WeakKinds
  <2> QED BY <1>2, <2>1 DEF VecsFit, PacketsFit
<1>4. Once(k)  BY DEF PacketsFit, SimpleKinds
<1> QED BY <1>1, <1>2, <1>3, <1>4 DEF Once, Around

LEMMA VMRefStep ==
  ASSUME ScanInv, stage = "VMRefClosure", ~collecting,
         UNCHANGED <<heapVars, interned, todo, buffer, vecVars>>,
         RootScanningTyped', PacketsFit', ClosureFits', TablesFit'
  PROVE  ScanInv'
<1> USE DEF ScanInv, heapVars, programVars, traceVars, vecVars
<1>1. HeapFits' /\ OnHeap' = OnHeap  BY DEF HeapFits, InUse, OnHeap
<1>2. ReferencesFit' /\ GenerationsFit' /\ TracedFits'
  BY <1>1 DEF ReferencesFit, AllRoots, GenerationsFit, TracedFits, AddrsOf
<1>3. VecsFit' /\ HandsFit' /\ RootsInHand' /\ UnprotectedInHand'
  BY DEF VecsFit, HandsFit, InUse, RootsInHand, UnprotectedInHand
<1> QED BY <1>1, <1>2, <1>3

LEMMA ProcessWeakStuffScanInv ==
  ASSUME ScanInv, NEW w \in Worker, ProcessWeakStuff(w)
  PROVE  ScanInv'
<1> USE DEF ScanInv, ProcessWeakStuff, Finish, heapVars, programVars, traceVars, tableVars,
            scanVars, vecVars
<1>1. /\ stage = "VMRefClosure" /\ ~collecting
      /\ running[w] # NoPacket /\ running[w].kind = "ProcessWeakRefs"
      /\ Around("ProcessWeakRefs") /\ Simple("ProcessWeakRefs") \notin bucket
      /\ \A v \in Worker : Runs(v, "ProcessWeakRefs") => v = w
  BY InVMRefClosure DEF WeakKinds
<1>2. \A v \in Worker : running'[v] = IF v = w THEN NoPacket ELSE running[v]
  BY DEF RootScanningTyped
<1>3. \A k : \A v \in Worker : Runs(v, k)' <=> (v # w /\ Runs(v, k))  BY <1>2 DEF Runs
<1>4. \A q \in bucket' \ bucket : q \in PacketSet /\ q.kind \in WeakKinds \ {"ProcessWeakRefs"}
  BY KnownByKind DEF SimpleKinds, WeakKinds
<1>5. RootScanningTyped'
  <2>1. bucket' \subseteq PacketSet /\ running' \in [Worker -> PacketSet \cup {NoPacket}]
    BY <1>2, <1>4 DEF RootScanningTyped
  <2> QED BY <2>1 DEF RootScanningTyped
<1>6. ~Around("UpdateCiTable") /\ ~Around("UpdateWbUnprotectedObjectsList")
  BY <1>1 DEF PacketsFit
<1>7. ~Around("ProcessWeakRefs")'
  <2>1. Simple("ProcessWeakRefs").kind = "ProcessWeakRefs"  BY DEF Simple
  <2>2. Simple("ProcessWeakRefs") \notin bucket'  BY <1>1, <1>4, <2>1
  <2> QED BY <1>1, <1>3, <2>2 DEF Around
<1>8. \A k \in SimpleKinds : Simple(k) \in bucket' =>
        Simple(k) \in bucket \/ k \in {"UpdateCiTable", "UpdateWbUnprotectedObjectsList"}
  BY DEF Simple
<1>9. PacketsFit'
  <2>1. ASSUME NEW k \in SimpleKinds PROVE Once(k)'
    <3>1. Once(k)  BY DEF PacketsFit
    <3> QED BY <1>3, <1>6, <1>8, <3>1 DEF Once, Around
  <2>2. \A q \in Present' : q \in Present \/ q \in bucket' \ bucket  BY <1>2 DEF Present
  <2>3. \A q \in Present' : q.kind \in WeakKinds  BY <1>1, <1>4, <2>2 DEF PacketsFit
  <2> QED BY <1>1, <1>7, <2>1, <2>3 DEF PacketsFit
<1>10. ClosureFits'
  BY <1>1, <1>3 DEF ClosureFits, Runs
<1>11. TablesFit'
  <2>1. \A k \in {"UpdateCiTable", "UpdateWbUnprotectedObjectsList"} : ~Updated(k) /\ ~Updated(k)'
    BY <1>1 DEF Updated, Around
  <2> QED BY <2>1 DEF TablesFit, Before, AddrsOf
<1> QED BY <1>1, <1>5, <1>9, <1>10, <1>11, VMRefStep

(* Processing a weak table turns its contents before into those after.     *)
LEMMA TableProcessed ==
  ASSUME ScanInv, stage = "VMRefClosure", NEW T \in SUBSET Obj
  PROVE  {Forward(a) : a \in {b \in Before(T) : IsReachable(b)}} = After(T)
<1> USE DEF ScanInv, Forward, IsReachable, Before, After, AddrsOf, Survivor
<1>1. \A a \in Addr : fwd[a] \in Addr /\ heap[fwd[a]] = heap[a] /\ (fwd[a] # a => fwd[a] \notin reached)
  BY DEF HeapFits, RootScanningTyped
<1>2. ASSUME NEW a \in Before(T), a \in reached PROVE fwd[a] \in After(T)
  BY <1>1, <1>2
<1>3. ASSUME NEW x \in After(T) PROVE \E a \in Before(T) : a \in reached /\ fwd[a] = x
  <2>1. PICK a \in reached : fwd[a] = x  OBVIOUS
  <2>2. a \in Addr  BY DEF RootScanningTyped
  <2>3. heap[a] \in T  BY <1>1, <1>3, <2>1, <2>2
  <2>4. \A b \in Addr : fwd[b] = a => b = a  BY <1>1, <2>1
  <2> QED BY <2>1, <2>2, <2>3, <2>4
<1> HIDE DEF Before, After
<1> QED BY <1>2, <1>3

(* The packet of one table ends; nothing else changes but its closure.     *)
LEMMA UpdateScanInv ==
  ASSUME ScanInv, NEW w \in Worker, UpdateCiTable(w) \/ UpdateWbUnprotectedObjectsList(w)
  PROVE  ScanInv'
<1> USE DEF ScanInv
<1>0. PICK k \in {"UpdateCiTable", "UpdateWbUnprotectedObjectsList"} :
        \/ k = "UpdateCiTable" /\ UpdateCiTable(w)
        \/ k = "UpdateWbUnprotectedObjectsList" /\ UpdateWbUnprotectedObjectsList(w)
  OBVIOUS
<1>1. /\ Runs(w, k) /\ running' = [running EXCEPT ![w] = NoPacket]
      /\ UNCHANGED <<heapVars, interned, bucket, todo, buffer, vecVars>>
      /\ \/ ciTable' = Cleaned /\ registry' = registry /\ k = "UpdateCiTable"
         \/ ciTable' = ciTable /\ registry' = Retained /\ k = "UpdateWbUnprotectedObjectsList"
      /\ \/ closure' = [closure EXCEPT ![w] = Unregistered] /\ k = "UpdateCiTable"
         \/ closure' = closure /\ k = "UpdateWbUnprotectedObjectsList"
  BY <1>0 DEF UpdateCiTable, UpdateWbUnprotectedObjectsList, Finish, ClosureAfter, tableVars, scanVars
<1>2. /\ stage = "VMRefClosure" /\ ~collecting
      /\ running[w] # NoPacket /\ running[w].kind = k
      /\ Around(k) /\ Simple(k) \notin bucket /\ \A v \in Worker : Runs(v, k) => v = w
  BY <1>1, InVMRefClosure DEF WeakKinds
<1>3. \A v \in Worker : running'[v] = IF v = w THEN NoPacket ELSE running[v]
  BY <1>1 DEF RootScanningTyped
<1>4. \A j : \A v \in Worker : Runs(v, j)' <=> (v # w /\ Runs(v, j))  BY <1>3 DEF Runs
<1>5. /\ ~Around(k)' /\ ~Around("ProcessWeakRefs") /\ ~Around("ProcessWeakRefs")'
      /\ \A j : j # k => (Around(j)' <=> Around(j))
  <2>1. \A j : Runs(w, j) => j = k  BY <1>2 DEF Runs
  <2>2. ~Around("ProcessWeakRefs")  BY <1>0, <1>2 DEF PacketsFit
  <2> QED BY <1>1, <1>2, <1>4, <2>1, <2>2 DEF Around
<1>6. PacketsFit'
  <2>1. ASSUME NEW j \in SimpleKinds PROVE Once(j)'
    <3>1. Once(j)  BY DEF PacketsFit
    <3> QED BY <1>1, <1>4, <3>1 DEF Once
  <2>2. Present' \subseteq Present  BY <1>1, <1>3 DEF Present
  <2>3. stage' = stage  BY <1>1 DEF heapVars
  <2> QED BY <1>2, <1>5, <2>1, <2>2, <2>3 DEF PacketsFit
<1>7. ClosureFits'
  <2>1. \A v \in Worker : closure'[v] = closure[v] \/ (v = w /\ closure'[v] = Unregistered)
    BY <1>1 DEF RootScanningTyped
  <2>2. todo[w] = {} /\ buffer[w] = <<>>
    BY <1>0, <1>2 DEF ClosureFits, Runs
  <2>3. closure'[w] = Unregistered
    <3>1. closure[w] # "collect"  BY <1>0, <1>2 DEF ClosureFits, Runs
    <3>2. k # "UpdateCiTable" => closure[w] # "forward"  BY <1>0, <1>2 DEF ClosureFits, Runs
    <3> QED BY <1>0, <1>1, <3>1, <3>2 DEF RootScanningTyped
  <2> QED BY <1>1, <1>4, <2>1, <2>2, <2>3 DEF ClosureFits, Unregistered
<1>8. /\ unprotected \in SUBSET Obj /\ interned \in SUBSET Obj
      /\ Before(unprotected)' = Before(unprotected) /\ Before(interned)' = Before(interned)
      /\ After(unprotected)' = After(unprotected) /\ After(interned)' = After(interned)
  BY <1>1 DEF RootScanningTyped, heapVars, programVars, traceVars, Before, After, AddrsOf, Survivor
<1>9. TablesFit'
  <2>1. ~Updated(k) /\ Updated(k)'  BY <1>1, <1>2, <1>5 DEF Updated, heapVars
  <2>2. \A j : j # k => (Updated(j)' <=> Updated(j))  BY <1>1, <1>5 DEF Updated, heapVars
  <2>3. CASE k = "UpdateCiTable"
    <3>1. ciTable' = Cleaned /\ registry' = registry  BY <1>1, <2>3
    <3>2. ciTable = Before(interned)  BY <2>1, <2>3 DEF TablesFit
    <3>3. Cleaned = After(interned)  BY <1>2, <1>8, <3>2, TableProcessed DEF Cleaned
    <3> QED BY <1>8, <2>1, <2>2, <2>3, <3>1, <3>3 DEF TablesFit
  <2>4. CASE k = "UpdateWbUnprotectedObjectsList"
    <3>1. ciTable' = ciTable /\ registry' = Retained  BY <1>1, <2>4
    <3>2. registry = Before(unprotected)  BY <2>1, <2>4 DEF TablesFit
    <3>3. Retained = After(unprotected)  BY <1>2, <1>8, <3>2, TableProcessed DEF Retained
    <3> QED BY <1>8, <2>1, <2>2, <2>4, <3>1, <3>3 DEF TablesFit
  <2> QED BY <2>3, <2>4
<1>10. RootScanningTyped'
  <2>1. /\ running' \in [Worker -> PacketSet \cup {NoPacket}]
        /\ closure' \in [Worker -> {Unregistered, "collect", "forward"}]
    BY <1>1 DEF RootScanningTyped
  <2>2. registry' \cup ciTable' \subseteq Addr
    BY <1>9 DEF TablesFit, Before, After, AddrsOf
  <2> QED BY <1>1, <2>1, <2>2 DEF RootScanningTyped, heapVars, programVars, traceVars, vecVars
<1> QED BY <1>1, <1>2, <1>6, <1>7, <1>9, <1>10, VMRefStep

LEMMA StartUpdateScanInv ==
  ASSUME ScanInv, NEW w \in Worker, StartUpdateCiTable(w)
  PROVE  ScanInv'
<1> USE DEF ScanInv, StartUpdateCiTable, tableVars, schedVars, heapVars, programVars, traceVars, vecVars
<1>1. stage = "VMRefClosure" /\ ~collecting  BY InVMRefClosure DEF WeakKinds
<1>2. \A v \in Worker : closure'[v] = IF v = w THEN "forward" ELSE closure[v]
  BY DEF RootScanningTyped
<1>3. RootScanningTyped'
  <2>1. closure' \in [Worker -> {Unregistered, "collect", "forward"}]  BY DEF RootScanningTyped
  <2> QED BY <2>1 DEF RootScanningTyped
<1>4. PacketsFit' /\ TablesFit'
  BY DEF PacketsFit, Once, Around, Present, Runs, TablesFit, Updated, Before, After, AddrsOf, Survivor
<1>5. ClosureFits'
  BY <1>2 DEF ClosureFits, Runs, Unregistered
<1> QED BY <1>1, <1>3, <1>4, <1>5, VMRefStep

-----------------------------------------------------------------------------
(* The end of a collection, and all steps.                                 *)

LEMMA EndGCScanInv ==
  ASSUME ScanInv, EndGC
  PROVE  ScanInv'
<1> USE DEF ScanInv
<1> DEFINE SO == {heap[a] : a \in Survivor}
<1>0. /\ BucketDrained /\ stage = "VMRefClosure" /\ stage' = "Mutator" /\ nursery' = FALSE
      /\ heap' = [a \in Addr |-> IF a \in Survivor THEN heap[a] ELSE Free]
      /\ edges' = [o \in Obj |-> IF o \in SO THEN edges[o] ELSE {}]
      /\ unprotected' = unprotected \cap SO
      /\ interned' = interned \cap OnHeap'
      /\ old' = Survivor /\ remembered' = {} /\ pinnedRoots' = {} /\ reached' = {}
      /\ fwd' = [a \in Addr |-> a]
      /\ UNCHANGED <<roots, registry, ciTable, bucket, running, closure, todo, buffer, collecting,
                     uncollected, currentVec, vecs>>
  BY DEF EndGC, Reclaim, schedVars, scanVars, vecVars
<1>1. \A a \in Addr : fwd[a] \in Addr /\ heap[fwd[a]] = heap[a] /\ fwd[fwd[a]] = fwd[a]
  BY DEF HeapFits, RootScanningTyped
<1>2. /\ Survivor \subseteq Addr /\ reached \subseteq Addr
      /\ \A a \in Survivor : fwd[a] = a /\ heap[a] # Free /\ heap[a] \in Obj
      /\ \A a \in reached : fwd[a] \in Survivor /\ heap[fwd[a]] = heap[a]
      /\ \A a \in Survivor : \E b \in reached : heap[a] = heap[b]
  BY <1>1 DEF Survivor, HeapFits, InUse, RootScanningTyped
<1>3. \A a \in Addr : heap'[a] = IF a \in Survivor THEN heap[a] ELSE Free
  BY <1>0
<1>4. OnHeap' = SO /\ SO \subseteq Obj /\ SO = {heap[b] : b \in reached}
  <2>1. ASSUME NEW o PROVE o \in OnHeap' <=> o \in SO
    BY <1>2, <1>3 DEF OnHeap
  <2>2. ASSUME NEW o PROVE o \in SO <=> o \in {heap[b] : b \in reached}
    BY <1>2
  <2>3. SO \subseteq Obj  BY <1>2
  <2> QED BY <2>1, <2>2, <2>3
<1> HIDE DEF SO
<1>5. RootScanningTyped'
  <2>1. \A a \in Addr : heap'[a] \in Obj \cup {Free}  BY <1>2, <1>3
  <2>2. heap' \in [Addr -> Obj \cup {Free}]  BY <1>0, <2>1
  <2>3. edges' \in [Obj -> SUBSET Obj]
    <3>1. \A o \in Obj : edges[o] \in SUBSET Obj  BY DEF RootScanningTyped
    <3> QED BY <1>0, <3>1
  <2>4. fwd' \in [Addr -> Addr]  BY <1>0
  <2>5. old' \subseteq Addr /\ unprotected' \subseteq Obj /\ interned' \subseteq Obj
    BY <1>0, <1>2 DEF RootScanningTyped
  <2> QED BY <1>0, <2>2, <2>3, <2>4, <2>5 DEF RootScanningTyped
<1>6. HeapFits'
  <2>1. \A a \in Addr : fwd'[a] = a  BY <1>0
  <2>2. ASSUME NEW a \in Addr, NEW b \in Addr, heap'[a] = heap'[b], heap'[a] # Free PROVE a = b
    <3>1. a \in Survivor /\ b \in Survivor /\ heap[a] = heap[b] /\ heap[a] # Free
      BY <1>3, <2>2
    <3>2. fwd[a] = a /\ fwd[b] = b  BY <1>2, <3>1
    <3> QED BY <3>1, <3>2 DEF HeapFits
  <2> QED BY <1>0, <2>1, <2>2 DEF HeapFits
<1>7. ReferencesFit'
  <2>1. AllRoots' \subseteq SO
    <3> SUFFICES ASSUME NEW o \in AllRoots PROVE o \in SO
      BY <1>0 DEF AllRoots
    <3>1. PICK x \in Addr : heap[x] = o  BY DEF ReferencesFit, OnHeap
    <3>2. x \in reached  BY <1>0, <3>1 DEF TracedFits, AddrsOf
    <3> QED BY <1>4, <3>1, <3>2
  <2>2. ASSUME NEW o \in SO PROVE edges[o] \subseteq SO
    <3>1. PICK b \in reached : heap[b] = o  BY <1>4
    <3> QED BY <1>0, <1>4, <3>1 DEF TracedFits
  <2>3. \A o \in Obj : edges'[o] = IF o \in SO THEN edges[o] ELSE {}  BY <1>0
  <2>4. unprotected' \subseteq SO /\ interned' \subseteq SO  BY <1>0, <1>4
  <2> QED BY <1>4, <2>1, <2>2, <2>3, <2>4 DEF ReferencesFit
<1>8. GenerationsFit'
  <2>1. old' \subseteq InUse'  BY <1>0, <1>2, <1>3 DEF InUse
  <2>2. ASSUME NEW a \in old' PROVE Kids(a)' \subseteq old'
    <3>1. heap'[a] \in Obj /\ edges'[heap'[a]] \subseteq Obj
      BY <1>0, <1>2, <1>3, <1>5 DEF RootScanningTyped
    <3>2. \A x \in Kids(a)' : x \in Addr /\ heap'[x] # Free
      BY <3>1, HeapAssumption DEF Kids, AddrsOf
    <3> QED BY <1>0, <1>3, <3>2
  <2> QED BY <1>0, <2>1, <2>2 DEF GenerationsFit
<1>9. PacketsFit'
  <2>1. Present' = {}  BY <1>0 DEF Present, BucketDrained
  <2>2. \A k : ~Around(k)' /\ \A w \in Worker : ~Runs(w, k)'
    BY <1>0 DEF Around, Runs, BucketDrained
  <2>3. \A k : Once(k)'  BY <2>2 DEF Once
  <2> QED BY <1>0, <2>1, <2>2, <2>3 DEF PacketsFit
<1>10. VecsFit' /\ ClosureFits'
  BY <1>0, Drained DEF VecsFit, ClosureFits, Runs, Unregistered
<1>11. TablesFit'
  <2>1. registry = After(unprotected) /\ ciTable = After(interned)
    <3>1. Updated("UpdateCiTable") /\ Updated("UpdateWbUnprotectedObjectsList")
      BY <1>0, Drained DEF Updated
    <3> QED BY <3>1 DEF TablesFit
  <2>2. \A k : ~Updated(k)'  BY <1>0 DEF Updated
  <2>3. ASSUME NEW T \in SUBSET Obj
        PROVE  {a \in Addr : heap'[a] \in T \cap SO} = After(T)
    <3>1. ASSUME NEW a \in Addr PROVE heap'[a] \in T \cap SO <=> a \in Survivor /\ heap[a] \in T
      <4>1. CASE a \in Survivor  BY <1>3, <4>1 DEF SO
      <4>2. CASE a \notin Survivor  BY <1>3, <1>4, <4>2, HeapAssumption
      <4> QED BY <4>1, <4>2
    <3> QED BY <1>2, <3>1 DEF After, AddrsOf
  <2>4. registry' = {a \in Addr : heap'[a] \in unprotected'}
        /\ ciTable' = {a \in Addr : heap'[a] \in interned'}
    BY <1>0, <1>4, <2>1, <2>3 DEF RootScanningTyped
  <2>5. \A a, b \in Addr : fwd'[b] = a => b = a  BY <1>0
  <2> QED BY <2>2, <2>4, <2>5 DEF TablesFit, Before, AddrsOf
<1>12. TracedFits' /\ RootsInHand' /\ UnprotectedInHand'
  BY <1>0 DEF TracedFits, RootsInHand, UnprotectedInHand
<1>13. HandsFit'
  <2>1. \A w \in Worker : todo'[w] = {} /\ DOMAIN buffer'[w] = {}  BY <1>0, Drained
  <2> QED BY <2>1 DEF HandsFit
<1> QED BY <1>5, <1>6, <1>7, <1>8, <1>9, <1>10, <1>11, <1>12, <1>13

LEMMA StutterScanInv ==
  ASSUME ScanInv, UNCHANGED vars
  PROVE  ScanInv'
<1> USE DEF ScanInv, vars, heapVars, programVars, traceVars, tableVars, schedVars, vecVars, scanVars
<1>1. RootScanningTyped' /\ HeapFits' /\ GenerationsFit'
  BY DEF RootScanningTyped, HeapFits, GenerationsFit, InUse, Kids, AddrsOf
<1>2. ReferencesFit' /\ TracedFits'
  BY DEF ReferencesFit, TracedFits, OnHeap, AllRoots, AddrsOf
<1>3. PacketsFit' /\ VecsFit' /\ ClosureFits'
  BY DEF PacketsFit, Present, Once, Around, Runs, VecsFit, ClosureFits
<1>4. TablesFit'
  BY DEF TablesFit, Updated, Around, Runs, Before, After, Survivor, AddrsOf
<1>5. \A x \in Addr : InHand(x) => InHand(x)'
  BY DEF InHand, InBuffer, Untouched, WillReport, Reported, Kids, AddrsOf, IsReachable
<1>6. RootsInHand' /\ UnprotectedInHand'
  BY <1>5, HandsKept DEF VMRootsToCome, Around, Runs, InVecs
<1>7. HandsFit'  BY DEF HandsFit, InUse
<1> QED BY <1>1, <1>2, <1>3, <1>4, <1>6, <1>7

LEMMA NextScanInv ==
  ASSUME ScanInv, [Next]_vars
  PROVE  ScanInv'
<1>1. CASE Mutator
  BY <1>1, NewScanInv, LoadRootsScanInv, WriteScanInv, RegisterScanInv, StopScanInv DEF Mutator
<1>2. CASE \E copies \in Copies : EndPrepare(copies)
  BY <1>2, EndPrepareScanInv
<1>3. CASE EndGC
  BY <1>3, EndGCScanInv
<1>4. ASSUME NEW w \in Worker, WorkerStep(w) PROVE ScanInv'
  <2>1. CASE \E p \in bucket : Take(w, p)  BY <2>1, TakeScanInv
  <2>2. CASE ScanVMSpecificRoots(w)  BY <2>2, ScanVMScanInv
  <2>3. CASE \E a \in uncollected : AddToVec(w, a)  BY <2>3, AddToVecScanInv
  <2>4. CASE AddWbUnprotectedPackets(w)  BY <2>4, AddPacketsScanInv
  <2>5. CASE CollectObjectRootsIn(w)  BY <2>5, CollectScanInv
  <2>6. CASE \E a \in todo[w] : VisitRoot(w, a)  BY <2>6, VisitRootScanInv
  <2>7. CASE EndCollect(w)  BY <2>7, EndCollectScanInv
  <2>8. CASE ProcessWeakStuff(w)  BY <2>8, ProcessWeakStuffScanInv
  <2>9. CASE StartUpdateCiTable(w)  BY <2>9, StartUpdateScanInv
  <2>10. CASE UpdateCiTable(w) \/ UpdateWbUnprotectedObjectsList(w)  BY <2>10, UpdateScanInv
  <2> QED BY <1>4, <2>1, <2>2, <2>3, <2>4, <2>5, <2>6, <2>7, <2>8, <2>9, <2>10 DEF WorkerStep
<1>5. CASE UNCHANGED vars  BY <1>5, StutterScanInv
<1> QED BY <1>1, <1>2, <1>3, <1>4, <1>5 DEF Next, Collector

-----------------------------------------------------------------------------
(* Every state of scanning.rs's collections fits the accounting above.     *)
THEOREM ScanInvariant == Spec => []ScanInv
BY InitScanInv, NextScanInv, PTL DEF Spec

(* A step leaves no buffer full: the push that fills it hands it over.     *)
LEMMA NextBuffersFit == ScanInv /\ BuffersFit /\ [Next]_vars => BuffersFit'
<1> SUFFICES ASSUME ScanInv, BuffersFit, [Next]_vars PROVE BuffersFit'
  OBVIOUS
<1>0. /\ BufferSize \in Nat \ {0} /\ ChunkSize \in Nat \ {0}
      /\ buffer \in [Worker -> Seq(Addr)] /\ currentVec \in Seq(Addr)
      /\ todo \in [Worker -> SUBSET Addr] /\ uncollected \subseteq Addr
  BY RootScanningAssumption DEF ScanInv, RootScanningTyped
<1>1. ASSUME UNCHANGED <<buffer, currentVec>> PROVE BuffersFit'
  BY <1>1 DEF BuffersFit
<1>2. ASSUME NEW w \in Worker, NEW a \in todo[w], VisitRoot(w, a) PROVE BuffersFit'
  <2> DEFINE b == Append(buffer[w], a)
  <2>1. a \in Addr /\ b \in Seq(Addr)  BY <1>0
  <2>2. currentVec' = currentVec /\ buffer' = [buffer EXCEPT ![w] = BufferAfter(b)]
    BY <1>2 DEF VisitRoot, vecVars
  <2>3. Len(BufferAfter(b)) < BufferSize
    <3> HIDE DEF b
    <3>1. Len(<<>>) = 0 /\ Len(b) \in Nat  BY <2>1
    <3> QED BY <1>0, <3>1 DEF BufferAfter
  <2> HIDE DEF b
  <2> QED BY <1>0, <2>2, <2>3 DEF BuffersFit
<1>3. ASSUME NEW w \in Worker, EndCollect(w) PROVE BuffersFit'
  <2>1. currentVec' = currentVec /\ buffer' = [buffer EXCEPT ![w] = <<>>]
    BY <1>3 DEF EndCollect, vecVars
  <2>2. Len(<<>>) = 0  OBVIOUS
  <2> QED BY <1>0, <2>1, <2>2 DEF BuffersFit
<1>4. ASSUME NEW w \in Worker, NEW a \in uncollected, AddToVec(w, a) PROVE BuffersFit'
  <2> DEFINE v == Append(currentVec, a)
  <2>1. a \in Addr /\ v \in Seq(Addr) /\ Len(v) = Len(currentVec) + 1
        /\ Len(currentVec) \in Nat /\ Len(<<>>) = 0
    BY <1>0
  <2>2. buffer' = buffer /\ currentVec' = IF Len(v) = ChunkSize THEN <<>> ELSE v
    BY <1>4 DEF AddToVec, scanVars
  <2> HIDE DEF v
  <2> QED BY <1>0, <2>1, <2>2 DEF BuffersFit
<1>5. ASSUME NEW w \in Worker, AddWbUnprotectedPackets(w) PROVE BuffersFit'
  <2>1. buffer' = buffer /\ currentVec' = <<>>
    BY <1>5 DEF AddWbUnprotectedPackets, scanVars
  <2>2. Len(<<>>) = 0  OBVIOUS
  <2> QED BY <1>0, <2>1, <2>2 DEF BuffersFit
<1>6. CASE Mutator
  <2>1. UNCHANGED <<buffer, currentVec>>
    BY <1>6 DEF Mutator, New, LoadRoots, Write, RegisterWbUnprotected, Intern,
                StopAllMutators, scanVars, vecVars
  <2> QED BY <1>1, <2>1
<1>7. CASE (\E copies \in Copies : EndPrepare(copies)) \/ EndGC
  <2>1. UNCHANGED <<buffer, currentVec>>
    BY <1>7 DEF EndPrepare, EndGC, scanVars, vecVars
  <2> QED BY <1>1, <2>1
<1>8. ASSUME NEW w \in Worker,
             \/ \E p \in bucket : Take(w, p)
             \/ ScanVMSpecificRoots(w) \/ CollectObjectRootsIn(w) \/ ProcessWeakStuff(w)
             \/ StartUpdateCiTable(w) \/ UpdateCiTable(w)
             \/ UpdateWbUnprotectedObjectsList(w)
      PROVE  BuffersFit'
  <2>1. UNCHANGED <<buffer, currentVec>>
    BY <1>8 DEF Take, ScanVMSpecificRoots, CollectObjectRootsIn, ProcessWeakStuff,
                StartUpdateCiTable, UpdateCiTable, UpdateWbUnprotectedObjectsList, scanVars,
                vecVars
  <2> QED BY <1>1, <2>1
<1>9. CASE UNCHANGED vars
  BY <1>1, <1>9 DEF vars, scanVars, vecVars
<1> QED
  BY <1>2, <1>3, <1>4, <1>5, <1>6, <1>7, <1>8, <1>9 DEF Next, Collector, WorkerStep

(* The variables keep their types, and no buffer or vector is ever left    *)
(* full: for every buffer and chunk size.                                  *)
THEOREM RootScanningTypeCorrect == Spec => []RootScanningTypeOK
<1>1. Init => BuffersFit
  <2>1. Len(<<>>) = 0  OBVIOUS
  <2> QED BY <2>1, RootScanningAssumption DEF Init, BuffersFit
<1>2. ScanInv /\ BuffersFit => RootScanningTypeOK
  BY DEF ScanInv, RootScanningTypeOK
<1> QED BY <1>1, <1>2, NextBuffersFit, ScanInvariant, PTL DEF Spec

(* No collection, whichever packets run in which order and whatever it     *)
(* copies, loses an object that Ruby code can still reach.                 *)
THEOREM NoLiveObjectLost == Spec => []NothingLiveIsLost
<1>1. ScanInv => NothingLiveIsLost  BY LiveOnHeap DEF NothingLiveIsLost
<1> QED BY <1>1, ScanInvariant, PTL

(* An object that CRuby refers to from a root is not moved, which is what  *)
(* collect_object_roots_in's answers to CRuby promise.                     *)
THEOREM RootsNeverMove == Spec => []RootsStay
<1>1. ASSUME ScanInv PROVE RootsStay
  <2>1. CASE stage = "VMRefClosure"
    BY <1>1, <2>1 DEF ScanInv, TracedFits, RootsStay, Forward
  <2>2. CASE stage # "VMRefClosure"
    BY <1>1, <2>2 DEF ScanInv, HeapFits, RootsStay, Forward, AddrsOf
  <2> QED BY <2>1, <2>2
<1> QED BY <1>1, ScanInvariant, PTL

(* Between collections wb_unprotected_objects and the ci table hold the    *)
(* objects registered in them, at their present addresses, and no others.  *)
THEOREM RegistriesAreExact == Spec => []RegistriesExact
<1>1. ScanInv => RegistriesExact  BY Calm DEF RegistriesExact
<1> QED BY <1>1, ScanInvariant, PTL

(* set_temporarily_and_run_code leaves no closure behind, and no upcall    *)
(* runs one that another packet registered.                                *)
THEOREM ClosuresFitPackets == Spec => []ClosureFits
<1>1. ScanInv => ClosureFits  BY DEF ScanInv
<1> QED BY <1>1, ScanInvariant, PTL
-----------------------------------------------------------------------------
(* The tables as WeakRegistry tells it.                                    *)

(* What Live is, for any roots and fields.                                 *)
ClosedUnder(R, e, S) == R \subseteq S /\ \A p \in S : e[p] \subseteq S
ReachedBy(R, e) == {o \in Obj : \A S \in SUBSET Obj : ClosedUnder(R, e, S) => o \in S}

LEMMA LiveIsReached == Live = ReachedBy(AllRoots, edges) /\ Live' = ReachedBy(AllRoots', edges')
BY DEF Live, ReachedBy, ClosedUnder

LEMMA ReachedIsLeast ==
  ASSUME NEW R \in SUBSET Obj, NEW e \in [Obj -> SUBSET Obj]
  PROVE  /\ ReachedBy(R, e) \in SUBSET Obj
         /\ ClosedUnder(R, e, ReachedBy(R, e))
         /\ \A S \in SUBSET Obj : ClosedUnder(R, e, S) => ReachedBy(R, e) \subseteq S
<1>1. ReachedBy(R, e) \in SUBSET Obj
  BY DEF ReachedBy
<1>2. \A S \in SUBSET Obj : ClosedUnder(R, e, S) => ReachedBy(R, e) \subseteq S
  BY DEF ReachedBy
<1>3. R \subseteq ReachedBy(R, e)
  BY DEF ReachedBy, ClosedUnder
<1>4. ASSUME NEW p \in ReachedBy(R, e), NEW o \in e[p] PROVE o \in ReachedBy(R, e)
  <2>1. p \in Obj /\ o \in Obj  BY <1>1, <1>4
  <2>2. ASSUME NEW S \in SUBSET Obj, ClosedUnder(R, e, S) PROVE o \in S
    BY <1>2, <1>4, <2>2 DEF ClosedUnder
  <2> QED BY <2>1, <2>2 DEF ReachedBy
<1> QED BY <1>1, <1>2, <1>3, <1>4 DEF ClosedUnder

(* Roots and fields are typed before and after a step.                     *)
LEMMA ProgramTyped ==
  ASSUME ScanInv
  PROVE  /\ AllRoots \in SUBSET Obj /\ edges \in [Obj -> SUBSET Obj]
         /\ Live \in SUBSET Obj /\ ClosedUnder(AllRoots, edges, Live)
<1>1. AllRoots \in SUBSET Obj /\ edges \in [Obj -> SUBSET Obj]
  BY DEF ScanInv, RootScanningTyped, AllRoots
<1> QED BY <1>1, LiveIsReached, ReachedIsLeast

(* A step that leads no reference out of what is live leaves no more alive. *)
LEMMA LiveShrinks ==
  ASSUME ScanInv, ScanInv', ClosedUnder(AllRoots', edges', Live)
  PROVE  Live' \subseteq Live
<1>1. AllRoots' \in SUBSET Obj /\ edges' \in [Obj -> SUBSET Obj]
  BY DEF ScanInv, RootScanningTyped, AllRoots
<1> QED BY <1>1, ProgramTyped, LiveIsReached, ReachedIsLeast

(* Tracing reaches what is live.                                           *)
LEMMA LiveTraced ==
  ASSUME ScanInv, stage = "VMRefClosure"
  PROVE  /\ Live \subseteq {heap[a] : a \in reached}
         /\ \A o \in Live : \E a \in Survivor : a \in Addr /\ heap[a] = o
<1> USE DEF ScanInv
<1> DEFINE T == {heap[a] : a \in reached}
<1>1. reached \subseteq Addr /\ \A a \in reached : heap[a] \in Obj
  BY DEF RootScanningTyped, HeapFits, InUse
<1>2. T \in SUBSET Obj  BY <1>1
<1>3. AllRoots \subseteq T
  <2> SUFFICES ASSUME NEW o \in AllRoots PROVE o \in T
    OBVIOUS
  <2>1. PICK x \in Addr : heap[x] = o  BY DEF ReferencesFit, OnHeap
  <2> QED BY <2>1 DEF TracedFits, AddrsOf
<1>4. \A p \in T : edges[p] \subseteq T
  BY DEF TracedFits
<1>5. Live \subseteq T
  BY <1>2, <1>3, <1>4 DEF Live
<1>6. ASSUME NEW o \in Live PROVE \E a \in Survivor : a \in Addr /\ heap[a] = o
  <2>1. PICK a \in reached : heap[a] = o  BY <1>5
  <2>2. fwd[a] \in Addr /\ heap[fwd[a]] = heap[a]
    BY <1>1 DEF HeapFits, RootScanningTyped
  <2> QED BY <2>1, <2>2 DEF Survivor
<1> QED BY <1>5, <1>6

(* A step of a weak registry with the objects h on the heap, n needed and  *)
(* m registered, to h2, n2 and m2.                                         *)
RegistryStep(h, n, m, h2, n2, m2) ==
  \/ h2 = h /\ n2 = n /\ m2 = m
  \/ \E o \in Obj \ h : h2 = h \cup {o} /\ n2 = n /\ m2 = m
  \/ \E S \in SUBSET Obj :
       \/ S \subseteq h /\ h2 = h /\ n2 = n \cup S /\ m2 = m \cup S
       \/ h2 = h /\ n2 = n \ S /\ m2 = m
       \/ S \cap n = {} /\ h2 = h /\ n2 = n /\ m2 = m \ S
       \/ S \cap (n \cup m) = {} /\ h2 = h \ S /\ n2 = n /\ m2 = m

WbMembers == {heap[a] : a \in registry}
CiMembers == {heap[a] : a \in ciTable}
WbNeeded == Live \cap unprotected
CiNeeded == Live \cap interned

WbStep == RegistryStep(OnHeap, WbNeeded, WbMembers, OnHeap', WbNeeded', WbMembers')
CiStep == RegistryStep(OnHeap, CiNeeded, CiMembers, OnHeap', CiNeeded', CiMembers')

LEMMA StepOfWb == WbStep => [WbRegistry!Next]_(WbRegistry!vars)
<1> SUFFICES ASSUME WbStep PROVE [WbRegistry!Next]_(WbRegistry!vars)
  OBVIOUS
<1> USE DEF WbNeeded, WbMembers
<1>1. CASE OnHeap' = OnHeap /\ WbNeeded' = WbNeeded /\ WbMembers' = WbMembers
  BY <1>1 DEF WbRegistry!vars
<1>2. ASSUME NEW o \in Obj \ OnHeap, OnHeap' = OnHeap \cup {o}, WbNeeded' = WbNeeded,
             WbMembers' = WbMembers
      PROVE  WbRegistry!Next
  <2>1. WbRegistry!Alloc(o, {})  BY <1>2 DEF WbRegistry!Alloc
  <2> QED BY <2>1 DEF WbRegistry!Next
<1>3. ASSUME NEW S \in SUBSET Obj,
             \/ /\ S \subseteq OnHeap /\ OnHeap' = OnHeap
                /\ WbNeeded' = WbNeeded \cup S /\ WbMembers' = WbMembers \cup S
             \/ OnHeap' = OnHeap /\ WbNeeded' = WbNeeded \ S /\ WbMembers' = WbMembers
             \/ /\ S \cap WbNeeded = {} /\ OnHeap' = OnHeap
                /\ WbNeeded' = WbNeeded /\ WbMembers' = WbMembers \ S
             \/ /\ S \cap (WbNeeded \cup WbMembers) = {} /\ OnHeap' = OnHeap \ S
                /\ WbNeeded' = WbNeeded /\ WbMembers' = WbMembers
      PROVE  WbRegistry!Next
  <2>1. WbRegistry!Register(S) \/ WbRegistry!Forget(S) \/ WbRegistry!Sweep(S) \/ WbRegistry!Reclaim(S)
    BY <1>3 DEF WbRegistry!Register, WbRegistry!Forget, WbRegistry!Sweep, WbRegistry!Reclaim
  <2> QED BY <2>1 DEF WbRegistry!Next
<1> HIDE DEF WbNeeded, WbMembers
<1> QED BY <1>1, <1>2, <1>3 DEF WbStep, RegistryStep

LEMMA StepOfCi == CiStep => [CiRegistry!Next]_(CiRegistry!vars)
<1> SUFFICES ASSUME CiStep PROVE [CiRegistry!Next]_(CiRegistry!vars)
  OBVIOUS
<1> USE DEF CiNeeded, CiMembers
<1>1. CASE OnHeap' = OnHeap /\ CiNeeded' = CiNeeded /\ CiMembers' = CiMembers
  BY <1>1 DEF CiRegistry!vars
<1>2. ASSUME NEW o \in Obj \ OnHeap, OnHeap' = OnHeap \cup {o}, CiNeeded' = CiNeeded,
             CiMembers' = CiMembers
      PROVE  CiRegistry!Next
  <2>1. CiRegistry!Alloc(o, {})  BY <1>2 DEF CiRegistry!Alloc
  <2> QED BY <2>1 DEF CiRegistry!Next
<1>3. ASSUME NEW S \in SUBSET Obj,
             \/ /\ S \subseteq OnHeap /\ OnHeap' = OnHeap
                /\ CiNeeded' = CiNeeded \cup S /\ CiMembers' = CiMembers \cup S
             \/ OnHeap' = OnHeap /\ CiNeeded' = CiNeeded \ S /\ CiMembers' = CiMembers
             \/ /\ S \cap CiNeeded = {} /\ OnHeap' = OnHeap
                /\ CiNeeded' = CiNeeded /\ CiMembers' = CiMembers \ S
             \/ /\ S \cap (CiNeeded \cup CiMembers) = {} /\ OnHeap' = OnHeap \ S
                /\ CiNeeded' = CiNeeded /\ CiMembers' = CiMembers
      PROVE  CiRegistry!Next
  <2>1. CiRegistry!Register(S) \/ CiRegistry!Forget(S) \/ CiRegistry!Sweep(S) \/ CiRegistry!Reclaim(S)
    BY <1>3 DEF CiRegistry!Register, CiRegistry!Forget, CiRegistry!Sweep, CiRegistry!Reclaim
  <2> QED BY <2>1 DEF CiRegistry!Next
<1> HIDE DEF CiNeeded, CiMembers
<1> QED BY <1>1, <1>2, <1>3 DEF CiStep, RegistryStep

LEMMA SameTables ==
  ASSUME UNCHANGED <<registry, ciTable>>, \A a \in registry \cup ciTable : heap'[a] = heap[a]
  PROVE  WbMembers' = WbMembers /\ CiMembers' = CiMembers
BY DEF WbMembers, CiMembers

(* What the tables hold is in memory.                                      *)
LEMMA TablesInUse ==
  ASSUME ScanInv
  PROVE  /\ registry \cup ciTable \subseteq InUse
         /\ unprotected \cup interned \subseteq OnHeap /\ OnHeap \subseteq Obj
         /\ WbMembers \cup CiMembers \subseteq OnHeap
<1> USE DEF ScanInv
<1>1. unprotected \cup interned \subseteq OnHeap /\ OnHeap \subseteq Obj
  BY LiveOnHeap DEF ReferencesFit
<1>2. registry \subseteq AddrsOf(unprotected) /\ ciTable \subseteq AddrsOf(interned)
  BY DEF TablesFit, Before, After
<1>3. \A a \in registry \cup ciTable : a \in Addr /\ heap[a] \in OnHeap /\ heap[a] # Free
  BY <1>1, <1>2 DEF AddrsOf, OnHeap
<1> QED BY <1>1, <1>3 DEF InUse, WbMembers, CiMembers

(* A step that at most drops references is a Forget, or nothing.           *)
LEMMA ForgetRegistries ==
  ASSUME ScanInv, ScanInv', UNCHANGED <<heap, unprotected, interned, registry, ciTable>>,
         ClosedUnder(AllRoots', edges', Live)
  PROVE  WbStep /\ CiStep
<1>1. OnHeap' = OnHeap /\ WbMembers' = WbMembers /\ CiMembers' = CiMembers
  BY SameTables DEF OnHeap
<1>2. Live' \subseteq Live /\ Live \subseteq Obj  BY LiveShrinks, ProgramTyped
<1>3. PICK S \in SUBSET Obj : S = WbNeeded \ WbNeeded'  BY <1>2 DEF WbNeeded
<1>4. PICK T \in SUBSET Obj : T = CiNeeded \ CiNeeded'  BY <1>2 DEF CiNeeded
<1>5. WbNeeded' = WbNeeded \ S /\ CiNeeded' = CiNeeded \ T
  BY <1>2, <1>3, <1>4 DEF WbNeeded, CiNeeded
<1> QED BY <1>1, <1>5 DEF WbStep, CiStep, RegistryStep

LEMMA QuietRegistries ==
  ASSUME ScanInv, ScanInv',
         UNCHANGED <<heap, edges, roots, unprotected, interned, registry, ciTable>>
  PROVE  WbStep /\ CiStep
<1>1. AllRoots' = AllRoots  BY DEF AllRoots
<1> QED BY <1>1, ProgramTyped, ForgetRegistries

LEMMA NewRegistries ==
  ASSUME ScanInv, ScanInv', NEW o \in Obj, NEW a \in Addr, NEW s \in Scanner, New(o, a, s)
  PROVE  WbStep /\ CiStep
<1> USE DEF New, Alloc, tableVars
<1>1. /\ o \notin OnHeap /\ heap[a] = Free /\ edges' = edges /\ edges[o] = {}
      /\ UNCHANGED <<unprotected, interned, registry, ciTable>>
  BY DEF ScanInv, ReferencesFit
<1>2. /\ \A b \in Addr : heap'[b] = IF b = a THEN o ELSE heap[b]
      /\ o # Free
  BY HeapAssumption DEF ScanInv, RootScanningTyped
<1>3. OnHeap' = OnHeap \cup {o}
  BY <1>1, <1>2 DEF OnHeap
<1>4. WbMembers' = WbMembers /\ CiMembers' = CiMembers
  BY <1>1, <1>2, SameTables, TablesInUse DEF InUse
<1>5. AllRoots' \subseteq AllRoots \cup {o} /\ AllRoots \subseteq AllRoots'
  BY DEF AllRoots, ScanInv, RootScanningTyped
<1>6. Live' \subseteq Live \cup {o}
  <2>1. Live \cup {o} \in SUBSET Obj /\ ClosedUnder(AllRoots', edges', Live \cup {o})
    BY <1>1, <1>5, ProgramTyped DEF ClosedUnder
  <2>2. AllRoots' \in SUBSET Obj /\ edges' \in [Obj -> SUBSET Obj]
    BY DEF ScanInv, RootScanningTyped, AllRoots
  <2> QED BY <2>1, <2>2, LiveIsReached, ReachedIsLeast
<1>7. Live \subseteq Live'
  <2>1. AllRoots' \in SUBSET Obj /\ edges' \in [Obj -> SUBSET Obj]
    BY DEF ScanInv, RootScanningTyped, AllRoots
  <2>2. Live' \in SUBSET Obj /\ ClosedUnder(AllRoots', edges', Live')
    BY <2>1, LiveIsReached, ReachedIsLeast
  <2>3. ClosedUnder(AllRoots, edges, Live')
    BY <1>1, <1>5, <2>2 DEF ClosedUnder
  <2> QED BY <2>2, <2>3, ProgramTyped, LiveIsReached, ReachedIsLeast
<1>8. WbNeeded' = WbNeeded /\ CiNeeded' = CiNeeded
  BY <1>1, <1>6, <1>7, TablesInUse DEF WbNeeded, CiNeeded
<1>9. o \in Obj \ OnHeap  BY <1>1
<1> QED BY <1>3, <1>4, <1>8, <1>9 DEF WbStep, CiStep, RegistryStep

LEMMA RegisterRegistries ==
  ASSUME ScanInv, NEW a \in Addr, RegisterWbUnprotected(a) \/ Intern(a)
  PROVE  WbStep /\ CiStep
<1>1. /\ heap[a] \in Live /\ {heap[a]} \in SUBSET Obj /\ {heap[a]} \subseteq OnHeap
      /\ UNCHANGED <<heap, edges, roots>>
  BY LiveOnHeap DEF RegisterWbUnprotected, Intern, heapVars, programVars
<1>2. OnHeap' = OnHeap /\ Live' = Live
  BY <1>1 DEF OnHeap, Live, AllRoots
<1>3. CASE RegisterWbUnprotected(a)
  <2>1. unprotected' = unprotected \cup {heap[a]} /\ registry' = registry \cup {a}
        /\ UNCHANGED <<interned, ciTable>>
    BY <1>3 DEF RegisterWbUnprotected, tableVars
  <2>2. WbMembers' = WbMembers \cup {heap[a]} /\ CiMembers' = CiMembers
    BY <1>1, <2>1 DEF WbMembers, CiMembers
  <2>3. WbNeeded' = WbNeeded \cup {heap[a]} /\ CiNeeded' = CiNeeded
    BY <1>1, <1>2, <2>1 DEF WbNeeded, CiNeeded
  <2>4. WbStep  BY <1>1, <1>2, <2>2, <2>3 DEF WbStep, RegistryStep
  <2>5. CiStep  BY <1>2, <2>2, <2>3 DEF CiStep, RegistryStep
  <2> QED BY <2>4, <2>5
<1>4. CASE Intern(a)
  <2>1. interned' = interned \cup {heap[a]} /\ ciTable' = ciTable \cup {a}
        /\ UNCHANGED <<unprotected, registry>>
    BY <1>4 DEF Intern, heapVars, programVars
  <2>2. CiMembers' = CiMembers \cup {heap[a]} /\ WbMembers' = WbMembers
    BY <1>1, <2>1 DEF WbMembers, CiMembers
  <2>3. CiNeeded' = CiNeeded \cup {heap[a]} /\ WbNeeded' = WbNeeded
    BY <1>1, <1>2, <2>1 DEF WbNeeded, CiNeeded
  <2>4. CiStep  BY <1>1, <1>2, <2>2, <2>3 DEF CiStep, RegistryStep
  <2>5. WbStep  BY <1>2, <2>2, <2>3 DEF WbStep, RegistryStep
  <2> QED BY <2>4, <2>5
<1> QED BY <1>3, <1>4

LEMMA MutatorRegistries ==
  ASSUME ScanInv, ScanInv', Mutator
  PROVE  WbStep /\ CiStep
<1>1. ASSUME NEW s \in Scanner, NEW S \in SUBSET Live, LoadRoots(s, S)
      PROVE  WbStep /\ CiStep
  <2>1. /\ edges' = edges /\ UNCHANGED <<heap, unprotected, interned, registry, ciTable>>
        /\ roots' = [roots EXCEPT ![s] = S]
    BY <1>1 DEF LoadRoots, SetRoots, tableVars
  <2>2. AllRoots' \subseteq AllRoots \cup S
    BY <2>1 DEF AllRoots, ScanInv, RootScanningTyped
  <2>3. ClosedUnder(AllRoots', edges', Live)
    BY <2>1, <2>2, ProgramTyped DEF ClosedUnder
  <2> QED BY <2>1, <2>3, ForgetRegistries
<1>2. ASSUME NEW o \in Holder, NEW S \in SUBSET Live, Write(o, S)
      PROVE  WbStep /\ CiStep
  <2>1. /\ AllRoots' = AllRoots /\ UNCHANGED <<heap, unprotected, interned, registry, ciTable>>
        /\ edges' = [edges EXCEPT ![o] = S]
    BY <1>2 DEF Write, SetFields, tableVars, AllRoots
  <2>2. \A p \in Live : edges'[p] \subseteq Live
    BY <2>1, ProgramTyped DEF ClosedUnder
  <2>3. ClosedUnder(AllRoots', edges', Live)
    BY <2>1, <2>2, ProgramTyped DEF ClosedUnder
  <2> QED BY <2>1, <2>3, ForgetRegistries
<1>3. ASSUME NEW isNursery \in BOOLEAN, StopAllMutators(isNursery)
      PROVE  WbStep /\ CiStep
  BY <1>3, QuietRegistries DEF StopAllMutators, StartGC, tableVars, programVars
<1> QED BY <1>1, <1>2, <1>3, NewRegistries, RegisterRegistries DEF Mutator

(* Tracing copies objects; a copy is the same object.                      *)
LEMMA TracingRegistries ==
  ASSUME ScanInv, ScanInv', NEW copies \in Copies, EndPrepare(copies)
  PROVE  WbStep /\ CiStep
<1>1. /\ BucketDrained /\ TraceClosure(copies) /\ stage' = "VMRefClosure"
      /\ UNCHANGED <<edges, roots, unprotected, interned, registry, ciTable>>
  BY DEF EndPrepare, TraceClosure, programVars, tableVars
<1>2. PICK S \in SUBSET (Traced \ pinnedRoots) :
        /\ \A a \in S : fwd'[a] \in Addr /\ heap[fwd'[a]] = Free /\ heap'[fwd'[a]] = heap[a]
        /\ \A a \in Addr \ S : fwd'[a] = a
        /\ \A a \in InUse : heap'[a] = heap[a]
        /\ \A b \in Addr \ InUse : heap'[b] = Free \/ \E a \in S : fwd'[a] = b
        /\ \A a, b \in S : fwd'[a] = fwd'[b] => a = b
  BY <1>1, Copied
<1>3. WbMembers' = WbMembers /\ CiMembers' = CiMembers
  BY <1>1, <1>2, SameTables, TablesInUse
<1>4. OnHeap' = OnHeap
  <2>1. OnHeap \subseteq OnHeap'  BY <1>2 DEF OnHeap, InUse
  <2>2. ASSUME NEW b \in Addr, heap'[b] # Free PROVE heap'[b] \in OnHeap
    <3>1. CASE b \in InUse  BY <1>2, <2>2, <3>1 DEF OnHeap
    <3>2. CASE b \notin InUse
      <4>1. PICK a \in S : heap'[b] = heap[a]  BY <1>2, <2>2, <3>2
      <4>2. a \in Addr  BY DEF Traced
      <4> QED BY <2>2, <4>1, <4>2 DEF OnHeap
    <3> QED BY <3>1, <3>2
  <2> QED BY <2>1, <2>2 DEF OnHeap
<1>5. Live' = Live  BY <1>1 DEF Live, AllRoots
<1>6. WbNeeded' = WbNeeded /\ CiNeeded' = CiNeeded
  BY <1>1, <1>5 DEF WbNeeded, CiNeeded
<1> QED BY <1>3, <1>4, <1>6 DEF WbStep, CiStep, RegistryStep

(* What updating a table drops is dead; what it keeps, it keeps under its  *)
(* new address.                                                            *)
LEMMA UpdateSweeps ==
  ASSUME ScanInv, stage = "VMRefClosure", NEW T \in SUBSET Obj
  PROVE  /\ {heap[a] : a \in After(T)} \subseteq {heap[a] : a \in Before(T)}
         /\ Live \cap T \subseteq {heap[a] : a \in After(T)}
<1>1. ASSUME NEW a \in After(T) PROVE \E b \in Before(T) : heap[b] = heap[a]
  <2>1. PICK b \in Before(T) : a = fwd[b]
    BY TableProcessed DEF Forward
  <2>2. b \in Addr  BY DEF Before, AddrsOf
  <2> QED BY <2>1, <2>2 DEF ScanInv, HeapFits
<1>2. ASSUME NEW o \in Live \cap T PROVE \E a \in After(T) : heap[a] = o
  BY LiveTraced DEF After, AddrsOf
<1> QED BY <1>1, <1>2

LEMMA UpdateRegistries ==
  ASSUME ScanInv, NEW w \in Worker, UpdateCiTable(w) \/ UpdateWbUnprotectedObjectsList(w)
  PROVE  WbStep /\ CiStep
<1>1. /\ UNCHANGED <<heap, edges, roots, unprotected, interned>>
      /\ \/ registry' = Retained /\ ciTable' = ciTable /\ Runs(w, "UpdateWbUnprotectedObjectsList")
         \/ ciTable' = Cleaned /\ registry' = registry /\ Runs(w, "UpdateCiTable")
  BY DEF UpdateCiTable, UpdateWbUnprotectedObjectsList, heapVars, programVars, tableVars
<1>2. OnHeap' = OnHeap /\ Live' = Live /\ WbNeeded' = WbNeeded /\ CiNeeded' = CiNeeded
  BY <1>1 DEF OnHeap, Live, AllRoots, WbNeeded, CiNeeded
<1>3. /\ unprotected \in SUBSET Obj /\ interned \in SUBSET Obj
      /\ WbMembers \in SUBSET Obj /\ CiMembers \in SUBSET Obj
  BY TablesInUse
<1>4. CASE registry' = Retained /\ ciTable' = ciTable /\ Runs(w, "UpdateWbUnprotectedObjectsList")
  <2>1. stage = "VMRefClosure" /\ Around("UpdateWbUnprotectedObjectsList")
    BY <1>4, InVMRefClosure DEF WeakKinds
  <2>2. registry = Before(unprotected)  BY <2>1 DEF ScanInv, TablesFit, Updated
  <2>3. registry' = After(unprotected)  BY <1>3, <1>4, <2>1, <2>2, TableProcessed DEF Retained
  <2>4. WbMembers' = {heap[a] : a \in After(unprotected)}  BY <1>1, <2>3 DEF WbMembers
  <2>5. WbMembers' \subseteq WbMembers /\ WbNeeded \subseteq WbMembers'
    BY <1>3, <2>1, <2>2, <2>4, UpdateSweeps DEF WbMembers, WbNeeded
  <2>6. PICK S \in SUBSET Obj : S = WbMembers \ WbMembers'  BY <1>3
  <2>7. S \cap WbNeeded = {} /\ WbMembers' = WbMembers \ S  BY <2>5, <2>6
  <2>8. CiMembers' = CiMembers  BY <1>1, <1>4 DEF CiMembers
  <2>9. WbStep  BY <1>2, <2>7 DEF WbStep, RegistryStep
  <2>10. CiStep  BY <1>2, <2>8 DEF CiStep, RegistryStep
  <2> QED BY <2>9, <2>10
<1>5. CASE ciTable' = Cleaned /\ registry' = registry /\ Runs(w, "UpdateCiTable")
  <2>1. stage = "VMRefClosure" /\ Around("UpdateCiTable")
    BY <1>5, InVMRefClosure DEF WeakKinds
  <2>2. ciTable = Before(interned)  BY <2>1 DEF ScanInv, TablesFit, Updated
  <2>3. ciTable' = After(interned)  BY <1>3, <1>5, <2>1, <2>2, TableProcessed DEF Cleaned
  <2>4. CiMembers' = {heap[a] : a \in After(interned)}  BY <1>1, <2>3 DEF CiMembers
  <2>5. CiMembers' \subseteq CiMembers /\ CiNeeded \subseteq CiMembers'
    BY <1>3, <2>1, <2>2, <2>4, UpdateSweeps DEF CiMembers, CiNeeded
  <2>6. PICK S \in SUBSET Obj : S = CiMembers \ CiMembers'  BY <1>3
  <2>7. S \cap CiNeeded = {} /\ CiMembers' = CiMembers \ S  BY <2>5, <2>6
  <2>8. WbMembers' = WbMembers  BY <1>1, <1>5 DEF WbMembers
  <2>9. CiStep  BY <1>2, <2>7 DEF CiStep, RegistryStep
  <2>10. WbStep  BY <1>2, <2>8 DEF WbStep, RegistryStep
  <2> QED BY <2>9, <2>10
<1> QED BY <1>1, <1>4, <1>5

(* Reclaiming takes nothing live, and nothing that a table still has.      *)
LEMMA ReclaimRegistries ==
  ASSUME ScanInv, ScanInv', EndGC
  PROVE  WbStep /\ CiStep
<1> DEFINE SO == {heap[a] : a \in Survivor}
<1>1. /\ BucketDrained /\ stage = "VMRefClosure" /\ stage' = "Mutator"
      /\ heap' = [a \in Addr |-> IF a \in Survivor THEN heap[a] ELSE Free]
      /\ edges' = [o \in Obj |-> IF o \in SO THEN edges[o] ELSE {}]
      /\ unprotected' = unprotected \cap SO
      /\ interned' = interned \cap OnHeap'
      /\ UNCHANGED <<roots, registry, ciTable>>
  BY DEF EndGC, Reclaim
<1>2. registry = After(unprotected) /\ ciTable = After(interned)
  <2>1. Updated("UpdateCiTable") /\ Updated("UpdateWbUnprotectedObjectsList")
    BY <1>1, Drained DEF Updated
  <2> QED BY <2>1 DEF ScanInv, TablesFit
<1>3. Survivor \subseteq Addr /\ \A a \in Survivor : heap[a] # Free /\ heap[a] \in Obj
  BY DEF Survivor, ScanInv, HeapFits, InUse, RootScanningTyped
<1>4. OnHeap' = SO /\ SO \in SUBSET Obj
  <2>1. \A a \in Addr : heap'[a] = IF a \in Survivor THEN heap[a] ELSE Free  BY <1>1
  <2> QED BY <1>3, <2>1 DEF OnHeap
<1>5. WbMembers' = WbMembers /\ CiMembers' = CiMembers
  BY <1>1, <1>2, <1>3, SameTables DEF After
<1>6. WbMembers \cup CiMembers \subseteq SO
  BY <1>2 DEF WbMembers, CiMembers, After
<1>7. Live \subseteq SO /\ AllRoots' = AllRoots
  BY <1>1, LiveTraced DEF AllRoots
<1> HIDE DEF SO
<1>8. \A p \in Obj : edges'[p] = IF p \in SO THEN edges[p] ELSE {}
  BY <1>1
<1>9. ClosedUnder(AllRoots', edges', Live)
  BY <1>7, <1>8, ProgramTyped DEF ClosedUnder
<1>10. Live' \subseteq Live
  BY <1>9, LiveShrinks
<1>11. Live \subseteq Live'
  <2>1. AllRoots' \in SUBSET Obj /\ edges' \in [Obj -> SUBSET Obj]
    BY DEF ScanInv, RootScanningTyped, AllRoots
  <2>2. Live' \in SUBSET Obj /\ ClosedUnder(AllRoots', edges', Live')
    BY <2>1, LiveIsReached, ReachedIsLeast
  <2>3. \A p \in Live' : edges'[p] = edges[p]
    BY <1>7, <1>8, <1>10, <2>2
  <2>4. ClosedUnder(AllRoots, edges, Live')
    BY <1>7, <2>2, <2>3 DEF ClosedUnder
  <2> QED BY <2>2, <2>4, ProgramTyped, LiveIsReached, ReachedIsLeast
<1>12. WbNeeded' = WbNeeded /\ CiNeeded' = CiNeeded
  BY <1>1, <1>4, <1>7, <1>10, <1>11 DEF WbNeeded, CiNeeded
<1>13. SO \subseteq OnHeap
  BY <1>3 DEF SO, OnHeap
<1>14. PICK S \in SUBSET Obj : S = OnHeap \ SO
  BY TablesInUse
<1>15. OnHeap' = OnHeap \ S
  BY <1>4, <1>13, <1>14
<1>16. S \cap (WbNeeded \cup WbMembers) = {} /\ S \cap (CiNeeded \cup CiMembers) = {}
  BY <1>6, <1>7, <1>14 DEF WbNeeded, CiNeeded
<1>17. WbStep  BY <1>5, <1>12, <1>15, <1>16 DEF WbStep, RegistryStep
<1>18. CiStep  BY <1>5, <1>12, <1>15, <1>16 DEF CiStep, RegistryStep
<1> QED BY <1>17, <1>18

LEMMA StepRegistries ==
  ASSUME ScanInv, [Next]_vars
  PROVE  WbStep /\ CiStep
<1>1. ScanInv'  BY NextScanInv
<1>2. CASE Mutator  BY <1>1, <1>2, MutatorRegistries
<1>3. CASE \E copies \in Copies : EndPrepare(copies)  BY <1>1, <1>3, TracingRegistries
<1>4. CASE EndGC  BY <1>1, <1>4, ReclaimRegistries
<1>5. ASSUME NEW w \in Worker, WorkerStep(w)
      PROVE  WbStep /\ CiStep
  <2>1. CASE UpdateCiTable(w) \/ UpdateWbUnprotectedObjectsList(w)  BY <2>1, UpdateRegistries
  <2>2. ASSUME ~UpdateCiTable(w), ~UpdateWbUnprotectedObjectsList(w)
        PROVE  UNCHANGED <<heap, edges, roots, unprotected, interned, registry, ciTable>>
    <3> USE DEF heapVars, programVars, tableVars
    <3>1. CASE \E p \in bucket : Take(w, p)  BY <3>1 DEF Take
    <3>2. CASE ScanVMSpecificRoots(w)  BY <3>2 DEF ScanVMSpecificRoots
    <3>3. CASE \E a \in uncollected : AddToVec(w, a)  BY <3>3 DEF AddToVec
    <3>4. CASE AddWbUnprotectedPackets(w)  BY <3>4 DEF AddWbUnprotectedPackets
    <3>5. CASE CollectObjectRootsIn(w)  BY <3>5 DEF CollectObjectRootsIn
    <3>6. CASE \E a \in todo[w] : VisitRoot(w, a)  BY <3>6 DEF VisitRoot
    <3>7. CASE EndCollect(w)  BY <3>7 DEF EndCollect
    <3>8. CASE ProcessWeakStuff(w)  BY <3>8 DEF ProcessWeakStuff
    <3>9. CASE StartUpdateCiTable(w)  BY <3>9 DEF StartUpdateCiTable
    <3> QED BY <1>5, <2>2, <3>1, <3>2, <3>3, <3>4, <3>5, <3>6, <3>7, <3>8, <3>9 DEF WorkerStep
  <2> QED BY <1>1, <2>1, <2>2, QuietRegistries
<1>6. CASE UNCHANGED vars
  BY <1>1, <1>6, QuietRegistries DEF vars, heapVars, programVars, tableVars
<1> QED BY <1>2, <1>3, <1>4, <1>5, <1>6 DEF Next, Collector

LEMMA InitRegistries == Init => WbRegistry!Init /\ CiRegistry!Init
<1> SUFFICES ASSUME Init PROVE WbRegistry!Init /\ CiRegistry!Init
  OBVIOUS
<1>1. OnHeap = {}  BY DEF Init, HeapInit, OnHeap
<1>2. unprotected = {} /\ interned = {} /\ registry = {} /\ ciTable = {}
  BY DEF Init, HeapInit
<1> QED BY <1>1, <1>2 DEF WbRegistry!Init, CiRegistry!Init

(* wb_unprotected_objects and the ci table are weak registries: through    *)
(* nursery and full collections, copying, and packets in any order, no     *)
(* live member is lost, and none is reclaimed before it is taken out.      *)
THEOREM RootScanningImplementsRegistries == Spec => ImplementsRegistries
<1>1. ScanInv /\ [Next]_vars => [WbRegistry!Next]_(WbRegistry!vars)
  BY StepRegistries, StepOfWb
<1>2. ScanInv /\ [Next]_vars => [CiRegistry!Next]_(CiRegistry!vars)
  BY StepRegistries, StepOfCi
<1>3. Spec => WbRegistry!Spec
  BY <1>1, InitRegistries, ScanInvariant, PTL DEF Spec, WbRegistry!Spec
<1>4. Spec => CiRegistry!Spec
  BY <1>2, InitRegistries, ScanInvariant, PTL DEF Spec, CiRegistry!Spec
<1> QED BY <1>3, <1>4 DEF ImplementsRegistries
=============================================================================
