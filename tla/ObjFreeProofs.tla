---------------------------- MODULE ObjFreeProofs ----------------------------
(***************************************************************************)
(* Proofs about ObjFree, for every heap and set of workers.                *)
(*                                                                         *)
(* FreeInv is the inductive invariant: one packet after the other is on    *)
(* its way in VMRefClosure (PacketsFit), what forwarding means (HeapFits), *)
(* which candidates exist and survive at which point (CandidatesFit), and  *)
(* that every registered object is in one place (OnePlace), told by index  *)
(* so that EachCandidateOnce follows at the end.                           *)
(***************************************************************************)
EXTENDS ObjFree, TLAPS

SchedTypeOK ==
  /\ bucket \in [GCStage -> SUBSET PacketSet]
  /\ running \in [Worker -> PacketSet \cup {NoPacket}]

AllIdle == \A w \in Worker : running[w] = NoPacket

(* At most one packet exists, and only in VMRefClosure.                    *)
PacketsFit ==
  /\ \A s \in GCStage : bucket[s] # {} => s = "VMRefClosure" /\ stage = s /\ AllIdle
  /\ ~AllIdle => stage = "VMRefClosure"
  /\ \A p, q \in bucket["VMRefClosure"] : p = q
  /\ \A v, w \in Worker : running[v] # NoPacket /\ running[w] # NoPacket => v = w

(* ProcessObjFreeCandidates is done and the memory not yet reclaimed.      *)
AllProcessed ==
  \/ stage = "Release"
  \/ stage = "VMRefClosure" /\ bucket["VMRefClosure"] = {} /\ AllIdle

HeapFits ==
  /\ stage \in {"Mutator", "Prepare"} => reached = {} /\ \A a \in Addr : fwd[a] = a
  /\ \A a \in Addr : fwd[a] # a =>
       a \in reached /\ heap[fwd[a]] = heap[a] /\ fwd[fwd[a]] = fwd[a]
  /\ \A a \in reached : heap[a] # Free
  /\ \A a, b \in Addr : heap[a] = heap[b] /\ heap[a] # Free =>
       a = b \/ fwd[a] = b \/ fwd[b] = a
  /\ live \subseteq OnHeap
  /\ stage \in {"VMRefClosure", "Release"} =>
       \A a \in FromSpace : heap[a] \in live => a \in reached

CandidatesFit ==
  /\ \A i \in next .. Len(cands) : heap[cands[i]] # Free
  /\ stage \in {"Closure", "VMRefClosure"} /\ ~AllProcessed =>
       \A i \in next .. Len(cands) : cands[i] \in FromSpace
  /\ AllProcessed => \A i \in DOMAIN cands : cands[i] \in Survivor
  /\ \A i \in DOMAIN newCands : newCands[i] \in Survivor
  /\ ~(\E w \in Worker : Runs(w, "ProcessObjFreeCandidates")) => next = 1 /\ newCands = <<>>
  /\ exiting => stage = "Mutator" /\ cands = <<>>
  /\ ~exiting => rawVec = <<>>
  /\ \A i \in DOMAIN rawVec : heap[rawVec[i]] # Free

(* The objects still waiting, list by list.                                *)
AtCands(o) == \E i \in next .. Len(cands) : heap[cands[i]] = o
AtNew(o) == \E i \in DOMAIN newCands : heap[newCands[i]] = o
AtRaw(o) == \E i \in DOMAIN rawVec : heap[rawVec[i]] = o
Waits(o) == AtCands(o) \/ AtNew(o) \/ AtRaw(o)

OnePlace ==
  /\ freed \cup registered \subseteq OnHeap
  /\ freed \subseteq registered
  /\ \A o \in registered \ freed : Waits(o)
  /\ \A i \in next .. Len(cands) :
       heap[cands[i]] \in registered \ freed /\ ~AtNew(heap[cands[i]])
  /\ \A i \in DOMAIN newCands : heap[newCands[i]] \in registered \ freed
  /\ \A i \in DOMAIN rawVec : heap[rawVec[i]] \in registered \ freed
  /\ \A i, j \in next .. Len(cands) : heap[cands[i]] = heap[cands[j]] => i = j
  /\ \A i, j \in DOMAIN newCands : heap[newCands[i]] = heap[newCands[j]] => i = j
  /\ \A i, j \in DOMAIN rawVec : heap[rawVec[i]] = heap[rawVec[j]] => i = j

FreeInv ==
  /\ ObjFreeTyped /\ SchedTypeOK /\ PacketsFit /\ HeapFits /\ CandidatesFit
  /\ OnePlace /\ OnlyGarbageFreed

-----------------------------------------------------------------------------
LEMMA InitFreeInv == ObjFreeInit => FreeInv
<1> SUFFICES ASSUME ObjFreeInit PROVE FreeInv
  OBVIOUS
<1> USE DEF ObjFreeInit, CoreInit
<1>1. ObjFreeTyped
  <2>1. CoreTypeOK  BY DEF CoreTypeOK, Stage
  <2>2. <<>> \in Seq(Addr) /\ Len(<<>>) = 0  OBVIOUS
  <2>3. next \in 1 .. Len(cands) + 1  BY <2>2
  <2> QED BY <2>1, <2>2, <2>3 DEF ObjFreeTyped
<1>2. SchedTypeOK  BY DEF SchedTypeOK
<1>3. PacketsFit  BY DEF PacketsFit, AllIdle, GCStage
<1>4. HeapFits  BY DEF HeapFits
<1>5. CandidatesFit  BY DEF CandidatesFit, AllProcessed
<1>6. OnePlace  BY DEF OnePlace
<1>7. OnlyGarbageFreed  BY DEF OnlyGarbageFreed
<1> QED BY <1>1, <1>2, <1>3, <1>4, <1>5, <1>6, <1>7 DEF FreeInv

-----------------------------------------------------------------------------
(* Nothing is under way outside VMRefClosure.                              *)
LEMMA NothingUnderWay ==
  ASSUME FreeInv, stage # "VMRefClosure"
  PROVE  AllIdle /\ newCands = <<>> /\ next = 1 /\ \A s \in GCStage : bucket[s] = {}
<1>1. AllIdle /\ \A s \in GCStage : bucket[s] = {}  BY DEF FreeInv, PacketsFit
<1>2. ~(\E w \in Worker : Runs(w, "ProcessObjFreeCandidates"))
  BY <1>1, ObjFreeAssumption DEF AllIdle, Runs, PacketSet
<1> QED BY <1>1, <1>2 DEF FreeInv, CandidatesFit

LEMMA WaitingTyped ==
  ASSUME FreeInv
  PROVE  /\ \A i \in next .. Len(cands) : cands[i] \in Addr
         /\ \A i \in DOMAIN cands : cands[i] \in Addr
         /\ \A i \in DOMAIN newCands : newCands[i] \in Addr
         /\ \A i \in DOMAIN rawVec : rawVec[i] \in Addr
BY DEF FreeInv, ObjFreeTyped

-----------------------------------------------------------------------------
(* The program.                                                            *)

LEMMA NewFreeInv ==
  ASSUME FreeInv, NEW o \in Obj, NEW a \in Addr, NEW S \in SUBSET live, New(o, a, S)
  PROVE  FreeInv'
<1> USE DEF FreeInv, New, Alloc, freeVars, listVars, historyVars, schedVars
<1>1. ObjFreeTyped'  BY DEF ObjFreeTyped, CoreTypeOK
<1>2. SchedTypeOK' /\ PacketsFit'  BY DEF SchedTypeOK, PacketsFit, AllIdle
<1>3. /\ o # Free
      /\ \A b \in Addr : heap'[b] = IF b = a THEN o ELSE heap[b]
      /\ \A b \in Addr : heap[b] # Free => b # a /\ heap[b] # o
      /\ OnHeap' = OnHeap \cup {o}
  BY CoreAssumption DEF OnHeap, ObjFreeTyped, CoreTypeOK
<1>4. HeapFits'
  BY <1>3 DEF HeapFits, ObjFreeTyped, CoreTypeOK
<1>5. newCands = <<>>  BY NothingUnderWay
<1>6. /\ \A i \in next .. Len(cands) : cands[i] \in Addr /\ heap[cands[i]] # Free
      /\ \A i \in DOMAIN rawVec : rawVec[i] \in Addr /\ heap[rawVec[i]] # Free
  BY WaitingTyped DEF CandidatesFit
<1>7. /\ \A i \in next .. Len(cands) : heap'[cands[i]] = heap[cands[i]]
      /\ \A i \in DOMAIN rawVec : heap'[rawVec[i]] = heap[rawVec[i]]
  BY <1>3, <1>6
<1>8. CandidatesFit'
  <2>1. ~AllProcessed'  BY DEF AllProcessed
  <2>2. \A w \in Worker :
          Runs(w, "ProcessObjFreeCandidates")' <=> Runs(w, "ProcessObjFreeCandidates")
    BY DEF Runs
  <2> QED BY <1>5, <1>7, <2>1, <2>2 DEF CandidatesFit
<1>9. OnePlace'
  <2>1. \A p \in registered : Waits(p) => Waits(p)'
    BY <1>5, <1>7 DEF Waits, AtCands, AtNew, AtRaw
  <2>2. \A p : ~AtNew(p)'  BY <1>5 DEF AtNew
  <2> QED BY <1>3, <1>5, <1>7, <2>1, <2>2 DEF OnePlace
<1>10. OnlyGarbageFreed'
  BY <1>3 DEF OnlyGarbageFreed, OnePlace, OnHeap
<1> QED BY <1>1, <1>2, <1>4, <1>8, <1>9, <1>10

LEMMA ForgetFreeInv ==
  ASSUME FreeInv, NEW o \in live, Forget(o)
  PROVE  FreeInv'
<1> USE DEF FreeInv, Forget, Drop, freeVars, listVars, historyVars, schedVars
<1>1. ObjFreeTyped' /\ SchedTypeOK' /\ PacketsFit'
  BY DEF ObjFreeTyped, CoreTypeOK, SchedTypeOK, PacketsFit, AllIdle
<1>2. HeapFits'  BY DEF HeapFits, OnHeap
<1>3. CandidatesFit'
  BY DEF CandidatesFit, AllProcessed, AllIdle, Runs, Survivor, FromSpace
<1>4. OnePlace' /\ OnlyGarbageFreed'
  BY DEF OnePlace, OnlyGarbageFreed, Waits, AtCands, AtNew, AtRaw, OnHeap
<1> QED BY <1>1, <1>2, <1>3, <1>4

LEMMA StopFreeInv ==
  ASSUME FreeInv, NEW mayMove \in BOOLEAN, StopAllMutators(mayMove)
  PROVE  FreeInv'
<1> USE DEF FreeInv, StopAllMutators, StartGC, freeVars, listVars, historyVars
<1>1. AllIdle /\ \A s \in GCStage : bucket[s] = {}  BY NothingUnderWay
<1>2. \A s \in GCStage : bucket'[s] = {}
  BY <1>1 DEF SchedTypeOK
<1>3. ObjFreeTyped' /\ SchedTypeOK' /\ PacketsFit'
  BY <1>1, <1>2 DEF ObjFreeTyped, CoreTypeOK, SchedTypeOK, PacketsFit, AllIdle, Stage, GCStage
<1>4. HeapFits'  BY DEF HeapFits, OnHeap
<1>5. CandidatesFit'
  BY DEF CandidatesFit, AllProcessed, Runs, Survivor
<1>6. OnePlace' /\ OnlyGarbageFreed'
  BY DEF OnePlace, OnlyGarbageFreed, Waits, AtCands, AtNew, AtRaw, OnHeap
<1> QED BY <1>3, <1>4, <1>5, <1>6

LEMMA AddFreeInv ==
  ASSUME FreeInv, NEW n \in 1 .. 2, NEW objects \in [1 .. n -> AddrsOf(live)],
         AddCandidates(objects)
  PROVE  FreeInv'
<1> USE DEF FreeInv, AddCandidates, coreVars, heapVars, schedVars
<1>1. newCands = <<>> /\ next = 1  BY NothingUnderWay
<1>2. rawVec = <<>>  BY DEF CandidatesFit
<1>3. objects \in Seq(Addr) /\ DOMAIN objects = 1 .. n /\ Len(objects) = n
  BY DEF AddrsOf
<1>4. cands \in Seq(Addr) /\ DOMAIN cands = 1 .. Len(cands) /\ Len(cands) \in Nat
  BY DEF ObjFreeTyped
<1>5. /\ cands' \in Seq(Addr) /\ Len(cands') = Len(cands) + n
      /\ DOMAIN cands' = 1 .. Len(cands')
      /\ \A i \in 1 .. Len(cands) : cands'[i] = cands[i]
      /\ \A i \in Len(cands) + 1 .. Len(cands) + n :
           i - Len(cands) \in 1 .. n /\ cands'[i] = objects[i - Len(cands)]
      /\ \A i \in 1 .. n : cands'[Len(cands) + i] = objects[i]
  BY <1>3, <1>4
<1>6. \A i \in 1 .. n : objects[i] \in Addr /\ heap[objects[i]] \in live \ registered
  BY <1>3 DEF AddrsOf
<1>7. \A i, j \in 1 .. n : heap[objects[i]] = heap[objects[j]] => i = j
  <2> SUFFICES ASSUME NEW i \in 1 .. n, NEW j \in 1 .. n, heap[objects[i]] = heap[objects[j]]
               PROVE  i = j
    OBVIOUS
  <2>1. heap[objects[i]] # Free
    BY <1>6, CoreAssumption DEF ObjFreeTyped, CoreTypeOK
  <2>2. objects[i] = objects[j]
    BY <1>6, <2>1 DEF HeapFits
  <2> QED BY <1>3, <2>2 DEF IsInjective
<1>8. ObjFreeTyped'
  <2>1. CoreTypeOK'  BY DEF ObjFreeTyped, CoreTypeOK
  <2>2. next \in 1 .. Len(cands') + 1  BY <1>1, <1>4, <1>5
  <2>3. registered' \subseteq Obj
    BY <1>3, <1>6 DEF ObjFreeTyped, CoreTypeOK
  <2> QED BY <1>5, <2>1, <2>2, <2>3 DEF ObjFreeTyped
<1>9. SchedTypeOK' /\ PacketsFit' /\ HeapFits'
  BY DEF SchedTypeOK, PacketsFit, AllIdle, HeapFits, OnHeap, FromSpace
<1>10. CandidatesFit'
  <2>1. ~AllProcessed'  BY DEF AllProcessed
  <2>2. \A i \in 1 .. Len(cands') : heap[cands'[i]] # Free
    BY <1>1, <1>4, <1>5, <1>6, CoreAssumption DEF CandidatesFit, ObjFreeTyped, CoreTypeOK
  <2> QED BY <1>1, <1>2, <2>1, <2>2 DEF CandidatesFit
<1>11. OnePlace'
  <2>1. \A i \in 1 .. Len(cands') : heap[cands'[i]] \in registered' \ freed'
    BY <1>1, <1>3, <1>4, <1>5, <1>6 DEF OnePlace
  <2>2. \A i, j \in 1 .. Len(cands') : heap[cands'[i]] = heap[cands'[j]] => i = j
    <3>1. \A i \in 1 .. Len(cands), j \in Len(cands) + 1 .. Len(cands) + n :
            heap[cands'[i]] # heap[cands'[j]]
      BY <1>1, <1>4, <1>5, <1>6 DEF OnePlace
    <3>2. \A i, j \in 1 .. Len(cands) : heap[cands'[i]] = heap[cands'[j]] => i = j
      BY <1>1, <1>5 DEF OnePlace
    <3>3. \A i, j \in Len(cands) + 1 .. Len(cands) + n :
            heap[cands'[i]] = heap[cands'[j]] => i = j
      BY <1>4, <1>5, <1>7
    <3> QED BY <1>4, <1>5, <3>1, <3>2, <3>3
  <2>3. \A o \in registered' \ freed' : AtCands(o)'
    <3> SUFFICES ASSUME NEW o \in registered' \ freed' PROVE AtCands(o)'
      OBVIOUS
    <3>1. CASE o \in registered
      <4>1. AtCands(o)
        BY <1>1, <1>2, <3>1 DEF OnePlace, Waits, AtNew, AtRaw
      <4> QED BY <1>1, <1>4, <1>5, <4>1 DEF AtCands
    <3>2. CASE o \notin registered
      <4>1. PICK i \in 1 .. n : heap[objects[i]] = o  BY <1>3, <3>2
      <4>2. Len(cands) + i \in 1 .. Len(cands')  BY <1>4, <1>5
      <4> QED BY <1>1, <1>5, <4>1, <4>2 DEF AtCands
    <3> QED BY <3>1, <3>2
  <2>4. registered' \subseteq OnHeap /\ OnHeap' = OnHeap
    BY <1>3, <1>6, CoreAssumption DEF OnePlace, OnHeap, ObjFreeTyped, CoreTypeOK
  <2>5. freed' \subseteq registered'  BY DEF OnePlace
  <2>6. \A o : ~AtNew(o)'  BY <1>1 DEF AtNew
  <2> QED BY <1>1, <1>2, <2>1, <2>2, <2>3, <2>4, <2>5, <2>6 DEF OnePlace, Waits
<1>12. OnlyGarbageFreed'  BY DEF OnlyGarbageFreed
<1> QED BY <1>8, <1>9, <1>10, <1>11, <1>12

LEMMA TakeAllFreeInv ==
  ASSUME FreeInv, TakeAllCandidates
  PROVE  FreeInv'
<1> USE DEF FreeInv, TakeAllCandidates, coreVars, heapVars, schedVars, historyVars
<1>1. newCands = <<>> /\ next = 1 /\ rawVec = <<>>
  BY NothingUnderWay DEF CandidatesFit
<1>2. cands \in Seq(Addr) /\ DOMAIN cands = 1 .. Len(cands) /\ Len(<<>>) = 0
  BY DEF ObjFreeTyped
<1>3. ObjFreeTyped'
  <2>1. CoreTypeOK'  BY DEF ObjFreeTyped, CoreTypeOK
  <2>2. cands' \in Seq(Addr) /\ next' \in 1 .. Len(cands') + 1  BY <1>1, <1>2
  <2> QED BY <2>1, <2>2 DEF ObjFreeTyped
<1>4. SchedTypeOK' /\ PacketsFit' /\ HeapFits'
  BY DEF SchedTypeOK, PacketsFit, AllIdle, HeapFits, OnHeap, FromSpace
<1>5. CandidatesFit'
  BY <1>1, <1>2 DEF CandidatesFit, AllProcessed, Runs, Survivor
<1>6. OnePlace'
  <2>1. \A o \in registered \ freed : AtRaw(o)'
    BY <1>1, <1>2 DEF OnePlace, Waits, AtCands, AtNew, AtRaw
  <2>2. 1 .. Len(cands') = {}  BY <1>2
  <2>3. /\ \A i \in DOMAIN rawVec' : heap[rawVec'[i]] \in registered \ freed
        /\ \A i, j \in DOMAIN rawVec' : heap[rawVec'[i]] = heap[rawVec'[j]] => i = j
    BY <1>1, <1>2 DEF OnePlace
  <2>4. OnHeap' = OnHeap  BY DEF OnHeap
  <2> QED BY <1>1, <2>1, <2>2, <2>3, <2>4 DEF OnePlace, Waits
<1>7. OnlyGarbageFreed'  BY DEF OnlyGarbageFreed
<1> QED BY <1>3, <1>4, <1>5, <1>6, <1>7

LEMMA FreeAtExitFreeInv ==
  ASSUME FreeInv, FreeAtExit
  PROVE  FreeInv'
<1> USE DEF FreeInv, FreeAtExit, coreVars, heapVars, schedVars, listVars
<1>1. exiting /\ stage = "Mutator" /\ cands = <<>> /\ newCands = <<>> /\ next = 1
  BY NothingUnderWay DEF CandidatesFit
<1>2. rawVec \in Seq(Addr) /\ Len(rawVec) \in Nat \ {0} /\ DOMAIN rawVec = 1 .. Len(rawVec)
  BY DEF ObjFreeTyped
<1>3. /\ rawVec' \in Seq(Addr) /\ Len(rawVec') = Len(rawVec) - 1
      /\ DOMAIN rawVec' = 1 .. Len(rawVec) - 1
      /\ \A i \in 1 .. Len(rawVec) - 1 : i + 1 \in 1 .. Len(rawVec) /\ rawVec'[i] = rawVec[i + 1]
      /\ Head(rawVec) = rawVec[1] /\ 1 \in 1 .. Len(rawVec)
  BY <1>2
<1>4. heap[rawVec[1]] \in registered \ freed /\ heap[rawVec[1]] # Free
  BY <1>2, <1>3 DEF OnePlace, CandidatesFit
<1>5. ObjFreeTyped'
  <2>1. freed' \subseteq Obj  BY <1>3, <1>4 DEF ObjFreeTyped
  <2> QED BY <1>3, <2>1 DEF ObjFreeTyped, CoreTypeOK
<1>6. SchedTypeOK' /\ PacketsFit' /\ HeapFits'
  BY DEF SchedTypeOK, PacketsFit, AllIdle, HeapFits, OnHeap, FromSpace
<1>7. CandidatesFit'
  BY <1>1, <1>2, <1>3 DEF CandidatesFit, AllProcessed, Runs, Survivor
<1>8. OnePlace'
  <2>1. \A i \in DOMAIN rawVec' : heap[rawVec'[i]] \in registered' \ freed'
    <3> SUFFICES ASSUME NEW i \in DOMAIN rawVec'
                 PROVE  heap[rawVec[i + 1]] \in registered \ freed /\ heap[rawVec[i + 1]] # heap[rawVec[1]]
      BY <1>3
    <3>1. i + 1 \in DOMAIN rawVec /\ 1 \in DOMAIN rawVec /\ i + 1 # 1  BY <1>2, <1>3
    <3> QED BY <3>1 DEF OnePlace
  <2>2. \A i, j \in DOMAIN rawVec' : heap[rawVec'[i]] = heap[rawVec'[j]] => i = j
    <3> SUFFICES ASSUME NEW i \in DOMAIN rawVec', NEW j \in DOMAIN rawVec',
                        heap[rawVec[i + 1]] = heap[rawVec[j + 1]]
                 PROVE  i = j
      BY <1>3
    <3>1. i + 1 \in DOMAIN rawVec /\ j + 1 \in DOMAIN rawVec /\ i \in Nat /\ j \in Nat
      BY <1>2, <1>3
    <3>2. i + 1 = j + 1  BY <3>1 DEF OnePlace
    <3> QED BY <3>1, <3>2
  <2>3. \A o \in registered' \ freed' : AtRaw(o)'
    <3> SUFFICES ASSUME NEW o \in registered' \ freed' PROVE AtRaw(o)'
      OBVIOUS
    <3>1. AtRaw(o)  BY <1>1 DEF OnePlace, Waits, AtCands, AtNew
    <3>2. PICK i \in 1 .. Len(rawVec) : heap[rawVec[i]] = o  BY <1>2, <3>1 DEF AtRaw
    <3>3. i # 1  BY <1>3, <3>2
    <3>4. i - 1 \in 1 .. Len(rawVec) - 1 /\ (i - 1) + 1 = i  BY <1>2, <3>3
    <3>5. rawVec'[i - 1] = rawVec[i]  BY <1>3, <3>4
    <3> QED BY <1>3, <3>2, <3>4, <3>5 DEF AtRaw
  <2>4. OnHeap' = OnHeap  BY DEF OnHeap
  <2>5. freed' \subseteq registered'  BY <1>3, <1>4 DEF OnePlace
  <2>6. 1 .. Len(cands) = {}  BY <1>1
  <2> QED BY <1>1, <2>1, <2>2, <2>3, <2>4, <2>5, <2>6 DEF OnePlace, Waits
<1>9. OnlyGarbageFreed'  BY <1>1 DEF OnlyGarbageFreed
<1> QED BY <1>5, <1>6, <1>7, <1>8, <1>9

-----------------------------------------------------------------------------
(* Tracing.                                                                *)

LEMMA TraceInPlaceFreeInv ==
  ASSUME FreeInv, NEW a \in Addr, TraceInPlace(a), UNCHANGED freeVars
  PROVE  FreeInv'
<1> USE DEF FreeInv, TraceInPlace, freeVars, listVars, historyVars, schedVars
<1>1. ObjFreeTyped' /\ SchedTypeOK' /\ PacketsFit'
  BY DEF ObjFreeTyped, CoreTypeOK, SchedTypeOK, PacketsFit, AllIdle
<1>2. heap[a] # Free  BY DEF FromSpace
<1>3. HeapFits'
  BY <1>2 DEF HeapFits, OnHeap
<1>4. CandidatesFit'
  <2>1. newCands = <<>>  BY NothingUnderWay
  <2> QED BY <2>1 DEF CandidatesFit, AllProcessed, AllIdle, Runs, FromSpace
<1>5. OnePlace' /\ OnlyGarbageFreed'
  BY DEF OnePlace, OnlyGarbageFreed, Waits, AtCands, AtNew, AtRaw, OnHeap
<1> QED BY <1>1, <1>3, <1>4, <1>5

LEMMA TraceAndCopyFreeInv ==
  ASSUME FreeInv, NEW a \in Addr, NEW b \in Addr, TraceAndCopy(a, b), UNCHANGED freeVars
  PROVE  FreeInv'
<1> USE DEF FreeInv, TraceAndCopy, freeVars, listVars, historyVars, schedVars
<1>1. ObjFreeTyped' /\ SchedTypeOK' /\ PacketsFit'
  BY DEF ObjFreeTyped, CoreTypeOK, SchedTypeOK, PacketsFit, AllIdle
<1>2. heap[a] # Free /\ heap[b] = Free /\ a # b /\ fwd[a] = a /\ fwd[b] = b
  BY DEF FromSpace, HeapFits
<1>3. /\ \A c \in Addr : heap'[c] = IF c = b THEN heap[a] ELSE heap[c]
      /\ \A c \in Addr : fwd'[c] = IF c = a THEN b ELSE fwd[c]
      /\ \A c \in Addr : fwd[c] \in Addr
  BY DEF ObjFreeTyped, CoreTypeOK
<1>4. OnHeap' = OnHeap  BY <1>2, <1>3 DEF OnHeap
<1>5. HeapFits'
  <2>1. ASSUME NEW c \in Addr, fwd'[c] # c
        PROVE  /\ c \in reached' /\ heap'[fwd'[c]] = heap'[c] /\ fwd'[fwd'[c]] = fwd'[c]
    <3>1. CASE c = a  BY <1>2, <1>3, <3>1
    <3>2. CASE c # a
      <4>1. c \in reached /\ heap[fwd[c]] = heap[c] /\ fwd[fwd[c]] = fwd[c] /\ heap[c] # Free
        BY <1>3, <2>1, <3>2 DEF HeapFits
      <4>2. fwd[c] # a  BY <3>2 DEF FromSpace
      <4>3. fwd[c] # b /\ c # b  BY <1>2, <4>1
      <4> QED BY <1>3, <3>2, <4>1, <4>2, <4>3
    <3> QED BY <3>1, <3>2
  <2>2. \A c \in reached' : heap'[c] # Free
    BY <1>2, <1>3 DEF HeapFits, ObjFreeTyped, CoreTypeOK
  <2>3. ASSUME NEW c \in Addr, heap[c] = heap[a] PROVE c = a
    BY <1>2, <2>3 DEF HeapFits, FromSpace
  <2>4. \A c, d \in Addr : heap'[c] = heap'[d] /\ heap'[c] # Free =>
          c = d \/ fwd'[c] = d \/ fwd'[d] = c
    <3> SUFFICES ASSUME NEW c \in Addr, NEW d \in Addr, heap'[c] = heap'[d], heap'[c] # Free
                 PROVE  c = d \/ fwd'[c] = d \/ fwd'[d] = c
      OBVIOUS
    <3>1. CASE c = b
      <4>1. d = b \/ d = a  BY <1>3, <2>3, <3>1
      <4> QED BY <1>3, <3>1, <4>1
    <3>2. CASE d = b
      <4>1. c = b \/ c = a  BY <1>3, <2>3, <3>2
      <4> QED BY <1>3, <3>2, <4>1
    <3>3. CASE c # b /\ d # b
      <4>1. c = d \/ fwd[c] = d \/ fwd[d] = c  BY <1>3, <3>3 DEF HeapFits
      <4> QED BY <1>2, <1>3, <4>1
    <3> QED BY <3>1, <3>2, <3>3
  <2> QED BY <1>4, <2>1, <2>2, <2>4 DEF HeapFits
<1>6. /\ \A i \in next .. Len(cands) : cands[i] # b /\ heap'[cands[i]] = heap[cands[i]]
      /\ newCands = <<>> /\ rawVec = <<>> /\ ~exiting
  BY NothingUnderWay, WaitingTyped, <1>2, <1>3 DEF CandidatesFit
<1>7. CandidatesFit'
  <2>1. ~AllProcessed /\ ~AllProcessed'  BY DEF AllProcessed
  <2>2. \A i \in next .. Len(cands) : cands[i] \in FromSpace'
    BY WaitingTyped, <1>2, <1>3, <1>6, <2>1 DEF CandidatesFit, FromSpace
  <2>3. \A w \in Worker :
          Runs(w, "ProcessObjFreeCandidates")' <=> Runs(w, "ProcessObjFreeCandidates")
    BY DEF Runs
  <2> QED BY <1>6, <2>1, <2>2, <2>3 DEF CandidatesFit
<1>8. OnePlace' /\ OnlyGarbageFreed'
  <2>1. \A o : AtCands(o)' <=> AtCands(o)  BY <1>6 DEF AtCands
  <2>2. \A o : (Waits(o)' <=> Waits(o)) /\ ~AtNew(o) /\ ~AtNew(o)'
    BY <1>6, <2>1 DEF Waits, AtNew, AtRaw
  <2> QED BY <1>4, <1>6, <2>2 DEF OnePlace, OnlyGarbageFreed
<1> QED BY <1>1, <1>5, <1>7, <1>8

-----------------------------------------------------------------------------
(* The stages.                                                             *)

LEMMA EndPrepareFreeInv ==
  ASSUME FreeInv, EndPrepare, UNCHANGED freeVars
  PROVE  FreeInv'
<1> USE DEF FreeInv, EndPrepare, Advance, freeVars, listVars, historyVars, schedVars, heapVars
<1>1. ObjFreeTyped' /\ SchedTypeOK' /\ PacketsFit'
  BY NothingUnderWay DEF ObjFreeTyped, CoreTypeOK, SchedTypeOK, PacketsFit, AllIdle, Stage,
     GCStage
<1>2. HeapFits'  BY DEF HeapFits, OnHeap
<1>3. CandidatesFit'
  <2>1. ~AllProcessed'  BY DEF AllProcessed
  <2>2. \A i \in next .. Len(cands) : cands[i] \in FromSpace'
    BY WaitingTyped DEF CandidatesFit, FromSpace, HeapFits
  <2> QED BY <2>1, <2>2 DEF CandidatesFit, Runs, Survivor
<1>4. OnePlace' /\ OnlyGarbageFreed'
  BY DEF OnePlace, OnlyGarbageFreed, Waits, AtCands, AtNew, AtRaw, OnHeap
<1> QED BY <1>1, <1>2, <1>3, <1>4

LEMMA EndClosureFreeInv ==
  ASSUME FreeInv, EndClosure(Sentinel), UNCHANGED freeVars
  PROVE  FreeInv'
<1> USE DEF FreeInv, EndClosure, Advance, freeVars, listVars, historyVars, schedVars, heapVars
<1>1. AllIdle /\ \A s \in GCStage : bucket[s] = {}  BY NothingUnderWay
<1>2. \A s \in GCStage : bucket'[s] = IF s = "VMRefClosure" THEN {Sentinel} ELSE {}
  BY <1>1 DEF SchedTypeOK
<1>3. "VMRefClosure" \in GCStage /\ Sentinel \in PacketSet
  BY DEF GCStage, PacketSet, Sentinel
<1>4. ObjFreeTyped'  BY DEF ObjFreeTyped, CoreTypeOK, Stage, GCStage
<1>5. SchedTypeOK'  BY <1>3 DEF SchedTypeOK
<1>6. PacketsFit'  BY <1>1, <1>2, <1>3 DEF PacketsFit, AllIdle
<1>7. HeapFits'  BY DEF HeapFits, OnHeap, FromSpace
<1>8. CandidatesFit'
  BY <1>2, <1>3 DEF CandidatesFit, AllProcessed, Runs, Survivor, FromSpace
<1>9. OnePlace' /\ OnlyGarbageFreed'
  BY DEF OnePlace, OnlyGarbageFreed, Waits, AtCands, AtNew, AtRaw, OnHeap
<1> QED BY <1>4, <1>5, <1>6, <1>7, <1>8, <1>9

LEMMA EndVMRefClosureFreeInv ==
  ASSUME FreeInv, EndVMRefClosure, UNCHANGED freeVars
  PROVE  FreeInv'
<1> USE DEF FreeInv, EndVMRefClosure, Advance, freeVars, listVars, historyVars, schedVars,
            heapVars
<1>1. ObjFreeTyped' /\ SchedTypeOK' /\ PacketsFit'
  BY DEF ObjFreeTyped, CoreTypeOK, SchedTypeOK, PacketsFit, AllIdle, Stage, GCStage
<1>2. HeapFits'  BY DEF HeapFits, OnHeap, FromSpace
<1>3. CandidatesFit'
  BY DEF CandidatesFit, AllProcessed, AllIdle, Runs, Survivor
<1>4. OnePlace' /\ OnlyGarbageFreed'
  BY DEF OnePlace, OnlyGarbageFreed, Waits, AtCands, AtNew, AtRaw, OnHeap
<1> QED BY <1>1, <1>2, <1>3, <1>4

(* What the program can use outlives the collection.                       *)
LEMMA LiveSurvives ==
  ASSUME FreeInv, stage = "Release"
  PROVE  \A o \in live : \E a \in Survivor : heap[a] = o
<1> SUFFICES ASSUME NEW o \in live PROVE \E a \in Survivor : heap[a] = o
  OBVIOUS
<1>1. PICK a \in Addr : heap[a] = o /\ o # Free
  BY DEF FreeInv, HeapFits, OnHeap
<1>2. CASE a \in FromSpace
  <2>1. a \in reached  BY <1>1, <1>2 DEF FreeInv, HeapFits
  <2>2. heap[fwd[a]] = heap[a]
    BY DEF FreeInv, HeapFits
  <2> QED BY <1>1, <2>1, <2>2 DEF Survivor
<1>3. CASE a \notin FromSpace
  <2>1. PICK b \in Addr : fwd[b] = a /\ b # a  BY <1>1, <1>3 DEF FromSpace
  <2>2. b \in reached  BY <2>1 DEF FreeInv, HeapFits
  <2> QED BY <1>1, <2>1, <2>2 DEF Survivor
<1> QED BY <1>2, <1>3

LEMMA SurvivorsFit ==
  ASSUME FreeInv
  PROVE  /\ \A a \in Survivor : a \in Addr /\ heap[a] # Free /\ fwd[a] = a
         /\ \A a, b \in Survivor : heap[a] = heap[b] => a = b
<1> USE DEF FreeInv
<1>1. ASSUME NEW a \in Survivor
      PROVE  a \in Addr /\ heap[a] # Free /\ fwd[a] = a
  <2>1. PICK c \in reached : a = fwd[c]  BY DEF Survivor
  <2>2. c \in Addr /\ a \in Addr  BY <2>1 DEF ObjFreeTyped, CoreTypeOK
  <2> QED BY <2>1, <2>2 DEF HeapFits
<1>2. ASSUME NEW a \in Survivor, NEW b \in Survivor, heap[a] = heap[b]
      PROVE  a = b
  BY <1>1, <1>2 DEF HeapFits
<1> QED BY <1>1, <1>2

LEMMA ReclaimFreeInv ==
  ASSUME FreeInv, ReclaimMemory
  PROVE  FreeInv'
<1> USE DEF FreeInv, ReclaimMemory, Reclaim, Advance, listVars, schedVars
<1>1. newCands = <<>> /\ next = 1 /\ rawVec = <<>> /\ ~exiting
  BY NothingUnderWay DEF CandidatesFit
<1>2. /\ \A a \in Addr : heap'[a] = IF a \in Survivor THEN heap[a] ELSE Free
      /\ \A a \in Survivor : a \in Addr /\ heap'[a] = heap[a] /\ heap[a] \in Obj /\ heap[a] # Free
  <2>1. \A a \in Survivor : a \in Addr /\ heap[a] # Free  BY SurvivorsFit
  <2> QED BY <2>1 DEF ObjFreeTyped, CoreTypeOK
<1>3. \A o : o \in OnHeap' <=> \E a \in Survivor : heap[a] = o
  BY <1>2 DEF OnHeap
<1>4. ObjFreeTyped'
  <2>1. heap' \in [Addr -> Obj \cup {Free}]
    BY <1>2 DEF ObjFreeTyped, CoreTypeOK
  <2>2. edges' \in [Obj -> SUBSET Obj]  BY DEF ObjFreeTyped, CoreTypeOK
  <2> QED BY <2>1, <2>2 DEF ObjFreeTyped, CoreTypeOK, Stage
<1>5. SchedTypeOK' /\ PacketsFit'
  BY NothingUnderWay DEF SchedTypeOK, PacketsFit, AllIdle, GCStage
<1>6. HeapFits'
  <2>1. \A a, b \in Addr : heap'[a] = heap'[b] /\ heap'[a] # Free => a = b
    BY <1>2, SurvivorsFit
  <2>2. live \subseteq OnHeap'  BY <1>3, LiveSurvives
  <2> QED BY <2>1, <2>2 DEF HeapFits
<1>7. \A i \in 1 .. Len(cands) : cands[i] \in Survivor
  BY DEF CandidatesFit, AllProcessed, ObjFreeTyped
<1>8. CandidatesFit'
  <2>1. ~AllProcessed'  BY DEF AllProcessed
  <2> QED BY <1>1, <1>2, <1>7, <2>1 DEF CandidatesFit
<1>9. OnePlace'
  <2>1. \A i \in 1 .. Len(cands) : heap'[cands[i]] = heap[cands[i]] /\ heap[cands[i]] \in OnHeap'
    BY <1>2, <1>3, <1>7
  <2>2. \A o : AtCands(o)' <=> AtCands(o)  BY <1>1, <2>1 DEF AtCands
  <2>3. \A o : ~AtNew(o) /\ ~AtNew(o)' /\ ~AtRaw(o)  BY <1>1 DEF AtNew, AtRaw
  <2>4. \A o \in registered' \ freed' : Waits(o)'
    BY <2>2, <2>3 DEF OnePlace, Waits
  <2> QED BY <1>1, <2>1, <2>3, <2>4 DEF OnePlace
<1>10. OnlyGarbageFreed'  BY <1>1 DEF OnlyGarbageFreed
<1> QED BY <1>4, <1>5, <1>6, <1>8, <1>9, <1>10

-----------------------------------------------------------------------------
(* The workers.                                                            *)

LEMMA TakeFreeInv ==
  ASSUME FreeInv, NEW w \in Worker, NEW s \in GCStage, NEW p \in bucket[s], Take(w, p)
  PROVE  FreeInv'
<1> USE DEF FreeInv, Take, TakePacket, freeVars, listVars, historyVars, heapVars
<1>1. stage = "VMRefClosure" /\ s = "VMRefClosure" /\ AllIdle /\ bucket[s] = {p}
      /\ p \in PacketSet
  BY DEF PacketsFit, SchedTypeOK
<1>2. /\ \A t \in GCStage : bucket'[t] = {}
      /\ \A v \in Worker : running'[v] = IF v = w THEN p ELSE NoPacket
      /\ p # NoPacket
  BY <1>1, ObjFreeAssumption DEF SchedTypeOK, PacketsFit, AllIdle
<1>3. ObjFreeTyped' /\ SchedTypeOK'
  BY <1>1 DEF ObjFreeTyped, CoreTypeOK, SchedTypeOK
<1>4. PacketsFit'  BY <1>1, <1>2 DEF PacketsFit, AllIdle, GCStage
<1>5. HeapFits'  BY DEF HeapFits, OnHeap, FromSpace
<1>6. CandidatesFit'
  <2>1. ~AllProcessed /\ ~AllProcessed'
    BY <1>1, <1>2 DEF AllProcessed, AllIdle
  <2>2. next = 1 /\ newCands = <<>>
    BY <1>1, ObjFreeAssumption DEF CandidatesFit, AllIdle, Runs, PacketSet
  <2> QED BY <2>1, <2>2 DEF CandidatesFit, FromSpace
<1>7. OnePlace' /\ OnlyGarbageFreed'
  BY DEF OnePlace, OnlyGarbageFreed, Waits, AtCands, AtNew, AtRaw, OnHeap
<1> QED BY <1>3, <1>4, <1>5, <1>6, <1>7

(* Where the sentinel and ProcessObjFreeCandidates run.                    *)
LEMMA RunnerAlone ==
  ASSUME FreeInv, NEW w \in Worker, NEW kind, Runs(w, kind), Packet(kind) \in PacketSet
  PROVE  /\ stage = "VMRefClosure" /\ \A s \in GCStage : bucket[s] = {}
         /\ \A v \in Worker : v # w => running[v] = NoPacket
         /\ running[w] # NoPacket
<1>1. running[w] # NoPacket  BY ObjFreeAssumption DEF Runs
<1> QED BY <1>1 DEF FreeInv, PacketsFit, AllIdle

LEMMA ProcessWeakStuffFreeInv ==
  ASSUME FreeInv, NEW w \in Worker, ProcessWeakStuff(w)
  PROVE  FreeInv'
<1> USE DEF FreeInv, ProcessWeakStuff, Finish, freeVars, listVars, historyVars, heapVars
<1> DEFINE p == Packet("ProcessObjFreeCandidates")
<1>1. /\ stage = "VMRefClosure" /\ \A s \in GCStage : bucket[s] = {}
      /\ \A v \in Worker : v # w => running[v] = NoPacket
      /\ running[w] # NoPacket
  BY RunnerAlone DEF PacketSet
<1>2. /\ \A s \in GCStage : bucket'[s] = IF s = "VMRefClosure" THEN {p} ELSE {}
      /\ \A v \in Worker : running'[v] = NoPacket
      /\ p \in PacketSet /\ "VMRefClosure" \in GCStage
  BY <1>1 DEF SchedTypeOK, PacketSet, GCStage
<1>3. ObjFreeTyped' /\ SchedTypeOK'
  BY <1>2 DEF ObjFreeTyped, CoreTypeOK, SchedTypeOK
<1>4. PacketsFit'  BY <1>1, <1>2 DEF PacketsFit, AllIdle
<1>5. HeapFits'  BY DEF HeapFits, OnHeap, FromSpace
<1>6. CandidatesFit'
  <2>1. ~AllProcessed /\ ~AllProcessed'
    BY <1>1, <1>2 DEF AllProcessed, AllIdle
  <2>2. ~\E v \in Worker : Runs(v, "ProcessObjFreeCandidates")
    BY <1>1, ObjFreeAssumption DEF Runs, PacketSet, Packet
  <2> QED BY <2>1, <2>2 DEF CandidatesFit, FromSpace
<1>7. OnePlace' /\ OnlyGarbageFreed'
  BY DEF OnePlace, OnlyGarbageFreed, Waits, AtCands, AtNew, AtRaw, OnHeap
<1> QED BY <1>3, <1>4, <1>5, <1>6, <1>7

LEMMA ProcessCandidateFreeInv ==
  ASSUME FreeInv, NEW w \in Worker, ProcessCandidate(w)
  PROVE  FreeInv'
<1> USE DEF FreeInv, ProcessCandidate, coreVars, heapVars, schedVars
<1> DEFINE r == cands[next]
<1>1. stage = "VMRefClosure" /\ running[w] # NoPacket /\ ~exiting /\ rawVec = <<>>
  BY RunnerAlone DEF PacketSet, CandidatesFit
<1>2. ~AllProcessed /\ ~AllProcessed'
  BY <1>1 DEF AllProcessed, AllIdle
<1>3. cands \in Seq(Addr) /\ newCands \in Seq(Addr) /\ next \in Nat \ {0} /\ Len(cands) \in Nat
      /\ Len(newCands) \in Nat /\ DOMAIN newCands = 1 .. Len(newCands)
      /\ next \in next .. Len(cands) /\ r \in Addr
  BY DEF ObjFreeTyped
<1>4. r \in FromSpace /\ heap[r] # Free /\ heap[r] \in registered \ freed /\ heap[r] \in Obj
  BY <1>1, <1>2, <1>3 DEF CandidatesFit, OnePlace, ObjFreeTyped
<1>5. \A i \in next + 1 .. Len(cands) :
        i \in next .. Len(cands) /\ cands[i] \in Addr /\ heap[cands[i]] # heap[r]
  BY <1>3, WaitingTyped DEF OnePlace
<1>6. SchedTypeOK' /\ PacketsFit' /\ HeapFits'
  BY DEF SchedTypeOK, PacketsFit, AllIdle, HeapFits, OnHeap, FromSpace
<1>7. CASE IsReachable(r)
  <2> DEFINE f == fwd[r]
  <2>1. newCands' = Append(newCands, f) /\ freed' = freed
    BY <1>3, <1>7 DEF Kept, Forward, FreedBy, ObjFreeTyped, CoreTypeOK
  <2>2. f \in Survivor /\ f \in Addr /\ heap[f] = heap[r]
    BY <1>3, <1>4, <1>7 DEF Survivor, IsReachable, HeapFits, ObjFreeTyped, CoreTypeOK
  <2>3. /\ newCands' \in Seq(Addr) /\ Len(newCands') = Len(newCands) + 1
        /\ DOMAIN newCands' = 1 .. Len(newCands) + 1
        /\ \A i \in 1 .. Len(newCands) : newCands'[i] = newCands[i]
        /\ newCands'[Len(newCands) + 1] = f
    BY <1>3, <2>1, <2>2
  <2>4. ObjFreeTyped'
    BY <1>3, <2>1, <2>3 DEF ObjFreeTyped, CoreTypeOK
  <2>5. CandidatesFit'
    <3>1. \A i \in DOMAIN newCands' : newCands'[i] \in Survivor'
      BY <1>3, <2>2, <2>3 DEF CandidatesFit, Survivor
    <3>2. \A i \in next' .. Len(cands) : cands[i] \in FromSpace' /\ heap[cands[i]] # Free
      BY <1>1, <1>2, <1>5 DEF CandidatesFit, FromSpace
    <3>3. Runs(w, "ProcessObjFreeCandidates")'  BY DEF Runs
    <3> QED BY <1>1, <1>2, <3>1, <3>2, <3>3 DEF CandidatesFit
  <2>6. OnePlace'
    <3>1. \A o : AtNew(o)' <=> AtNew(o) \/ o = heap[r]
      <4>1. \A i \in DOMAIN newCands' :
              \/ i \in DOMAIN newCands /\ newCands'[i] = newCands[i]
              \/ i = Len(newCands) + 1
        BY <1>3, <2>3
      <4>2. \A i \in DOMAIN newCands : i \in DOMAIN newCands' /\ newCands'[i] = newCands[i]
        BY <1>3, <2>3
      <4>3. Len(newCands) + 1 \in DOMAIN newCands' /\ heap[newCands'[Len(newCands) + 1]] = heap[r]
        BY <1>3, <2>2, <2>3
      <4> QED BY <4>1, <4>2, <4>3 DEF AtNew
    <3>2. \A o : AtCands(o) => AtCands(o)' \/ o = heap[r]
      BY <1>3 DEF AtCands
    <3>3. \A o \in registered \ freed : Waits(o)'
      BY <3>1, <3>2 DEF OnePlace, Waits, AtRaw
    <3>4. \A i, j \in DOMAIN newCands' : heap[newCands'[i]] = heap[newCands'[j]] => i = j
      <4>1. \A i \in DOMAIN newCands : newCands'[i] = newCands[i] /\ heap[newCands[i]] # heap[r]
        BY <1>3, <2>3 DEF OnePlace, AtNew
      <4>2. \A i \in DOMAIN newCands' : i \in DOMAIN newCands \/ i = Len(newCands) + 1
        BY <1>3, <2>3
      <4>3. heap[newCands'[Len(newCands) + 1]] = heap[r]  BY <2>2, <2>3
      <4>4. \A i, j \in DOMAIN newCands : heap[newCands[i]] = heap[newCands[j]] => i = j
        BY DEF OnePlace
      <4> SUFFICES ASSUME NEW i \in DOMAIN newCands', NEW j \in DOMAIN newCands',
                          heap[newCands'[i]] = heap[newCands'[j]]
                   PROVE  i = j
        OBVIOUS
      <4>5. CASE i \in DOMAIN newCands /\ j \in DOMAIN newCands  BY <4>1, <4>4, <4>5
      <4>6. CASE i \in DOMAIN newCands /\ j = Len(newCands) + 1  BY <4>1, <4>3, <4>6
      <4>7. CASE j \in DOMAIN newCands /\ i = Len(newCands) + 1  BY <4>1, <4>3, <4>7
      <4> QED BY <4>2, <4>5, <4>6, <4>7
    <3>5. \A i \in DOMAIN newCands' : heap[newCands'[i]] \in registered \ freed
      BY <1>3, <1>4, <2>2, <2>3 DEF OnePlace
    <3>6. \A i \in next' .. Len(cands) :
            heap[cands[i]] \in registered \ freed /\ ~AtNew(heap[cands[i]])'
      BY <1>5, <3>1 DEF OnePlace
    <3> QED BY <1>1, <1>5, <2>1, <3>3, <3>4, <3>5, <3>6 DEF OnePlace, OnHeap
  <2> QED BY <1>6, <2>1, <2>4, <2>5, <2>6 DEF OnlyGarbageFreed
<1>8. CASE ~IsReachable(r)
  <2>1. newCands' = newCands /\ freed' = freed \cup {heap[r]}
    BY <1>3, <1>8 DEF Kept, FreedBy
  <2>2. heap[r] \notin live
    BY <1>1, <1>4, <1>8 DEF HeapFits, IsReachable
  <2>3. ObjFreeTyped'
    BY <1>3, <1>4, <2>1 DEF ObjFreeTyped, CoreTypeOK
  <2>4. CandidatesFit'
    <3>1. \A i \in next' .. Len(cands) : cands[i] \in FromSpace' /\ heap[cands[i]] # Free
      BY <1>1, <1>2, <1>5 DEF CandidatesFit, FromSpace
    <3>2. Runs(w, "ProcessObjFreeCandidates")'  BY DEF Runs
    <3> QED BY <1>1, <1>2, <2>1, <3>1, <3>2 DEF CandidatesFit, Survivor
  <2>5. OnePlace'
    <3>1. \A o : AtNew(o)' <=> AtNew(o)  BY <2>1 DEF AtNew
    <3>2. \A o : AtCands(o) => AtCands(o)' \/ o = heap[r]
      BY <1>3 DEF AtCands
    <3>3. \A o \in registered \ freed' : Waits(o)'
      BY <2>1, <3>1, <3>2 DEF OnePlace, Waits, AtRaw
    <3>4. \A i \in DOMAIN newCands : heap[newCands[i]] # heap[r]
      BY <1>3 DEF OnePlace, AtNew
    <3>5. \A i \in next' .. Len(cands) :
            heap[cands[i]] \in registered \ freed' /\ ~AtNew(heap[cands[i]])'
      BY <1>5, <2>1, <3>1 DEF OnePlace
    <3> QED BY <1>1, <1>4, <1>5, <2>1, <3>3, <3>4, <3>5 DEF OnePlace, OnHeap
  <2> QED BY <1>6, <2>1, <2>2, <2>3, <2>4, <2>5 DEF OnlyGarbageFreed
<1> QED BY <1>7, <1>8

LEMMA ReplaceFreeInv ==
  ASSUME FreeInv, NEW w \in Worker, ReplaceCandidates(w)
  PROVE  FreeInv'
<1> USE DEF FreeInv, ReplaceCandidates, Finish, heapVars, historyVars
<1>1. /\ stage = "VMRefClosure" /\ \A s \in GCStage : bucket[s] = {}
      /\ \A v \in Worker : v # w => running[v] = NoPacket
      /\ ~exiting /\ rawVec = <<>>
  BY RunnerAlone DEF PacketSet, CandidatesFit
<1>2. \A v \in Worker : running'[v] = NoPacket
  BY <1>1 DEF SchedTypeOK
<1>3. /\ newCands \in Seq(Addr) /\ Len(newCands) \in Nat
      /\ DOMAIN newCands = 1 .. Len(newCands) /\ <<>> \in Seq(Addr) /\ DOMAIN <<>> = {}
  BY DEF ObjFreeTyped
<1>4. next .. Len(cands) = {}  BY DEF ObjFreeTyped
<1>5. ObjFreeTyped' /\ SchedTypeOK'
  BY <1>2, <1>3 DEF ObjFreeTyped, CoreTypeOK, SchedTypeOK
<1>6. PacketsFit'  BY <1>1, <1>2 DEF PacketsFit, AllIdle
<1>7. HeapFits'  BY DEF HeapFits, OnHeap, FromSpace
<1>8. \A i \in DOMAIN newCands : newCands[i] \in Survivor /\ heap[newCands[i]] # Free
  BY SurvivorsFit DEF CandidatesFit
<1>9. CandidatesFit'
  <2>1. AllProcessed'  BY <1>1, <1>2 DEF AllProcessed, AllIdle, GCStage
  <2>2. Survivor' = Survivor  BY DEF Survivor
  <2> QED BY <1>1, <1>3, <1>8, <2>1, <2>2 DEF CandidatesFit
<1>10. OnePlace'
  <2>1. \A o : AtCands(o)' <=> AtNew(o)  BY <1>3 DEF AtCands, AtNew
  <2>2. \A o : ~AtCands(o) /\ ~AtNew(o)'  BY <1>3, <1>4 DEF AtCands, AtNew
  <2>3. \A o \in registered \ freed : Waits(o)'
    BY <2>1, <2>2 DEF OnePlace, Waits, AtRaw
  <2> QED BY <1>1, <1>3, <2>2, <2>3 DEF OnePlace, OnHeap
<1>11. OnlyGarbageFreed'  BY DEF OnlyGarbageFreed
<1> QED BY <1>5, <1>6, <1>7, <1>9, <1>10, <1>11

LEMMA NextFreeInv == FreeInv /\ [Next]_vars => FreeInv'
<1> SUFFICES ASSUME FreeInv, [Next]_vars PROVE FreeInv'
  OBVIOUS
<1>1. CASE Mutator
  BY <1>1, NewFreeInv, ForgetFreeInv, AddFreeInv, TakeAllFreeInv, StopFreeInv DEF Mutator
<1>2. CASE FreeAtExit  BY <1>2, FreeAtExitFreeInv
<1>3. CASE Tracing
  BY <1>3, TraceInPlaceFreeInv, TraceAndCopyFreeInv DEF Tracing
<1>4. CASE NextStage
  BY <1>4, EndPrepareFreeInv, EndClosureFreeInv, EndVMRefClosureFreeInv, ReclaimFreeInv
  DEF NextStage
<1>5. ASSUME NEW w \in Worker, WorkerStep(w)
      PROVE  FreeInv'
  BY <1>5, TakeFreeInv, ProcessWeakStuffFreeInv, ProcessCandidateFreeInv, ReplaceFreeInv
  DEF WorkerStep
<1>6. CASE UNCHANGED vars
  <2> USE <1>6 DEF FreeInv, vars, coreVars, heapVars, schedVars, freeVars, listVars, historyVars
  <2>1. ObjFreeTyped' /\ SchedTypeOK' /\ PacketsFit'
    BY DEF ObjFreeTyped, CoreTypeOK, SchedTypeOK, PacketsFit, AllIdle
  <2>2. HeapFits' /\ CandidatesFit'
    BY DEF HeapFits, CandidatesFit, AllProcessed, AllIdle, Runs, Survivor, OnHeap, FromSpace
  <2>3. OnePlace' /\ OnlyGarbageFreed'
    BY DEF OnePlace, OnlyGarbageFreed, Waits, AtCands, AtNew, AtRaw, OnHeap
  <2> QED BY <2>1, <2>2, <2>3
<1> QED BY <1>1, <1>2, <1>3, <1>4, <1>5, <1>6 DEF Next, Collector

(* OnePlace, told by the sequence of all waiting candidates.               *)
LEMMA OnePlaceFits == FreeInv => EachCandidateOnce
<1> SUFFICES ASSUME FreeInv PROVE EachCandidateOnce
  OBVIOUS
<1> USE DEF FreeInv
<1> DEFINE k == Len(cands) - next + 1
           m == Len(newCands)
           n == Len(rawVec)
           rest == SubSeq(cands, next, Len(cands))
<1>1. /\ cands \in Seq(Addr) /\ newCands \in Seq(Addr) /\ rawVec \in Seq(Addr)
      /\ next \in 1 .. Len(cands) + 1 /\ Len(cands) \in Nat
      /\ k \in Nat /\ m \in Nat /\ n \in Nat
  BY DEF ObjFreeTyped
<1>2. /\ rest \in Seq(Addr) /\ Len(rest) = k
      /\ \A i \in 1 .. k : rest[i] = cands[next + i - 1]
  BY <1>1
<1>3. /\ Waiting \in Seq(Addr) /\ Len(Waiting) = k + m + n /\ DOMAIN Waiting = 1 .. k + m + n
      /\ \A i \in 1 .. k : Waiting[i] = rest[i]
      /\ \A i \in 1 .. m : Waiting[k + i] = newCands[i]
      /\ \A i \in 1 .. n : Waiting[k + m + i] = rawVec[i]
  <2> DEFINE both == rest \o newCands
  <2>1. Len(newCands) = m /\ Len(rawVec) = n  OBVIOUS
  <2>2. Waiting = both \o rawVec  BY DEF Waiting
  <2> HIDE DEF k, m, n, rest
  <2>3. /\ both \in Seq(Addr) /\ Len(both) = Len(rest) + Len(newCands)
        /\ \A i \in 1 .. Len(rest) : both[i] = rest[i]
        /\ \A i \in 1 .. Len(newCands) : both[Len(rest) + i] = newCands[i]
    <3>1. both \in Seq(Addr) /\ Len(both) = Len(rest) + Len(newCands)
      <4>1. rest \in Seq(Addr) /\ newCands \in Seq(Addr)  BY <1>1, <1>2
      <4>2. both \in Seq(Addr)  BY <4>1
      <4>3. Len(both) = Len(rest) + Len(newCands)  BY <4>1
      <4> QED BY <4>2, <4>3
    <3>2. \A i \in 1 .. Len(rest) : both[i] = rest[i]  BY <1>1, <1>2
    <3>3. \A i \in 1 .. Len(newCands) : both[Len(rest) + i] = newCands[i]
      BY <1>1, <1>2
    <3> QED BY <3>1, <3>2, <3>3
  <2> HIDE DEF both
  <2>4. /\ both \o rawVec \in Seq(Addr) /\ Len(both \o rawVec) = Len(both) + Len(rawVec)
        /\ DOMAIN (both \o rawVec) = 1 .. Len(both) + Len(rawVec)
        /\ \A i \in 1 .. Len(both) : (both \o rawVec)[i] = both[i]
        /\ \A i \in 1 .. Len(rawVec) : (both \o rawVec)[Len(both) + i] = rawVec[i]
    <3> DEFINE all == both \o rawVec
    <3>1. all \in Seq(Addr) /\ Len(all) = Len(both) + Len(rawVec)
      <4>1. both \in Seq(Addr) /\ rawVec \in Seq(Addr)  BY <1>1, <2>3
      <4>2. all \in Seq(Addr)  BY <4>1
      <4>3. Len(all) = Len(both) + Len(rawVec)  BY <4>1
      <4> QED BY <4>2, <4>3
    <3>2. \A i \in 1 .. Len(both) : all[i] = both[i]  BY <1>1, <2>3
    <3>3. \A i \in 1 .. Len(rawVec) : all[Len(both) + i] = rawVec[i]
      BY <1>1, <2>3
    <3>4. DOMAIN all = 1 .. Len(all)  BY <3>1
    <3> QED BY <3>1, <3>2, <3>3, <3>4
  <2>5. /\ \A i \in 1 .. k : i \in 1 .. k + m
        /\ \A i \in 1 .. m : k + i \in 1 .. k + m
    BY <1>1
  <2> QED BY <1>2, <2>1, <2>2, <2>3, <2>4, <2>5
<1>4. /\ \A i \in 1 .. k : next + i - 1 \in next .. Len(cands)
      /\ \A i \in next .. Len(cands) : i - next + 1 \in 1 .. k /\ next + (i - next + 1) - 1 = i
      /\ DOMAIN newCands = 1 .. m /\ DOMAIN rawVec = 1 .. n
  BY <1>1
<1> HIDE DEF k, m, n, rest
<1>5. /\ \A i \in k + 1 .. k + m : i - k \in 1 .. m /\ k + (i - k) = i
      /\ \A i \in k + m + 1 .. k + m + n :
           i - (k + m) \in 1 .. n /\ k + m + (i - (k + m)) = i
  BY <1>1
<1>6. /\ \A i \in 1 .. k : Waiting[i] = cands[next + i - 1]
      /\ \A i \in k + 1 .. k + m : Waiting[i] = newCands[i - k]
      /\ \A i \in k + m + 1 .. k + m + n : Waiting[i] = rawVec[i - (k + m)]
  BY <1>2, <1>3, <1>5
<1>7. \A i \in 1 .. k + m + n :
         i \in 1 .. k \/ i \in k + 1 .. k + m \/ i \in k + m + 1 .. k + m + n
  BY <1>1
<1>8. \A i \in DOMAIN Waiting : heap[Waiting[i]] \in registered \ freed
  <2>1. \A i \in 1 .. k : heap[Waiting[i]] \in registered \ freed
    BY <1>4, <1>6 DEF OnePlace
  <2>2. ASSUME NEW i \in k + 1 .. k + m
        PROVE  heap[Waiting[i]] \in registered \ freed
    <3>1. i - k \in DOMAIN newCands /\ Waiting[i] = newCands[i - k]
      BY <1>1, <1>4, <1>5, <1>6
    <3> QED BY <3>1 DEF OnePlace
  <2>3. ASSUME NEW i \in k + m + 1 .. k + m + n
        PROVE  heap[Waiting[i]] \in registered \ freed
    <3>1. i - (k + m) \in DOMAIN rawVec /\ Waiting[i] = rawVec[i - (k + m)]
      BY <1>1, <1>4, <1>5, <1>6
    <3> QED BY <3>1 DEF OnePlace
  <2> QED BY <1>3, <1>7, <2>1, <2>2, <2>3
<1>9. \A o \in registered \ freed : \E i \in DOMAIN Waiting : heap[Waiting[i]] = o
  <2> SUFFICES ASSUME NEW o \in registered \ freed
               PROVE  \E i \in DOMAIN Waiting : heap[Waiting[i]] = o
    OBVIOUS
  <2>1. ASSUME NEW i \in next .. Len(cands), heap[cands[i]] = o
        PROVE  \E j \in DOMAIN Waiting : heap[Waiting[j]] = o
    <3>1. i - next + 1 \in 1 .. k /\ next + (i - next + 1) - 1 = i  BY <1>4
    <3>2. Waiting[i - next + 1] = cands[next + (i - next + 1) - 1]  BY <1>6, <3>1
    <3>3. i - next + 1 \in DOMAIN Waiting  BY <1>1, <1>3, <3>1
    <3> QED BY <2>1, <3>1, <3>2, <3>3
  <2>2. ASSUME NEW i \in DOMAIN newCands, heap[newCands[i]] = o
        PROVE  \E j \in DOMAIN Waiting : heap[Waiting[j]] = o
    <3>1. k + i \in DOMAIN Waiting /\ Waiting[k + i] = newCands[i]
      BY <1>1, <1>3, <1>4
    <3> QED BY <2>2, <3>1
  <2>3. ASSUME NEW i \in DOMAIN rawVec, heap[rawVec[i]] = o
        PROVE  \E j \in DOMAIN Waiting : heap[Waiting[j]] = o
    <3>1. k + m + i \in DOMAIN Waiting /\ Waiting[k + m + i] = rawVec[i]
      BY <1>1, <1>3, <1>4
    <3> QED BY <2>3, <3>1
  <2> QED BY <2>1, <2>2, <2>3 DEF OnePlace, Waits, AtCands, AtNew, AtRaw
<1>10. n # 0 => k = 0 /\ m = 0
  <2> SUFFICES ASSUME n # 0 PROVE k = 0 /\ m = 0
    OBVIOUS
  <2>1. rawVec # <<>>  BY <1>1 DEF n
  <2>2. exiting /\ stage = "Mutator" /\ cands = <<>>  BY <2>1 DEF CandidatesFit
  <2>3. newCands = <<>> /\ next = 1  BY <2>2, NothingUnderWay
  <2> QED BY <2>2, <2>3 DEF k, m
<1>11. ASSUME NEW i \in DOMAIN Waiting, NEW j \in DOMAIN Waiting,
             heap[Waiting[i]] = heap[Waiting[j]]
      PROVE  i = j
  <2>1. CASE n # 0
    <3>1. i \in k + m + 1 .. k + m + n /\ j \in k + m + 1 .. k + m + n
      BY <1>1, <1>3, <1>10, <2>1
    <3>2. /\ i - (k + m) \in DOMAIN rawVec /\ Waiting[i] = rawVec[i - (k + m)]
          /\ j - (k + m) \in DOMAIN rawVec /\ Waiting[j] = rawVec[j - (k + m)]
      BY <1>1, <1>4, <1>5, <1>6, <3>1
    <3>3. i - (k + m) = j - (k + m)  BY <1>11, <3>2 DEF OnePlace
    <3> QED BY <1>1, <1>3, <3>3
  <2>2. CASE n = 0
    <3>1. CASE i \in 1 .. k /\ j \in 1 .. k
      <4>1. next + i - 1 = next + j - 1  BY <1>4, <1>6, <1>11, <3>1 DEF OnePlace
      <4> QED BY <1>1, <3>1, <4>1
    <3>2. CASE i \in k + 1 .. k + m /\ j \in k + 1 .. k + m
      <4>1. /\ i - k \in DOMAIN newCands /\ Waiting[i] = newCands[i - k]
            /\ j - k \in DOMAIN newCands /\ Waiting[j] = newCands[j - k]
        BY <1>1, <1>4, <1>5, <1>6, <3>2
      <4>2. i - k = j - k  BY <1>11, <4>1 DEF OnePlace
      <4> QED BY <1>1, <3>2, <4>2
    <3>3. CASE i \in 1 .. k /\ j \in k + 1 .. k + m
      BY <1>4, <1>5, <1>6, <1>11, <3>3 DEF OnePlace, AtNew
    <3>4. CASE j \in 1 .. k /\ i \in k + 1 .. k + m
      BY <1>4, <1>5, <1>6, <1>11, <3>4 DEF OnePlace, AtNew
    <3> QED BY <1>1, <1>3, <1>7, <2>2, <3>1, <3>2, <3>3, <3>4
  <2> QED BY <2>1, <2>2
<1>12. Elements(Waiting) = registered \ freed
  BY <1>8, <1>9 DEF Elements
<1> QED BY <1>11, <1>12 DEF EachCandidateOnce, OnePlace

-----------------------------------------------------------------------------
(* The inductive invariant of the obj_free candidates: packets, forwarding *)
(* pointers, the lists and their histories fit together at every step of   *)
(* every collection.                                                       *)
THEOREM FreeInvariant == Spec => []FreeInv
BY InitFreeInv, NextFreeInv, PTL DEF Spec

(* Whatever is kept has been looked at.                                    *)
KeptFit == Len(newCands) < next

LEMMA NextKeptFit == FreeInv /\ KeptFit /\ [Next]_vars => KeptFit'
<1> SUFFICES ASSUME FreeInv, KeptFit, [Next]_vars PROVE KeptFit'
  OBVIOUS
<1>0. newCands \in Seq(Addr) /\ next \in Nat /\ Len(newCands) \in Nat /\ Len(newCands) < next
  BY DEF FreeInv, ObjFreeTyped, KeptFit
<1>1. ASSUME UNCHANGED <<next, newCands>> PROVE KeptFit'
  BY <1>1 DEF KeptFit
<1>2. ASSUME NEW w \in Worker, ProcessCandidate(w) PROVE KeptFit'
  <2>1. next' = next + 1 /\ newCands' = newCands \o Kept(cands[next])
    BY <1>2 DEF ProcessCandidate
  <2>2. next \in 1 .. Len(cands) /\ cands[next] \in Addr
    BY <1>2, WaitingTyped DEF ProcessCandidate, FreeInv, ObjFreeTyped
  <2>3. Kept(cands[next]) \in Seq(Addr) /\ Len(Kept(cands[next])) \in 0 .. 1
    <3>1. Forward(cands[next]) \in Addr
      BY <2>2 DEF Forward, FreeInv, ObjFreeTyped, CoreTypeOK
    <3> QED BY <3>1 DEF Kept
  <2>4. Len(newCands') = Len(newCands) + Len(Kept(cands[next]))
    BY <1>0, <2>1, <2>3
  <2> QED BY <1>0, <2>1, <2>3, <2>4 DEF KeptFit
<1>3. ASSUME NEW w \in Worker, ReplaceCandidates(w) PROVE KeptFit'
  <2>1. Len(<<>>) = 0 /\ newCands' = <<>> /\ next' = 1  BY <1>3 DEF ReplaceCandidates
  <2> QED BY <2>1 DEF KeptFit
<1>4. CASE Mutator \/ FreeAtExit
  <2>1. UNCHANGED <<next, newCands>>
    BY <1>4 DEF Mutator, FreeAtExit, New, Forget, AddCandidates, TakeAllCandidates,
                StopAllMutators, freeVars, listVars
  <2> QED BY <1>1, <2>1
<1>5. CASE Tracing \/ NextStage
  <2>1. UNCHANGED <<next, newCands>>
    BY <1>5 DEF Tracing, NextStage, ReclaimMemory, freeVars, listVars
  <2> QED BY <1>1, <2>1
<1>6. ASSUME NEW w \in Worker,
             ProcessWeakStuff(w) \/ \E s \in GCStage : \E p \in bucket[s] : Take(w, p)
      PROVE  KeptFit'
  <2>1. UNCHANGED <<next, newCands>>
    BY <1>6 DEF ProcessWeakStuff, Take, freeVars, listVars
  <2> QED BY <1>1, <2>1
<1>7. CASE UNCHANGED vars
  BY <1>1, <1>7 DEF vars, freeVars, listVars
<1> QED
  BY <1>2, <1>3, <1>4, <1>5, <1>6, <1>7 DEF Next, Collector, WorkerStep

(* Type correctness, with one owner of the candidates at a time, before    *)
(* and after they are handed over at exit.                                 *)
THEOREM ObjFreeTypeCorrect == Spec => []ObjFreeTypeOK
<1>1. ObjFreeInit => KeptFit
  <2>1. Len(<<>>) = 0  OBVIOUS
  <2> QED BY <2>1 DEF ObjFreeInit, KeptFit
<1>2. FreeInv => (exiting => newCands = <<>>)
  BY NothingUnderWay DEF FreeInv, CandidatesFit
<1>3. FreeInv /\ KeptFit => ObjFreeTypeOK
  BY <1>2 DEF FreeInv, CandidatesFit, KeptFit, ListsFit, ObjFreeTypeOK
<1> QED BY <1>1, <1>3, NextKeptFit, FreeInvariant, PTL DEF Spec

(* add_obj_free_candidate, ProcessObjFreeCandidates and the hand-over at   *)
(* exit neither lose nor duplicate a candidate, nor free one twice.        *)
THEOREM CandidatesOnce == Spec => []EachCandidateOnce
<1> QED BY OnePlaceFits, FreeInvariant, PTL

(* ProcessObjFreeCandidates calls obj_free for garbage only.               *)
THEOREM NothingInUseIsFreed == Spec => []OnlyGarbageFreed
<1>1. FreeInv => OnlyGarbageFreed  BY DEF FreeInv
<1> QED BY <1>1, FreeInvariant, PTL

-----------------------------------------------------------------------------
(* The registry as WeakRegistry tells it.                                  *)

needed == IF exiting THEN {} ELSE live
members == registered \ freed

(* Only these steps change what the registry is about.                     *)
LEMMA OtherStepsStutter ==
  ASSUME FreeInv, Collector,
         ~ReclaimMemory, \A w \in Worker : ~ProcessCandidate(w)
  PROVE  UNCHANGED <<OnHeap, needed, members>> /\ UNCHANGED <<registered, freed>>
<1> USE DEF needed, members, freeVars, listVars, historyVars, coreVars, heapVars
<1>1. ASSUME NEW a \in Addr, TraceInPlace(a), UNCHANGED freeVars
      PROVE  UNCHANGED <<OnHeap, needed, members>> /\ UNCHANGED <<registered, freed>>
  BY <1>1 DEF TraceInPlace, OnHeap
<1>2. ASSUME NEW a \in Addr, NEW b \in Addr, TraceAndCopy(a, b), UNCHANGED freeVars
      PROVE  UNCHANGED <<OnHeap, needed, members>> /\ UNCHANGED <<registered, freed>>
  <2>1. heap[a] # Free /\ heap[b] = Free /\ heap \in [Addr -> Obj \cup {Free}]
    BY <1>2 DEF TraceAndCopy, FromSpace, FreeInv, ObjFreeTyped, CoreTypeOK
  <2>2. \A c \in Addr : heap'[c] = IF c = b THEN heap[a] ELSE heap[c]
    BY <1>2, <2>1 DEF TraceAndCopy
  <2>3. OnHeap' = OnHeap  BY <2>1, <2>2 DEF OnHeap
  <2> QED BY <1>2, <2>3 DEF TraceAndCopy
<1>3. ASSUME EndPrepare \/ EndClosure(Sentinel) \/ EndVMRefClosure, UNCHANGED freeVars
      PROVE  UNCHANGED <<OnHeap, needed, members>> /\ UNCHANGED <<registered, freed>>
  BY <1>3 DEF EndPrepare, EndClosure, EndVMRefClosure, OnHeap
<1>4. ASSUME NEW w \in Worker, WorkerStep(w)
      PROVE  UNCHANGED <<OnHeap, needed, members>> /\ UNCHANGED <<registered, freed>>
  BY <1>4 DEF WorkerStep, Take, TakePacket, ProcessWeakStuff, ReplaceCandidates, OnHeap
<1> QED BY <1>1, <1>2, <1>3, <1>4 DEF Collector, Tracing, NextStage

LEMMA ReclaimKeeps ==
  ASSUME FreeInv, ReclaimMemory
  PROVE  /\ live \cup members \subseteq OnHeap' /\ OnHeap' \subseteq OnHeap
         /\ members' = members /\ UNCHANGED <<live, exiting>> /\ freed' \subseteq freed
<1> USE DEF FreeInv
<1>1. FreeInv'  BY ReclaimFreeInv
<1>2. newCands = <<>> /\ next = 1 /\ rawVec = <<>>
  BY NothingUnderWay DEF ReclaimMemory, Reclaim, Advance, CandidatesFit
<1>3. \A a \in Survivor : a \in Addr /\ heap[a] # Free /\ heap'[a] = heap[a]
  BY SurvivorsFit DEF ReclaimMemory, Reclaim
<1>4. members \subseteq OnHeap'
  <2> SUFFICES ASSUME NEW o \in members PROVE o \in OnHeap'
    OBVIOUS
  <2>1. AtCands(o)  BY <1>2 DEF members, OnePlace, Waits, AtNew, AtRaw
  <2>2. PICK i \in 1 .. Len(cands) : heap[cands[i]] = o  BY <1>2, <2>1 DEF AtCands
  <2>3. cands[i] \in Survivor
    BY <2>2 DEF CandidatesFit, AllProcessed, ReclaimMemory, Reclaim, Advance, ObjFreeTyped
  <2> QED BY <1>3, <2>2, <2>3 DEF OnHeap
<1>5. live \subseteq OnHeap'
  BY <1>1 DEF ReclaimMemory, Reclaim, HeapFits
<1>6. OnHeap' \subseteq OnHeap
  <2>1. \A a \in Addr : heap'[a] = IF a \in Survivor THEN heap[a] ELSE Free
    BY DEF ReclaimMemory, Reclaim
  <2> QED BY <2>1 DEF OnHeap
<1>7. members' = members
  BY <1>4 DEF members, ReclaimMemory
<1> QED BY <1>4, <1>5, <1>6, <1>7 DEF ReclaimMemory, Reclaim

LEMMA ProcessCandidateSweeps ==
  ASSUME FreeInv, NEW w \in Worker, ProcessCandidate(w)
  PROVE  \E o \in Obj : /\ o \in OnHeap /\ freed' \subseteq freed \cup {o}
                        /\ freed \subseteq freed' /\ (freed' # freed => o \notin live)
                        /\ UNCHANGED <<OnHeap, live, registered, exiting>>
<1> USE DEF FreeInv, ProcessCandidate
<1> DEFINE o == heap[cands[next]]
<1>1. next \in next .. Len(cands)  BY DEF ObjFreeTyped
<1>2. o \in registered /\ o \in Obj /\ o \in OnHeap
  BY <1>1 DEF OnePlace, ObjFreeTyped
<1>3. freed' = freed \cup FreedBy(cands[next]) /\ FreedBy(cands[next]) \subseteq {o}
  BY DEF FreedBy
<1>4. ASSUME FreedBy(cands[next]) # {}
      PROVE  o \notin live
  <2>1. ~IsReachable(cands[next])  BY <1>4 DEF FreedBy
  <2>2. stage = "VMRefClosure" /\ ~AllProcessed
    BY RunnerAlone DEF PacketSet, AllProcessed, AllIdle
  <2>3. cands[next] \in FromSpace  BY <1>1, <2>2 DEF CandidatesFit
  <2> QED BY <2>1, <2>2, <2>3 DEF HeapFits, IsReachable
<1>5. UNCHANGED <<OnHeap, live, registered, exiting>>
  BY DEF coreVars, heapVars, OnHeap
<1> QED BY <1>2, <1>3, <1>4, <1>5

LEMMA FreeAtExitFrees ==
  ASSUME FreeInv, FreeAtExit
  PROVE  \E o \in Obj : /\ o \in OnHeap /\ freed' = freed \cup {o} /\ exiting
                        /\ UNCHANGED <<OnHeap, live, registered, exiting>>
<1> USE DEF FreeInv, FreeAtExit
<1>1. Head(rawVec) = rawVec[1] /\ 1 \in DOMAIN rawVec  BY DEF ObjFreeTyped
<1>2. heap[rawVec[1]] \in registered  BY <1>1 DEF OnePlace
<1>3. heap[rawVec[1]] \in Obj /\ heap[rawVec[1]] \in OnHeap
  BY <1>2 DEF OnePlace, ObjFreeTyped
<1>4. exiting  BY DEF CandidatesFit
<1>5. UNCHANGED <<OnHeap, live, registered, exiting>>
  BY DEF coreVars, heapVars, OnHeap
<1> QED BY <1>1, <1>3, <1>4, <1>5

LEMMA MutatorRegistry ==
  ASSUME FreeInv, Mutator
  PROVE  /\ [Registry!Next]_(Registry!vars)
         /\ members \subseteq OnHeap' /\ freed' = freed
<1> USE DEF FreeInv, Registry!vars, freeVars, listVars, historyVars, coreVars, heapVars
<1>1. members \subseteq OnHeap  BY DEF members, OnePlace
<1>2. ASSUME NEW o \in Obj, NEW a \in Addr, NEW S \in SUBSET live, New(o, a, S)
      PROVE  Registry!Next /\ OnHeap \subseteq OnHeap' /\ freed' = freed
  <2> USE <1>2 DEF New, Alloc
  <2>1. o # Free /\ heap \in [Addr -> Obj \cup {Free}]
    BY CoreAssumption DEF ObjFreeTyped, CoreTypeOK
  <2>2. OnHeap' = OnHeap \cup {o}  BY <2>1 DEF OnHeap
  <2>3. Registry!Alloc(o, {o})  BY <2>2 DEF Registry!Alloc
  <2> QED BY <2>2, <2>3 DEF Registry!Next
<1>3. ASSUME NEW o \in live, Forget(o)
      PROVE  Registry!Next /\ OnHeap' = OnHeap /\ freed' = freed
  <2>1. OnHeap' = OnHeap  BY <1>3 DEF Forget, Drop, OnHeap
  <2>2. Registry!Forget({o})
    BY <1>3, <2>1 DEF Forget, Drop, Registry!Forget
  <2>3. {o} \in SUBSET Obj  BY DEF ObjFreeTyped, CoreTypeOK
  <2> QED BY <1>3, <2>1, <2>2, <2>3 DEF Forget, Registry!Next
<1>4. ASSUME NEW n \in 1 .. 2, NEW objects \in [1 .. n -> AddrsOf(live)],
             AddCandidates(objects)
      PROVE  Registry!Next /\ OnHeap' = OnHeap /\ freed' = freed
  <2> DEFINE S == {heap[objects[i]] : i \in DOMAIN objects}
  <2>1. OnHeap' = OnHeap  BY <1>4 DEF AddCandidates, OnHeap
  <2>2. S \subseteq live \ registered  BY <1>4 DEF AddCandidates
  <2>3. S \subseteq OnHeap /\ S \in SUBSET Obj
    BY <2>2 DEF HeapFits, ObjFreeTyped, CoreTypeOK
  <2>4. (registered \ freed)' = (registered \ freed) \cup S
    BY <1>4, <2>2 DEF AddCandidates, OnePlace
  <2>5. Registry!Register(S)
    BY <1>4, <2>1, <2>2, <2>3, <2>4 DEF AddCandidates, Registry!Register
  <2> QED BY <1>4, <2>1, <2>3, <2>5 DEF AddCandidates, Registry!Next
<1>5. ASSUME TakeAllCandidates
      PROVE  Registry!Next /\ OnHeap' = OnHeap /\ freed' = freed
  <2>1. OnHeap' = OnHeap  BY <1>5 DEF TakeAllCandidates, OnHeap
  <2>2. Registry!Forget(live)
    BY <1>5, <2>1 DEF TakeAllCandidates, Registry!Forget
  <2>3. live \in SUBSET Obj  BY DEF ObjFreeTyped, CoreTypeOK
  <2> QED BY <1>5, <2>1, <2>2, <2>3 DEF TakeAllCandidates, Registry!Next
<1>6. ASSUME NEW mayMove \in BOOLEAN, StopAllMutators(mayMove)
      PROVE  UNCHANGED Registry!vars /\ OnHeap' = OnHeap /\ freed' = freed
  BY <1>6 DEF StopAllMutators, StartGC, OnHeap
<1> QED BY <1>1, <1>2, <1>3, <1>4, <1>5, <1>6 DEF Mutator

LEMMA InitRegistry == ObjFreeInit => Registry!Init
<1> SUFFICES ASSUME ObjFreeInit PROVE Registry!Init
  OBVIOUS
<1>1. OnHeap = {}  BY DEF ObjFreeInit, CoreInit, OnHeap
<1> QED BY <1>1 DEF ObjFreeInit, CoreInit, Registry!Init

LEMMA StepRegistry ==
  ASSUME FreeInv, [Next]_vars
  PROVE  /\ [Registry!Next]_(Registry!vars)
         /\ members \subseteq OnHeap' /\ freed' \ freed \subseteq OnHeap
<1> USE DEF Registry!vars, FreeInv
<1>1. members \subseteq OnHeap  BY DEF members, OnePlace
<1>2. CASE Mutator  BY <1>2, MutatorRegistry
<1>3. CASE FreeAtExit
  <2>1. PICK o \in Obj : /\ o \in OnHeap /\ freed' = freed \cup {o} /\ exiting
                         /\ UNCHANGED <<OnHeap, live, registered, exiting>>
    BY <1>3, FreeAtExitFrees
  <2>2. Registry!Unregister({o})  BY <2>1 DEF Registry!Unregister
  <2>3. {o} \in SUBSET Obj  OBVIOUS
  <2>4. Registry!Next  BY <2>2, <2>3 DEF Registry!Next
  <2> QED BY <1>1, <2>1, <2>4
<1>4. ASSUME NEW w \in Worker, ProcessCandidate(w)
      PROVE  /\ [Registry!Next]_(Registry!vars)
             /\ members \subseteq OnHeap' /\ freed' \ freed \subseteq OnHeap
  <2>1. PICK o \in Obj : /\ o \in OnHeap /\ freed' \subseteq freed \cup {o}
                         /\ freed \subseteq freed' /\ (freed' # freed => o \notin live)
                         /\ UNCHANGED <<OnHeap, live, registered, exiting>>
    BY <1>4, ProcessCandidateSweeps
  <2>2. CASE freed' = freed  BY <1>1, <2>1, <2>2
  <2>3. CASE freed' # freed
    <3>1. freed' = freed \cup {o}  BY <2>1, <2>3
    <3>2. Registry!Sweep({o})  BY <2>1, <2>3, <3>1 DEF Registry!Sweep
    <3>3. {o} \in SUBSET Obj  OBVIOUS
    <3>4. Registry!Next  BY <3>2, <3>3 DEF Registry!Next
    <3> QED BY <1>1, <2>1, <3>4
  <2> QED BY <2>2, <2>3
<1>5. CASE ReclaimMemory
  <2>1. /\ live \cup members \subseteq OnHeap' /\ OnHeap' \subseteq OnHeap
        /\ members' = members /\ UNCHANGED <<live, exiting>> /\ freed' \subseteq freed
    BY <1>5, ReclaimKeeps
  <2> DEFINE S == OnHeap \ OnHeap'
  <2>2. S \in SUBSET Obj  BY DEF OnHeap, ObjFreeTyped, CoreTypeOK
  <2>3. OnHeap' = OnHeap \ S  BY <2>1
  <2>4. Registry!Reclaim(S)
    BY <2>1, <2>3 DEF Registry!Reclaim, members
  <2>5. Registry!Next  BY <2>2, <2>4 DEF Registry!Next
  <2> QED BY <2>1, <2>5
<1>6. CASE Collector /\ ~ReclaimMemory /\ \A w \in Worker : ~ProcessCandidate(w)
  BY <1>1, <1>6, OtherStepsStutter DEF needed, members
<1>7. CASE UNCHANGED vars
  BY <1>1, <1>7 DEF vars, coreVars, heapVars, freeVars, historyVars, OnHeap
<1> QED BY <1>2, <1>3, <1>4, <1>5, <1>6, <1>7 DEF Next

(* The memory of a registered object is reclaimed only after its obj_free, *)
(* which is never called for what is no longer in memory.                  *)
THEOREM FreedFirst == Spec => FreedBeforeReclaimed
<1>1. FreeInv /\ [Next]_vars =>
        /\ registered \ freed \subseteq OnHeap'
        /\ freed' \ freed \subseteq OnHeap
  BY StepRegistry DEF members
<1> QED BY <1>1, FreeInvariant, PTL DEF Spec, FreedBeforeReclaimed

(* Candidates, packets and workers implement a weak registry: nothing that *)
(* is still in use is dropped, nothing is reclaimed while registered.      *)
THEOREM ObjFreeImplementsRegistry == Spec => ImplementsRegistry
<1>1. FreeInv /\ [Next]_vars => [Registry!Next]_(Registry!vars)  BY StepRegistry
<1> QED
  BY InitRegistry, <1>1, FreeInvariant, PTL DEF Spec, ImplementsRegistry, Registry!Spec
=============================================================================
