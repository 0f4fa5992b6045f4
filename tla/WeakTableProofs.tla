--------------------------- MODULE WeakTableProofs ---------------------------
(***************************************************************************)
(* Proofs about WeakTable, for every table, chunk size and set of workers. *)
(*                                                                         *)
(* The inductive invariant WTInv says where packets may be: before the     *)
(* sentinel has published its entries packets nothing else moves           *)
(* (SetupAlone); an entries packet is in one place at a time (OnePlace)    *)
(* and stays somewhere until its range has been updated (Tracked); the     *)
(* counter counts them (CounterExact); and once the latch has opened none  *)
(* is left (OpenedLate).                                                   *)
(***************************************************************************)
EXTENDS WeakTable, ChunksProofs, FiniteSetTheorems, TLAPS

Setup(w) == pc[w] \in {"countUp", "addPackets"}

(* A worker's packet has the kind its step needs, and only a worker that   *)
(* builds or pushes packets has packets to push.                           *)
Ownership ==
  \A w \in Worker :
    /\ out[w] # {} => Setup(w) \/ pc[w] = "publish"
    /\ pc[w] \in {"entries", "countDown"} => packet[w] \in EntriesPackets
    /\ pc[w] = "bins" => packet[w] \in BinsPackets

SetupAlone ==
  \A w \in Worker : Setup(w) =>
    /\ out[w] = EntriesPackets
    /\ bucket = {} /\ held = {} /\ updated = {}
    /\ pc[w] = "countUp" => counter = 0
    /\ \A v \in Worker : v # w => pc[v] = "idle"

OnePlace ==
  \A p \in EntriesPackets : \A v, w \in Worker :
    /\ p \in out[v] => p \notin bucket /\ ~(Executing(w) /\ packet[w] = p)
    /\ p \in out[v] /\ p \in out[w] => v = w
    /\ Executing(v) /\ packet[v] = p => p \notin bucket
    /\ Executing(v) /\ packet[v] = p /\ Executing(w) /\ packet[w] = p => v = w

(* Entries packets whose range has yet to be updated.                      *)
Waiting(p) ==
  \/ p \in bucket
  \/ \E w \in Worker : p \in out[w] \/ (pc[w] = "entries" /\ packet[w] = p)

Tracked == \A p \in EntriesPackets : Waiting(p) \/ Indices(p) \subseteq updated

(* The latch has opened: its packets are being released, or are out.       *)
Opened ==
  \/ \E w \in Worker : pc[w] \in {"release", "bins"}
  \/ \E p \in BinsPackets : p \in bucket \/ \E w \in Worker : p \in out[w]

OpenedLate == Opened => Pending = {} /\ \A w \in Worker : ~Setup(w)

OneRelease ==
  \A v, w \in Worker : pc[v] = "release" /\ pc[w] = "release" => v = w

WTInv ==
  /\ WTTypeOK
  /\ Ownership
  /\ SetupAlone
  /\ OnePlace
  /\ Tracked
  /\ CounterExact
  /\ OpenedLate
  /\ OneRelease

-----------------------------------------------------------------------------
(* The packets.                                                            *)

(* A packet's range starts where the packet begins and stays in the table. *)
LEMMA PacketShape ==
  /\ \A p \in EntriesPackets :
       /\ p.kind = "entries"
       /\ p.begin \in StepBy(EntriesStart, EntriesBound, EntriesChunk)
       /\ Indices(p) \subseteq Entry
       /\ p = Packet("entries", p.begin,
                     SmallerOf(p.begin + EntriesChunk, EntriesBound))
  /\ \A p \in BinsPackets : p.kind = "bins" /\ Indices(p) \subseteq Bin
<1> USE WeakTableAssumption
<1>1. ASSUME NEW b \in StepBy(EntriesStart, EntriesBound, EntriesChunk)
      PROVE  Indices(Packet("entries", b, SmallerOf(b + EntriesChunk, EntriesBound)))
               \subseteq Entry
  BY <1>1 DEF StepBy, Indices, Packet, SmallerOf, Entry
<1>2. ASSUME NEW b \in StepBy(0, BinsNum, EntriesChunk)
      PROVE  Indices(Packet("bins", b, SmallerOf(b + BinsChunk, BinsNum)))
               \subseteq Bin
  BY <1>2 DEF StepBy, Indices, Packet, SmallerOf, Bin
<1>3. \A p \in EntriesPackets :
        /\ p.kind = "entries"
        /\ p.begin \in StepBy(EntriesStart, EntriesBound, EntriesChunk)
        /\ p = Packet("entries", p.begin,
                      SmallerOf(p.begin + EntriesChunk, EntriesBound))
  BY DEF EntriesPackets, Packet
<1>4. \A p \in EntriesPackets : Indices(p) \subseteq Entry
  BY <1>1, <1>3
<1>5. \A p \in BinsPackets : p.kind = "bins" /\ Indices(p) \subseteq Bin
  <2> SUFFICES ASSUME NEW p \in BinsPackets
               PROVE  p.kind = "bins" /\ Indices(p) \subseteq Bin
    OBVIOUS
  <2>1. PICK b \in StepBy(0, BinsNum, EntriesChunk) :
          p = Packet("bins", b, SmallerOf(b + BinsChunk, BinsNum))
    BY DEF BinsPackets
  <2> QED BY <2>1, <1>2 DEF Packet
<1> QED BY <1>3, <1>4, <1>5

LEMMA EntriesCovered == \A e \in Entry : \E p \in EntriesPackets : e \in Indices(p)
<1> SUFFICES ASSUME NEW e \in Entry
             PROVE  \E p \in EntriesPackets : e \in Indices(p)
  OBVIOUS
<1>1. PICK b \in StepBy(EntriesStart, EntriesBound, EntriesChunk) :
         b <= e /\ e < b + EntriesChunk
  BY StepByCovers, WeakTableAssumption DEF Entry
<1>2. b \in Int /\ e \in Int /\ e < EntriesBound
  BY <1>1, WeakTableAssumption DEF StepBy, Entry
<1>3. e \in Indices(Packet("entries", b, SmallerOf(b + EntriesChunk, EntriesBound)))
  BY <1>1, <1>2, WeakTableAssumption DEF Indices, Packet, SmallerOf
<1> QED BY <1>1, <1>3 DEF EntriesPackets

(* Bins packets begin a chunk of entries apart, so they reach every bin    *)
(* only if a chunk of bins is at least as large.                           *)
LEMMA BinsCovered ==
  ASSUME EntriesChunk <= BinsChunk
  PROVE  \A i \in Bin : \E p \in BinsPackets : i \in Indices(p)
<1> SUFFICES ASSUME NEW i \in Bin
             PROVE  \E p \in BinsPackets : i \in Indices(p)
  OBVIOUS
<1>1. PICK b \in StepBy(0, BinsNum, EntriesChunk) : b <= i /\ i < b + EntriesChunk
  BY StepByCovers, WeakTableAssumption DEF Bin
<1>2. b \in Int /\ i \in Int /\ i < BinsNum
  BY <1>1, WeakTableAssumption DEF StepBy, Bin
<1>3. i \in Indices(Packet("bins", b, SmallerOf(b + BinsChunk, BinsNum)))
  BY <1>1, <1>2, WeakTableAssumption DEF Indices, Packet, SmallerOf
<1> QED BY <1>1, <1>3 DEF BinsPackets

(* There are at most as many entries packets as entries, so counting them  *)
(* does not wrap around.                                                   *)
LEMMA EntriesPacketsFinite ==
  /\ IsFiniteSet(EntriesPackets)
  /\ Cardinality(EntriesPackets) \in 0 .. CounterSize - 1
<1> USE WeakTableAssumption
<1> DEFINE B == StepBy(EntriesStart, EntriesBound, EntriesChunk)
<1> DEFINE f == [p \in EntriesPackets |-> p.begin]
<1>1. B \subseteq 0 .. EntriesBound - 1  BY DEF StepBy
<1>2. IsFiniteSet(0 .. EntriesBound - 1)
      /\ Cardinality(0 .. EntriesBound - 1) <= EntriesBound
  <2> DEFINE last == EntriesBound - 1
  <2>1. last \in Int /\ last + 1 = EntriesBound /\ 0 \in Int  OBVIOUS
  <2> HIDE DEF last
  <2>2. IsFiniteSet(0 .. last)
        /\ Cardinality(0 .. last) = IF 0 > last THEN 0 ELSE last - 0 + 1
    BY <2>1, FS_Interval
  <2>3. IsFiniteSet(0 .. last) /\ Cardinality(0 .. last) <= EntriesBound
    BY <2>1, <2>2
  <2> QED BY <2>3 DEF last
<1>3. IsFiniteSet(B) /\ Cardinality(B) <= EntriesBound /\ Cardinality(B) \in Nat
  <2>1. IsFiniteSet(B) /\ Cardinality(B) <= Cardinality(0 .. EntriesBound - 1)
    BY <1>1, <1>2, FS_Subset
  <2>2. Cardinality(B) \in Nat /\ Cardinality(0 .. EntriesBound - 1) \in Nat
    BY <2>1, <1>2, FS_CardinalityType
  <2> QED BY <2>1, <2>2, <1>2
<1>4. f \in Injection(EntriesPackets, B)
  BY PacketShape DEF Injection, IsInjective
<1>5. IsFiniteSet(EntriesPackets) /\ Cardinality(EntriesPackets) <= Cardinality(B)
  BY <1>3, <1>4, FS_Injection
<1>6. Cardinality(EntriesPackets) \in Nat  BY <1>5, FS_CardinalityType
<1> QED BY <1>3, <1>5, <1>6
-----------------------------------------------------------------------------
(* The invariant is established and kept.                                  *)

LEMMA InitWTInv == Init => WTInv
<1> SUFFICES ASSUME Init PROVE WTInv
  OBVIOUS
<1> USE WeakTableAssumption DEF Init
<1>1. PICK sentinel \in Worker :
        /\ pc = [w \in Worker |-> IF w = sentinel THEN "countUp" ELSE "idle"]
        /\ out = [w \in Worker |-> IF w = sentinel THEN EntriesPackets ELSE {}]
  OBVIOUS
<1>2. WTTypeOK
  <2>1. counter \in 0 .. CounterSize - 1  OBVIOUS
  <2>2. out \in [Worker -> SUBSET (EntriesPackets \cup BinsPackets)]
        /\ pc \in [Worker -> {"idle", "countUp"}]
    BY <1>1
  <2> QED BY <2>1, <2>2 DEF WTTypeOK
<1>3. Ownership /\ SetupAlone /\ OnePlace /\ OneRelease
  BY <1>1 DEF Ownership, SetupAlone, OnePlace, OneRelease, Setup, Executing
<1>4. Tracked /\ CounterExact
  BY <1>1 DEF Tracked, Waiting, CounterExact
<1>5. OpenedLate
  <2>1. \A p \in BinsPackets : p \notin EntriesPackets
    BY PacketShape
  <2> QED BY <1>1, <2>1 DEF OpenedLate, Opened
<1> QED BY <1>2, <1>3, <1>4, <1>5 DEF WTInv

LEMMA PendingFinite ==
  /\ IsFiniteSet(Pending)
  /\ Cardinality(Pending) \in 0 .. CounterSize - 1
<1>1. Pending \subseteq EntriesPackets  BY DEF Pending
<1>2. IsFiniteSet(Pending) /\ Cardinality(Pending) <= Cardinality(EntriesPackets)
  BY <1>1, EntriesPacketsFinite, FS_Subset
<1>3. Cardinality(Pending) \in Nat  BY <1>2, FS_CardinalityType
<1> QED BY <1>2, <1>3, EntriesPacketsFinite, WeakTableAssumption

LEMMA CountUpWTInv ==
  ASSUME WTInv, NEW w \in Worker, CountUp(w)
  PROVE  WTInv'
<1> USE DEF CountUp, tableVars, WTInv
<1>1. out[w] = EntriesPackets /\ counter = 0
      /\ \A v \in Worker : v # w => pc[v] = "idle"
  BY DEF SetupAlone, Setup
<1>2. Pending' = EntriesPackets
  BY <1>1 DEF Pending, WTTypeOK
<1>3. counter' = Cardinality(EntriesPackets)
  BY <1>1, EntriesPacketsFinite, WeakTableAssumption DEF FetchAdd
<1>4. WTTypeOK'  BY <1>3, EntriesPacketsFinite DEF WTTypeOK
<1>5. Ownership' /\ SetupAlone' /\ OnePlace' /\ OneRelease'
  BY <1>1 DEF Ownership, SetupAlone, OnePlace, OneRelease, Setup, Executing, WTTypeOK
<1>6. Tracked'  BY DEF Tracked, Waiting, WTTypeOK
<1>7. CounterExact'  BY <1>2, <1>3 DEF CounterExact
<1>8. OpenedLate'  BY DEF OpenedLate, Opened, Setup, WTTypeOK
<1> QED BY <1>4, <1>5, <1>6, <1>7, <1>8

LEMMA AddPacketsWTInv ==
  ASSUME WTInv, NEW w \in Worker, AddPackets(w)
  PROVE  WTInv'
<1> USE DEF AddPackets, tableVars, WTInv
<1>1. out[w] = EntriesPackets /\ \A v \in Worker : v # w => pc[v] = "idle"
  BY DEF SetupAlone, Setup
<1>2. Pending' = Pending
  BY <1>1 DEF Pending, Executing, WTTypeOK
<1>3. WTTypeOK'  BY DEF WTTypeOK, SetupAlone, Setup
<1>4. Ownership' /\ SetupAlone' /\ OnePlace' /\ OneRelease'
  BY <1>1 DEF Ownership, SetupAlone, OnePlace, OneRelease, Setup, Executing, WTTypeOK
<1>5. Tracked'  BY DEF Tracked, Waiting, WTTypeOK
<1>6. CounterExact'  BY <1>1, <1>2 DEF CounterExact, WTTypeOK
<1>7. OpenedLate'  BY DEF OpenedLate, Opened, Setup, WTTypeOK
<1> QED BY <1>3, <1>4, <1>5, <1>6, <1>7

LEMMA PublishWTInv ==
  ASSUME WTInv, NEW w \in Worker, NEW p \in out[w], Publish(w, p)
  PROVE  WTInv'
<1> USE DEF Publish, tableVars, latchVars, WTInv
<1>1. \A v \in Worker : ~Setup(v)
  BY DEF SetupAlone, Setup, WTTypeOK
<1>2. Pending' = Pending
  BY DEF Pending, Executing, WTTypeOK
<1>3. WTTypeOK'  BY DEF WTTypeOK
<1>4. Ownership'  BY DEF Ownership, Setup, WTTypeOK
<1>5. SetupAlone' /\ OneRelease'
  BY <1>1 DEF SetupAlone, OneRelease, Setup, WTTypeOK
<1>6. OnePlace'  BY DEF OnePlace, Executing, WTTypeOK
<1>7. Tracked'  BY DEF Tracked, Waiting, WTTypeOK
<1>8. CounterExact'  BY <1>1, <1>2 DEF CounterExact, Setup, WTTypeOK
<1>9. OpenedLate'  BY <1>1, <1>2 DEF OpenedLate, Opened, Setup, WTTypeOK
<1> QED BY <1>3, <1>4, <1>5, <1>6, <1>7, <1>8, <1>9

LEMMA TakeWTInv ==
  ASSUME WTInv, NEW w \in Worker, NEW p \in bucket, Take(w, p)
  PROVE  WTInv'
<1> USE DEF Take, tableVars, latchVars, WTInv
<1>1. \A v \in Worker : ~Setup(v)
  BY DEF SetupAlone
<1>2. \/ p \in EntriesPackets /\ p.kind = "entries"
      \/ p \in BinsPackets /\ p.kind = "bins"
  BY PacketShape DEF WTTypeOK
<1>3. out[w] = {}  BY <1>1 DEF Ownership, Setup
<1>4. Pending' = Pending
  BY <1>2, PacketShape DEF Pending, Executing, WTTypeOK
<1>5. WTTypeOK'  BY <1>2 DEF WTTypeOK
<1>6. Ownership'  BY <1>2, <1>3 DEF Ownership, Setup, WTTypeOK
<1>7. SetupAlone' /\ OneRelease'
  BY <1>1, <1>2 DEF SetupAlone, OneRelease, Setup, WTTypeOK
<1>8. OnePlace'  BY <1>2 DEF OnePlace, Executing, WTTypeOK
<1>9. Tracked'  BY <1>2, PacketShape DEF Tracked, Waiting, WTTypeOK
<1>10. CounterExact'  BY <1>1, <1>4 DEF CounterExact, Setup, WTTypeOK
<1>11. OpenedLate'  BY <1>1, <1>2, <1>4 DEF OpenedLate, Opened, Setup, WTTypeOK
<1> QED BY <1>5, <1>6, <1>7, <1>8, <1>9, <1>10, <1>11

LEMMA UpdateEntriesWTInv ==
  ASSUME WTInv, NEW w \in Worker, UpdateEntries(w)
  PROVE  WTInv'
<1> USE DEF UpdateEntries, tableVars, latchVars, WTInv
<1>1. \A v \in Worker : ~Setup(v)
  BY DEF SetupAlone, Setup
<1>2. packet[w] \in EntriesPackets  BY DEF Ownership
<1>3. Pending' = Pending
  BY DEF Pending, Executing, WTTypeOK
<1>4. WTTypeOK'  BY <1>2, PacketShape DEF WTTypeOK
<1>5. Ownership' /\ OnePlace'
  BY <1>2 DEF Ownership, OnePlace, Executing, Setup, WTTypeOK
<1>6. SetupAlone' /\ OneRelease'
  BY <1>1 DEF SetupAlone, OneRelease, Setup, WTTypeOK
<1>7. Tracked'  BY DEF Tracked, Waiting, WTTypeOK
<1>8. CounterExact'  BY <1>1, <1>3 DEF CounterExact, Setup, WTTypeOK
<1>9. OpenedLate'  BY <1>1, <1>3 DEF OpenedLate, Opened, Setup, WTTypeOK
<1> QED BY <1>4, <1>5, <1>6, <1>7, <1>8, <1>9

(* Only a worker that brings the counter from 1 to 0 opens the latch, and  *)
(* then its packet was the only one pending.                               *)
LEMMA CountDownWTInv ==
  ASSUME WTInv, NEW w \in Worker, CountDown(w)
  PROVE  WTInv'
<1> USE DEF CountDown, WasLast, tableVars, WTInv
<1>1. \A v \in Worker : ~Setup(v)
  BY DEF SetupAlone, Setup
<1>2. packet[w] \in EntriesPackets  BY DEF Ownership
<1>3. packet[w] \in Pending  BY <1>2 DEF Pending, Executing
<1>4. Pending' = Pending \ {packet[w]}
  BY <1>2 DEF Pending, Executing, OnePlace, WTTypeOK
<1>5. counter = Cardinality(Pending)  BY <1>1 DEF CounterExact, Setup
<1>6. counter \in Nat /\ counter # 0 /\ counter' = counter - 1
      /\ counter' = Cardinality(Pending')
  <2>1. IsFiniteSet(Pending) /\ Cardinality(Pending) \in Nat
    BY PendingFinite, WeakTableAssumption
  <2>2. Cardinality(Pending) # 0  BY <1>3, <2>1, FS_EmptySet
  <2>3. Cardinality(Pending \ {packet[w]}) = Cardinality(Pending) - 1
    BY <1>3, <2>1, FS_RemoveElement
  <2> QED BY <1>4, <1>5, <2>1, <2>2, <2>3 DEF FetchSubOne
<1>7. counter = 1 => Pending' = {}
  <2>1. IsFiniteSet(Pending')  BY <1>4, PendingFinite, FS_RemoveElement
  <2> QED BY <1>6, <2>1, FS_EmptySet
<1>8. \A v \in Worker : pc[v] # "release"
  BY <1>3 DEF OpenedLate, Opened
<1>9. WTTypeOK'
  <2>1. counter' \in 0 .. CounterSize - 1
    BY <1>6, WeakTableAssumption DEF WTTypeOK
  <2> QED BY <2>1 DEF WTTypeOK
<1>10. Ownership' /\ OnePlace'
  BY DEF Ownership, OnePlace, Executing, Setup, WTTypeOK
<1>11. SetupAlone' /\ OneRelease'
  BY <1>1, <1>8 DEF SetupAlone, OneRelease, Setup, WTTypeOK
<1>12. Tracked'  BY DEF Tracked, Waiting, WTTypeOK
<1>13. CounterExact'  BY <1>6 DEF CounterExact
<1>14. OpenedLate'
  <2>1. \A v \in Worker : ~Setup(v)'  BY <1>1 DEF Setup, WTTypeOK
  <2>2. CASE counter = 1  BY <2>1, <2>2, <1>7 DEF OpenedLate
  <2>3. CASE counter # 1
    BY <2>1, <2>3, <1>3 DEF OpenedLate, Opened, WTTypeOK
  <2> QED BY <2>2, <2>3
<1> QED BY <1>9, <1>10, <1>11, <1>12, <1>13, <1>14

LEMMA ReleaseWTInv ==
  ASSUME WTInv, NEW w \in Worker, Release(w)
  PROVE  WTInv'
<1> USE DEF Release, tableVars, WTInv
<1>1. Pending = {} /\ \A v \in Worker : ~Setup(v)
  BY DEF OpenedLate, Opened
<1>2. \A p \in held : p \in BinsPackets /\ p \notin EntriesPackets
  BY PacketShape DEF WTTypeOK
<1>3. out[w] = {}  BY DEF Ownership, Setup
<1>4. Pending' = Pending
  BY <1>2, <1>3 DEF Pending, Executing, WTTypeOK
<1>5. WTTypeOK'  BY DEF WTTypeOK
<1>6. Ownership'  BY DEF Ownership, Setup, WTTypeOK
<1>7. SetupAlone' /\ OneRelease'
  BY <1>1 DEF SetupAlone, OneRelease, Setup, WTTypeOK
<1>8. OnePlace'  BY <1>2 DEF OnePlace, Executing, WTTypeOK
<1>9. Tracked'  BY <1>3 DEF Tracked, Waiting, WTTypeOK
<1>10. CounterExact'  BY <1>1, <1>4 DEF CounterExact, Setup, WTTypeOK
<1>11. OpenedLate'  BY <1>1, <1>4 DEF OpenedLate, Setup, WTTypeOK
<1> QED BY <1>5, <1>6, <1>7, <1>8, <1>9, <1>10, <1>11

LEMMA UpdateBinsWTInv ==
  ASSUME WTInv, NEW w \in Worker, UpdateBins(w)
  PROVE  WTInv'
<1> USE DEF UpdateBins, tableVars, latchVars, WTInv
<1>1. Pending = {} /\ \A v \in Worker : ~Setup(v)
  BY DEF OpenedLate, Opened
<1>2. packet[w] \in BinsPackets /\ packet[w] \notin EntriesPackets
  BY PacketShape DEF Ownership
<1>3. Pending' = Pending
  BY <1>2 DEF Pending, Executing, WTTypeOK
<1>4. WTTypeOK'
  <2>1. bins' \in [Bin -> Entry \cup {Empty}]
    BY DEF CleanedBins, WTTypeOK
  <2> QED BY <2>1 DEF WTTypeOK
<1>5. Ownership' /\ OnePlace'
  BY <1>2 DEF Ownership, OnePlace, Executing, Setup, WTTypeOK
<1>6. SetupAlone' /\ OneRelease'
  BY <1>1 DEF SetupAlone, OneRelease, Setup, WTTypeOK
<1>7. Tracked'  BY DEF Tracked, Waiting, WTTypeOK
<1>8. CounterExact'  BY <1>1, <1>3 DEF CounterExact, Setup, WTTypeOK
<1>9. OpenedLate'  BY <1>1, <1>3 DEF OpenedLate, Setup, WTTypeOK
<1> QED BY <1>4, <1>5, <1>6, <1>7, <1>8, <1>9

LEMMA CloseBucketWTInv ==
  ASSUME WTInv, CloseBucket \/ UNCHANGED vars
  PROVE  WTInv'
<1> USE DEF CloseBucket, vars, tableVars, latchVars, WTInv
<1>1. Pending' = Pending /\ WTTypeOK'
  BY DEF Pending, Executing, WTTypeOK
<1>2. Ownership' /\ SetupAlone' /\ OnePlace' /\ OneRelease'
  BY DEF Ownership, SetupAlone, OnePlace, OneRelease, Executing, Setup
<1>3. Tracked' /\ CounterExact' /\ OpenedLate'
  BY <1>1 DEF Tracked, Waiting, CounterExact, OpenedLate, Opened, Setup
<1> QED BY <1>1, <1>2, <1>3

LEMMA NextWTInv == WTInv /\ [Next]_vars => WTInv'
<1> SUFFICES ASSUME WTInv, [Next]_vars PROVE WTInv'
  OBVIOUS
<1>1. CASE CloseBucket \/ UNCHANGED vars
  BY <1>1, CloseBucketWTInv
<1>2. ASSUME NEW w \in Worker, WorkerStep(w) PROVE WTInv'
  BY <1>2, CountUpWTInv, AddPacketsWTInv, PublishWTInv, TakeWTInv,
     UpdateEntriesWTInv, CountDownWTInv, ReleaseWTInv, UpdateBinsWTInv
     DEF WorkerStep
<1> QED BY <1>1, <1>2 DEF Next

THEOREM WTInvariant == Spec => []WTInv
BY InitWTInv, NextWTInv, PTL DEF Spec

(* Nothing pending means that every range has been updated, and the ranges *)
(* cover the table.                                                        *)
LEMMA NothingPending ==
  ASSUME WTInv, Pending = {}
  PROVE  updated = Entry
<1>1. \A p \in EntriesPackets : Indices(p) \subseteq updated
  BY DEF WTInv, Tracked, Waiting, Pending, Executing
<1> QED BY <1>1, EntriesCovered DEF WTInv, WTTypeOK

(* Packets, latch and table stay well-formed, for every table and every    *)
(* chunk size (weak_proc.rs, utils.rs).                                    *)
THEOREM WeakTableTypeCorrect == Spec => []WTTypeOK
<1>1. WTInv => WTTypeOK  BY DEF WTInv
<1> QED BY <1>1, WTInvariant, PTL

(* The latch's counter is the number of entries packets that have yet to   *)
(* count down: it never underflows and reaches zero exactly once.          *)
THEOREM LatchCounterExact == Spec => []CounterExact
<1>1. WTInv => CounterExact  BY DEF WTInv
<1> QED BY <1>1, WTInvariant, PTL

(* The barrier of AfterAll: no bins packet can run, or be taken, before    *)
(* every entry of the table has been updated.                              *)
THEOREM Barrier == Spec => []BinsAfterEntries
<1>1. WTInv => BinsAfterEntries
  <2> SUFFICES ASSUME WTInv, Opened PROVE updated = Entry
    BY DEF BinsAfterEntries, Opened
  <2> QED BY NothingPending DEF WTInv, OpenedLate
<1> QED BY <1>1, WTInvariant, PTL

(* AfterAll::packets is never borrowed twice: the sentinel adds to it      *)
(* while no other worker runs, and one worker releases it.                 *)
THEOREM LatchBorrowedOnce == Spec => []SingleBorrow
<1>1. WTInv => SingleBorrow
  BY DEF WTInv, SingleBorrow, SetupAlone, OneRelease, Setup
<1> QED BY <1>1, WTInvariant, PTL

-----------------------------------------------------------------------------
(* No bin is left behind.  This needs bins packets that reach every bin,   *)
(* hence a chunk of bins no smaller than a chunk of entries.               *)

(* A bins packet that has yet to be run.                                   *)
Unswept(p) ==
  \/ p \in held \/ p \in bucket
  \/ \E w \in Worker : p \in out[w] \/ (pc[w] = "bins" /\ packet[w] = p)

BinsTracked ==
  \A i \in Bin : bins[i] \in dead =>
    \/ \E w \in Worker : Setup(w)
    \/ \E p \in BinsPackets : i \in Indices(p) /\ Unswept(p)

(* The latch keeps its packets only while somebody is left to release them.*)
HeldLate ==
  held # {} => \/ EntriesPackets = {} \/ Pending # {}
               \/ \E w \in Worker : pc[w] = "release"

ClosedQuiet == closed => bucket = {} /\ \A w \in Worker : pc[w] = "idle"

SweepInv == BinsTracked /\ HeldLate /\ ClosedQuiet

LEMMA InitSweepInv == Init => SweepInv
BY DEF Init, SweepInv, BinsTracked, HeldLate, ClosedQuiet, Setup

LEMMA WorkerStepSweepInv ==
  ASSUME EntriesChunk <= BinsChunk, WTInv, WTInv', SweepInv,
         NEW w \in Worker, WorkerStep(w)
  PROVE  SweepInv'
<1> USE DEF WTInv, SweepInv
<1>1. ~closed
  BY DEF ClosedQuiet, WorkerStep, CountUp, AddPackets, Publish, Take,
         UpdateEntries, CountDown, Release, UpdateBins, WTTypeOK
<1>2. ClosedQuiet'
  BY <1>1 DEF ClosedQuiet, WorkerStep, CountUp, AddPackets, Publish, Take,
              UpdateEntries, CountDown, Release, UpdateBins
<1>3. CASE CountUp(w)
  <2>1. BinsTracked'  BY <1>3 DEF CountUp, tableVars, BinsTracked, Setup, WTTypeOK
  <2>2. HeldLate'  BY <1>3 DEF CountUp, HeldLate, SetupAlone, Setup
  <2> QED BY <1>2, <2>1, <2>2
<1>4. CASE AddPackets(w)
  <2>1. held' = BinsPackets /\ out[w] = EntriesPackets
    BY <1>4 DEF AddPackets, SetupAlone, Setup
  <2>2. BinsTracked'  BY <2>1, BinsCovered DEF BinsTracked, Unswept
  <2>3. HeldLate'  BY <1>4, <2>1 DEF AddPackets, HeldLate, Pending
  <2> QED BY <1>2, <2>2, <2>3
<1>5. ASSUME NEW p \in out[w], Publish(w, p) PROVE SweepInv'
  <2> USE <1>5 DEF Publish, tableVars, latchVars
  <2>1. BinsTracked'  BY DEF BinsTracked, Unswept, SetupAlone, Setup, WTTypeOK
  <2>2. Pending' = Pending  BY DEF Pending, Executing, WTTypeOK
  <2>3. HeldLate'  BY <2>2 DEF HeldLate, WTTypeOK
  <2> QED BY <1>2, <2>1, <2>3
<1>6. ASSUME NEW p \in bucket, Take(w, p) PROVE SweepInv'
  <2> USE <1>6 DEF Take, tableVars, latchVars
  <2>1. \/ p \in EntriesPackets /\ p.kind = "entries"
        \/ p \in BinsPackets /\ p.kind = "bins"
    BY PacketShape DEF WTTypeOK
  <2>2. BinsTracked'
    BY <2>1, PacketShape DEF BinsTracked, Unswept, SetupAlone, Setup, WTTypeOK
  <2>3. Pending' = Pending
    BY <2>1, PacketShape DEF Pending, Executing, WTTypeOK
  <2>4. HeldLate'  BY <2>1, <2>3 DEF HeldLate, WTTypeOK
  <2> QED BY <1>2, <2>2, <2>4
<1>7. CASE UpdateEntries(w)
  <2> USE <1>7 DEF UpdateEntries, tableVars, latchVars
  <2>1. BinsTracked'  BY DEF BinsTracked, Unswept, SetupAlone, Setup, WTTypeOK
  <2>2. Pending' = Pending  BY DEF Pending, Executing, WTTypeOK
  <2>3. HeldLate'  BY <2>2 DEF HeldLate, WTTypeOK
  <2> QED BY <1>2, <2>1, <2>3
<1>8. CASE CountDown(w)
  <2> USE <1>8 DEF CountDown, WasLast, tableVars
  <2>1. BinsTracked'  BY DEF BinsTracked, Unswept, SetupAlone, Setup, WTTypeOK
  <2>2. HeldLate'
    <3>1. counter = Cardinality(Pending) /\ counter' = Cardinality(Pending')
      BY DEF CounterExact, SetupAlone, Setup, WTTypeOK
    <3>2. packet[w] \in Pending  BY DEF Ownership, Pending, Executing
    <3>3. counter # 0 /\ counter \in Nat
      BY <3>1, <3>2, PendingFinite, FS_EmptySet, WeakTableAssumption DEF WTTypeOK
    <3>4. counter # 1 => Pending' # {}
      BY <3>1, <3>3, FS_EmptySet DEF FetchSubOne
    <3> QED BY <3>4 DEF HeldLate, WTTypeOK
  <2> QED BY <1>2, <2>1, <2>2
<1>9. CASE Release(w)
  <2> USE <1>9 DEF Release, tableVars
  <2>1. BinsTracked'
    BY DEF BinsTracked, Unswept, SetupAlone, Ownership, Setup, WTTypeOK
  <2>2. HeldLate'  BY DEF HeldLate
  <2> QED BY <1>2, <2>1, <2>2
<1>10. CASE UpdateBins(w)
  <2> USE <1>10 DEF UpdateBins, tableVars, latchVars
  <2>1. Pending = {} /\ updated = Entry /\ \A v \in Worker : ~Setup(v)
    BY NothingPending DEF OpenedLate, Opened
  <2>2. ASSUME NEW i \in Bin, bins'[i] \in dead
        PROVE  i \notin Indices(packet[w]) /\ bins'[i] = bins[i]
    <3>1. bins[i] \in dead => bins[i] \in updated \cap dead
      BY <2>1 DEF WTTypeOK
    <3>2. Entry \subseteq Int  BY WeakTableAssumption DEF Entry
    <3>3. Empty \notin dead  BY <3>2, WeakTableAssumption DEF WTTypeOK
    <3> QED BY <2>2, <3>1, <3>3 DEF CleanedBins
  <2>3. BinsTracked'
    BY <2>1, <2>2 DEF BinsTracked, Unswept, Setup, WTTypeOK
  <2>4. HeldLate'  BY <2>1 DEF HeldLate, WTTypeOK
  <2> QED BY <1>2, <2>3, <2>4
<1> QED BY <1>3, <1>4, <1>5, <1>6, <1>7, <1>8, <1>9, <1>10 DEF WorkerStep

LEMMA NextSweepInv ==
  ASSUME EntriesChunk <= BinsChunk
  PROVE  WTInv /\ WTInv' /\ SweepInv /\ [Next]_vars => SweepInv'
<1> SUFFICES ASSUME WTInv, WTInv', SweepInv, [Next]_vars PROVE SweepInv'
  OBVIOUS
<1>1. CASE CloseBucket \/ UNCHANGED vars
  <2> USE <1>1 DEF CloseBucket, vars, tableVars, latchVars
  <2>1. Pending' = Pending  BY DEF Pending, Executing
  <2> QED
    BY <2>1 DEF SweepInv, BinsTracked, HeldLate, ClosedQuiet, Unswept, Setup
<1>2. ASSUME NEW w \in Worker, WorkerStep(w) PROVE SweepInv'
  BY <1>2, WorkerStepSweepInv
<1> QED BY <1>1, <1>2 DEF Next

LEMMA SweepInvariant ==
  ASSUME EntriesChunk <= BinsChunk
  PROVE  Spec => [](WTInv /\ SweepInv)
<1>1. WTInv /\ WTInv' /\ SweepInv /\ [Next]_vars => SweepInv'
  BY NextSweepInv
<1> QED BY InitSweepInv, <1>1, WTInvariant, PTL DEF Spec

LEMMA ClosedIsClean ==
  ASSUME WTInv, SweepInv
  PROVE  NoDanglingBin
<1> SUFFICES ASSUME closed
             PROVE  /\ updated = Entry
                    /\ \A i \in Bin : bins[i] \notin dead
                    /\ Entry # {} => held = {}
  BY DEF NoDanglingBin
<1>1. /\ bucket = {}
      /\ \A w \in Worker : pc[w] = "idle" /\ out[w] = {}
  BY DEF SweepInv, ClosedQuiet, WTInv, Ownership, Setup
<1>2. Pending = {}  BY <1>1 DEF Pending, Executing
<1>3. updated = Entry  BY <1>2, NothingPending
<1>4. Entry # {} => EntriesPackets # {}  BY EntriesCovered
<1>5. Entry # {} => held = {}
  BY <1>1, <1>2, <1>4 DEF SweepInv, HeldLate
<1>6. \A i \in Bin : bins[i] \in dead => Entry # {}
  BY DEF WTInv, WTTypeOK
<1>7. \A i \in Bin : bins[i] \notin dead
  BY <1>1, <1>5, <1>6 DEF SweepInv, BinsTracked, Unswept, Setup
<1> QED BY <1>3, <1>5, <1>7

(* When weak processing of a table is over no bin leads to a deleted       *)
(* entry, provided a chunk of bins is at least as large as a chunk of      *)
(* entries: bins packets begin a chunk of entries apart.                   *)
THEOREM NoBinLeftBehind ==
  ASSUME EntriesChunk <= BinsChunk
  PROVE  Spec => []NoDanglingBin
<1>1. WTInv /\ SweepInv => NoDanglingBin  BY ClosedIsClean
<1> QED BY <1>1, SweepInvariant, PTL

LEMMA InitTwoPhase == Init => TwoPhase!Init
BY DEF Init, TwoPhase!Init

LEMMA StepTwoPhase ==
  ASSUME WTInv, NoDanglingBin', [Next]_vars
  PROVE  [TwoPhase!Next]_(TwoPhase!vars)
<1> USE DEF TwoPhase!vars
<1>1. CASE UNCHANGED vars
  BY <1>1 DEF vars, tableVars
<1>2. CASE CloseBucket
  <2>1. TwoPhase!Finish
    BY <1>2 DEF CloseBucket, tableVars, NoDanglingBin, TwoPhase!Finish
  <2> QED BY <2>1 DEF TwoPhase!Next
<1>3. ASSUME NEW w \in Worker, UpdateEntries(w)
      PROVE  TwoPhase!Next
  <2> DEFINE S == Indices(packet[w]) \ updated
  <2>1. Indices(packet[w]) \subseteq Entry
    BY <1>3, PacketShape DEF UpdateEntries, WTInv, Ownership
  <2>2. TwoPhase!UpdateSome(S)
    BY <1>3, <2>1 DEF UpdateEntries, TwoPhase!UpdateSome
  <2>3. S \in SUBSET Entry  BY <2>1
  <2> QED BY <2>2, <2>3 DEF TwoPhase!Next
<1>4. ASSUME NEW w \in Worker, UpdateBins(w)
      PROVE  TwoPhase!Next
  <2> DEFINE S == Indices(packet[w])
  <2>1. S \in SUBSET Bin
    BY <1>4, PacketShape DEF UpdateBins, WTInv, Ownership
  <2>2. updated = Entry
    BY <1>4, NothingPending DEF UpdateBins, WTInv, OpenedLate, Opened
  <2>3. TwoPhase!CleanSome(S)
    BY <1>4, <2>2 DEF UpdateBins, CleanedBins, TwoPhase!CleanSome, TwoPhase!CleanedBins
  <2> QED BY <2>1, <2>3 DEF TwoPhase!Next
<1>5. ASSUME NEW w \in Worker, WorkerStep(w), ~UpdateEntries(w), ~UpdateBins(w)
      PROVE  UNCHANGED TwoPhase!vars
  BY <1>5 DEF WorkerStep, CountUp, AddPackets, Publish, Take, CountDown, Release,
              tableVars
<1> QED BY <1>1, <1>2, <1>3, <1>4, <1>5 DEF Next

(* Packets, latch and workers implement the two-phase update of            *)
(* EntriesThenBins: each step is a step of it, or changes nothing it sees. *)
THEOREM WeakTableImplementsTwoPhase ==
  ASSUME EntriesChunk <= BinsChunk
  PROVE  Spec => ImplementsTwoPhase
<1>1. WTInv /\ NoDanglingBin' /\ [Next]_vars => [TwoPhase!Next]_(TwoPhase!vars)
  BY StepTwoPhase
<1> QED
  BY InitTwoPhase, <1>1, WTInvariant, NoBinLeftBehind, PTL
     DEF Spec, ImplementsTwoPhase, TwoPhase!Spec
-----------------------------------------------------------------------------
(* Who works on which range at a time.  st_table is not thread-safe, so    *)
(* two workers must never hold packets whose ranges meet.                  *)

(* A worker about to update entries finds none of them updated before, and *)
(* no other worker is about to update one of them: callbacks that replace  *)
(* or delete an entry run once for each.                                   *)
EntriesUpdatedOnce ==
  \A w \in Worker : pc[w] = "entries" =>
    /\ Indices(packet[w]) \cap updated = {}
    /\ \A v \in Worker : v # w /\ pc[v] = "entries" =>
         Indices(packet[v]) \cap Indices(packet[w]) = {}

WaitingFresh == \A p \in EntriesPackets : Waiting(p) => Indices(p) \cap updated = {}

Sweeping(w, p) == pc[w] = "bins" /\ packet[w] = p

(* A bins packet is in the latch, in the bucket, about to be pushed by one *)
(* worker or run by one worker.                                            *)
BinsOnePlace ==
  \A p \in BinsPackets : \A v, w \in Worker :
    /\ p \in held => p \notin bucket /\ p \notin out[v] /\ ~Sweeping(v, p)
    /\ p \in out[v] => p \notin bucket /\ ~Sweeping(w, p)
    /\ p \in out[v] /\ p \in out[w] => v = w
    /\ Sweeping(v, p) => p \notin bucket
    /\ Sweeping(v, p) /\ Sweeping(w, p) => v = w

ApartInv == WaitingFresh /\ BinsOnePlace

(* Two entries packets share no entry: they begin a chunk apart.           *)
LEMMA EntriesPacketsApart ==
  ASSUME NEW p \in EntriesPackets, NEW q \in EntriesPackets, p # q
  PROVE  Indices(p) \cap Indices(q) = {}
<1> USE WeakTableAssumption
<1> DEFINE B == StepBy(EntriesStart, EntriesBound, EntriesChunk)
           pack(b) == Packet("entries", b, SmallerOf(b + EntriesChunk, EntriesBound))
<1>1. ASSUME NEW a \in B, NEW b \in B, a < b
      PROVE  Indices(pack(a)) \cap Indices(pack(b)) = {}
  <2>1. a + EntriesChunk <= b  BY <1>1, StepByApart
  <2>2. a \in Int /\ b \in Int  BY DEF StepBy
  <2> QED BY <2>1, <2>2 DEF Indices, Packet, SmallerOf
<1>2. p.begin \in B /\ q.begin \in B /\ p = pack(p.begin) /\ q = pack(q.begin)
  BY PacketShape
<1>3. p.begin # q.begin /\ p.begin \in Int /\ q.begin \in Int
  BY <1>2 DEF StepBy
<1>4. CASE p.begin < q.begin  BY <1>1, <1>2, <1>4
<1>5. CASE q.begin < p.begin
  <2>1. Indices(pack(q.begin)) \cap Indices(pack(p.begin)) = {}  BY <1>1, <1>2, <1>5
  <2> QED BY <1>2, <2>1
<1> QED BY <1>3, <1>4, <1>5

(* Two bins packets share no bin, provided a chunk of bins is no larger    *)
(* than the chunk of entries they begin apart.                             *)
LEMMA BinsPacketsApart ==
  ASSUME BinsChunk <= EntriesChunk,
         NEW p \in BinsPackets, NEW q \in BinsPackets, p # q
  PROVE  Indices(p) \cap Indices(q) = {}
<1> USE WeakTableAssumption
<1> DEFINE B == StepBy(0, BinsNum, EntriesChunk)
           pack(b) == Packet("bins", b, SmallerOf(b + BinsChunk, BinsNum))
<1>1. ASSUME NEW a \in B, NEW b \in B, a < b
      PROVE  Indices(pack(a)) \cap Indices(pack(b)) = {}
  <2>1. a + EntriesChunk <= b  BY <1>1, StepByApart
  <2>2. a \in Int /\ b \in Int  BY DEF StepBy
  <2> QED BY <2>1, <2>2 DEF Indices, Packet, SmallerOf
<1>2. PICK a \in B : p = pack(a)  BY DEF BinsPackets
<1>3. PICK b \in B : q = pack(b)  BY DEF BinsPackets
<1>4. a # b /\ a \in Int /\ b \in Int  BY <1>2, <1>3 DEF StepBy
<1>5. CASE a < b  BY <1>1, <1>2, <1>3, <1>5
<1>6. CASE b < a
  <2>1. Indices(pack(b)) \cap Indices(pack(a)) = {}  BY <1>1, <1>6
  <2> QED BY <1>2, <1>3, <2>1
<1> QED BY <1>4, <1>5, <1>6

LEMMA InitApartInv == Init => ApartInv
<1> SUFFICES ASSUME Init PROVE ApartInv
  OBVIOUS
<1>1. \A p \in BinsPackets : p \notin EntriesPackets  BY PacketShape
<1> QED BY <1>1 DEF Init, ApartInv, WaitingFresh, BinsOnePlace, Sweeping

LEMMA WorkerStepApartInv ==
  ASSUME WTInv, ApartInv, NEW w \in Worker, WorkerStep(w)
  PROVE  ApartInv'
<1> USE DEF WTInv, ApartInv
<1>1. \A p \in BinsPackets : p \notin EntriesPackets  BY PacketShape
<1>2. CASE CountUp(w)
  BY <1>2 DEF CountUp, tableVars, WaitingFresh, Waiting, BinsOnePlace, Sweeping, WTTypeOK
<1>3. CASE AddPackets(w)
  <2> USE <1>3 DEF AddPackets, tableVars
  <2>1. /\ out[w] = EntriesPackets /\ bucket = {}
        /\ \A v \in Worker : v # w => pc[v] = "idle" /\ out[v] = {}
    BY DEF SetupAlone, Setup, Ownership
  <2>2. WaitingFresh'  BY DEF WaitingFresh, Waiting, WTTypeOK
  <2>3. BinsOnePlace'  BY <1>1, <2>1 DEF BinsOnePlace, Sweeping, WTTypeOK
  <2> QED BY <2>2, <2>3
<1>4. ASSUME NEW p \in out[w], Publish(w, p) PROVE ApartInv'
  BY <1>4 DEF Publish, tableVars, latchVars, WaitingFresh, Waiting,
              BinsOnePlace, Sweeping, WTTypeOK
<1>5. ASSUME NEW p \in bucket, Take(w, p) PROVE ApartInv'
  <2> USE <1>5 DEF Take, tableVars, latchVars
  <2>1. WaitingFresh'  BY DEF WaitingFresh, Waiting, WTTypeOK
  <2>2. BinsOnePlace'  BY DEF BinsOnePlace, Sweeping, WTTypeOK
  <2> QED BY <2>1, <2>2
<1>6. CASE UpdateEntries(w)
  <2> USE <1>6 DEF UpdateEntries, tableVars, latchVars
  <2>1. packet[w] \in EntriesPackets  BY DEF Ownership
  <2>2. ASSUME NEW p \in EntriesPackets, Waiting(p)'
        PROVE  p # packet[w] /\ Waiting(p)
    BY <2>1, <2>2 DEF Waiting, OnePlace, Executing, WTTypeOK
  <2>3. WaitingFresh'
    BY <2>1, <2>2, EntriesPacketsApart DEF WaitingFresh
  <2>4. BinsOnePlace'  BY DEF BinsOnePlace, Sweeping, WTTypeOK
  <2> QED BY <2>3, <2>4
<1>7. CASE CountDown(w)
  BY <1>7 DEF CountDown, tableVars, WaitingFresh, Waiting, BinsOnePlace, Sweeping, WTTypeOK
<1>8. CASE Release(w)
  <2> USE <1>8 DEF Release, tableVars
  <2>1. \A p \in held : p \in BinsPackets /\ p \notin EntriesPackets
    BY <1>1 DEF WTTypeOK
  <2>2. WaitingFresh'  BY <2>1 DEF WaitingFresh, Waiting, WTTypeOK
  <2>3. BinsOnePlace'  BY <2>1 DEF BinsOnePlace, Sweeping, WTTypeOK
  <2> QED BY <2>2, <2>3
<1>9. CASE UpdateBins(w)
  BY <1>9 DEF UpdateBins, tableVars, latchVars, WaitingFresh, Waiting,
              BinsOnePlace, Sweeping, WTTypeOK
<1> QED BY <1>2, <1>3, <1>4, <1>5, <1>6, <1>7, <1>8, <1>9 DEF WorkerStep

LEMMA NextApartInv == WTInv /\ ApartInv /\ [Next]_vars => ApartInv'
<1> SUFFICES ASSUME WTInv, ApartInv, [Next]_vars PROVE ApartInv'
  OBVIOUS
<1>1. CASE CloseBucket \/ UNCHANGED vars
  BY <1>1 DEF CloseBucket, vars, tableVars, latchVars, ApartInv, WaitingFresh,
              Waiting, BinsOnePlace, Sweeping
<1>2. ASSUME NEW w \in Worker, WorkerStep(w) PROVE ApartInv'
  BY <1>2, WorkerStepApartInv
<1> QED BY <1>1, <1>2 DEF Next

LEMMA ApartInvariant == Spec => [](WTInv /\ ApartInv)
BY InitApartInv, NextApartInv, WTInvariant, PTL DEF Spec

(* No entry is updated twice and no two workers update the same entry, for *)
(* every table, chunk size and schedule (UpdateTableEntriesParallel).      *)
THEOREM EachEntryUpdatedOnce == Spec => []EntriesUpdatedOnce
<1>1. WTInv /\ ApartInv => EntriesUpdatedOnce
  <2> SUFFICES ASSUME WTInv, ApartInv, NEW w \in Worker, pc[w] = "entries"
               PROVE  /\ Indices(packet[w]) \cap updated = {}
                      /\ \A v \in Worker : v # w /\ pc[v] = "entries" =>
                           Indices(packet[v]) \cap Indices(packet[w]) = {}
    BY DEF EntriesUpdatedOnce
  <2>1. \A v \in Worker : pc[v] = "entries" => packet[v] \in EntriesPackets
    BY DEF WTInv, Ownership
  <2>2. Indices(packet[w]) \cap updated = {}
    BY <2>1 DEF ApartInv, WaitingFresh, Waiting
  <2>3. \A v \in Worker : v # w /\ pc[v] = "entries" => packet[v] # packet[w]
    BY <2>1 DEF WTInv, OnePlace, Executing
  <2> QED BY <2>1, <2>2, <2>3, EntriesPacketsApart
<1> QED BY <1>1, ApartInvariant, PTL

-----------------------------------------------------------------------------
(* The ranges of the bins packets.                                         *)

BinsApart == \A p, q \in BinsPackets : p # q => Indices(p) \cap Indices(q) = {}

(* Which tables have bins that belong to more than one packet: exactly     *)
(* those with more bins than an entries chunk has entries, whenever a      *)
(* chunk of bins is larger than a chunk of entries.  With the binding's    *)
(* defaults these are the tables of more than 1024 bins.                   *)
THEOREM BinsApartExactly ==
  BinsApart <=> BinsChunk <= EntriesChunk \/ BinsNum <= EntriesChunk
<1>0. EntriesChunk \in Nat \ {0} /\ BinsChunk \in Nat \ {0} /\ BinsNum \in Nat
  BY WeakTableAssumption
<1>1. ASSUME BinsChunk <= EntriesChunk PROVE BinsApart
  BY <1>1, BinsPacketsApart DEF BinsApart
<1>2. ASSUME BinsNum <= EntriesChunk PROVE BinsApart
  <2>1. ASSUME NEW b \in StepBy(0, BinsNum, EntriesChunk) PROVE b = 0
    <3>1. PICK k \in 0 .. BinsNum - 0 : b = 0 + k * EntriesChunk  BY DEF StepBy
    <3>2. b \in 0 .. BinsNum - 1  BY DEF StepBy
    <3>3. k * EntriesChunk \in Nat  BY <1>0, <3>1
    <3>4. CASE k = 0  BY <1>0, <3>1, <3>4
    <3>5. CASE k # 0
      <4>1. k \in Nat \ {0}  BY <1>0, <3>1, <3>5
      <4>2. EntriesChunk <= k * EntriesChunk  BY <1>0, <4>1, MultipleIsLarger
      <4> QED BY <1>0, <1>2, <3>1, <3>2, <3>3, <4>2
    <3> QED BY <3>4, <3>5
  <2>2. \A p, q \in BinsPackets : p = q  BY <2>1 DEF BinsPackets
  <2> QED BY <2>2 DEF BinsApart
<1>3. ASSUME BinsApart, EntriesChunk < BinsChunk, EntriesChunk < BinsNum PROVE FALSE
  <2> DEFINE p == Packet("bins", 0, SmallerOf(0 + BinsChunk, BinsNum))
  <2> DEFINE q == Packet("bins", EntriesChunk,
                         SmallerOf(EntriesChunk + BinsChunk, BinsNum))
  <2>1. 0 \in StepBy(0, BinsNum, EntriesChunk)
        /\ EntriesChunk \in StepBy(0, BinsNum, EntriesChunk)
    <3>1. 0 \in 0 .. BinsNum - 1 /\ EntriesChunk \in 0 .. BinsNum - 1
          /\ 0 \in 0 .. BinsNum - 0 /\ 1 \in 0 .. BinsNum - 0
      BY <1>0, <1>3
    <3>2. 0 = 0 + 0 * EntriesChunk /\ EntriesChunk = 0 + 1 * EntriesChunk
      BY <1>0
    <3> QED BY <3>1, <3>2 DEF StepBy
  <2>2. p \in BinsPackets /\ q \in BinsPackets  BY <2>1 DEF BinsPackets
  <2>3. /\ p.begin = 0 /\ p.end = SmallerOf(BinsChunk, BinsNum)
        /\ q.begin = EntriesChunk
        /\ q.end = SmallerOf(EntriesChunk + BinsChunk, BinsNum)
    BY <1>0 DEF Packet
  <2>4. p # q  BY <1>0, <2>3
  <2> HIDE DEF p, q
  <2>5. EntriesChunk \in Indices(p) /\ EntriesChunk \in Indices(q)
    BY <1>0, <1>3, <2>3 DEF Indices, SmallerOf
  <2> QED BY <1>3, <2>2, <2>4, <2>5 DEF BinsApart
<1> QED BY <1>0, <1>1, <1>2, <1>3

(* Bins are shared by workers through the cut into packets only: no bins   *)
(* packet is ever run by two workers, whatever the chunk sizes.            *)
LEMMA BinsDisjointIfApart ==
  ASSUME BinsApart
  PROVE  Spec => []ConcurrentBinsDisjoint
<1>1. WTInv /\ ApartInv => ConcurrentBinsDisjoint
  <2> SUFFICES ASSUME WTInv, ApartInv, NEW v \in Worker, NEW w \in Worker,
                      v # w, pc[v] = "bins", pc[w] = "bins"
               PROVE  Indices(packet[v]) \cap Indices(packet[w]) = {}
    BY DEF ConcurrentBinsDisjoint
  <2>1. packet[v] \in BinsPackets /\ packet[w] \in BinsPackets
    BY DEF WTInv, Ownership
  <2>2. packet[v] # packet[w]
    BY <2>1 DEF ApartInv, BinsOnePlace, Sweeping
  <2> QED BY <2>1, <2>2 DEF BinsApart
<1> QED BY <1>1, ApartInvariant, PTL
=============================================================================
