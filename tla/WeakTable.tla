------------------------------ MODULE WeakTable ------------------------------
(***************************************************************************)
(* Parallel weak processing of one st_table in the VMRefClosure bucket     *)
(* (weak_proc.rs: process_weak_table_chunked, UpdateTableEntriesParallel,  *)
(* UpdateTableBinsParallel) and the AfterAll latch it uses (utils.rs).     *)
(*                                                                         *)
(* The worker that runs the bucket's sentinel cuts the table into packets  *)
(* that each update a range of entries, and packets that each clean a      *)
(* range of bins.  The latch holds the bins packets back until the last    *)
(* entries packet has counted down.                                        *)
(***************************************************************************)
EXTENDS Chunks, FiniteSets

CONSTANTS
  Worker,        (* GC worker threads                                      *)
  EntriesStart,  (* first used entry of the table, from st_get_size_info   *)
  EntriesBound,  (* one past its last used entry                           *)
  BinsNum,       (* number of its hash bins                                *)
  EntriesChunk,  (* binding().st_entries_chunk_size                        *)
  BinsChunk,     (* binding().st_bins_chunk_size                           *)
  CounterSize,   (* number of values of an AtomicUsize                     *)
  Empty,         (* content of a bin that leads to no entry                *)
  NoPacket       (* what an idle worker runs                               *)

(* A chunk size of 0 makes step_by panic; both are parsed from the         *)
(* environment without a lower bound.                                      *)
ASSUME WeakTableAssumption ==
  /\ EntriesStart \in Nat /\ EntriesBound \in Nat /\ BinsNum \in Nat
  /\ EntriesChunk \in Nat \ {0} /\ BinsChunk \in Nat \ {0}
  /\ CounterSize \in Nat /\ EntriesBound < CounterSize
  /\ Empty \notin Int

VARIABLES
  dead,      (* entries whose weak key or value was not reached            *)
  updated,   (* entries st_update_entries_range has processed              *)
  bins,      (* the entry each bin leads to                                *)
  counter,   (* AfterAll::counter                                          *)
  held,      (* AfterAll::packets                                          *)
  bucket,    (* packets waiting in the VMRefClosure bucket                 *)
  pc,        (* what each worker does next                                 *)
  packet,    (* the packet each worker executes                            *)
  out,       (* packets each worker has yet to push to the bucket          *)
  closed     (* the bucket is empty and every worker is parked             *)

tableVars == <<dead, updated, bins>>
latchVars == <<counter, held>>
vars == <<tableVars, latchVars, bucket, pc, packet, out, closed>>

Entry == EntriesStart .. EntriesBound - 1
Bin == 0 .. BinsNum - 1

Packet(kind, begin, end) == [kind |-> kind, begin |-> begin, end |-> end]

EntriesPackets ==
  {Packet("entries", b, SmallerOf(b + EntriesChunk, EntriesBound)) :
     b \in StepBy(EntriesStart, EntriesBound, EntriesChunk)}

(* Mutant: the range of a packet taken as begin..=end.                     *)
IndicesInclusive(p) == p.begin .. p.end

Indices(p) == p.begin .. p.end - 1

(* Mutant: a range of bins that stops one short of its end.                *)
BinsPacketsShort ==
  {Packet("bins", b, SmallerOf(b + BinsChunk, BinsNum) - 1) :
     b \in StepBy(0, BinsNum, EntriesChunk)}

(* The bins packets begin a chunk of ENTRIES apart, and each covers a      *)
(* chunk of bins.                                                          *)
BinsPackets ==
  {Packet("bins", b, SmallerOf(b + BinsChunk, BinsNum)) :
     b \in StepBy(0, BinsNum, EntriesChunk)}

(* fetch_add and fetch_sub wrap around.                                    *)
FetchAdd(c, n) == IF c + n < CounterSize THEN c + n ELSE c + n - CounterSize
FetchSubOne(c) == IF c = 0 THEN CounterSize - 1 ELSE c - 1

(* Mutants of the test on the value fetch_sub returned: satisfied one      *)
(* packet early, by the last two packets, and never.                       *)
WasLastEarly(c) == c = 2
WasLastTwice(c) == c \in {1, 2}
WasLastNever(c) == c = 0

WasLast(c) == c = 1

(* st_update_bins_range: a bin that leads to a deleted entry is emptied.   *)
CleanedBins(S) ==
  [i \in Bin |-> IF i \in S /\ bins[i] \in updated \cap dead
                 THEN Empty ELSE bins[i]]

(* Any table: an entry is led to by at most one bin, and which entries are *)
(* dead was settled by the closure before.                                 *)
Init ==
  /\ dead \in SUBSET Entry
  /\ updated = {}
  /\ bins \in [Bin -> Entry \cup {Empty}]
  /\ \A i, j \in Bin : bins[i] = bins[j] => i = j \/ bins[i] = Empty
  /\ counter = 0
  /\ held = {}
  /\ bucket = {}
  /\ packet = [w \in Worker |-> NoPacket]
  /\ closed = FALSE
  /\ \E sentinel \in Worker :
       /\ pc = [w \in Worker |-> IF w = sentinel THEN "countUp" ELSE "idle"]
       /\ out = [w \in Worker |-> IF w = sentinel THEN EntriesPackets ELSE {}]

-----------------------------------------------------------------------------
(* process_weak_table_chunked, from the entries packets it has built on.   *)

(* Mutant: counts the packets it will hold back, not those it waits for.   *)
CountUpBins(w) ==
  /\ pc[w] = "countUp"
  /\ counter' = FetchAdd(counter, Cardinality(BinsPackets))
  /\ pc' = [pc EXCEPT ![w] = "addPackets"]
  /\ UNCHANGED <<tableVars, held, bucket, packet, out, closed>>

CountUp(w) ==
  /\ pc[w] = "countUp"
  /\ counter' = FetchAdd(counter, Cardinality(out[w]))
  /\ pc' = [pc EXCEPT ![w] = "addPackets"]
  /\ UNCHANGED <<tableVars, held, bucket, packet, out, closed>>

AddPackets(w) ==
  /\ pc[w] = "addPackets"
  /\ held' = held \cup BinsPackets
  /\ pc' = [pc EXCEPT ![w] = IF out[w] = {} THEN "idle" ELSE "publish"]
  /\ UNCHANGED <<tableVars, counter, bucket, packet, out, closed>>

(* bulk_add pushes the packets one by one; other workers may already run   *)
(* the first ones.                                                         *)
Publish(w, p) ==
  /\ pc[w] = "publish"
  /\ p \in out[w]
  /\ bucket' = bucket \cup {p}
  /\ out' = [out EXCEPT ![w] = @ \ {p}]
  /\ pc' = [pc EXCEPT ![w] = IF out[w] = {p} THEN "idle" ELSE "publish"]
  /\ UNCHANGED <<tableVars, latchVars, packet, closed>>

-----------------------------------------------------------------------------
(* The workers.                                                            *)

Take(w, p) ==
  /\ pc[w] = "idle"
  /\ p \in bucket
  /\ bucket' = bucket \ {p}
  /\ packet' = [packet EXCEPT ![w] = p]
  /\ pc' = [pc EXCEPT ![w] = p.kind]
  /\ UNCHANGED <<tableVars, latchVars, out, closed>>

UpdateEntries(w) ==
  /\ pc[w] = "entries"
  /\ updated' = updated \cup Indices(packet[w])
  /\ pc' = [pc EXCEPT ![w] = "countDown"]
  /\ UNCHANGED <<dead, bins, latchVars, bucket, packet, out, closed>>

(* count_down: the worker that finds the counter at 1 was the last.        *)
CountDown(w) ==
  /\ pc[w] = "countDown"
  /\ counter' = FetchSubOne(counter)
  /\ pc' = [pc EXCEPT ![w] = IF WasLast(counter) THEN "release" ELSE "idle"]
  /\ packet' = [packet EXCEPT ![w] = NoPacket]
  /\ UNCHANGED <<tableVars, held, bucket, out, closed>>

Release(w) ==
  /\ pc[w] = "release"
  /\ held' = {}
  /\ out' = [out EXCEPT ![w] = held]
  /\ pc' = [pc EXCEPT ![w] = IF held = {} THEN "idle" ELSE "publish"]
  /\ UNCHANGED <<tableVars, counter, bucket, packet, closed>>

UpdateBins(w) ==
  /\ pc[w] = "bins"
  /\ bins' = CleanedBins(Indices(packet[w]))
  /\ pc' = [pc EXCEPT ![w] = "idle"]
  /\ packet' = [packet EXCEPT ![w] = NoPacket]
  /\ UNCHANGED <<dead, updated, latchVars, bucket, out, closed>>

(* The scheduler leaves the bucket when nothing is left to run in it.      *)
CloseBucket ==
  /\ ~closed
  /\ bucket = {}
  /\ \A w \in Worker : pc[w] = "idle"
  /\ closed' = TRUE
  /\ UNCHANGED <<tableVars, latchVars, bucket, pc, packet, out>>

WorkerStep(w) ==
  \/ CountUp(w)
  \/ AddPackets(w)
  \/ \E p \in out[w] : Publish(w, p)
  \/ \E p \in bucket : Take(w, p)
  \/ UpdateEntries(w)
  \/ CountDown(w)
  \/ Release(w)
  \/ UpdateBins(w)

Next == CloseBucket \/ \E w \in Worker : WorkerStep(w)

(* Some GC thread that can take a step eventually does.                    *)
Fairness == WF_vars(Next)

Spec == Init /\ [][Next]_vars /\ Fairness

-----------------------------------------------------------------------------
(* Type correctness of the packets, the latch and the table.               *)
WTTypeOK ==
  /\ dead \subseteq Entry
  /\ updated \subseteq Entry
  /\ bins \in [Bin -> Entry \cup {Empty}]
  /\ counter \in 0 .. CounterSize - 1
  /\ held \subseteq BinsPackets
  /\ bucket \subseteq EntriesPackets \cup BinsPackets
  /\ pc \in [Worker -> {"idle", "countUp", "addPackets", "publish", "entries",
                        "countDown", "release", "bins"}]
  /\ packet \in [Worker -> EntriesPackets \cup BinsPackets \cup {NoPacket}]
  /\ out \in [Worker -> SUBSET (EntriesPackets \cup BinsPackets)]
  /\ closed \in BOOLEAN

Executing(w) == pc[w] \in {"entries", "countDown", "bins"}

(* Entries packets that have not counted down yet, wherever they are.      *)
Pending ==
  {p \in EntriesPackets :
     \/ p \in bucket
     \/ \E w \in Worker : p \in out[w] \/ (Executing(w) /\ packet[w] = p)}

(* Once raised, the latch's counter is exactly the number of entries       *)
(* packets that have yet to count down: it neither underflows nor reaches  *)
(* zero early, however pushing, taking and finishing packets interleave    *)
(* (AfterAll::count_up and count_down).                                    *)
CounterExact ==
  (\A w \in Worker : pc[w] # "countUp") => counter = Cardinality(Pending)

(* No bin is examined, or can be picked up to be examined, while an entry  *)
(* has yet to be updated (the reason AfterAll exists).                     *)
BinsAfterEntries ==
  (\/ \E w \in Worker : pc[w] = "bins"
   \/ \E p \in BinsPackets : p \in bucket \/ \E w \in Worker : p \in out[w])
    => updated = Entry

(* AfterAll::packets is borrowed by one thread at a time: a second         *)
(* borrow_mut of the AtomicRefCell would panic (add_packets, count_down).  *)
SingleBorrow ==
  \A v, w \in Worker :
    {pc[v], pc[w]} \subseteq {"addPackets", "release"} => v = w

(* When the bucket closes, every entry has been updated, no bin leads to a *)
(* deleted entry, and no packet is left behind in the latch of a table     *)
(* that has entries.                                                       *)
NoDanglingBin ==
  closed => /\ updated = Entry
            /\ \A i \in Bin : bins[i] \notin dead
            /\ Entry # {} => held = {}

(* Ranges of bins that are cleaned at the same time do not overlap: the    *)
(* comment in update_generic_iv_tbl says st_table is not thread-safe.      *)
ConcurrentBinsDisjoint ==
  \A v, w \in Worker :
    v # w /\ pc[v] = "bins" /\ pc[w] = "bins"
      => Indices(packet[v]) \cap Indices(packet[w]) = {}

(* Weak processing of the table comes to an end with no bin left dangling, *)
(* under fair scheduling of the GC threads (no lost wake-up through the    *)
(* latch: bins packets that are never released would leave bins dangling). *)
TableEventuallyClean == <>[](closed /\ \A i \in Bin : bins[i] \notin dead)

(* The packets, the latch and the workers implement the two-phase update.  *)
TwoPhase == INSTANCE EntriesThenBins
ImplementsTwoPhase == TwoPhase!Spec
=============================================================================
