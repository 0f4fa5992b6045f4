# TLA+ models of the MMTk binding for CRuby

This directory holds TLA+ specifications, TLC configurations and TLAPS proofs
for the Rust code in `mmtk/src`: the binding that lets CRuby use mmtk-core as its
garbage collector. Paths below are relative to `mmtk/src`.

- Run a model: `tlc -workers 2 -config MCPPP.cfg MCPPP` (see "Runs").
- Check a proof: `tlapm PPPProofs.tla` (see "Proofs").
- `PROJECT.json` maps every definition to the lines it models, and lists runs,
  hazards, theorems, and for each property a mutation of the code it detects.

## 1. The system

The binding sits between two programs whose code is not in this repository.
**CRuby** (C) runs the mutators and owns the objects' contents and the global
tables; it calls the binding through `mmtk_*` functions and is called back through
`upcalls()`. **mmtk-core** (Rust) owns the heap, traces, and runs *work packets*
on GC worker threads: packets of one *bucket* run in any order and concurrently,
and the next bucket opens when the bucket is empty and all workers are parked.
The binding implements mmtk-core's `VMBinding` traits and adds packets of its own.

| Component | State | Operations | Interacts with | Hard part |
|---|---|---|---|---|
| Weak table processing (`weak_proc.rs` `process_weak_table_chunked`, `utils.rs` `AfterAll`) | the `st_table` (entries, bins), latch counter, packets held by the latch | cut into packets, raise latch, publish, update entries, count down, release, update bins | scheduler; `st_*` upcalls | entries packets run while more are being published; the last of many concurrent `count_down`s releases the bins packets |
| Potential pinning parents (`ppp.rs`) | `ppps`, `pinned_ppp_children`, the pinning bits | `register(_many)`, `pin_ppp_children`, `cleanup_ppps`, three kinds of packet | called from `stop_all_mutators` and the VMRefClosure sentinel; the user's own pins (`api.rs`) share the pinning bits | PPPs in different packets share children; moving and non-moving collections alternate; entries dangle if not forwarded |
| obj_free candidates (`weak_proc.rs`) | `obj_free_candidates` | `add`, `add_many`, one packet per collection, hand-over at exit | CRuby calls, `call_obj_free` upcall | once per object over many moves; ownership changes at exit |
| Generic ivar tables (`object_model.rs` `copy`, `abi.rs` `get_givtbl`, `weak_proc.rs` `update_generic_iv_tbl`) | `generic_iv_tbl_` (CRuby's), `moved_givtbl` | record a move, look a table up, re-key, clean | tracing on many workers; one VMRefClosure packet | copying and scanning interleave; the table cannot be written while tracing |
| GC threads (`collection.rs`, `binding.rs`, `lib.rs`, `api.rs`) | `GC_THREADS`, join handles | spawn, register, work, unregister, join, panic hook, fork | mmtk-core's worker life cycle, OS threads | handles are pushed after threads run; fork must be single-threaded |
| Root scanning (`scanning.rs`, `utils.rs` `ChunkedVecCollector`) | local buffers and vectors | a packet per mutator and per global place; visited roots buffered, handed over at the limit and at the end | root factories of mmtk-core; scanning upcalls | a full buffer, a partly filled one, a root in none |
| WB-unprotected objects (`scanning.rs`, `weak_proc.rs`, `binding.rs`) | `wb_unprotected_objects` | register, extra roots of a nursery collection, update | generational plans, the write barrier | young objects survive only through the extra roots; the registry holds addresses |
| Object closure (`abi.rs` `ObjectClosure`, `GCThreadTLS`) | per-thread closure | set, call, reset | CRuby's marking functions | one left behind runs in the next packet's upcall |
| Other weak tables (`weak_proc.rs`) | none in the binding; CRuby's tables | one packet and upcall each | the forwarding closure | tables hold addresses of objects that move |
| Object layout (`abi.rs` `RubyObjectAccess`, `object_model.rs`) | hidden header, payload, hidden suffix | allocate, copy, tell the extent | mmtk-core's copying and its forwarding word | everyone computes the extent from a word that copying overwrites |
| C API, options, active plan, reference glue | none that interacts | - | - | - |

What makes each correct:

- *Weak tables*: bins are looked at only when every entry has been; each bin is
  cleaned; the latch releases exactly once and is never borrowed twice.
- *PPP*: what must not move is pinned before tracing; every pin has one owner and is
  undone; a user's pin is left alone; the registry neither dangles nor loses a live PPP.
- *obj_free*: exactly once per registered object, never while it is in use, before
  its memory goes; nothing lost or repeated when the list changes hands.
- *Ivar tables*: a look-up during tracing finds the object's own table; afterwards
  the table is keyed by current addresses and holds only objects on the heap.
- *GC threads*: one handle per thread, no thread or registration across a fork; a panic
  while mmtk-core runs on a thread takes the process down, and a thread that dies before
  it is registered or after it is unregistered is found out when it is joined; preparing a
  fork terminates.
- *Root scanning and WB-unprotected objects*: no collection loses what the program can
  reach; what a root refers to stays in place; between collections the registry holds the
  unprotected objects, at their addresses, and nothing else.
- *Object closure*: registered exactly while CRuby code runs for its packet.
- *Layout*: an object's size is neither more nor less than what CRuby stored, wherever it
  has been copied; no two objects overlap.

`PROJECT.json` lists the 35 hazards these properties are aimed at, each at its
line; those no property covers yet say why.

## 2. Modules

```
MMTkCore            external: heap that moves objects, tracing, buckets, workers
  PPP               ppp.rs            -> PPPProofs
  ObjFree           weak_proc.rs (obj_free)                 -> ObjFreeProofs
  GivTbl            object_model.rs, abi.rs, weak_proc.rs   -> GivTblProofs
StickyHeap          external: generational heap, tracing from roots only
  RootScanning      scanning.rs, utils.rs, abi.rs, weak_proc.rs -> RootScanningProofs
Layout              abi.rs, object_model.rs (hidden header and suffix) -> LayoutProofs
WeakRegistry        abstract: what PPP, ObjFree, GivTbl and RootScanning promise of a registry
Chunks              step_by / chunks   -> ChunksProofs
  WeakTable         weak_proc.rs, utils.rs -> WeakTableProofs
EntriesThenBins     abstract: two-phase update, implemented by WeakTable
GCThreads           collection.rs, api.rs, lib.rs, binding.rs -> GCThreadsProofs
MCPPP, MCObjFree, MCGivTbl, MCRootScanning, MCLayout   definitions for TLC
```

**MMTkCore** is the environment. An `ObjectReference` is an address, and
`heap` maps addresses to object *identities*: an object that is copied keeps its
identity, so "lost track of" and "freed twice" can be said about objects rather
than addresses. A live object is always traced. Garbage *may* be traced as well,
with what it refers to: mature garbage in a nursery collection, garbage found
conservatively. `pinned` is the set of set pinning bits, and a pinned object is not
copied. Work buckets are `Prepare`, `Closure`, `VMRefClosure`, `Release`.
A packet that is taken leaves its bucket and occupies a worker; a bucket closes
when it is empty and no worker runs a packet.

**WeakTable**. `pc[w]` is the place of worker *w* inside
`process_weak_table_chunked` (`countUp`, `addPackets`, `publish`) or inside a packet
(`entries`, `countDown`, `release`, `bins`). `CountUp` and `CountDown` are the
atomic `fetch_add`/`fetch_sub` of `AfterAll` and wrap at `CounterSize`.
`out[w]` is what is left of a `bulk_add`, which pushes one packet at a time.
`Init` enumerates every choice of dead entries and every layout of bins. The cut
into packets is the code's, including the step of the bins packets (see "Findings").

**EntriesThenBins** says what that machinery is for: entries are updated in any
groups and any order, then bins are cleaned in any groups and any order, and when the
work is over nothing dangles. `ImplementsTwoPhase` is the refinement.

**PPP**. Mutator actions: `Register` (also `register_many`), `BecomePlain`
(`is_no_longer_ppp`), `UserPin`/`UserUnpin` (`mmtk_pin_object`,
`mmtk_unpin_object`). `StopAllMutators` cuts the registry into `PinPPPChildren`
packets if the collection may move objects. A packet is `VisitPPPs`, then `PinChild`
once per child (the atomic `pin_object`, whose result decides who owns the pin), then
`AppendPinned`. The VMRefClosure sentinel runs `cleanup_ppps` in two steps, because
`RemoveDeadPPPs` may already be running when the second begins. `RetainPPP` is one
call of the closure of `retain_mut`.

**ObjFree**. `AddCandidates`, `ProcessCandidate` (the loop body),
`ReplaceCandidates`, `TakeAllCandidates` (the `RawVecOfObjRef` at exit) and
`FreeAtExit`. `registered` and `freed` are history variables.

**GivTbl**. Copying is three steps as in `copy`: find the table and
allocate (`StartCopy`), record the move (`InsertMoved`), and return, upon which
mmtk-core makes the forwarding pointer visible (`Publish`). Scanning looks in the
original table, then in `moved_givtbl` (`LookupOriginal`, `LookupMoved`); where the
code would panic the action is disabled, so a panic shows as a deadlock and in
`LookupSucceeds`. `MoveGivTbl` and `CleanupGivTbl` are the VMRefClosure packet.

**WeakRegistry** is the abstract registry: it may drop only what is not needed,
and memory is reclaimed only when the registry has let go of it. `PPP`, `ObjFree` and
`GivTbl` each implement it under a mapping of their own (`ImplementsRegistry`), and
`RootScanning` implements it twice (`ImplementsRegistries`): its registry needs the live
unprotected objects, its ci table the live interned ones, and a table's members are the
objects at the addresses it holds.

**GCThreads**. `main` is the thread that initializes and forks; `thread[w]` the
native thread of a worker, which goes through `started`, `working` (registered, in
mmtk-core's `start_worker`), `quitting` (`start_worker` has returned), `left`
(unregistered) and `exited`. A thread exists (`started`) before its handle is pushed.
`Panic` may strike in each of these places and follows the hook: abort if the thread is in
`GC_THREADS`, otherwise only that thread unwinds (`unwound`, and the history variable of
that name remembers where it was). `Join` includes the `unwrap` of what `JoinHandle::join`
returns, and `SpawnFails` that of `Builder::spawn`: both run inside an `extern "C"`
function, out of which a panic does not unwind (Rust 1.81 and later), so the process
aborts.

**StickyHeap** is a second environment, for the opposite question. In MMTkCore tracing
reaches whatever is live, so that the registries can be studied; here it starts from the
roots the binding hands over and, in a nursery collection, from the fields of the old
objects the write barrier has logged, and reaches nothing else. Mark bits of survivors are
kept (`old`), and a nursery collection begins with them set. The program allocates, writes
fields, loads and drops roots; `Live` is what it can reach.

**RootScanning** composes three components that need one another. `StopAllMutators` adds
a packet per mutator stack and `ScanVMSpecificRoots`; that one adds a packet per global
place, and in a nursery collection distributes `wb_unprotected_objects` over vectors
(`AddToVec` is `ChunkedVecCollector::add`, `AddWbUnprotectedPackets` its `into_vecs` and
what follows). A root packet registers its closure and calls CRuby
(`CollectObjectRootsIn`), which visits its roots one by one (`VisitRoot`: push, and hand
over a full buffer, which leaves `BufferAfter`); `EndCollect` hands over the rest and
resets the closure. In VMRefClosure the registry and the ci table are updated by packets of their own, the
second through the forwarding closure (`StartUpdateCiTable`, `UpdateCiTable`).

**Layout** counts words. `Alloc` writes header, payload and suffix as CRuby does after
`mmtk_alloc` has clamped the size; `Copy` copies the extent computed from the header of the
old copy and lays the forwarding pointer over that header; `EndGC` keeps in use only what
`get_current_size` tells.

### Abstractions shared by the modules

- A push or removal under a mutex is one step: the code between lock and unlock
  has no callback that re-enters the binding and no safepoint.
- One weak table at a time. Each call of `process_weak_table_chunked` has its own
  latch and packets and tables share nothing in the binding.
- CRuby registers an object for obj_free once, and while holding it.
- No collection runs once CRuby has taken the candidates at exit.
- An object handed to a `mmtk_*` function is one the caller can still use.
- Spaces that never move are not distinguished: an object in them is one the
  tracing happens not to copy, and plans that never move are covered by collections with
  `moving = FALSE`.
- `update_generic_iv_tbl`'s clean-up iterates over keys that are already re-keyed, so
  "is this key live" is asked of new addresses (`Survivor`).
- In RootScanning, tracing from what was handed over is one step (`TraceClosure`), and an
  upcall visits each object once: CRuby may visit it again, which changes nothing in a
  set of pinned roots.
- The nine `scan_*_roots` packets for global places differ in the upcall they make, so
  they are one packet kind with a place as parameter.
- `EndGC` of Layout forgets the contents of words that are no longer used.

## 3. Runs

| Run | Module, cfg | Instance | Question |
|---|---|---|---|
| WeakTable | WeakTable, MCWeakTable.cfg | 3 workers, entries 1..3 in 3 packets, 4 bins in overlapping packets | Is the latch exact, are bins after entries, is the table clean when the bucket closes, does it close, is it the two-phase update? |
| WeakTableOverlap | WeakTable, MCWeakTableOverlap.cfg | chunk sizes 1 and 4: the proportion of the defaults | Are ranges of bins cleaned at once disjoint? No: see "Findings" |
| PPP | MCPPP, MCPPP.cfg | 2 PPPs `p`, `q`, 1 shared child `c`, 4 addresses, 2 workers, registry of 2 in chunks of 1, 1 user pin | pin ownership, pins undone, children stay, registry does not dangle, registry refinement |
| PPPLive | MCPPP, MCPPPLive.cfg | 1 PPP that may be registered twice, its child, 3 addresses, fields overwritten, no symmetry | every pin made for a collection is undone, though fields change between collections |
| ObjFree | MCObjFree, MCObjFree.cfg | 3 objects, 4 addresses, 2 workers | exactly-once obj_free, order with reclamation, registry refinement |
| ObjFreeLive | MCObjFree, MCObjFreeLive.cfg | 2 objects, 3 addresses, no symmetry | all candidates freed after shutdown begins |
| GivTbl | MCGivTbl, MCGivTbl.cfg | 3 objects, 5 addresses, 2 workers | look-ups succeed, tables follow objects, registry refinement |
| GivTblLive | MCGivTbl, MCGivTblLive.cfg | 2 objects, 3 addresses, no symmetry | every move is applied |
| GCThreads | GCThreads, MCGCThreads.cfg | 3 workers, 2 forks, panics anywhere, failures to spawn | thread/handle accounting, fork safety, deaths are noticed, fork terminates |
| RootScanning | MCRootScanning, MCRootScanning.cfg | 2 objects, 3 addresses, a mutator stack and a global place, 2 workers, buffers of 2, chunks of 1 | roots stay, registries exact, the closure fits its packet, both tables refine the registry |
| Nursery | MCRootScanning, MCNursery.cfg | 3 objects, 4 addresses, one global place, 2 workers, buffers and chunks of 2 | nothing live is lost, in nursery and full collections |
| Layout | MCLayout, MCLayout.cfg | 3 objects of 2 payload sizes, suffix of 1 word, minimum 4, 14 words | sizes exact, extents disjoint, contents survive copying |

### Bounds, and why they are enough

- `EntriesStart = 1`, `EntriesBound = 4`, chunk 1: several packets that finish in any
  order with three workers, so the last count-down can race with publication and with
  another count-down. `BinsNum = 4`, chunk 2 with step 1: full, overlapping and cut-off
  ranges. `CounterSize = 8` exceeds the number of packets, so wrapping occurs only
  if the protocol is wrong. `WeakTable` has one table that is not empty and an entries
  chunk smaller than a bins chunk, as the defaults are; other tables and chunk sizes are
  the business of the theorems (`NoBinLeftBehind` covers the empty table, and excludes
  `EntriesChunk > BinsChunk`, where bins are skipped).
- A type invariant says more than types where a bound is at stake: packets of at most
  `ChunkSize` PPPs (`PacketsBounded`), buffers that never stay full (`BuffersFit`), and
  candidates owned by the collection or by the shutdown but not both (`ListsFit`).
- One more address than objects (two in GivTbl) so that any object can be copied
  while all exist; several copies in one collection and reuse of an address by another
  object or by a new one both occur. Collections are unbounded in number.
- `MaxPPPs = 2` with `ChunkSize = 1` gives two concurrent packets, which is where shared
  children matter; a registry may also hold one object twice. `MaxUserPins = 1`: the
  program's pin may be on the shared child or elsewhere, and is set and cleared between
  collections.
- `Writable`: the objects whose fields the program overwrites; all in PPPLive, none in
  PPP, where the fields are those of the allocation and the state space would grow
  sevenfold. The theorems hold for every `Writable`. ObjFree and GivTbl need no writes:
  which object becomes garbage is already free, and nothing else there reads fields.
- RootScanning and Nursery: `BufferSize = 2` (4096 in the code) with up to three objects
  visited by a packet gives buffers that are full, partly full and empty at the end;
  `ChunkSize` 1 and 2 (128 in the code) gives vectors that are all full and a last one that
  is not. `MaxFields = 1` and `MaxMoved = 1` bound a single object's fields and a single
  collection's copies; chains through several objects and moves over several
  collections remain. In Nursery, `Holder` leaves `o3` without fields: an old holder, a
  young one and a leaf are the shortest chain that needs both. The theorems hold without
  these bounds.
- Layout: an object takes 3 or 4 words and one of them is padded to the minimum, so 14 words
  hold three objects and a copy, next to each other in all orders.
- `MaxForks = 2`: the second fork starts from the state the first leaves.
- `SYMMETRY` permutes addresses, workers and (where the model treats them
  alike) objects; it is used only in runs without liveness properties.
  `ImplementsRegistry` and `ImplementsRegistries` are safety properties there (the
  abstract specification has no fairness).
- `CHECK_DEADLOCK FALSE` only where the system really stops: the closed bucket of
  WeakTable, the shutdown in ObjFree, and in GCThreads a program that has used up its
  forks or was aborted.
- RootScanning, Nursery and Layout state safety only and assume no fairness.

### Fairness

`WF(Collector)` (`WF(Next)` in WeakTable): once the world is stopped, *some* GC
thread that can take a step does. That is all mmtk-core's scheduler and the operating
system are assumed to give; no worker and no packet gets fairness of its own, and none
is needed because a collection has finitely much to do. `WF(FreeAtExit)`: CRuby's
shutdown loop goes on. In GCThreads fairness has two sources. The operating system runs
the forking thread and each native thread, which covers registration, unregistration
and exit. That a worker which has been asked to quit returns from `start_worker`
(`QuitWorking`) is mmtk-core's promise, not the operating system's, and `ForkCompletes`
rests on it: a worker kept busy by a collection that cannot proceed (section 6) is
outside the property. `ForkCompletes` claims nothing once a thread has died alone, since
mmtk-core then waits for a worker that never arrives. When the program forks, collects,
registers or drops an object, and whether a thread panics or can be spawned, is never
assumed.

## 4. Findings

`weak_proc.rs:155` cuts the bins of a table with `step_by(entries_chunk_size)`, and
line 157 lets each packet cover `bins_chunk_size` bins. With the defaults (1024 and
4096, `binding.rs:94-95`) every packet overlaps the three that follow, so most bins
are handed out four times and several workers may run `st_update_bins_range` over the
same bins of one table at the same time, although `weak_proc.rs:177` calls `st_table`
not thread-safe. Run WeakTableOverlap exhibits it. In the other direction, an entries
chunk larger than a bins chunk skips bins: `NoBinLeftBehind` is therefore proved only
under `EntriesChunk <= BinsChunk`. Which tables have bins in more than one packet is proved
without an assumption on the sizes (`BinsApartExactly`): those with more bins than
`entries_chunk_size`, if `bins_chunk_size` is the larger. With the defaults these are the
tables of more than 1024 bins; and only equal chunk sizes are right on both counts for
every table. The properties of run WeakTable hold despite the
overlap because the model takes the update of a range as one step whose effect is
idempotent.

## 5. Proofs

All proofs hold for any values of the constants that satisfy the named assumptions
(`WeakTableAssumption`, `PPPAssumption`, `CoreAssumption`, `ObjFreeAssumption`,
`GivTblAssumption`, `HeapAssumption`, `RootScanningAssumption`, `LayoutAssumption`,
`GCThreadsAssumption`). They say that counts and sizes are natural numbers, that chunks,
buffers and payloads are not empty, that a table has fewer entries than an `AtomicUsize` has
values, and that model values such as `NoPacket` and `Free` are not packets or objects.
Where a theorem needs more it says so in its statement (`ASSUME`).

**ChunksProofs.** `step_by` with a chunk no smaller than the step covers the range
(`StepByCovers`), and what it yields is at least a step apart (`StepByApart`).

**WeakTableProofs.** `WTInvariant`: `WTInv` is inductive. `CounterExact` is not
inductive by itself, because the count of pending packets changes correctly only if a
packet is in one place at a time (`OnePlace`: the bucket, some `out[w]` or some worker).
`WTInv` adds that nothing moves before the sentinel has raised the latch (`SetupAlone`),
that an entries packet is somewhere until its range has been updated (`Tracked`), and that
once the latch has opened no entries packet is pending (`OpenedLate`, `OneRelease`).
From it follow `WeakTableTypeCorrect`, `LatchCounterExact`, `Barrier`
(`BinsAfterEntries`), `LatchBorrowedOnce` (`SingleBorrow`), and, under
`EntriesChunk <= BinsChunk`, with a second invariant `SweepInv` (a bin that leads to a
deleted entry is in the range of a bins packet that is held or still to run),
`NoBinLeftBehind` (`NoDanglingBin`) and
`WeakTableImplementsTwoPhase` (`ImplementsTwoPhase`). A third invariant, `ApartInv`, is
about who works on which range: an entries packet that has yet to run has none of its
entries updated (`WaitingFresh`), and a bins packet is in the latch, in the bucket, about to
be pushed by one worker or run by one worker (`BinsOnePlace`). As entries packets share no
entry, `EachEntryUpdatedOnce` follows for any chunk sizes. `BinsApartExactly` says for
which tables and chunk sizes bins packets share no bin, an equivalence that includes the
defaults; where they share none, no two workers clean the same bin at once
(`BinsDisjointIfApart`).

**PPPProofs.** `PinInvariant`: `PinInv` is inductive. `EveryPinHasOneOwner` needs to know
where pins can be: `PacketsFit` (which kinds of packet exist in which stage), `StepsFit`
(a worker has children and new pins only inside `PinPPPChildren`), `AtMostOne` (one
sentinel, one unpinning packet) and `KidsFit` (when `pinned_ppp_children` is empty).
From it: `PPPTypeCorrect`, `PinOwnership`, `PinsUndone` (`NoPinOutlivesGC`). The size of
packets in the type invariant is kept by every step from `PinInv` (`NextPacketsBounded`),
by `PinPacketsBounded`: a slice of `packet_size` indices holds no more PPPs than that.

Its second part is about the registry. `RegistryInvariant`: `RegistryInv` is inductive. It extends
`PinInv` with what forwarding means (`HeapFits`: a forwarded address was traced and holds
the same object at its new address), with what is known of the registry when
(`RegistryFits`: before `RemoveDeadPPPs` is done every entry still holds an object, after
it every entry is a survivor), and with `KidsCovered`: during Prepare each child that
must stay is pinned *or* a packet that will pin it is waiting, running, or holds it in
`ppp_children`; when Prepare ends only the first is left. Hence nothing that tracing may
copy is such a child: `ChildrenStay` (`PinnedChildrenStay`) and `RegistryDoesNotDangle`
(`NoDanglingPPP`). The cover of the registry by chunks is `PinPacketsCover`, from
`StepByCovers`. `PPPImplementsRegistry` needs more, `LiveInv`: a live object always has a
from-space address and, after tracing, was reached there (`LiveFits`); until
`RemoveDeadPPPs` is done every entry is a from-space address (`EntriesInFromSpace`), so
`is_reachable` answers for the object and not for a copy of it; and every entry the walk
has passed and that is still needed is among those it keeps (`RetainFits`). The mapping
takes `New` to Alloc, `Register` to Register, `Forget` and `BecomePlain` to Forget,
`RemoveDeadPPPs` to Sweep, `Reclaim` to Reclaim, and every other step to a stutter.

**GCThreadsProofs.** `GCThreadsInvariant`: `GCInv` is inductive. It relates `main`, the
handles and the threads: a thread without a handle is the one just spawned, registered
threads are exactly those between registration and unregistration, and threads leave
only when stopping (`ThreadsFit`). `DeathsFit` is about those that die: a thread that has
unwound did so outside the registered window, and until the process aborts its handle
still waits to be joined. From it: `GCThreadsTypeCorrect`, `ForkIsSingleThreaded`,
`HandlesComplete`, `PanicsAreNoticed` (`DeathsAreNoticed`).
`JoinIsBounded` is what `ForkCompletes` needs of single states and steps: a thread being
joined exists and, if it still works, has been asked to quit; no handle is added; and each
step of such a thread leaves it fewer steps to its exit (`StepsLeft`). That the steps are
taken is fairness, and checked by TLC only.

**ObjFreeProofs.** `FreeInvariant`: `FreeInv` is inductive. `EachCandidateOnce` counts
entries of sequences; the invariant says the same by index (`OnePlace`): a registered object
that has not been freed is in the rest of the old list, in the new list or in the list at
exit, in one of them and at one index. That is preserved only if distinct entries are
distinct objects although they move (`HeapFits`: an object is at two addresses only if
one forwards to the other), if an entry to be examined is an old address and one already
kept a new one (`CandidatesFit`), and if one packet at a time works on the list
(`PacketsFit`). `KeptFit` adds that a list being rebuilt is no longer than the part walked so
far. From it: `ObjFreeTypeCorrect`, `CandidatesOnce`, `NothingInUseIsFreed`,
`FreedFirst`, and `ObjFreeImplementsRegistry`, step by step under the mapping of
`ImplementsRegistry`.

**GivTblProofs.** `GivInvariant`: `GivInv` is inductive. While objects move, the table is
keyed by addresses of which some are already out of date. `KeyedBy` says which: an object's
variables stay under its old address until a recorded move from it is applied, and are
under the new one from then on. `TableFits` determines the whole table from that;
`MovesFit` says that every published copy of an object with variables has a record, and that
every record is of a copy published or about to be; `TasksFit` that no two workers copy
the same object or to the same place. From it: `GivTypeCorrect`, `LookupsSucceed`,
`CopiesFindTheirTable`, `TableFollowsObjects`, `GivTblImplementsRegistry`.

**RootScanningProofs.** `ScanInvariant`: `ScanInv` is inductive. `NothingLiveIsLost` speaks
of the end of a collection, and its reason is spread over the whole of it. Between
collections an old object refers to young ones only if it is remembered or unprotected
(`GenerationsFit`). In Prepare every root is `InHand`: given to mmtk-core, in a buffer, yet
to be visited, or in a packet that will report it (`RootsInHand`); so is everything that an
old unprotected object refers to, unless the object is still in the registry's distribution
over vectors (`UnprotectedInHand`). When the bucket is drained nothing can be in anybody's
hand (`Drained`), so what tracing marks contains the roots and is closed under references
(`TracingReaches`, `TracedFits`). In VMRefClosure each table has its old contents, by
objects and old addresses, until its own packet has run, and its new ones afterwards,
whatever order the packets run in (`TablesFit`). That no buffer or vector stays full
(`BuffersFit`) is kept by every step (`NextBuffersFit`). From it: `RootScanningTypeCorrect`, `NoLiveObjectLost`, `RootsNeverMove`, `RegistriesAreExact`,
`ClosuresFitPackets`, for every number of objects, roots, workers and copies and every
buffer and chunk size. `RootScanningImplementsRegistries` maps each of its two tables to
WeakRegistry. What a table must not lose is what is *live* and enters it, and live is
defined as the least set that contains the roots and is closed under references; so the
proof first shows which steps may shrink that set (`LiveShrinks`: dropping a root, writing
a field, loading what is reachable anyway), that no step but an allocation extends it,
and that tracing reaches it (`LiveTraced`), so that a table's own update packet drops nothing
that is needed.

**LayoutProofs.** `LayoutInvariant`: `LayoutInv` is inductive. The properties hold only
together: a copy moves as many words as the header tells, which is right because no other
object's words lie over that header (`HomesApart`), and it hits no other object because
every object's words are known as used, and the new place is not (`ObjectsHeld` says what
those words hold). The forwarding pointer overwrites a word of the old copy, which is no
longer in the object's home. From it: `LayoutTypeCorrect`, `ObjectsKeepTheirContents`
(`ContentsIntact`) and `ObjectsDoNotOverlap` (`ExtentsDisjoint`), for all payload sizes,
suffixes, minimum sizes and heaps.

### Model-checked only

Liveness (`TableEventuallyClean`, `PinsAreReleased`, `AllFreedAtExit`,
`MovesAreApplied`, `ForkCompletes`) and anything with ENABLED is beyond TLAPS with the
provers in use, as is induction over data (what a recursive definition computes for
every input). Every other property of a passing run is stated by a theorem.
`ConcurrentBinsDisjoint` fails in general; `BinsApartExactly` says when bins are shared.

## 6. Not modelled, and why

- *The mutator side of stop-the-world* (`stop_the_world`, `resume_mutators`,
  `block_for_gc`, `gc_enabled`): the binding forwards to CRuby, whose locking decides
  whether a thread that forks can deadlock with a collection another thread requested
  (`api.rs:187`). A model would be about CRuby's code, which is not here. In the models a
  collection starts in any state of the program.
- *What `obj_free` does in CRuby* (`weak_proc.rs:65`): whether it touches
  `generic_iv_tbl_` while another packet re-keys it is decided in C code outside the
  repository.
- *Finalizer and object id tables*: updated by one upcall whose effect on the tables is
  CRuby's; the overloaded cme table is handled as the ci table, which is modelled.
- *Chunk sizes of zero* (`binding.rs:94`) and *calls before or after initialization*
  (`api.rs:131`): a panic at a known line, with no behaviour after it.
- *C API forwards and option parsing* (`MMTKBuilder`, plan names, counters), *active plan*:
  one-line forwards to mmtk-core, or a copy of what one upcall enumerates.
- *reference_glue.rs*: every function is `unimplemented!()`.
- *CRuby's C code and mmtk-core*: not in this repository; `MMTkCore` and `StickyHeap` have
  only what the binding relies on. `st_update_entries_range` and `st_update_bins_range`
  are modelled by their effect.
- *The order in which `copy` reads an object's size and mmtk-core overwrites its hidden
  header* (`object_model.rs:20`): it is kept by mmtk-core's forwarding bits; `Copy` of Layout
  takes both as one step and keeps references current.
- *One object closure set inside another*: no packet of the binding does it, so
  `CollectObjectRootsIn` and `StartUpdateCiTable` of RootScanning begin with none registered.
- *Tracing tools, CI scripts*: not part of the program.

## 7. What could come next

The modules cover the components with behaviour of their own. What is left is of two kinds:

1. **GCCycle**: one composition of all registries in one collection. They share only
   the order of the packets in VMRefClosure, which each module already leaves free; the
   interesting interaction, obj_free with the instance variable table, needs CRuby's code.
2. **Proofs**: a bound on the number of steps of a collection for PPP, GivTbl and RootScanning,
   the safety half of their progress, as `JoinIsBounded` is for the fork.
