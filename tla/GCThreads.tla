------------------------------ MODULE GCThreads ------------------------------
(***************************************************************************)
(* The native threads of GC workers (collection.rs, binding.rs, lib.rs,    *)
(* api.rs): the thread that initializes the collection spawns one per      *)
(* worker and keeps their join handles; GC_THREADS tells the panic hook    *)
(* which threads they are; before a fork every thread is asked to quit and *)
(* is joined, and after it the threads are spawned anew.                   *)
(***************************************************************************)
EXTENDS Naturals

CONSTANTS
  Worker,    (* GC workers, one native thread each                         *)
  MaxForks   (* bound: forks of the program                                *)

ASSUME GCThreadsAssumption == MaxForks \in Nat

VARIABLES
  main,        (* what the thread that forks does                          *)
  toSpawn,     (* workers mmtk-core has yet to pass to spawn_gc_thread     *)
  spawned,     (* workers whose join handle is not pushed yet              *)
  thread,      (* the native thread of each worker                         *)
  gcThreads,   (* GC_THREADS                                               *)
  handles,     (* RubyBinding::gc_thread_join_handles                      *)
  joining,     (* handles join_all_gc_threads has taken and not yet joined *)
  stopping,    (* mmtk-core has asked the workers to quit for a fork       *)
  aborted,     (* the process was aborted: by the panic hook, or by a      *)
               (* panic that reached an extern "C" function                *)
  forks,
  unwound      (* history: which GC threads unwound alone, and where       *)

mainVars == <<main, toSpawn, spawned, handles, joining, stopping, forks>>
vars == <<mainVars, thread, gcThreads, aborted, unwound>>

Init ==
  /\ main = "bound"
  /\ toSpawn = {}
  /\ spawned = {}
  /\ thread = [w \in Worker |-> "none"]
  /\ gcThreads = {}
  /\ handles = {}
  /\ joining = {}
  /\ stopping = FALSE
  /\ aborted = FALSE
  /\ forks = 0
  /\ unwound = {}

-----------------------------------------------------------------------------
(* The thread that initializes the collection, and forks.                  *)

(* mmtk_initialize_collection: mmtk-core spawns the workers one by one.    *)
InitializeCollection ==
  /\ main = "bound"
  /\ main' = "spawning"
  /\ toSpawn' = Worker
  /\ UNCHANGED <<spawned, thread, gcThreads, handles, joining, stopping, aborted, forks,
                 unwound>>

(* spawn_gc_thread: from here on the new thread runs by itself.            *)
SpawnGCThread(w) ==
  /\ main = "spawning"
  /\ spawned = {}
  /\ w \in toSpawn
  /\ toSpawn' = toSpawn \ {w}
  /\ spawned' = {w}
  /\ thread' = [thread EXCEPT ![w] = "started"]
  /\ UNCHANGED <<main, gcThreads, handles, joining, stopping, aborted, forks,
                 unwound>>

(* The operating system has no thread to give: Builder::spawn(..).unwrap() *)
(* panics in the spawning thread, inside an extern "C" function.           *)
SpawnFails ==
  /\ main = "spawning"
  /\ spawned = {}
  /\ toSpawn # {}
  /\ aborted' = TRUE
  /\ UNCHANGED <<mainVars, thread, gcThreads, unwound>>

(* Mutant: a new handle takes the place of the others.                     *)
HandlesWithOnly(S) == S

HandlesWith(S) == handles \cup S

PushHandle ==
  /\ main = "spawning"
  /\ spawned # {}
  /\ handles' = HandlesWith(spawned)
  /\ spawned' = {}
  /\ UNCHANGED <<main, toSpawn, thread, gcThreads, joining, stopping, aborted, forks,
                 unwound>>

SpawningEnds ==
  /\ main = "spawning"
  /\ toSpawn = {} /\ spawned = {}
  /\ main' = "running"
  /\ UNCHANGED <<toSpawn, spawned, thread, gcThreads, handles, joining, stopping, aborted,
                 forks, unwound>>

(* Mutant: the threads are joined without having been asked to quit.       *)
PrepareToForkUnasked ==
  /\ main = "running"
  /\ forks < MaxForks
  /\ main' = "joining"
  /\ joining' = handles
  /\ handles' = {}
  /\ UNCHANGED <<toSpawn, spawned, thread, gcThreads, stopping, aborted, forks,
                 unwound>>

(* mmtk_prepare_to_fork: the request is asynchronous; join_all_gc_threads  *)
(* takes the handles before it waits for the first thread.                 *)
PrepareToFork ==
  /\ main = "running"
  /\ forks < MaxForks
  /\ main' = "joining"
  /\ stopping' = TRUE
  /\ joining' = handles
  /\ handles' = {}
  /\ UNCHANGED <<toSpawn, spawned, thread, gcThreads, aborted, forks, unwound>>

MayJoin(w) == thread[w] \in {"exited", "unwound"}

(* Mutant: the result of JoinHandle::join is dropped.                      *)
JoinFailsNever(w) == FALSE

JoinFails(w) == thread[w] = "unwound"

(* handle.join().unwrap(): the panic of a GC thread goes on in the thread  *)
(* that joins it, inside an extern "C" function.                           *)
Join(w) ==
  /\ main = "joining"
  /\ w \in joining
  /\ MayJoin(w)
  /\ aborted' = JoinFails(w)
  /\ thread' = [thread EXCEPT ![w] = "none"]
  /\ joining' = joining \ {w}
  /\ UNCHANGED <<main, toSpawn, spawned, gcThreads, handles, stopping, forks, unwound>>

(* mmtk_prepare_to_fork returns, and CRuby forks.                          *)
Fork ==
  /\ main = "joining"
  /\ joining = {}
  /\ main' = "forked"
  /\ forks' = forks + 1
  /\ UNCHANGED <<toSpawn, spawned, thread, gcThreads, handles, joining, stopping, aborted,
                 unwound>>

(* mmtk_after_fork, in the parent and in the child.                        *)
AfterFork ==
  /\ main = "forked"
  /\ main' = "spawning"
  /\ toSpawn' = Worker
  /\ stopping' = FALSE
  /\ UNCHANGED <<spawned, thread, gcThreads, handles, joining, aborted, forks, unwound>>

-----------------------------------------------------------------------------
(* The native thread of worker w.                                          *)

(* Mutant: the thread that spawns it registers its own id in its place.    *)
RegisteredSpawner(w) == gcThreads \cup {"spawner"}

Registered(w) == gcThreads \cup {w}

RegisterGCThread(w) ==
  /\ thread[w] = "started"
  /\ gcThreads' = Registered(w)
  /\ thread' = [thread EXCEPT ![w] = "working"]
  /\ UNCHANGED <<mainVars, aborted, unwound>>

(* start_worker returns once mmtk-core lets the worker quit.               *)
QuitWorking(w) ==
  /\ thread[w] = "working"
  /\ stopping
  /\ thread' = [thread EXCEPT ![w] = "quitting"]
  /\ UNCHANGED <<mainVars, gcThreads, aborted, unwound>>

(* Mutant: the thread stays registered.                                    *)
UnregisteredNever(w) == gcThreads

Unregistered(w) == gcThreads \ {w}

UnregisterGCThread(w) ==
  /\ thread[w] = "quitting"
  /\ gcThreads' = Unregistered(w)
  /\ thread' = [thread EXCEPT ![w] = "left"]
  /\ UNCHANGED <<mainVars, aborted, unwound>>

(* The closure of the thread returns.                                      *)
ExitThread(w) ==
  /\ thread[w] = "left"
  /\ thread' = [thread EXCEPT ![w] = "exited"]
  /\ UNCHANGED <<mainVars, gcThreads, aborted, unwound>>

(* A thread may panic wherever it is.  The panic hook aborts the process if*)
(* it is registered; otherwise the old hook runs and it unwinds alone.     *)
Panic(w) ==
  /\ thread[w] \in {"started", "working", "quitting", "left"}
  /\ IF w \in gcThreads
     THEN aborted' = TRUE /\ UNCHANGED <<thread, unwound>>
     ELSE /\ thread' = [thread EXCEPT ![w] = "unwound"]
          /\ unwound' = unwound \cup {[worker |-> w, at |-> thread[w]]}
          /\ UNCHANGED aborted
  /\ UNCHANGED <<mainVars, gcThreads>>

-----------------------------------------------------------------------------
MainStep ==
  \/ InitializeCollection
  \/ \E w \in Worker : SpawnGCThread(w) \/ Join(w)
  \/ PushHandle
  \/ SpawningEnds
  \/ Fork
  \/ AfterFork

ThreadStep(w) ==
  RegisterGCThread(w) \/ QuitWorking(w) \/ UnregisterGCThread(w) \/ ExitThread(w)

Running ==
  \/ MainStep
  \/ PrepareToFork
  \/ SpawnFails
  \/ \E w \in Worker : ThreadStep(w) \/ Panic(w)

Next == ~aborted /\ Running

(* The operating system runs every native thread, and mmtk-core lets every *)
(* worker it has asked to quit return from start_worker.  When the program *)
(* forks, and whether a thread panics or cannot be spawned, is left open.  *)
Spec ==
  /\ Init /\ [][Next]_vars
  /\ WF_vars(~aborted /\ MainStep)
  /\ \A w \in Worker : WF_vars(~aborted /\ ThreadStep(w))

-----------------------------------------------------------------------------
(* Type correctness.                                                       *)
GCThreadsTypeOK ==
  /\ main \in {"bound", "spawning", "running", "joining", "forked"}
  /\ toSpawn \subseteq Worker
  /\ spawned \subseteq Worker
  /\ thread \in [Worker -> {"none", "started", "working", "quitting", "left", "exited",
                         "unwound"}]
  /\ gcThreads \subseteq Worker
  /\ handles \subseteq Worker
  /\ joining \subseteq Worker
  /\ stopping \in BOOLEAN
  /\ aborted \in BOOLEAN
  /\ forks \in 0 .. MaxForks
  /\ \A d \in unwound : d.worker \in Worker

(* No GC thread exists when the process forks, none is left in GC_THREADS, *)
(* whose lock a child could otherwise inherit in a locked state, and no    *)
(* handle of an old thread is left to be joined after the next fork.       *)
NoThreadAcrossFork ==
  main = "forked" =>
    /\ \A w \in Worker : thread[w] = "none"
    /\ gcThreads = {}
    /\ handles = {}

(* Every native thread is reachable through exactly one join handle, but   *)
(* for the one whose handle is about to be pushed; there is never a second *)
(* thread for a worker.                                                    *)
OneHandlePerThread ==
  /\ {w \in Worker : thread[w] # "none"} = spawned \cup handles \cup joining
  /\ spawned \cap (handles \cup joining) = {}
  /\ handles \cap joining = {}
  /\ toSpawn \cap (spawned \cup handles \cup joining) = {}

(* A GC thread that panics while mmtk-core runs on it takes the process    *)
(* with it (the panic hook).  One that dies before it is registered or     *)
(* after it is unregistered dies alone, but never unnoticed for good: the  *)
(* fork that joins it does not go through (the unwrap of join's result).   *)
DeathsAreNoticed ==
  /\ \A d \in unwound : d.at \in {"started", "left"}
  /\ main = "forked" => unwound = {}

(* Preparing a fork comes to an end: the threads quit and are joined.      *)
(* Nothing is claimed once a thread has died alone: mmtk-core waits for a  *)
(* worker that never arrives.                                              *)
ForkCompletes == main = "joining" ~> (main = "forked" \/ aborted \/ unwound # {})
=============================================================================
