--------------------------- MODULE GCThreadsProofs ---------------------------
(***************************************************************************)
(* Proofs about GCThreads, for any set of workers and any number of forks. *)
(***************************************************************************)
EXTENDS GCThreads, TLAPS

(* What each phase of the forking thread knows, and which threads are      *)
(* registered.                                                             *)
PhasesFit ==
  /\ main # "spawning" => spawned = {} /\ toSpawn = {}
  /\ main # "joining" => joining = {}
  /\ main \in {"bound", "joining", "forked"} => handles = {}
  /\ stopping <=> main \in {"joining", "forked"}
  /\ main = "joining" => forks < MaxForks

ThreadsFit ==
  \A w \in Worker :
    /\ w \in gcThreads <=> thread[w] \in {"working", "quitting"}
    /\ thread[w] \in {"quitting", "left", "exited"} => stopping

(* Until the process aborts, the handle of a thread that has unwound alone *)
(* is still there to be joined.                                            *)
DeathsFit ==
  /\ aborted => main # "forked"
  /\ \A d \in unwound :
       /\ d.at \in {"started", "left"}
       /\ aborted \/ thread[d.worker] = "unwound"

GCInv == GCThreadsTypeOK /\ OneHandlePerThread /\ PhasesFit /\ ThreadsFit /\ DeathsFit
-----------------------------------------------------------------------------
LEMMA InitGCInv == Init => GCInv
<1> SUFFICES ASSUME Init PROVE GCInv
  OBVIOUS
<1>1. GCThreadsTypeOK
  <2>1. forks \in 0 .. MaxForks  BY GCThreadsAssumption DEF Init
  <2>2. thread \in [Worker -> {"none", "started", "working", "quitting", "left", "exited",
                            "unwound"}]
    BY DEF Init
  <2> QED BY <2>1, <2>2 DEF Init, GCThreadsTypeOK
<1>2. OneHandlePerThread  BY DEF Init, OneHandlePerThread
<1>3. PhasesFit /\ ThreadsFit /\ DeathsFit
  BY DEF Init, PhasesFit, ThreadsFit, DeathsFit
<1> QED BY <1>1, <1>2, <1>3 DEF GCInv

(* The spawning and forking thread.                                        *)
LEMMA MainGCInv ==
  ASSUME GCInv, ~aborted, MainStep \/ PrepareToFork \/ SpawnFails
  PROVE  GCInv'
<1> USE DEF GCInv, GCThreadsTypeOK, OneHandlePerThread, PhasesFit, ThreadsFit, DeathsFit
<1>1. CASE InitializeCollection
  BY <1>1 DEF InitializeCollection
<1>2. ASSUME NEW w \in Worker, SpawnGCThread(w) PROVE GCInv'
  <2> USE <1>2 DEF SpawnGCThread
  <2>1. thread[w] = "none" /\ \A v \in Worker : thread'[v] = IF v = w THEN "started" ELSE thread[v]
    OBVIOUS
  <2>2. GCThreadsTypeOK'  OBVIOUS
  <2>3. OneHandlePerThread'  BY <2>1
  <2>4. PhasesFit' /\ ThreadsFit' /\ DeathsFit'  BY <2>1
  <2> QED BY <2>2, <2>3, <2>4
<1>3. CASE PushHandle
  BY <1>3 DEF PushHandle, HandlesWith
<1>4. CASE SpawningEnds
  BY <1>4 DEF SpawningEnds
<1>5. ASSUME NEW w \in Worker, Join(w) PROVE GCInv'
  <2> USE <1>5 DEF Join, MayJoin, JoinFails
  <2>1. \A v \in Worker : thread'[v] = IF v = w THEN "none" ELSE thread[v]
    OBVIOUS
  <2>2. GCThreadsTypeOK'  OBVIOUS
  <2>3. OneHandlePerThread'  BY <2>1
  <2>4. PhasesFit' /\ ThreadsFit' /\ DeathsFit'  BY <2>1
  <2> QED BY <2>2, <2>3, <2>4
<1>6. CASE Fork
  <2> USE <1>6 DEF Fork
  <2>1. forks' \in 0 .. MaxForks
    BY GCThreadsAssumption
  <2> QED BY <2>1
<1>7. CASE AfterFork
  BY <1>7 DEF AfterFork
<1>8. CASE PrepareToFork
  BY <1>8 DEF PrepareToFork
<1>9. CASE SpawnFails
  BY <1>9 DEF SpawnFails, mainVars
<1> QED BY <1>1, <1>2, <1>3, <1>4, <1>5, <1>6, <1>7, <1>8, <1>9 DEF MainStep

(* The GC threads.                                                         *)
LEMMA ThreadGCInv ==
  ASSUME GCInv, ~aborted, NEW w \in Worker, ThreadStep(w) \/ Panic(w)
  PROVE  GCInv'
<1> USE DEF GCInv, GCThreadsTypeOK, OneHandlePerThread, PhasesFit, ThreadsFit, DeathsFit,
          mainVars
<1>1. CASE RegisterGCThread(w)
  BY <1>1 DEF RegisterGCThread, Registered
<1>2. CASE QuitWorking(w)
  BY <1>2 DEF QuitWorking
<1>3. CASE UnregisterGCThread(w)
  BY <1>3 DEF UnregisterGCThread, Unregistered
<1>4. CASE ExitThread(w)
  BY <1>4 DEF ExitThread
<1>5. CASE Panic(w)
  <2> USE <1>5 DEF Panic
  <2>1. CASE w \in gcThreads
    BY <2>1
  <2>2. CASE w \notin gcThreads
    <3>1. thread[w] \in {"started", "left"}
          /\ \A v \in Worker : thread'[v] = IF v = w THEN "unwound" ELSE thread[v]
      BY <2>2
    <3>2. unwound' = unwound \cup {[worker |-> w, at |-> thread[w]]}
          /\ UNCHANGED <<main, toSpawn, spawned, handles, joining, stopping, forks,
                         gcThreads, aborted>>
      BY <2>2
    <3>3. GCThreadsTypeOK'
      BY <3>2
    <3>4. OneHandlePerThread' /\ PhasesFit' /\ ThreadsFit'
      BY <3>1, <3>2
    <3>5. DeathsFit'
      BY <3>1, <3>2
    <3> QED BY <3>3, <3>4, <3>5
  <2> QED BY <2>1, <2>2
<1> QED BY <1>1, <1>2, <1>3, <1>4, <1>5 DEF ThreadStep

LEMMA NextGCInv == GCInv /\ [Next]_vars => GCInv'
<1> SUFFICES ASSUME GCInv, [Next]_vars PROVE GCInv'
  OBVIOUS
<1>1. CASE Next
  BY <1>1, MainGCInv, ThreadGCInv DEF Next, Running
<1>2. CASE UNCHANGED vars
  BY <1>2 DEF vars, mainVars, GCInv, GCThreadsTypeOK, OneHandlePerThread, PhasesFit, ThreadsFit,
               DeathsFit
<1> QED BY <1>1, <1>2

(* Every reachable state of the thread life cycle satisfies GCInv.         *)
THEOREM GCThreadsInvariant == Spec => []GCInv
BY InitGCInv, NextGCInv, PTL DEF Spec

(* The life cycle keeps its types.                                         *)
THEOREM GCThreadsTypeCorrect == Spec => []GCThreadsTypeOK
<1>1. GCInv => GCThreadsTypeOK  BY DEF GCInv
<1> QED BY <1>1, GCThreadsInvariant, PTL

(* mmtk_prepare_to_fork returns only when every GC thread has been joined  *)
(* and has unregistered itself, for any number of workers and forks.       *)
THEOREM ForkIsSingleThreaded == Spec => []NoThreadAcrossFork
<1>1. GCInv => NoThreadAcrossFork
  BY DEF GCInv, OneHandlePerThread, PhasesFit, ThreadsFit, NoThreadAcrossFork, GCThreadsTypeOK
<1> QED BY <1>1, GCThreadsInvariant, PTL

(* No native thread is ever without its one join handle.                   *)
THEOREM HandlesComplete == Spec => []OneHandlePerThread
<1>1. GCInv => OneHandlePerThread  BY DEF GCInv
<1> QED BY <1>1, GCThreadsInvariant, PTL

(* A GC thread panics alone only outside its registration, and then the   *)
(* next fork does not go through: for any number of workers and forks, and *)
(* any number of panics, wherever they happen.                             *)
THEOREM PanicsAreNoticed == Spec => []DeathsAreNoticed
<1>1. GCInv => DeathsAreNoticed
  BY DEF GCInv, GCThreadsTypeOK, OneHandlePerThread, PhasesFit, DeathsFit, DeathsAreNoticed
<1> QED BY <1>1, GCThreadsInvariant, PTL
-----------------------------------------------------------------------------
(* Why preparing a fork comes to an end.  ForkCompletes rests on fairness; *)
(* what it needs of single states and steps is proved here.                *)

(* Steps a thread has left before it can be joined.                        *)
StepsLeft(w) ==
  CASE thread[w] = "started"  -> 4
    [] thread[w] = "working"  -> 3
    [] thread[w] = "quitting" -> 2
    [] thread[w] = "left"     -> 1
    [] OTHER                  -> 0

(* A thread that is waited for exists and is never blocked: one that works *)
(* has been asked to quit, and only the joining thread ends the request.   *)
JoinedCanLeave ==
  \A w \in joining :
    /\ thread[w] # "none"
    /\ thread[w] = "working" => stopping

(* No handle is added while threads are joined, and every step a joined    *)
(* thread takes, even into a panic, brings it nearer to its exit.          *)
JoinAdvances ==
  main = "joining" =>
    /\ joining' \subseteq joining
    /\ \A w \in joining' :
         thread'[w] = thread[w] \/ StepsLeft(w)' < StepsLeft(w)

(* join_all_gc_threads waits only for threads on their way out, for any    *)
(* number of workers and forks.                                            *)
THEOREM JoinIsBounded == Spec => []JoinedCanLeave /\ [][JoinAdvances]_vars
<1>1. GCInv => JoinedCanLeave
  BY DEF GCInv, GCThreadsTypeOK, OneHandlePerThread, PhasesFit, JoinedCanLeave
<1>2. GCInv /\ [Next]_vars => [JoinAdvances]_vars
  <2> SUFFICES ASSUME GCInv, Next, main = "joining" PROVE JoinAdvances
    BY DEF JoinAdvances
  <2> USE DEF GCInv, GCThreadsTypeOK
  <2>1. ASSUME NEW w \in Worker, Join(w) PROVE JoinAdvances
    BY <2>1 DEF Join, JoinAdvances
  <2>2. CASE Fork  BY <2>2 DEF Fork, JoinAdvances
  <2>3. ASSUME NEW w \in Worker, ThreadStep(w) \/ Panic(w) PROVE JoinAdvances
    <3>1. joining' = joining
          /\ \A v \in Worker : v # w => thread'[v] = thread[v]
      BY <2>3 DEF ThreadStep, RegisterGCThread, QuitWorking, UnregisterGCThread,
                  ExitThread, Panic, mainVars
    <3>2. thread'[w] = thread[w] \/ StepsLeft(w)' < StepsLeft(w)
      BY <2>3 DEF ThreadStep, RegisterGCThread, QuitWorking, UnregisterGCThread,
                  ExitThread, Panic, StepsLeft
    <3> QED BY <3>1, <3>2 DEF JoinAdvances
  <2>4. CASE SpawnFails
    BY <2>4 DEF SpawnFails, mainVars, JoinAdvances
  <2>5. ~InitializeCollection /\ ~PushHandle /\ ~SpawningEnds /\ ~AfterFork
        /\ ~PrepareToFork /\ \A w \in Worker : ~SpawnGCThread(w)
    BY DEF InitializeCollection, PushHandle, SpawningEnds, AfterFork,
           PrepareToFork, SpawnGCThread
  <2> QED BY <2>1, <2>2, <2>3, <2>4, <2>5 DEF Next, Running, MainStep
<1> QED BY <1>1, <1>2, GCThreadsInvariant, PTL DEF Spec
=============================================================================
