----------------------------- MODULE WeakRegistry -----------------------------
(***************************************************************************)
(* What the binding promises of each of its registries of weakly held      *)
(* objects, told about object identities: addresses, copying, packets and  *)
(* workers are gone.  A registry keeps every object it still needs to      *)
(* answer for, may drop only objects it does not, and has dropped an       *)
(* object before the memory of that object is reclaimed.                   *)
(***************************************************************************)

CONSTANT Obj

VARIABLES
  onHeap,    (* objects whose memory has not been reclaimed                *)
  needed,    (* objects the registry must not lose track of                *)
  members    (* objects registered                                         *)

vars == <<onHeap, needed, members>>

Init ==
  /\ onHeap = {}
  /\ needed = {}
  /\ members = {}

(* A new object may be needed from the start.                              *)
Alloc(o, N) ==
  /\ o \notin onHeap
  /\ N \subseteq {o}
  /\ onHeap' = onHeap \cup {o}
  /\ needed' = needed \cup N
  /\ UNCHANGED members

Register(S) ==
  /\ S \subseteq onHeap
  /\ members' = members \cup S
  /\ needed' = needed \cup S
  /\ UNCHANGED onHeap

(* The program drops S, or S no longer has what it was registered for.     *)
Forget(S) ==
  /\ needed' = needed \ S
  /\ UNCHANGED <<onHeap, members>>

(* S is taken off the registry, needed or not.                             *)
Unregister(S) ==
  /\ needed' = needed \ S
  /\ members' = members \ S
  /\ UNCHANGED onHeap

Sweep(S) ==
  /\ S \cap needed = {}
  /\ members' = members \ S
  /\ UNCHANGED <<onHeap, needed>>

Reclaim(S) ==
  /\ S \cap (needed \cup members) = {}
  /\ onHeap' = onHeap \ S
  /\ UNCHANGED <<needed, members>>

Next ==
  \/ \E o \in Obj : \E N \in SUBSET {o} : Alloc(o, N)
  \/ \E S \in SUBSET Obj :
       Register(S) \/ Forget(S) \/ Unregister(S) \/ Sweep(S) \/ Reclaim(S)

Spec == Init /\ [][Next]_vars
=============================================================================
