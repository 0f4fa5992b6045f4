-------------------------------- MODULE MCPPP --------------------------------
(* PPP on small instances.  p and q are PPPs that may share the child c.   *)
EXTENDS PPP, TLC

CONSTANTS p, q, c

MCObj == {p, q, c}
MCParents == {p, q}
MCPinKids == {c}

(* Addresses, workers and the two parents are interchangeable; used by     *)
(* safety runs only.                                                       *)
Symmetric == Permutations(Addr) \cup Permutations(Worker) \cup Permutations(Parents)
=============================================================================
