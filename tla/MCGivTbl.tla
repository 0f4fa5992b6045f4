------------------------------- MODULE MCGivTbl -------------------------------
(* GivTbl on small instances.                                              *)
EXTENDS GivTbl, TLC

(* Objects, addresses and workers are interchangeable; used by the safety  *)
(* run only.                                                               *)
Symmetric == Permutations(Obj) \cup Permutations(Addr) \cup Permutations(Worker)
=============================================================================
