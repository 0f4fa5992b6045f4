------------------------------ MODULE MCObjFree ------------------------------
(* ObjFree on small instances.                                             *)
EXTENDS ObjFree, TLC

(* Objects, addresses and workers are interchangeable; used by safety runs *)
(* only.                                                                   *)
Symmetric == Permutations(Obj) \cup Permutations(Addr) \cup Permutations(Worker)
=============================================================================
