---------------------------- MODULE MCRootScanning ----------------------------
(* RootScanning on a small instance.                                       *)
EXTENDS RootScanning, TLC

(* Addresses and workers are interchangeable.                              *)
Symmetric == Permutations(Addr) \cup Permutations(Worker)
=============================================================================
