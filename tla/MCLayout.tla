------------------------------- MODULE MCLayout -------------------------------
(* Layout on a small heap.                                                 *)
EXTENDS Layout, TLC

CONSTANTS o1, o2, o3

MCObj == {o1, o2, o3}
MCPayload == o1 :> 1 @@ o2 :> 2 @@ o3 :> 1
=============================================================================
