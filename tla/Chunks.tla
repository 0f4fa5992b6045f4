-------------------------------- MODULE Chunks --------------------------------
(***************************************************************************)
(* Cutting an index range into work packets, the way the binding does with *)
(* step_by and chunks of the Rust standard library.                        *)
(***************************************************************************)
EXTENDS Integers

SmallerOf(m, n) == IF m < n THEN m ELSE n

(* (lo..hi).step_by(step)                                                  *)
StepBy(lo, hi, step) ==
  {b \in lo .. hi - 1 : \E k \in 0 .. hi - lo : b = lo + k * step}
=============================================================================
