--------------------------- MODULE EntriesThenBins ---------------------------
(***************************************************************************)
(* What parallel weak processing of one st_table promises: entries are     *)
(* updated in any order and any grouping, bins are cleaned only once every *)
(* entry has been updated, and the work is not finished while a bin still  *)
(* leads to a deleted entry.  No packets, workers or counters.             *)
(***************************************************************************)
EXTENDS Naturals

CONSTANTS
  Entry,     (* indices of the table's entries                             *)
  Bin,       (* indices of its hash bins                                   *)
  Empty      (* content of a bin that leads to no entry                    *)

VARIABLES
  dead,      (* entries whose weak key or value was not reached            *)
  updated,   (* entries already forwarded or deleted                       *)
  bins,      (* the entry each bin leads to                                *)
  closed     (* the work on the table is over                              *)

vars == <<dead, updated, bins, closed>>

(* The dead entries among those updated have been deleted.                 *)
CleanedBins(S) ==
  [i \in Bin |-> IF i \in S /\ bins[i] \in updated \cap dead
                 THEN Empty ELSE bins[i]]

Init ==
  /\ dead \in SUBSET Entry
  /\ updated = {}
  /\ bins \in [Bin -> Entry \cup {Empty}]
  /\ closed = FALSE

UpdateSome(S) ==
  /\ S \subseteq Entry \ updated
  /\ updated' = updated \cup S
  /\ UNCHANGED <<dead, bins, closed>>

CleanSome(S) ==
  /\ updated = Entry
  /\ bins' = CleanedBins(S)
  /\ UNCHANGED <<dead, updated, closed>>

Finish ==
  /\ updated = Entry
  /\ \A i \in Bin : bins[i] \notin dead
  /\ closed' = TRUE
  /\ UNCHANGED <<dead, updated, bins>>

Next ==
  \/ \E S \in SUBSET Entry : UpdateSome(S)
  \/ \E S \in SUBSET Bin : CleanSome(S)
  \/ Finish

Spec == Init /\ [][Next]_vars
=============================================================================
