------------------------- MODULE MCTranslationPath -------------------------
(* The instances of TranslationPath that are checked. *)
EXTENDS TranslationPath

CONSTANTS A, B, P, Q, R

By(id, core, page) == [id |-> id, core |-> core, page |-> page]

(* Each core with a page of its own, one twice with the same, or both once. *)
TwoPages  == {By(1, A, P), By(2, B, Q)}
Twice     == {By(1, A, P), By(2, A, P)}
TwoCores  == {By(1, A, P), By(2, B, P)}

AllWays   == [p \in Pages |-> Ways]
OneRegion == [p \in Pages |-> R]
Any       == {TwoPages, Twice, TwoCores}
Shared    == {TwoCores}

(* The run stops when every access is done and no region is in service.    *)
(* Any other state from which nothing happens is a deadlock, and as        *)
(* evictions are bounded, the accesses and services of a run that does not *)
(* stop there would have to go round in circles.                           *)
Finished ==
  /\ \A a \in DOMAIN access : access[a] = "Done"
  /\ \A r \in Regions : service[r] = "Idle"
  /\ UNCHANGED vars

MCSpec == Init /\ [][Next \/ Finished]_vars
=============================================================================
