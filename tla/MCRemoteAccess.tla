--------------------------- MODULE MCRemoteAccess ---------------------------
(* The accesses of the instances of RemoteAccess that are checked. *)
EXTENDS RemoteAccess, TLC

CONSTANTS A, B

(* One write, one read. *)
Pair ==
  {[id |-> 1, write |-> TRUE, region |-> A], [id |-> 2, write |-> FALSE, region |-> A]}

(* A write of each region: they are named by it, so that the regions can   *)
(* be exchanged.                                                           *)
Double == {[id |-> k, write |-> TRUE, region |-> k] : k \in Keys}
Swapped == Permutations(Keys)
=============================================================================
