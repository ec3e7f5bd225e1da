------------------------------ MODULE Residency ------------------------------
(***************************************************************************)
(* What the UVM manager promises about managed memory, without its fault   *)
(* queue, its control messages and its transfers: every page travels       *)
(*                                                                         *)
(*      Host -> ToGPU -> GPU -> ToHost -> Host                             *)
(*                                                                         *)
(* one stage at a time, so that data which exists only in GPU memory never *)
(* disappears without a write-back, and the pages away from the host never *)
(* exceed the frame budget.                                                *)
(***************************************************************************)
EXTENDS Integers, FiniteSets

CONSTANTS
  Pages,     \* the managed pages, a finite set
  Capacity   \* the frame budget, a natural number

VARIABLE place

Places == {"Host", "ToGPU", "GPU", "ToHost"}

Onward == [Host |-> "ToGPU", ToGPU |-> "GPU", GPU |-> "ToHost", ToHost |-> "Host"]

Away(at) == {p \in Pages : at[p] # "Host"}

Init == place = [p \in Pages |-> "Host"]

(* Any set of pages moves one stage on, within the budget. *)
Move(S) ==
  /\ place' = [p \in Pages |-> IF p \in S THEN Onward[place[p]] ELSE place[p]]
  /\ Cardinality(Away(place')) <= Capacity

Next == \E S \in SUBSET Pages : Move(S)

Spec == Init /\ [][Next]_place
=============================================================================
