---------------------------- MODULE OrderedLists ----------------------------
(***************************************************************************)
(* Finite sets of integers as lists, and lists filtered or turned round.   *)
(* No definition here is recursive, so that theorems can be stated about   *)
(* the modules that use them.                                              *)
(***************************************************************************)
EXTENDS Integers, FiniteSets, Sequences

(* The number of elements of S below x. *)
Rank(S, x) == Cardinality({y \in S : y < x})

(* The elements of a finite set of integers, smallest first. *)
Ascending(S) ==
  [i \in 1..Cardinality(S) |-> CHOOSE x \in S : Rank(S, x) = i - 1]

(* The elements of list s that are in S, in the order of s. *)
Keep(s, S) ==
  LET at == Ascending({i \in 1..Len(s) : s[i] \in S})
  IN  [k \in 1..Len(at) |-> s[at[k]]]

Backwards(s) == [i \in 1..Len(s) |-> s[Len(s) - i + 1]]
Elements(s)  == {s[i] : i \in 1..Len(s)}

(* How often list s has x. *)
Times(s, x) == Cardinality({i \in 1..Len(s) : s[i] = x})
=============================================================================
