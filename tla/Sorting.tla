------------------------------ MODULE Sorting -------------------------------
(***************************************************************************)
(* Sorts and selections, by what they yield.                               *)
(***************************************************************************)
EXTENDS Integers, Sequences, FiniteSets

(* A set in a strict order: the k-th element has k - 1 before it. *)
Sorted(S, before(_, _)) ==
    [k \in 1..Cardinality(S) |->
        CHOOSE x \in S : Cardinality({y \in S : before(y, x)}) = k - 1]

(* The elements of a sequence at some positions, in order. *)
Picked(s, K) == [i \in DOMAIN Sorted(K, <) |-> s[Sorted(K, <)[i]]]
=============================================================================
