------------------------------ MODULE Ordering ------------------------------
(***************************************************************************)
(* What the sorts and filters of the Rust library return.  An order is a   *)
(* set of pairs, so that theorems can be stated about any order.           *)
(***************************************************************************)
EXTENDS Integers, FiniteSets

(* The finite set S as a sequence: the k-th element has k - 1 before it.   *)
Sequenced(S, before) ==
  [k \in 1 .. Cardinality(S) |->
     CHOOSE x \in S : Cardinality({y \in S : <<y, x>> \in before}) = k - 1]

Pairs(S) == S \X S
Ascending(S) == {p \in Pairs(S) : p[1] < p[2]}

(* What s holds at the indices I, in their order or in the one given.      *)
Arranged(s, I, before) ==
  LET order == Sequenced(I, before) IN [k \in DOMAIN order |-> s[order[k]]]

Filtered(s, I) == Arranged(s, I, Ascending(I))
=============================================================================
