----------------------------- MODULE Collections -----------------------------
(***************************************************************************)
(* The members of a sequence that a filter keeps, and sums: what filter,    *)
(* sort and reduce of the code do to arrays.  They are written with sets of *)
(* places and with functions, not with operators as arguments, so that      *)
(* CollectionsProofs can state what they do once for every use.             *)
(***************************************************************************)
EXTENDS Integers, Sequences, FiniteSets

(* A finite set of integers in ascending order.                             *)
Ascending(S) == [k \in 1..Cardinality(S) |-> CHOOSE x \in S : Cardinality({y \in S : y <= x}) = k]

(* The members of s at the places in at, in their order.                    *)
Picked(s, at) == LET places == Ascending(at) IN [k \in 1..Cardinality(at) |-> s[places[k]]]

(* The sum of the values of a function.                                     *)
SumOf(f) ==
  LET sum[S \in SUBSET DOMAIN f] ==
        IF S = {} THEN 0 ELSE LET x == CHOOSE y \in S : TRUE IN f[x] + sum[S \ {x}]
  IN sum[DOMAIN f]
==============================================================================
