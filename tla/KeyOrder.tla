------------------------------- MODULE KeyOrder -------------------------------
(***************************************************************************)
(* The order in which S3 lists keys, which are numbers here, and in which  *)
(* a loop comes by the positions of a list.                                *)
(***************************************************************************)
EXTENDS Integers, FiniteSets

(* The keys or positions of the set S, in their order.                     *)
Listed(S) ==
  CHOOSE s \in [1..Cardinality(S) -> S] :
    \A i, j \in 1..Cardinality(S) : i < j => s[i] < s[j]
=============================================================================
