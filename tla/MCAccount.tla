----------------------------- MODULE MCAccount ------------------------------
(***************************************************************************)
(* Two users, two emails, two chains at once.                              *)
(***************************************************************************)
EXTENDS Account, TLC

CONSTANTS u1, u2, e1, e2, MaxOdd

\* Behaviours are followed until more than MaxOdd kinds of mishap are seen.
FewOddities == Cardinality(odd) <= MaxOdd

\* Uids and emails are interchangeable.
Symmetry == Permutations({u1, u2}) \cup Permutations({e1, e2})
=============================================================================
