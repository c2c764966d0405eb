----------------------------- MODULE MCSession ------------------------------
(***************************************************************************)
(* Two users and a search panel of two recent searches.                    *)
(***************************************************************************)
EXTENDS Session, FiniteSets

CONSTANTS u1, u2, t1, t2, t3, MaxOdd

\* Behaviours are followed until more than MaxOdd kinds of mishap are seen.
FewOddities == Cardinality(odd) <= MaxOdd
=============================================================================
