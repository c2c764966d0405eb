---------------------------- MODULE MCSavedPlaces ----------------------------
(* Small accounts for SavedPlaces. *)
EXTENDS SavedPlaces, TLC

CONSTANTS p1, p2, A, B, C, l1, l2, l3, d1, d2

\* p1 is saved in the list B, with an id above the number of documents: an
\* earlier place was deleted; the default list A is empty.
OneSaved == {[doc |-> d1, place |-> p1, id |-> 2, list |-> {B}, twice |-> {}]}
OneSavedLists == {[lid |-> l1, title |-> A, places |-> {}],
                  [lid |-> l2, title |-> B, places |-> {2}]}

\* p1 is in A and B, p2 in B.
TwoSaved == {[doc |-> d1, place |-> p1, id |-> 1, list |-> {A, B}, twice |-> {}],
             [doc |-> d2, place |-> p2, id |-> 2, list |-> {B}, twice |-> {}]}
TwoSavedLists == {[lid |-> l1, title |-> A, places |-> {1}],
                  [lid |-> l2, title |-> B, places |-> {1, 2}]}
=============================================================================
