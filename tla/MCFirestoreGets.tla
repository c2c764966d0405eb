--------------------------- MODULE MCFirestoreGets ---------------------------
(* A few gets of two queries; the cfgs give the bounds.                     *)
EXTENDS FirestoreGets

CONSTANTS places, lists

MCQueries == {places, lists}
MCDeniable == {lists}
=============================================================================
