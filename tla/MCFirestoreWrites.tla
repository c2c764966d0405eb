------------------------- MODULE MCFirestoreWrites -------------------------
(* Two users and a pipeline of two; FirestoreWrites.cfg gives the bounds.  *)
EXTENDS FirestoreWrites

CONSTANTS ann, ben

MCUsers == {ann, ben}
=============================================================================
