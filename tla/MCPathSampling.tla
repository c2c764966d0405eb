--------------------------- MODULE MCPathSampling ---------------------------
(* Walks along a straight road for PathSampling. *)
EXTENDS PathSampling

Road == -3..3

DistOn(ps) ==
    [p \in ps |-> [q \in ps |-> IF p < q THEN q - p ELSE p - q]]

RoadDist == DistOn(Road)

OneTwo == <<1, 2>>
=============================================================================
