--------------------------- MODULE MCDocumentCache ---------------------------
(* One list document and the places put on it; DocumentCache.cfg bounds it. *)
EXTENDS DocumentCache

CONSTANTS p, q

MCPlaces == {p, q}
PlaceSymmetry == Permutations(MCPlaces)
=============================================================================
