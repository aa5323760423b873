--------------------------- MODULE MCOutputStream ---------------------------
(* OutputStream on a small instance: two handles racing for a budget of 3   *)
(* bytes with events of 2 and control events of none, a batch of 2 events   *)
(* and 2 bytes.                                                             *)
EXTENDS OutputStream

CONSTANTS p1, p2

MCProducers == {p1, p2}
MCWeights == {2}
=============================================================================
