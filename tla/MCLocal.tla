------------------------------ MODULE MCLocal ------------------------------
(* The local game on a grid of few shapes. *)
EXTENDS Local

MCLatences == 1 .. Cadence
MCSauts == {-20 * Cadence, -5 * Cadence, 5 * Cadence, 20 * Cadence}
=============================================================================
