------------------------------- MODULE MCFlux -------------------------------
(* The sizes of the code; sends that arrive whole, or in parts. *)
EXTENDS Flux
=============================================================================
