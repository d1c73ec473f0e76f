----------------------------- MODULE MCReflexe -----------------------------
(***************************************************************************)
(* Small instances of the whole game.                                      *)
(***************************************************************************)
EXTENDS Raffinement, TLC

Symetrie == Permutations(Clients)
=============================================================================
