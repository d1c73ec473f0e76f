----------------------------- MODULE MCServeur -----------------------------
(***************************************************************************)
(* The server alone among arbitrary peers.                                 *)
(***************************************************************************)
EXTENDS ServeurOuvert, TLC

\* A confirmation, a choice, and each of them out of place: what it takes to go
\* from round to round.
MCMessages == [type : {"brut"}, val : {SIGNAL, OUI}]
Symetrie == Permutations(Clients)
=============================================================================
