----------------------------- MODULE Protocole -----------------------------
(***************************************************************************)
(* The units that serveur.c and client.c exchange.  The code puts no type  *)
(* on the wire: a recv() takes the next bytes for what it expects.  The    *)
(* field "type" records what the SENDER meant; no action reads it, and     *)
(* LectureAlignee (module Reflexe) states that the two ends agree.         *)
(***************************************************************************)
EXTENDS Sockets, Formes

Message(t, v) == [type |-> t, val |-> v]

\* What a unit is meant to be; "brut" is sent by a peer that is not client.c.
Genres == {"pret", "signal", "forme", "indices", "juste", "temps", "meilleur", "pire",
           "choix", "brut"}

\* What the server receives: every unit is read as an integer or a character.
Unites == [type : Genres, val : Int]

\* Mutant: the largest int.
TempsMaxEntier == 2147483647
TempsMax == 100   \* 10 seconds, in tenths of a second
SIGNAL == 49      \* the character '1': a client is ready, the round starts
OUI == 111        \* 'o': play again
NON == 110        \* 'n': leave

=============================================================================
