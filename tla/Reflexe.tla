------------------------------ MODULE Reflexe ------------------------------
(***************************************************************************)
(* The whole game over the network: one server, its clients, the kernel's  *)
(* sockets between them.                                                   *)
(***************************************************************************)
EXTENDS Serveur, Client

vars == <<sockVars, serveurVars, clientVars>>

Init == InitSockets /\ InitServeur /\ InitClients

\* Every process has ended, or no player ever came to a server that waits.
Termine ==
  /\ \A c \in Clients : ClientFini(c)
  /\ ServeurFini \/ (pcS = "premier" /\ file = <<>>)
  /\ UNCHANGED vars

Next ==
  \/ NextServeur /\ UNCHANGED clientVars
  \/ \E c \in Clients : NextClient(c) /\ UNCHANGED serveurVars
  \/ \E c \in Clients : ArriveeRst(c) /\ UNCHANGED <<serveurVars, clientVars>>
  \/ Termine

Spec == Init /\ [][Next]_vars

\* The server is scheduled and its calls return; a connected client is
\* scheduled and its player holds the sensor, answers within the ten seconds
\* of the chronometer and chooses; nothing is assumed of failures.
SpecEquitable ==
  /\ Spec
  /\ WF_vars(PasServeur /\ UNCHANGED clientVars)
  /\ \A c \in Clients : WF_vars(PasClient(c) /\ UNCHANGED serveurVars)

-----------------------------------------------------------------------------
(***************************************************************************)
(* Safety.                                                                 *)
(***************************************************************************)
\* The connection of c works both ways: neither end has closed it.
EnLigne(c) == lien[c] = "ouvert" /\ ~finClient[c]

\* The unit that the server's loop is about to read from slot k.
AttenduServeur(k) ==
  CASE pcS = "prets" -> "pret"
    [] pcS = "temps" /\ (\A l \in aFaire : k <= l) -> "temps"
    [] pcS = "juste" \/ (pcS = "temps" /\ \E l \in aFaire : ~(k <= l)) -> "juste"
    [] pcS = "choix" -> "choix"

\* The unit that client c is about to read.
AttenduClient(c) ==
  CASE pcC[c] = "synchro" -> "signal" [] OTHER -> pcC[c]

\* The untyped streams stay aligned: what an end reads next is what the other
\* end meant, whoever joined, left, died or was lost before.  A slot read out
\* of turn, or a confirmation left over from another round, would be taken for
\* an answer (serveur.c:142, 246, 258, 342; client.c:112, 124, 128, 233, 234).
LectureAlignee ==
  /\ pcS \in {"prets", "juste", "temps", "choix"} =>
       \A k \in aFaire, c \in Clients :
         Titulaire(k, c) /\ versServeur[c] # <<>> =>
           Head(versServeur[c]).type = AttenduServeur(k)
  /\ \A c \in Clients :
       /\ pcC[c] \in {"synchro", "forme", "indices", "meilleur", "pire"}
       /\ versClient[c] # <<>>
       => Head(versClient[c]).type = AttenduClient(c)

\* The start barrier: from the first signal until the times are in, every
\* connected client has confirmed for THIS round and none is still at its
\* sensor or at the choice of the round before; and a client that has left the
\* barrier is in a round of the server.
Barriere ==
  \A c \in Clients : EnLigne(c) =>
    /\ pcS \in {"signal", "forme", "indices", "juste", "temps", "bilan"} =>
         pcC[c] \in {"synchro", "forme", "indices", "jeu", "juste", "temps", "meilleur"}
    /\ pcC[c] \in {"forme", "indices", "jeu", "juste", "temps", "meilleur", "pire"} =>
         pcS \notin {"premier", "autres", "select", "prets"}

\* Everybody plays the same game: the shape and the order that a connected
\* client shows are those the server drew for the round in progress.
MemeTirage ==
  \A c \in Clients :
    EnLigne(c) /\ pcC[c] \in {"jeu", "juste", "temps", "meilleur", "pire"} =>
      loc[c].forme = forme /\ loc[c].indices = indices

\* The results a connected client shows are those of its own round: nobody is
\* slower than the worst time, no right answer in time beats the best time,
\* and all the clients show the same two numbers.
ResultatsCoherents ==
  \A c \in Clients : EnLigne(c) /\ pcC[c] = "choix" =>
    /\ loc[c].temps <= loc[c].pire
    /\ loc[c].juste /\ loc[c].temps < TempsMax => loc[c].meilleur <= loc[c].temps
    /\ \A d \in Clients : EnLigne(d) /\ pcC[d] = "choix" =>
         loc[d].meilleur = loc[c].meilleur /\ loc[d].pire = loc[c].pire

\* The number of digits of a natural number.
Chiffres(n) == CHOOSE d \in 1 .. 9 : n < 10^d /\ (d = 1 \/ n >= 10^(d - 1))

\* The two lines of results fit into message[16] with its final zero
\* (client.c:206, 240, 242: "Meilleur: %d.%ds", "Pire: %d.%ds"): the times a
\* connected client shows come from the server, which starts its search from a
\* value of its own when nobody was right.
MessageTient ==
  \A c \in Clients : EnLigne(c) /\ pcC[c] = "choix" =>
    /\ 10 + Chiffres(loc[c].meilleur \div 10) + 3 < 16
    /\ 6 + Chiffres(loc[c].pire \div 10) + 3 < 16

\* Nobody is sent away.  A connection is cut by a running server (serveur.c:147,
\* 252, 263, 347, 354) only when its player has gone or is leaving, whatever the
\* character or the number that was read from the untyped stream; and the server
\* comes to its end, unless select() fails, only when nobody is connected to it
\* any more, although it decides by a count of characters (serveur.c:169, 334,
\* 361).
PersonneChassee ==
  [][/\ \A c \in Clients : lien[c] = "ouvert" /\ lien'[c] = "ferme" /\ ~ServeurFini' =>
          finClient[c] \/ pcC[c] = "fermer"
     /\ pcS \notin {"select", "fermeture"} /\ pcS' = "fermeture" =>
          \A c \in Clients : lien[c] # "ouvert"]_vars

-----------------------------------------------------------------------------
(***************************************************************************)
(* Liveness.                                                               *)
(***************************************************************************)

\* A player who has confirmed does not wait for ever: the round starts, or the
\* client leaves the wait.
AttenteFinie == \A c \in Clients : pcC[c] = "synchro" ~> pcC[c] # "synchro"

\* A round that has started ends: the server comes back to its wait or stops.
MancheFinie == pcS = "signal" ~> pcS \in {"select", "fermeture", "arret", "tue"}

-----------------------------------------------------------------------------
(***************************************************************************)
(* What comments and messages of the code say and the code does not do.    *)
(* Each of these is refuted by a run of its own.                           *)
(***************************************************************************)

\* The loss of a client is handled by dropping it ("Le client s'est
\* deconnecte", serveur.c:144, 249, 260, 344) and the server stops when no
\* active client is left (serveur.c:169); a client's death never ends the
\* server under the others.
ServeurSurvit == pcS # "tue"

\* "Ajouter le nouveau client s'il y a de la place" (serveur.c:124): "Nombre
\* maximum de clients atteint" (serveur.c:133) is said only when MAX_CLIENTS
\* clients are there.
RefusSeulementSiPlein ==
  pcS = "select" /\ ~ResteUnePlace => Cardinality(actifs) = MAX_CLIENTS

\* "Erreur de synchro avec le serveur" (client.c:114): a client plays a round
\* only after the server's signal; when the server has gone instead of sending
\* it, the client says so and leaves.
SynchroDetectee ==
  [][\A c \in Clients :
       pcC[c] = "synchro" /\ pcC'[c] = "forme" => versClient[c] # <<>>]_vars

=============================================================================
