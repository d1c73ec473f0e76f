---------------------------- MODULE Raffinement ----------------------------
(***************************************************************************)
(* The server, its clients and the sockets implement the rounds of module  *)
(* Manches.  The mapping reads the places of the programs: a client is     *)
(* gone for the game as soon as either end of its connection is closed.    *)
(***************************************************************************)
EXTENDS Reflexe

MancheDe ==
  CASE pcS \in {"demarrage", "premier", "autres", "select", "prets", "signal"} -> "salon"
    [] pcS \in {"forme", "indices", "juste", "temps", "bilan"} -> "jeu"
    [] pcS \in {"meilleur", "pire", "choix"} -> "resultats"
    [] OTHER -> "fin"

\* Either end of the connection of c is closed, or about to be.
Parti(c) ==
  pcC[c] \in {"fermer", "fini", "tue"} \/ lien[c] \notin {"file", "ouvert"} \/ finClient[c]

EtapeDe(c) ==
  IF pcC[c] = "depart" THEN "dehors"
  ELSE IF Parti(c) THEN "parti"
  ELSE CASE pcC[c] = "tactile" -> "appelle"
         [] pcC[c] \in {"synchro", "forme", "indices"} -> "attend"
         [] pcC[c] = "jeu" -> "joue"
         [] pcC[c] \in {"juste", "temps", "meilleur", "pire"} -> "repondu"
         [] pcC[c] = "choix" -> "choisit"

Rien == [rien |-> TRUE]

VueDe(c) ==
  CASE EtapeDe(c) = "joue" -> [forme |-> loc[c].forme, indices |-> loc[c].indices]
    [] EtapeDe(c) = "repondu" -> [juste |-> loc[c].juste, temps |-> loc[c].temps]
    [] EtapeDe(c) = "choisit" -> [meilleur |-> loc[c].meilleur, pire |-> loc[c].pire]
    [] OTHER -> Rien

TirageDe == IF MancheDe \in {"jeu", "resultats"}
            THEN [forme |-> forme, indices |-> indices] ELSE Rien
ResultatDe == IF MancheDe = "resultats"
              THEN [meilleur |-> meilleur, pire |-> pire] ELSE Rien
AdmisDe == {c \in Clients : lien[c] = "ouvert"}
Etapes == [c \in Clients |-> EtapeDe(c)]
Vues == [c \in Clients |-> VueDe(c)]

M == INSTANCE Manches WITH
  Joueurs <- Clients,
  MaxJoueurs <- MAX_CLIENTS,
  Tirages <- [forme : Formes, indices : Ordres],
  Reponses <- [juste : BOOLEAN, temps : Durees],
  Plafond <- TempsMax,
  manche <- MancheDe,
  tirage <- TirageDe,
  resultat <- ResultatDe,
  admis <- AdmisDe,
  etape <- Etapes,
  vue <- Vues

\* The program implements the rounds of Manches: whoever joins late, dies, is
\* lost or leaves at any call of serveur.c and client.c, a round starts only
\* when everybody who is there has confirmed (serveur.c:174), all see the one
\* draw of that round, the result is made of the answers of all those who are
\* still there, and of no others but what players lost since had sent
\* (serveur.c:286-300), each is shown that result, and the next round waits for
\* the choice of all (serveur.c:335-357).
ImplementeManches == M!Spec
=============================================================================
