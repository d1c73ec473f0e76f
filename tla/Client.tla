------------------------------- MODULE Client -------------------------------
(***************************************************************************)
(* client.c: the game of one player against the server.  Every call that   *)
(* touches the socket is an action; the display is left out and the round  *)
(* itself (the chronometer loop) is one action with a nondeterministic     *)
(* answer and duration.                                                    *)
(*                                                                         *)
(* client.c ignores what recv() returns.  When the connection is over the  *)
(* variable keeps whatever was on the stack: any value of Residus.         *)
(***************************************************************************)
EXTENDS Protocole

CONSTANTS
  Durees,      \* the durations of a round, in tenths of a second
  Residus,     \* what an uninitialised variable may hold
  MaxParties,  \* bound: the rounds a player agrees to play
  MaxPannes    \* bound: the client processes that are killed

ASSUME ClientAssumption ==
  /\ Durees \subseteq Int
  /\ Residus \subseteq Int
  /\ MaxParties \in Nat \ {0} /\ MaxPannes \in Nat

VARIABLES
  pcC,      \* pcC[c]: where main() of client c is
  loc,      \* loc[c]: its variables of the round
  parties,  \* parties[c]: the rounds it has started, for the bound
  pannes    \* the clients killed so far, for the bound

clientVars == <<pcC, loc, parties, pannes>>

EtatsClient ==
  {"depart", "tactile", "synchro", "forme", "indices", "jeu", "juste", "temps",
   "meilleur", "pire", "choix", "fermer", "fini", "tue"}
ClientFini(c) == pcC[c] \in {"fini", "tue"}

\* The variables of a round before they are assigned.
LocVierge == [forme |-> 0, indices |-> [n \in Formes |-> 0], juste |-> FALSE,
              temps |-> 0, meilleur |-> 0, pire |-> 0]

InitClients ==
  /\ pcC = [c \in Clients |-> "depart"]
  /\ loc = [c \in Clients |-> LocVierge]
  /\ parties = [c \in Clients |-> 1]
  /\ pannes = 0

-----------------------------------------------------------------------------
Aller(c, de, vers) == pcC[c] = de /\ pcC' = [pcC EXCEPT ![c] = vers]

\* What recv() leaves in its buffer: the next unit, or, once the server has
\* closed, what was there (R).  It blocks when the set is empty.
Recu(c, R) ==
  IF versClient[c] # <<>> THEN {Head(versClient[c]).val}
  ELSE IF lien[c] = "ferme" THEN R ELSE {}

\* What recv() does to the stream.
Consommer(c) == IF versClient[c] # <<>> THEN ClientLit(c) ELSE UNCHANGED sockVars

-----------------------------------------------------------------------------
\* The devices, socket() or connect() fail.
EchecDemarrage(c) ==
  /\ Aller(c, "depart", "fini")
  /\ UNCHANGED <<sockVars, loc, parties, pannes>>

Connecter(c) ==
  /\ Aller(c, "depart", "tactile")
  /\ ClientConnecte(c)
  /\ UNCHANGED <<loc, parties, pannes>>

\* The player has held the touch sensor: the confirmation is sent.
Confirmer(c) ==
  /\ Aller(c, "tactile", "synchro")
  /\ ClientEnvoie(c, Message("pret", SIGNAL))
  /\ UNCHANGED <<loc, parties, pannes>>

RecevoirSynchro(c) ==
  /\ \E synchro \in Recu(c, Residus) :
       Aller(c, "synchro", IF synchro = SIGNAL THEN "forme" ELSE "fermer")
  /\ Consommer(c)
  /\ UNCHANGED <<loc, parties, pannes>>

RecevoirForme(c) ==
  /\ Aller(c, "forme", "indices")
  /\ \E v \in Recu(c, Residus) : loc' = [loc EXCEPT ![c].forme = v]
  /\ Consommer(c)
  /\ UNCHANGED <<parties, pannes>>

RecevoirIndices(c) ==
  /\ Aller(c, "indices", "jeu")
  /\ \E v \in Recu(c, [Formes -> Residus]) : loc' = [loc EXCEPT ![c].indices = v]
  /\ Consommer(c)
  /\ UNCHANGED <<parties, pannes>>

\* formes[forme] and formes[indices[k]] are inside the table of shapes.
DansTable(c) == loc[c].forme \in Formes /\ loc[c].indices \in [Formes -> Formes]

\* The display, the chronometer and the answer.  The loop ends with a button
\* (rep) or, when the time is over, without one (0).  temps_final is another
\* reading of the wall clock: later than the one that ended the loop or, after a
\* correction of the clock, any time at all.
Jouer(c) ==
  /\ Aller(c, "jeu", "juste")
  /\ \E rep \in 0 .. NbFormes, t \in Durees :
       loc' = [loc EXCEPT
         ![c].juste = (rep = PositionForme(loc[c].forme, loc[c].indices)),
         ![c].temps = t]
  /\ UNCHANGED <<sockVars, parties, pannes>>

\* Reading outside the table of shapes may also end the process.
LireHorsTable(c) ==
  /\ Aller(c, "jeu", "tue")
  /\ ~DansTable(c)
  /\ ClientFerme(c)
  /\ loc' = [loc EXCEPT ![c] = LocVierge]
  /\ UNCHANGED <<parties, pannes>>

EnvoyerJuste(c) ==
  /\ Aller(c, "juste", "temps")
  /\ ClientEnvoie(c, Message("juste", IF loc[c].juste THEN 1 ELSE 0))
  /\ UNCHANGED <<loc, parties, pannes>>

EnvoyerTemps(c) ==
  /\ Aller(c, "temps", "meilleur")
  /\ ClientEnvoie(c, Message("temps", loc[c].temps))
  /\ UNCHANGED <<loc, parties, pannes>>

RecevoirMeilleur(c) ==
  /\ Aller(c, "meilleur", "pire")
  /\ \E v \in Recu(c, Residus) : loc' = [loc EXCEPT ![c].meilleur = v]
  /\ Consommer(c)
  /\ UNCHANGED <<parties, pannes>>

RecevoirPire(c) ==
  /\ Aller(c, "pire", "choix")
  /\ \E v \in Recu(c, Residus) : loc' = [loc EXCEPT ![c].pire = v]
  /\ Consommer(c)
  /\ UNCHANGED <<parties, pannes>>

\* The player presses button 1 or 2; the variables of the round end with it.
Choisir(c) ==
  /\ \/ /\ parties[c] < MaxParties
        /\ Aller(c, "choix", "tactile")
        /\ ClientEnvoie(c, Message("choix", OUI))
        /\ parties' = [parties EXCEPT ![c] = @ + 1]
     \/ /\ Aller(c, "choix", "fermer")
        /\ ClientEnvoie(c, Message("choix", NON))
        /\ UNCHANGED parties
  /\ loc' = [loc EXCEPT ![c] = LocVierge]
  /\ UNCHANGED pannes

Fermer(c) ==
  /\ Aller(c, "fermer", "fini")
  /\ ClientFerme(c)
  /\ UNCHANGED <<loc, parties, pannes>>

\* A send() on a connection that has been reset raises SIGPIPE.
ClientTue(c) ==
  /\ pcC[c] \in {"tactile", "juste", "temps", "choix"}
  /\ rstClient[c] = "recu"
  /\ Aller(c, pcC[c], "tue")
  /\ ClientFerme(c)
  /\ loc' = [loc EXCEPT ![c] = LocVierge]
  /\ UNCHANGED <<parties, pannes>>

\* The process is killed anywhere; its variables end with it and the kernel
\* closes its socket.
Interrompre(c) ==
  /\ pannes < MaxPannes
  /\ ~ClientFini(c) /\ pcC[c] # "depart"
  /\ Aller(c, pcC[c], "tue")
  /\ ClientFerme(c)
  /\ loc' = [loc EXCEPT ![c] = LocVierge]
  /\ pannes' = pannes + 1
  /\ UNCHANGED parties

-----------------------------------------------------------------------------
\* What a client does once it is connected, as long as its player plays.
PasClient(c) ==
  \/ Confirmer(c) \/ RecevoirSynchro(c) \/ RecevoirForme(c) \/ RecevoirIndices(c)
  \/ Jouer(c) \/ EnvoyerJuste(c) \/ EnvoyerTemps(c)
  \/ RecevoirMeilleur(c) \/ RecevoirPire(c) \/ Choisir(c) \/ Fermer(c)

NextClient(c) ==
  PasClient(c) \/ EchecDemarrage(c) \/ Connecter(c) \/ LireHorsTable(c)
  \/ ClientTue(c) \/ Interrompre(c)

=============================================================================
