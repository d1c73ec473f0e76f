------------------------------ MODULE Serveur ------------------------------
(***************************************************************************)
(* serveur.c: the game server.  One process, no thread; it blocks in       *)
(* accept(), select() and recv(), and between two of these calls the       *)
(* clients and the network move.  Every call that touches a socket is an   *)
(* action; a for loop over the clients is the set aFaire of the slots it   *)
(* has left, taken in increasing order.                                    *)
(***************************************************************************)
EXTENDS Protocole

VARIABLES
  pcS,        \* where main() and the functions it calls are
  nbClients,  \* nb_clients
  clients,    \* clients[]: the descriptor in each slot
  actifs,     \* clients_actifs[]: the slots whose flag is true
  prets,      \* client_pret[]: the slots whose flag is true
  aFaire,     \* the slots the current loop has left
  forme, indices,   \* the draw of the round
  temps, justes,    \* temps[] and the true flags of reponses_correctes[]
  meilleur, pire,   \* meilleur_temps, pire_temps
  rejouer           \* rejouer_count

salonVars == <<nbClients, clients, actifs>>
mancheVars == <<forme, indices, temps, justes, meilleur, pire, rejouer>>
serveurVars == <<pcS, nbClients, clients, actifs, prets, aFaire, forme, indices,
                 temps, justes, meilleur, pire, rejouer>>

Slots == 0 .. MAX_CLIENTS - 1

\* The places of main(), in the order it reaches them.
EtatsEnvoi == {"signal", "forme", "indices", "meilleur", "pire"}
EtatsServeur == EtatsEnvoi \cup
  {"demarrage", "premier", "autres", "select", "prets", "juste", "temps",
   "bilan", "choix", "fermeture", "arret", "tue"}
ServeurFini == pcS \in {"arret", "tue"}

\* The connection that send() and recv() on clients[k] reach.
Titulaire(k, c) == lien[c] = "ouvert" /\ descr[c] = clients[k]

\* The loop is at slot k, whose descriptor is the connection of c.
Tour(k, c) ==
  /\ k \in aFaire
  /\ \A l \in aFaire : k <= l
  /\ Titulaire(k, c)

\* The local variables of a round before they are assigned.
Vierges ==
  [forme |-> 0, indices |-> [n \in Formes |-> 0], temps |-> [k \in Slots |-> TempsMax]]

InitServeur ==
  /\ pcS = "demarrage"
  /\ nbClients = 0
  /\ clients = [k \in Slots |-> 0]
  /\ actifs = {}
  /\ prets = {}
  /\ aFaire = {}
  /\ forme = Vierges.forme /\ indices = Vierges.indices
  /\ temps = Vierges.temps /\ justes = {}
  /\ meilleur = TempsMax /\ pire = 0
  /\ rejouer = 0

-----------------------------------------------------------------------------
(***************************************************************************)
(* Helpers: a new client, a lost client, the start of a wait.              *)
(***************************************************************************)

\* The three assignments that follow a successful accept().
AjouterClient(f) ==
  /\ clients' = [clients EXCEPT ![nbClients] = f]
  /\ actifs' = actifs \cup {nbClients}
  /\ nbClients' = nbClients + 1

\* clients_actifs[k] = false; close(clients[k]).  The slot is never given back.
Deconnecter(k, c) ==
  /\ FermerServeur(c)
  /\ actifs' = actifs \ {k}
  /\ UNCHANGED <<nbClients, clients>>

\* Mutant: client_pret[] keeps the flags of the round before.
PretsConserves == prets
\* bool client_pret[MAX_CLIENTS] = {false}
PretsInitiaux == {}

\* main() calls attendre_pression_touch: client_pret[] is all false, and the
\* variables of the round are out of scope.
DebutAttente ==
  /\ pcS' = "select"
  /\ prets' = PretsInitiaux
  /\ aFaire' = {}
  /\ forme' = Vierges.forme /\ indices' = Vierges.indices
  /\ temps' = Vierges.temps /\ justes' = {}
  /\ meilleur' = TempsMax /\ pire' = 0
  /\ rejouer' = 0

-----------------------------------------------------------------------------
(***************************************************************************)
(* main() up to listen(), and attendre_clients.                            *)
(***************************************************************************)
Demarrer ==
  /\ pcS = "demarrage"
  /\ \/ pcS' = "premier" /\ ecoute' = TRUE
     \/ pcS' = "arret" /\ UNCHANGED ecoute    \* socket, bind or listen failed
  /\ UNCHANGED <<file, lien, descr, versServeur, versClient, finClient,
                 rstServeur, rstClient, salonVars, prets, aFaire, mancheVars>>

AccepterPremier ==
  /\ pcS = "premier"
  /\ \E f \in Descripteurs : Accepter(f) /\ AjouterClient(f)
  /\ pcS' = "autres"
  /\ UNCHANGED <<prets, aFaire, mancheVars>>

AccepterAutre ==
  /\ pcS = "autres"
  /\ nbClients < MAX_CLIENTS
  /\ \E f \in Descripteurs : Accepter(f) /\ AjouterClient(f)
  /\ UNCHANGED <<pcS, prets, aFaire, mancheVars>>

\* The delay has passed, select() has failed, or the table is full.
FinDelai ==
  /\ pcS = "autres"
  /\ DebutAttente
  /\ UNCHANGED <<sockVars, salonVars>>

-----------------------------------------------------------------------------
(***************************************************************************)
(* attendre_pression_touch.                                                *)
(***************************************************************************)

\* The descriptors that select() leaves in read_fds.
Signales ==
  {descr[c] : c \in {d \in Clients : Lisible(d) /\ \E k \in actifs : Titulaire(k, d)}}

\* Mutants: the flag of the slot is not tested; the newcomer is read at once.
LireSansDrapeau(A, p, f) == {k \in Slots : k < nbClients /\ k \notin p /\ f[k] \in Signales}
LireNouveau(A, p, f) == {k \in Slots : k \in A \ p /\ (f[k] \in Signales \/ k = nbClients)}

\* The slots the loop reads, among the active slots A, the ready ones p and
\* the descriptors f that the accept() has left: active, not ready, and with a
\* descriptor that is in read_fds, filled before that accept().
ALire(A, p, f) == {k \in Slots : k \in A /\ k \notin p /\ f[k] \in Signales}

\* Mutant: room is counted in active clients, not in slots.
ResteUnActif == Cardinality(actifs) < MAX_CLIENTS
ResteUnePlace == nbClients < MAX_CLIENTS

\* select() returns, and accept() fails, or gives a client a slot, or is
\* followed by close() when there is no slot left.  A turn without a connection
\* and without a slot to read changes nothing and is not a step.
Select ==
  /\ pcS = "select"
  /\ \/ ALire(actifs, prets, clients) # {} /\ UNCHANGED <<sockVars, salonVars, prets>>
     \/ /\ ResteUnePlace
        /\ \E f \in Descripteurs : Accepter(f) /\ AjouterClient(f)
        /\ prets' = prets \ {nbClients}
     \/ ~ResteUnePlace /\ Refuser /\ UNCHANGED <<salonVars, prets>>
  /\ aFaire' = ALire(actifs', prets', clients')
  /\ pcS' = "prets"
  /\ UNCHANGED mancheVars

\* select() fails: attendre_pression_touch returns false and main() ends.
SelectErreur ==
  /\ pcS = "select"
  /\ pcS' = "fermeture"
  /\ UNCHANGED <<sockVars, salonVars, prets, aFaire, mancheVars>>

\* recv() of one character on a slot that select() reported.
LirePret(k, c) ==
  /\ pcS = "prets"
  /\ Tour(k, c)
  /\ aFaire' = aFaire \ {k}
  /\ \/ FluxFini(c) /\ Deconnecter(k, c) /\ UNCHANGED prets
     \/ /\ ServeurLit(c)
        /\ prets' = IF Head(versServeur[c]).val = SIGNAL THEN prets \cup {k} ELSE prets
        /\ UNCHANGED salonVars
  /\ UNCHANGED <<pcS, mancheVars>>

\* Mutant: the ready clients are compared with nb_clients, lost ones included.
TousPretsSelonNb == 0 .. nbClients - 1 \subseteq prets
\* Mutant: one ready client is enough.
UnPret == actifs \cap prets # {}
\* tous_prets == clients_actifs_total
TousPrets == actifs \subseteq prets

\* The loop has read every slot: nobody left, everybody ready, or wait again.
FinTour ==
  /\ pcS = "prets"
  /\ aFaire = {}
  /\ \/ actifs = {} /\ pcS' = "fermeture" /\ UNCHANGED aFaire
     \/ actifs # {} /\ TousPrets /\ pcS' = "signal" /\ aFaire' = actifs
     \/ actifs # {} /\ ~TousPrets /\ pcS' = "select" /\ UNCHANGED aFaire
  /\ UNCHANGED <<sockVars, salonVars, prets, mancheVars>>

EnvoyerSignal(k, c) ==
  /\ pcS = "signal"
  /\ Tour(k, c)
  /\ ServeurEnvoie(c, Message("signal", SIGNAL))
  /\ aFaire' = aFaire \ {k}
  /\ UNCHANGED <<pcS, salonVars, prets, mancheVars>>

-----------------------------------------------------------------------------
(***************************************************************************)
(* envoyer_grille_et_forme.  The shuffle is module Grille; here the draw   *)
(* is any of its results.                                                  *)
(***************************************************************************)
FinSignal ==
  /\ pcS = "signal"
  /\ aFaire = {}
  /\ forme' \in Formes
  /\ indices' \in Ordres
  /\ pcS' = "forme"
  /\ aFaire' = actifs
  /\ UNCHANGED <<sockVars, salonVars, prets, temps, justes, meilleur, pire, rejouer>>

\* Mutants: the order is sent first; a shape is drawn for each client.
UniteIndices(k) == Message("indices", indices)
UniteFormePropre(k) == Message("forme", (forme + k) % NbFormes)
\* The first unit sent to slot k.
UniteForme(k) == Message("forme", forme)

EnvoyerForme(k, c) ==
  /\ pcS = "forme"
  /\ Tour(k, c)
  /\ ServeurEnvoie(c, UniteForme(k))
  /\ pcS' = "indices"
  /\ UNCHANGED <<salonVars, prets, aFaire, mancheVars>>

EnvoyerIndices(k, c) ==
  /\ pcS = "indices"
  /\ Tour(k, c)
  /\ ServeurEnvoie(c, Message("indices", indices))
  /\ pcS' = "forme"
  /\ aFaire' = aFaire \ {k}
  /\ UNCHANGED <<salonVars, prets, mancheVars>>

-----------------------------------------------------------------------------
(***************************************************************************)
(* recevoir_temps.                                                         *)
(***************************************************************************)
FinGrille ==
  /\ pcS = "forme"
  /\ aFaire = {}
  /\ temps' = [k \in Slots |-> TempsMax]
  /\ justes' = {}
  /\ pcS' = "juste"
  /\ aFaire' = actifs
  /\ UNCHANGED <<sockVars, salonVars, prets, forme, indices, meilleur, pire, rejouer>>

\* Mutant: a recv() that returns 0 is tried again.
PerteInsistante(k, c) == UNCHANGED <<sockVars, salonVars, aFaire>>
\* recv() of est_correct failed: the client is lost, continue.
PerteReponse(k, c) == Deconnecter(k, c) /\ aFaire' = aFaire \ {k}

RecevoirJuste(k, c) ==
  /\ pcS = "juste"
  /\ Tour(k, c)
  /\ \/ FluxFini(c) /\ PerteReponse(k, c) /\ UNCHANGED <<pcS, justes>>
     \/ /\ ServeurLit(c)
        /\ justes' = IF Head(versServeur[c]).val = 1 THEN justes \cup {k} ELSE justes
        /\ pcS' = "temps"
        /\ UNCHANGED <<salonVars, aFaire>>
  /\ UNCHANGED <<prets, forme, indices, temps, meilleur, pire, rejouer>>

RecevoirTemps(k, c) ==
  /\ pcS = "temps"
  /\ Tour(k, c)
  /\ \/ /\ FluxFini(c)
        /\ Deconnecter(k, c)
        /\ temps' = [temps EXCEPT ![k] = TempsMax]
        /\ justes' = justes \ {k}
     \/ /\ ServeurLit(c)
        /\ temps' = [temps EXCEPT ![k] = Head(versServeur[c]).val]
        /\ UNCHANGED <<salonVars, justes>>
  /\ aFaire' = aFaire \ {k}
  /\ pcS' = "juste"
  /\ UNCHANGED <<prets, forme, indices, meilleur, pire, rejouer>>

-----------------------------------------------------------------------------
(***************************************************************************)
(* envoyer_resultats.                                                      *)
(***************************************************************************)
FinTemps ==
  /\ pcS = "juste"
  /\ aFaire = {}
  /\ meilleur' = TempsMax
  /\ pire' = 0
  /\ pcS' = "bilan"
  /\ aFaire' = actifs
  /\ UNCHANGED <<sockVars, salonVars, prets, forme, indices, temps, justes, rejouer>>

\* Mutants: the worst time among the right answers only; the comparison with
\* the best time the wrong way round.
PireSiJuste(k) == IF k \in justes /\ temps[k] > pire THEN temps[k] ELSE pire
MeilleurInverse(k) == IF k \in justes /\ temps[k] > meilleur THEN temps[k] ELSE meilleur

MeilleurAvec(k) == IF k \in justes /\ temps[k] < meilleur THEN temps[k] ELSE meilleur
PireAvec(k) == IF temps[k] > pire THEN temps[k] ELSE pire

\* One turn of the loop over the active clients.
Bilan(k) ==
  /\ pcS = "bilan"
  /\ k \in aFaire
  /\ \A l \in aFaire : k <= l
  /\ meilleur' = MeilleurAvec(k)
  /\ pire' = PireAvec(k)
  /\ aFaire' = aFaire \ {k}
  /\ UNCHANGED <<sockVars, pcS, salonVars, prets, forme, indices, temps, justes, rejouer>>

FinBilan ==
  /\ pcS = "bilan"
  /\ aFaire = {}
  /\ pcS' = "meilleur"
  /\ aFaire' = actifs
  /\ UNCHANGED <<sockVars, salonVars, prets, mancheVars>>

EnvoyerMeilleur(k, c) ==
  /\ pcS = "meilleur"
  /\ Tour(k, c)
  /\ ServeurEnvoie(c, Message("meilleur", meilleur))
  /\ pcS' = "pire"
  /\ UNCHANGED <<salonVars, prets, aFaire, mancheVars>>

EnvoyerPire(k, c) ==
  /\ pcS = "pire"
  /\ Tour(k, c)
  /\ ServeurEnvoie(c, Message("pire", pire))
  /\ pcS' = "meilleur"
  /\ aFaire' = aFaire \ {k}
  /\ UNCHANGED <<salonVars, prets, mancheVars>>

-----------------------------------------------------------------------------
(***************************************************************************)
(* recevoir_choix_rejouer and the end of main().                           *)
(***************************************************************************)
FinResultats ==
  /\ pcS = "meilleur"
  /\ aFaire = {}
  /\ rejouer' = 0
  /\ pcS' = IF actifs = {} THEN "fermeture" ELSE "choix"
  /\ aFaire' = actifs
  /\ UNCHANGED <<sockVars, salonVars, prets, forme, indices, temps, justes, meilleur, pire>>

\* Mutant: 'n' closes the connection and leaves the flag true.
DepartSansDrapeau(k, c) == LireEtFermer(c) /\ UNCHANGED salonVars
\* The client does not want to play again.
Depart(k, c) ==
  /\ LireEtFermer(c)
  /\ actifs' = actifs \ {k}
  /\ UNCHANGED <<nbClients, clients>>

\* Mutant: whoever does not want to leave is sent away.
ChoixInverse(v) == v = NON
VeutRejouer(v) == v = OUI

RecevoirChoix(k, c) ==
  /\ pcS = "choix"
  /\ Tour(k, c)
  /\ \/ FluxFini(c) /\ Deconnecter(k, c) /\ UNCHANGED rejouer
     \/ /\ versServeur[c] # <<>>
        /\ VeutRejouer(Head(versServeur[c]).val)
        /\ ServeurLit(c)
        /\ rejouer' = rejouer + 1
        /\ UNCHANGED salonVars
     \/ /\ versServeur[c] # <<>>
        /\ ~VeutRejouer(Head(versServeur[c]).val)
        /\ Depart(k, c)
        /\ UNCHANGED rejouer
  /\ aFaire' = aFaire \ {k}
  /\ UNCHANGED <<pcS, prets, forme, indices, temps, justes, meilleur, pire>>

FinChoix ==
  /\ pcS = "choix"
  /\ aFaire = {}
  /\ \/ rejouer > 0 /\ DebutAttente
     \/ rejouer = 0 /\ pcS' = "fermeture" /\ UNCHANGED <<prets, aFaire, mancheVars>>
  /\ UNCHANGED <<sockVars, salonVars>>

Fermeture ==
  /\ pcS = "fermeture"
  /\ ToutFermer
  /\ pcS' = "arret"
  /\ UNCHANGED <<salonVars, prets, aFaire, mancheVars>>

\* A send() on a connection that has been reset raises SIGPIPE; the server has
\* no handler and is ended by it.
TueParSigpipe ==
  /\ pcS \in EtatsEnvoi
  /\ \E k \in Slots, c \in Clients : Tour(k, c) /\ rstServeur[c] = "recu"
  /\ ToutFermer
  /\ pcS' = "tue"
  /\ UNCHANGED <<salonVars, prets, aFaire, mancheVars>>

-----------------------------------------------------------------------------
EchangeAvec(k, c) ==
  \/ LirePret(k, c) \/ EnvoyerSignal(k, c)
  \/ EnvoyerForme(k, c) \/ EnvoyerIndices(k, c)
  \/ RecevoirJuste(k, c) \/ RecevoirTemps(k, c)
  \/ EnvoyerMeilleur(k, c) \/ EnvoyerPire(k, c)
  \/ RecevoirChoix(k, c)

\* What the server does when nothing fails under it.
PasServeur ==
  \/ AccepterPremier \/ AccepterAutre \/ FinDelai
  \/ Select \/ FinTour \/ FinSignal \/ FinGrille \/ FinTemps \/ FinBilan
  \/ FinResultats \/ FinChoix \/ Fermeture
  \/ \E k \in Slots : Bilan(k)
  \/ \E k \in Slots, c \in Clients : EchangeAvec(k, c)

NextServeur ==
  PasServeur \/ Demarrer \/ SelectErreur \/ TueParSigpipe

-----------------------------------------------------------------------------
(***************************************************************************)
(* Properties, whatever the peers of the connections do.                   *)
(***************************************************************************)
TypeSockets ==
  /\ ecoute \in BOOLEAN
  /\ file \in Seq(Clients)
  /\ lien \in [Clients -> Liens]
  /\ descr \in [Clients -> Descripteurs \cup {0}]
  /\ versServeur \in [Clients -> Seq(Unites)]
  /\ finClient \in [Clients -> BOOLEAN]
  /\ rstServeur \in [Clients -> Resets]
  /\ rstClient \in [Clients -> Resets]

TypeSalon ==
  /\ nbClients \in 0 .. MAX_CLIENTS
  /\ clients \in [Slots -> Descripteurs \cup {0}]
  /\ actifs \subseteq 0 .. nbClients - 1
  /\ prets \subseteq Slots /\ aFaire \subseteq Slots

TypeManche ==
  /\ forme \in Formes /\ indices \in [Formes -> Formes]
  /\ temps \in [Slots -> Int] /\ justes \subseteq Slots
  /\ meilleur \in Int /\ pire \in Int /\ rejouer \in Nat

\* Types, and the bounds of the arrays of serveur.c: clients[nb_clients] and
\* every clients[i] of a loop stay inside MAX_CLIENTS.
TypeServeur == TypeSockets /\ pcS \in EtatsServeur /\ TypeSalon /\ TypeManche

\* The table of clients and the open connections correspond.
SalonSain ==
  /\ aFaire \subseteq actifs
  /\ \A k \in actifs : \E c \in Clients : Titulaire(k, c)
  /\ \A k, l \in actifs : clients[k] = clients[l] => k = l
  /\ \A c \in Clients : lien[c] = "ouvert" => \E k \in actifs : Titulaire(k, c)

\* No confusion of connections: a descriptor closed at serveur.c:147, 252, 263,
\* 347 or 354 may be given again by the next accept(), while the closed slot
\* keeps the old number.  Still, while the server runs, each active slot holds
\* an open connection of its own, no loop is about to use an inactive slot, and
\* no accepted connection is left without a slot (a leaked descriptor).
DescripteursSains == ~ServeurFini => SalonSain

\* The server has one thread, so a recv() that waits makes everybody wait.  While
\* it waits for the confirmations it never does: every slot the loop has left
\* (serveur.c:139-142) is one whose recv() returns at once, although read_fds is
\* older than the accept() that may have filled a slot meanwhile, and older than
\* the recv() and close() of the slots before it.
JamaisBloque ==
  pcS = "prets" => \A k \in aFaire : \E c \in Clients : Titulaire(k, c) /\ Lisible(c)

\* The results of a round, as the sends of envoyer_resultats find them
\* (serveur.c:312): the best time is that of an active client with a right
\* answer, or 100; no right answer beats it; no active client is slower than
\* the worst time; and a client that was lost while it answered counts in
\* neither.
BilanExact ==
  pcS \in {"meilleur", "pire"} =>
    /\ \A k \in actifs : temps[k] <= pire /\ (k \in justes => meilleur <= temps[k])
    /\ meilleur = TempsMax \/ \E k \in actifs : k \in justes /\ temps[k] = meilleur
    /\ pire = 0 \/ \E k \in actifs : temps[k] = pire

\* The round goes on as long as somebody wants to play: the server leaves the
\* choices for a new wait exactly with the clients that said 'o', and each of
\* them is still connected.
RejoueurGarde ==
  pcS = "choix" => rejouer = Cardinality(actifs \ aFaire)

=============================================================================
