-------------------------------- MODULE Flux --------------------------------
(***************************************************************************)
(* One connection of the game, byte by byte.  TCP carries bytes and knows  *)
(* nothing of units: several send() may arrive together, one may arrive in *)
(* parts, and recv(n) returns as soon as one byte is there, with at most   *)
(* n.  No caller here asks for the rest: client.c ignores what recv()      *)
(* returns and serveur.c only tests for <= 0 (lib/jeu.c:20-26).            *)
(*                                                                         *)
(* The two ends are the sequences of their calls.  Losses and resets are   *)
(* in module Sockets.                                                      *)
(***************************************************************************)
EXTENDS Integers, Sequences, FiniteSets

CONSTANTS
  SIZEOF_INT,   \* 4
  NbFormes,     \* 16
  Coupures,     \* whether a send() may arrive in parts
  MaxManches    \* bound: the rounds that are played

ASSUME FluxAssumption ==
  /\ SIZEOF_INT \in Nat \ {0} /\ NbFormes \in Nat \ {0}
  /\ Coupures \in BOOLEAN /\ MaxManches \in Nat \ {0}

VARIABLES
  pas,      \* pas[b]: the call that b makes next
  tour,     \* tour[b]: the round b is in
  transit,  \* transit[b]: the bytes on their way to b
  tampon,   \* tampon[b]: the bytes that b can read
  lu        \* lu[b]: the unit that b asked for last and the bytes it got

vars == <<pas, tour, transit, tampon, lu>>

Bouts == {"serveur", "client"}
Autre(b) == IF b = "serveur" THEN "client" ELSE "serveur"

Appel(f, u, n) == [fonction |-> f, unite |-> u, longueur |-> n]

Entier(f, u) == Appel(f, u, SIZEOF_INT)
Ordre(f) == Appel(f, "indices", NbFormes * SIZEOF_INT)

\* The calls of the server for one client in a round: attendre_pression_touch,
\* envoyer_grille_et_forme, recevoir_temps, envoyer_resultats and
\* recevoir_choix_rejouer.
PretServeur == <<Appel("recv", "pret", 1), Appel("send", "signal", 1)>>
TirageServeur == <<Entier("send", "forme"), Ordre("send")>>
\* Mutant: est_correct is read as a bool of one byte.
TempsServeurBool == <<Appel("recv", "juste", 1), Entier("recv", "temps")>>
TempsServeur == <<Entier("recv", "juste"), Entier("recv", "temps")>>
ResultatsServeur == <<Entier("send", "meilleur"), Entier("send", "pire")>>
ChoixServeur == <<Appel("recv", "choix", 1)>>

AppelsServeur ==
  PretServeur \o TirageServeur \o TempsServeur \o ResultatsServeur \o ChoixServeur

\* Those of the client, in main().
\* Mutant: the signal is read as an int.
PretClientEntier == <<Appel("send", "pret", 1), Entier("recv", "signal")>>
PretClient == <<Appel("send", "pret", 1), Appel("recv", "signal", 1)>>
TirageClient == <<Entier("recv", "forme"), Ordre("recv")>>
TempsClient == <<Entier("send", "juste"), Entier("send", "temps")>>
ResultatsClient == <<Entier("recv", "meilleur"), Entier("recv", "pire")>>
ChoixClient == <<Appel("send", "choix", 1)>>

AppelsClient ==
  PretClient \o TirageClient \o TempsClient \o ResultatsClient \o ChoixClient

Appels(b) == IF b = "serveur" THEN AppelsServeur ELSE AppelsClient
Courant(b) == Appels(b)[pas[b]]

\* The bytes of a unit of round t.
Octet(u, t, r, n) == [unite |-> u, tour |-> t, rang |-> r, de |-> n]
Octets(u, t, n) == [r \in 1 .. n |-> Octet(u, t, r, n)]

Init ==
  /\ pas = [b \in Bouts |-> 1]
  /\ tour = [b \in Bouts |-> 1]
  /\ transit = [b \in Bouts |-> <<>>]
  /\ tampon = [b \in Bouts |-> <<>>]
  /\ lu = [b \in Bouts |-> [unite |-> "", octets |-> <<>>]]

\* The next call; after the choice the next round.
Avancer(b) ==
  IF pas[b] < Len(Appels(b))
  THEN pas' = [pas EXCEPT ![b] = @ + 1] /\ UNCHANGED tour
  ELSE pas' = [pas EXCEPT ![b] = 1] /\ tour' = [tour EXCEPT ![b] = @ + 1]

envoyer_donnees(b) ==
  /\ tour[b] <= MaxManches
  /\ Courant(b).fonction = "send"
  /\ transit' = [transit EXCEPT ![Autre(b)] =
                   @ \o Octets(Courant(b).unite, tour[b], Courant(b).longueur)]
  /\ Avancer(b)
  /\ UNCHANGED <<tampon, lu>>

\* A segment arrives: some of the bytes, up to the end of a send() unless it
\* may be cut.
Arriver(b) ==
  /\ \E n \in 1 .. Len(transit[b]) :
       /\ Coupures \/ transit[b][n].rang = transit[b][n].de
       /\ tampon' = [tampon EXCEPT ![b] = @ \o SubSeq(transit[b], 1, n)]
       /\ transit' = [transit EXCEPT ![b] = SubSeq(@, n + 1, Len(@))]
  /\ UNCHANGED <<pas, tour, lu>>

\* recv(): blocks while there is nothing, then takes what there is, n at most.
recevoir_donnees(b) ==
  LET n == IF Len(tampon[b]) < Courant(b).longueur THEN Len(tampon[b]) ELSE Courant(b).longueur
  IN  /\ tour[b] <= MaxManches
      /\ Courant(b).fonction = "recv"
      /\ n > 0
      /\ lu' = [lu EXCEPT ![b] = [unite |-> Courant(b).unite, octets |-> SubSeq(tampon[b], 1, n)]]
      /\ tampon' = [tampon EXCEPT ![b] = SubSeq(@, n + 1, Len(@))]
      /\ Avancer(b)
      /\ UNCHANGED transit

\* The rounds are over.
Termine ==
  /\ \A b \in Bouts : tour[b] > MaxManches
  /\ \A b \in Bouts : transit[b] = <<>>
  /\ UNCHANGED vars

Next ==
  \/ \E b \in Bouts : envoyer_donnees(b) \/ Arriver(b) \/ recevoir_donnees(b)
  \/ Termine

Spec == Init /\ [][Next]_vars

-----------------------------------------------------------------------------
(***************************************************************************)
(* Properties.                                                             *)
(***************************************************************************)

\* These bytes are one unit, from its first byte to its last.
Entiere(s) == s # <<>> /\ s = Octets(s[1].unite, s[1].tour, s[1].de)

\* The lengths of the two programs agree (sizeof and 1 in serveur.c and
\* client.c): although several send() arrive together, each recv() takes the
\* bytes of the unit it is meant for and leaves the next one alone, so the
\* bytes never shift, the client is at most one round ahead, and a finished game
\* leaves none behind.
UniteExacte ==
  /\ \A b \in Bouts :
       lu[b].octets # <<>> => Entiere(lu[b].octets) /\ lu[b].octets[1].unite = lu[b].unite
  /\ tour["client"] - tour["serveur"] \in {0, 1}
  /\ tour["serveur"] > MaxManches => tampon["client"] = <<>> /\ transit["client"] = <<>>

\* The units of a stream, one for each first byte, in order.
Debuts(s) == {i \in 1 .. Len(s) : s[i].rang = 1}
Debut(s, n) == CHOOSE i \in Debuts(s) : Cardinality({j \in Debuts(s) : j < i}) = n - 1
UniteEn(s, i) == <<s[i].unite, s[i].tour>>
UnitesDe(s) == [n \in 1 .. Cardinality(Debuts(s)) |-> UniteEn(s, Debut(s, n))]

Noms == {"pret", "signal", "forme", "indices", "juste", "temps", "meilleur", "pire", "choix"}

C == INSTANCE Canal WITH
  Unites <- Noms \X (1 .. MaxManches),
  file <- [b \in Bouts |-> UnitesDe(tampon[b] \o transit[b])],
  lu <- [b \in Bouts |-> IF lu[b].octets = <<>> THEN <<>>
                         ELSE IF Entiere(lu[b].octets)
                         THEN <<lu[b].octets[1].unite, lu[b].octets[1].tour>>
                         ELSE <<"morceau">>]

\* As long as no send() is cut on the way, the stream of bytes with its short
\* and its joined deliveries is the queue of units that the other modules use
\* (Sockets: ServeurEnvoie, ServeurLit, ClientEnvoie, ClientLit).
ImplementeCanal == C!Spec

\* "Recevoir egalement l'ordre des indices" (client.c:126): after the recv() of
\* client.c:128 the client has the order of all the shapes.
OrdreRecu ==
  lu["client"].unite = "indices" => Len(lu["client"].octets) = NbFormes * SIZEOF_INT

=============================================================================
