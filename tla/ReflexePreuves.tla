--------------------------- MODULE ReflexePreuves ---------------------------
(***************************************************************************)
(* Proofs about the whole game (Reflexe): the server of serveur.c and any  *)
(* number of clients of client.c that play, leave, are killed or lost.     *)
(*                                                                         *)
(* The lemmas about a step of the server are those of ServeurPreuves,      *)
(* where its peers are arbitrary.  Messages and MaxFlux, the parameters of *)
(* those peers, are declared there and are not used here.                  *)
(***************************************************************************)
EXTENDS Raffinement, ServeurPreuves

-----------------------------------------------------------------------------
(***************************************************************************)
(* The conversation.  The code puts no type on the wire, but a round is    *)
(* the same nine units for every client: 'pret' to the server, three units *)
(* back, two to the server, two back, the choice, and 'pret' again.  The   *)
(* position of an end is the number of the next unit it sends or reads.    *)
(***************************************************************************)
Ordre == <<"pret", "signal", "forme", "indices", "juste", "temps",
           "meilleur", "pire", "choix", "pret">>
DuServeur == {2, 3, 4, 7, 8}
DuClient == {1, 5, 6, 9, 10}

\* The stream of an end begins with the unit at its position and goes on in
\* order, with units of the other end only.
AligneServeur(p, vs) ==
  \A i \in 1 .. Len(vs) : p + i - 1 \in DuClient /\ vs[i].type = Ordre[p + i - 1]
AligneClient(q, vc) ==
  \A i \in 1 .. Len(vc) : q + i - 1 \in DuServeur /\ vc[i].type = Ordre[q + i - 1]

\* The server is at p, the client at q, perhaps already in the next round, and
\* what lies between the two is in the streams.
Accord(p, q, vs, vc) ==
  /\ AligneServeur(p, vs) /\ AligneClient(q, vc)
  /\ q + Len(vc) = p + Len(vs) \/ q + 9 + Len(vc) = p + Len(vs)

\* The position of a client.
Pos(s) ==
  CASE s \in {"tactile", "fermer"} -> 1
    [] s = "synchro" -> 2
    [] s = "forme" -> 3
    [] s = "indices" -> 4
    [] s \in {"jeu", "juste"} -> 5
    [] s = "temps" -> 6
    [] s = "meilleur" -> 7
    [] s = "pire" -> 8
    [] s = "choix" -> 9
    [] OTHER -> 0

\* The position of the server with the client of slot k: a loop has done with
\* the slots that are no more in aFaire, and is at the lowest of the others.
Tete(k) == k \in aFaire /\ \A l \in aFaire : k <= l
Boucle(k, avant, apres) == IF k \in aFaire THEN avant ELSE apres
PosServeur(k) ==
  CASE pcS \in {"autres", "select", "prets", "fermeture"} -> IF k \in prets THEN 2 ELSE 1
    [] pcS = "signal" -> Boucle(k, 2, 3)
    [] pcS = "forme" -> Boucle(k, 3, 5)
    [] pcS = "indices" -> IF Tete(k) THEN 4 ELSE Boucle(k, 3, 5)
    [] pcS = "juste" -> Boucle(k, 5, 7)
    [] pcS = "temps" -> IF Tete(k) THEN 6 ELSE Boucle(k, 5, 7)
    [] pcS = "bilan" -> 7
    [] pcS = "meilleur" -> Boucle(k, 7, 9)
    [] pcS = "pire" -> IF Tete(k) THEN 8 ELSE Boucle(k, 7, 9)
    [] pcS = "choix" -> Boucle(k, 9, 10)
    [] OTHER -> 0

-----------------------------------------------------------------------------
(***************************************************************************)
(* The inductive invariant.                                                *)
(***************************************************************************)
Valeurs == Int \cup [Formes -> Int]
UnitesClient == [type : Genres, val : Valeurs]
Locales == [forme : Valeurs, indices : Valeurs, juste : BOOLEAN, temps : Int,
            meilleur : Valeurs, pire : Valeurs]
TypesClients ==
  /\ versClient \in [Clients -> Seq(UnitesClient)]
  /\ loc \in [Clients -> Locales]
  /\ pcC \in [Clients -> EtatsClient]
  /\ parties \in [Clients -> 1 .. MaxParties]
  /\ pannes \in 0 .. MaxPannes

\* Who has not confirmed is read; nobody has before the first wait.
Confirmes ==
  /\ pcS \in {"demarrage", "premier", "autres"} => prets = {}
  /\ pcS = "prets" => aFaire \cap prets = {}

\* After the server nothing is connected to it.
Apres ==
  /\ pcS = "demarrage" \/ ServeurFini =>
       ecoute = FALSE /\ \A c \in Clients : lien[c] \notin {"file", "ouvert"}

\* The process of a client and its end of the connection.
Processus(c) ==
  /\ lien[c] = "libre" => /\ pcC[c] \in {"depart", "fini"} /\ ~finClient[c]
                          /\ versServeur[c] = <<>> /\ versClient[c] = <<>>
  /\ pcC[c] \in {"depart", "fini", "tue"} => finClient[c] \/ lien[c] = "libre"
  /\ finClient[c] => pcC[c] \in {"fini", "tue"} /\ versClient[c] = <<>>

\* The two ends agree about where they are, as long as both are there; what
\* one of them has left in a stream when it went is still in order.
Converse(p, c) ==
  /\ AligneServeur(p, versServeur[c])
  /\ ~finClient[c] => Accord(p, Pos(pcC[c]), versServeur[c], versClient[c])
Suite(c) ==
  /\ AligneClient(Pos(pcC[c]), versClient[c])
  /\ \A i \in 1 .. Len(versServeur[c]) :
       versServeur[c][i].type = "pret" => versServeur[c][i].val = SIGNAL
  /\ \A i \in 1 .. Len(versClient[c]) :
       versClient[c][i].type = "signal" => versClient[c][i].val = SIGNAL

\* The draw is on its way to a connected client or with it.
Tirage(c) ==
  /\ \A i \in 1 .. Len(versClient[c]) :
       /\ versClient[c][i].type = "forme" => versClient[c][i].val = forme
       /\ versClient[c][i].type = "indices" => versClient[c][i].val = indices
  /\ Pos(pcC[c]) \in 4 .. 8 => loc[c].forme = forme
  /\ Pos(pcC[c]) \in 5 .. 8 => loc[c].indices = indices

\* So are the results ...
Resultat(c) ==
  /\ \A i \in 1 .. Len(versClient[c]) :
       /\ versClient[c][i].type = "meilleur" => versClient[c][i].val = meilleur
       /\ versClient[c][i].type = "pire" => versClient[c][i].val = pire
  /\ Pos(pcC[c]) \in 8 .. 9 => loc[c].meilleur = meilleur
  /\ Pos(pcC[c]) = 9 => loc[c].pire = pire

\* ... and the answer of a connected client is on its way to the server or in
\* its tables.
Rendu(c) == IF loc[c].juste THEN 1 ELSE 0
Reponse(k, c) ==
  /\ \A i \in 1 .. Len(versServeur[c]) :
       /\ versServeur[c][i].type = "juste" => versServeur[c][i].val = Rendu(c)
       /\ versServeur[c][i].type = "temps" => versServeur[c][i].val = loc[c].temps
  /\ pcS \in {"juste", "temps"} /\ PosServeur(k) = 5 => k \notin justes
  /\ PosServeur(k) = 6 => (k \in justes <=> Rendu(c) = 1)
  /\ PosServeur(k) \in 7 .. 9 /\ Pos(pcC[c]) \in 7 .. 9 =>
       temps[k] = loc[c].temps /\ (k \in justes <=> Rendu(c) = 1)

\* Everything that concerns the client c.
Fiche(c) ==
  /\ Processus(c) /\ Suite(c)
  /\ lien[c] = "file" => Converse(1, c)
  /\ \A k \in actifs : Titulaire(k, c) =>
       Converse(PosServeur(k), c) /\ (~finClient[c] => Reponse(k, c))
  /\ EnLigne(c) => Tirage(c) /\ Resultat(c)

\* What BilanExact says of the active clients is still true in the choices.
BilanChoix ==
  pcS = "choix" =>
    \A k \in actifs : temps[k] <= pire /\ (k \in justes => meilleur <= temps[k])

RInv ==
  /\ IInv /\ RejoueurGarde
  /\ TypesClients /\ Confirmes /\ Apres /\ BilanChoix
  /\ \A c \in Clients : Fiche(c)

-----------------------------------------------------------------------------
(***************************************************************************)
(* What the four calls do to the agreement of the two ends.                *)
(***************************************************************************)

\* The positions of a client that runs.
EnMarche == EtatsClient \ {"depart", "fini", "tue"}

\* A client between connect() and the end of its process has a position
\* (client.c:72-262).
LEMMA PosClient ==
  ASSUME NEW s \in EnMarche
  PROVE  Pos(s) \in 1 .. 9
BY DEF EnMarche, EtatsClient, Pos

\* Length and elements of Append(s, m).
LEMMA Ajout ==
  ASSUME NEW S, NEW s \in Seq(S), NEW m \in S
  PROVE  /\ Append(s, m) \in Seq(S) /\ Len(Append(s, m)) = Len(s) + 1
         /\ \A i \in 1 .. Len(s) : Append(s, m)[i] = s[i]
         /\ Append(s, m)[Len(s) + 1] = m
OBVIOUS

\* Length and elements of Tail(s).
LEMMA Retrait ==
  ASSUME NEW S, NEW s \in Seq(S), s # <<>>
  PROVE  /\ Tail(s) \in Seq(S) /\ Len(s) \in Nat /\ Len(s) >= 1 /\ Len(Tail(s)) = Len(s) - 1
         /\ \A i \in 1 .. Len(s) - 1 : Tail(s)[i] = s[i + 1]
         /\ Head(s) = s[1] /\ Head(s) \in S
OBVIOUS

\* send() of the server.
LEMMA AccordEnvoiServeur ==
  ASSUME NEW S, NEW T, NEW vs \in Seq(S), NEW vc \in Seq(T), NEW m \in T,
         NEW p \in DuServeur, NEW q \in 1 .. 9, Accord(p, q, vs, vc), m.type = Ordre[p]
  PROVE  Accord(p + 1, q, vs, Append(vc, m))
<1>1. p \in 2 .. 8 /\ p \notin DuClient
  BY DEF DuServeur, DuClient
<1>2. Len(vs) = 0
  <2> SUFFICES ASSUME Len(vs) >= 1 PROVE FALSE
    OBVIOUS
  <2>1. p + 1 - 1 \in DuClient
    BY DEF Accord, AligneServeur
  <2> QED BY <1>1, <2>1
<1>3. q + Len(vc) = p
  BY <1>1, <1>2 DEF Accord
<1> DEFINE w == Append(vc, m)
<1>4. /\ Len(w) = Len(vc) + 1 /\ w[Len(vc) + 1] = m
      /\ \A i \in 1 .. Len(vc) : w[i] = vc[i]
  BY Ajout
<1> HIDE DEF w
<1>5. AligneClient(q, w)
  <2> SUFFICES ASSUME NEW i \in 1 .. Len(w)
               PROVE  q + i - 1 \in DuServeur /\ w[i].type = Ordre[q + i - 1]
    BY DEF AligneClient
  <2>1. CASE i \in 1 .. Len(vc)
    BY <1>4, <2>1 DEF Accord, AligneClient
  <2>2. CASE i = Len(vc) + 1
    <3>1. q + i - 1 = p
      BY <1>1, <1>3, <2>2
    <3> QED BY <1>4, <2>2, <3>1
  <2> QED BY <1>4, <2>1, <2>2
<1>6. AligneServeur(p + 1, vs)
  BY <1>2 DEF AligneServeur
<1>7. q + Len(w) = p + 1 + Len(vs)
  BY <1>1, <1>2, <1>3, <1>4
<1> QED BY <1>5, <1>6, <1>7 DEF Accord, w

\* recv() of the server, with the client or after it.
LEMMA AligneLectureServeur ==
  ASSUME NEW S, NEW vs \in Seq(S), vs # <<>>, NEW p \in 1 .. 10, AligneServeur(p, vs)
  PROVE  p \in DuClient /\ Head(vs).type = Ordre[p] /\ AligneServeur(p + 1, Tail(vs))
<1>1. /\ Len(vs) \in Nat /\ Len(vs) >= 1 /\ Len(Tail(vs)) = Len(vs) - 1 /\ Head(vs) = vs[1]
      /\ \A i \in 1 .. Len(vs) - 1 : Tail(vs)[i] = vs[i + 1]
  BY Retrait
<1>2. p + 1 - 1 \in DuClient /\ vs[1].type = Ordre[p + 1 - 1]
  BY <1>1 DEF AligneServeur
<1>3. ASSUME NEW i \in 1 .. Len(vs) - 1
      PROVE  p + 1 + i - 1 \in DuClient /\ vs[i + 1].type = Ordre[p + 1 + i - 1]
  <2>1. i + 1 \in 1 .. Len(vs) /\ p + (i + 1) - 1 = p + 1 + i - 1
    BY <1>1
  <2> QED BY <2>1 DEF AligneServeur
<1> QED BY <1>1, <1>2, <1>3 DEF AligneServeur

\* recv() of the server takes the first unit and both ends still agree
\* (serveur.c:142, 246, 258, 342).
LEMMA AccordLectureServeur ==
  ASSUME NEW S, NEW T, NEW vs \in Seq(S), NEW vc \in Seq(T), vs # <<>>,
         NEW p \in 1 .. 10, NEW q \in 1 .. 9, Accord(p, q, vs, vc)
  PROVE  Accord(p + 1, q, Tail(vs), vc)
<1>1. Len(vs) \in Nat /\ Len(vs) >= 1 /\ Len(Tail(vs)) = Len(vs) - 1 /\ Len(vc) \in Nat
  BY Retrait
<1>2. AligneServeur(p + 1, Tail(vs)) /\ AligneClient(q, vc)
  BY AligneLectureServeur DEF Accord
<1> QED BY <1>1, <1>2 DEF Accord

\* recv() of the client, with the server or after it.
LEMMA AligneLectureClient ==
  ASSUME NEW T, NEW vc \in Seq(T), vc # <<>>, NEW q \in 1 .. 9, AligneClient(q, vc)
  PROVE  q \in DuServeur /\ Head(vc).type = Ordre[q] /\ AligneClient(q + 1, Tail(vc))
<1>1. /\ Len(vc) \in Nat /\ Len(vc) >= 1 /\ Len(Tail(vc)) = Len(vc) - 1 /\ Head(vc) = vc[1]
      /\ \A i \in 1 .. Len(vc) - 1 : Tail(vc)[i] = vc[i + 1]
  BY Retrait
<1>2. q + 1 - 1 \in DuServeur /\ vc[1].type = Ordre[q + 1 - 1]
  BY <1>1 DEF AligneClient
<1>3. ASSUME NEW i \in 1 .. Len(vc) - 1
      PROVE  q + 1 + i - 1 \in DuServeur /\ vc[i + 1].type = Ordre[q + 1 + i - 1]
  <2>1. i + 1 \in 1 .. Len(vc) /\ q + (i + 1) - 1 = q + 1 + i - 1
    BY <1>1
  <2> QED BY <2>1 DEF AligneClient
<1> QED BY <1>1, <1>2, <1>3 DEF AligneClient

\* recv() of a client takes the first unit and both ends still agree
\* (client.c:112-128, 233, 234).
LEMMA AccordLectureClient ==
  ASSUME NEW S, NEW T, NEW vs \in Seq(S), NEW vc \in Seq(T), vc # <<>>,
         NEW p \in 1 .. 10, NEW q \in 1 .. 9, Accord(p, q, vs, vc)
  PROVE  Accord(p, q + 1, vs, Tail(vc))
<1>1. Len(vc) \in Nat /\ Len(vc) >= 1 /\ Len(Tail(vc)) = Len(vc) - 1 /\ Len(vs) \in Nat
  BY Retrait
<1>2. AligneServeur(p, vs) /\ AligneClient(q + 1, Tail(vc))
  BY AligneLectureClient DEF Accord
<1> QED BY <1>1, <1>2 DEF Accord

\* A client that is to send has read everything.
LEMMA ClientALu ==
  ASSUME NEW T, NEW vc \in Seq(T), NEW q \in DuClient, AligneClient(q, vc)
  PROVE  vc = <<>>
<1>1. ASSUME Len(vc) >= 1 PROVE FALSE
  <2>1. q + 1 - 1 \in DuServeur /\ q \in Int
    BY <1>1 DEF AligneClient, DuClient
  <2> QED BY <2>1 DEF DuServeur, DuClient
<1> QED BY <1>1

\* A stream to the server ends before the position 11.
LEMMA FluxCourt ==
  ASSUME NEW S, NEW vs \in Seq(S), NEW p \in 1 .. 10, AligneServeur(p, vs)
  PROVE  p + Len(vs) <= 11
<1>1. CASE Len(vs) >= 1
  <2>1. p + Len(vs) - 1 \in DuClient
    BY <1>1 DEF AligneServeur
  <2> QED BY <2>1 DEF DuClient
<1> QED BY <1>1

\* send() of the client; after the choice it is at the beginning again.
LEMMA AccordEnvoiClient ==
  ASSUME NEW S, NEW T, NEW vs \in Seq(S), NEW vc \in Seq(T), NEW m \in S,
         NEW p \in 1 .. 10, NEW q \in DuClient, q \in 1 .. 9,
         Accord(p, q, vs, vc), m.type = Ordre[q]
  PROVE  Accord(p, IF q = 9 THEN 1 ELSE q + 1, Append(vs, m), vc)
<1>1. vc = <<>> /\ Len(vc) = 0
  BY ClientALu DEF Accord
<1>2. Len(vs) \in Nat /\ (q = p + Len(vs) \/ (q = 1 /\ p + Len(vs) = 10))
  <2>1. Len(vs) \in Nat /\ p + Len(vs) <= 11
    BY FluxCourt DEF Accord
  <2>2. q \in {1, 5, 6, 9}
    BY DEF DuClient
  <2> QED BY <1>1, <2>1, <2>2 DEF Accord
<1> DEFINE w == Append(vs, m)
           r == IF q = 9 THEN 1 ELSE q + 1
<1>3. /\ Len(w) = Len(vs) + 1 /\ w[Len(vs) + 1] = m
      /\ \A i \in 1 .. Len(vs) : w[i] = vs[i]
  BY Ajout
<1> HIDE DEF w
<1>4. AligneServeur(p, w)
  <2> SUFFICES ASSUME NEW i \in 1 .. Len(w)
               PROVE  p + i - 1 \in DuClient /\ w[i].type = Ordre[p + i - 1]
    BY DEF AligneServeur
  <2>1. CASE i \in 1 .. Len(vs)
    BY <1>3, <2>1 DEF Accord, AligneServeur
  <2>2. CASE i = Len(vs) + 1
    <3>1. p + i - 1 = q \/ (q = 1 /\ p + i - 1 = 10)
      BY <1>2, <2>2
    <3>2. Ordre[10] = Ordre[1] /\ 10 \in DuClient
      BY DEF Ordre, DuClient
    <3> QED BY <1>3, <2>2, <3>1, <3>2
  <2> QED BY <1>2, <1>3, <2>1, <2>2
<1>5. AligneClient(r, vc)
  BY <1>1 DEF AligneClient
<1>6. r + Len(vc) = p + Len(w) \/ r + 9 + Len(vc) = p + Len(w)
  BY <1>1, <1>2, <1>3
<1> QED BY <1>4, <1>5, <1>6 DEF Accord, w

\* Where the client can be, seen from the server.
LEMMA OuEstLeClient ==
  ASSUME NEW S, NEW T, NEW vs \in Seq(S), NEW vc \in Seq(T),
         NEW p \in 1 .. 10, NEW q \in 1 .. 9, Accord(p, q, vs, vc)
  PROVE  /\ p \in {1, 10} => q \in {1, 2} /\ vc = <<>>
         /\ p = 2 => q = 2 /\ vc = <<>>
         /\ p = 3 => q \in {2, 3} /\ q + Len(vc) = 3
         /\ p = 4 => q \in {2, 3, 4}
         /\ p = 5 => q \in {2, 3, 4, 5, 6, 7}
         /\ p = 6 => q \in {6, 7} /\ vc = <<>>
         /\ p = 7 => q = 7 /\ vc = <<>>
         /\ p = 8 => q \in {7, 8}
         /\ p = 9 => q \in {7, 8, 9, 1, 2}
         /\ q = 5 => p = 5 /\ vs = <<>>
         /\ q = 6 => p \in {5, 6}
         /\ q = 9 => p = 9 /\ vs = <<>>
<1>1. Len(vs) \in Nat /\ Len(vc) \in Nat
  OBVIOUS
<1>2. \A i \in 1 .. Len(vs) : p + i - 1 \in {1, 5, 6, 9, 10}
  BY DEF Accord, AligneServeur, DuClient
<1>3. \A i \in 1 .. Len(vc) : q + i - 1 \in {2, 3, 4, 7, 8}
  BY DEF Accord, AligneClient, DuServeur
<1>4. q + Len(vc) = p + Len(vs) \/ q + 9 + Len(vc) = p + Len(vs)
  BY DEF Accord
\* The last unit of each stream.
<1>5. Len(vs) >= 1 => p + Len(vs) - 1 \in {1, 5, 6, 9, 10} /\ p \in {1, 5, 6, 9, 10}
  BY <1>1, <1>2
<1>6. Len(vc) >= 1 => q + Len(vc) - 1 \in {2, 3, 4, 7, 8} /\ q \in {2, 3, 4, 7, 8}
  BY <1>1, <1>3
\* A unit that a stream would have to pass over.
<1>7. /\ ~(p <= 2 /\ p + Len(vs) - 1 >= 2) /\ ~(p <= 7 /\ p + Len(vs) - 1 >= 7)
      /\ ~(q <= 5 /\ q + Len(vc) - 1 >= 5) /\ ~(q <= 9 /\ q + Len(vc) - 1 >= 9)
  <2>1. ASSUME NEW j \in Nat, p <= j, p + Len(vs) - 1 >= j PROVE j \in {1, 5, 6, 9, 10}
    <3>1. j - p + 1 \in 1 .. Len(vs) /\ p + (j - p + 1) - 1 = j
      BY <1>1, <2>1
    <3> QED BY <1>2, <3>1
  <2>2. ASSUME NEW j \in Nat, q <= j, q + Len(vc) - 1 >= j PROVE j \in {2, 3, 4, 7, 8}
    <3>1. j - q + 1 \in 1 .. Len(vc) /\ q + (j - q + 1) - 1 = j
      BY <1>1, <2>2
    <3> QED BY <1>3, <3>1
  <2>3. 2 \notin {1, 5, 6, 9, 10} /\ 7 \notin {1, 5, 6, 9, 10}
    OBVIOUS
  <2>4. 5 \notin {2, 3, 4, 7, 8} /\ 9 \notin {2, 3, 4, 7, 8}
    OBVIOUS
  <2>5. ~(p <= 2 /\ p + Len(vs) - 1 >= 2) /\ ~(p <= 7 /\ p + Len(vs) - 1 >= 7)
    BY <2>1, <2>3
  <2>6. ~(q <= 5 /\ q + Len(vc) - 1 >= 5) /\ ~(q <= 9 /\ q + Len(vc) - 1 >= 9)
    BY <2>2, <2>4
  <2> QED BY <2>5, <2>6
<1>8. p \in {1, 2, 3, 4, 5, 6, 7, 8, 9, 10} /\ q \in {1, 2, 3, 4, 5, 6, 7, 8, 9}
  OBVIOUS
<1>9. /\ p \in {1, 10} => q \in {1, 2} /\ Len(vc) = 0
      /\ p = 2 => q = 2 /\ Len(vc) = 0
      /\ p = 3 => q \in {2, 3} /\ q + Len(vc) = 3
      /\ p = 4 => q \in {2, 3, 4}
      /\ p = 5 => q \in {2, 3, 4, 5, 6, 7}
      /\ p = 6 => q \in {6, 7} /\ Len(vc) = 0
      /\ p = 7 => q = 7 /\ Len(vc) = 0
      /\ p = 8 => q \in {7, 8}
      /\ p = 9 => q \in {7, 8, 9, 1, 2}
      /\ q = 5 => p = 5 /\ Len(vs) = 0
      /\ q = 6 => p \in {5, 6}
      /\ q = 9 => p = 9 /\ Len(vs) = 0
  BY SMTT(30), <1>1, <1>4, <1>5, <1>6, <1>7, <1>8
<1> QED BY <1>9

\* A new round begins: the position after the last one is the first.
LEMMA AccordTour ==
  ASSUME NEW S, NEW T, NEW vs \in Seq(S), NEW vc \in Seq(T),
         NEW q \in 1 .. 9, Accord(10, q, vs, vc)
  PROVE  Accord(1, q, vs, vc)
<1>1. q \in {1, 2} /\ vc = <<>> /\ Len(vs) \in Nat /\ 10 + Len(vs) <= 11
  BY SMTT(60), OuEstLeClient, FluxCourt DEF Accord
<1>2. q + Len(vc) = 1 + Len(vs)
  BY <1>1 DEF Accord
<1>3. AligneServeur(1, vs)
  <2> SUFFICES ASSUME NEW i \in 1 .. Len(vs)
               PROVE  1 + i - 1 \in DuClient /\ vs[i].type = Ordre[1 + i - 1]
    BY DEF AligneServeur
  <2>1. i = 1 /\ 10 + 1 - 1 = 10
    BY <1>1
  <2>2. vs[1].type = Ordre[10] /\ Ordre[10] = Ordre[1] /\ 1 \in DuClient
    BY <2>1 DEF Accord, AligneServeur, Ordre, DuClient
  <2> QED BY <2>1, <2>2
<1> QED BY <1>2, <1>3 DEF Accord

\* The same for a client that is gone.
LEMMA AligneTour ==
  ASSUME NEW S, NEW vs \in Seq(S), AligneServeur(10, vs)
  PROVE  AligneServeur(1, vs)
<1>1. Len(vs) \in Nat /\ 10 + Len(vs) <= 11
  BY FluxCourt
<1> SUFFICES ASSUME NEW i \in 1 .. Len(vs)
             PROVE  1 + i - 1 \in DuClient /\ vs[i].type = Ordre[1 + i - 1]
  BY DEF AligneServeur
<1>2. i = 1 /\ 10 + 1 - 1 = 10
  BY <1>1
<1>3. vs[1].type = Ordre[10] /\ Ordre[10] = Ordre[1] /\ 1 \in DuClient
  BY <1>2 DEF AligneServeur, Ordre, DuClient
<1> QED BY <1>2, <1>3

-----------------------------------------------------------------------------
(***************************************************************************)
(* What a step of the server does to the conversations: it is silent, it   *)
(* reads a unit of one client, or it sends one to it.                      *)
(***************************************************************************)
Avance(l) == PosServeur(l)' = PosServeur(l) \/ (PosServeur(l) = 10 /\ PosServeur(l)' = 1)
Muet ==
  /\ versClient' = versClient
  /\ \A d \in Clients : \/ versServeur'[d] = versServeur[d]
                        \/ versServeur'[d] = <<>> /\ lien'[d] = "ferme"
  /\ \A l \in actifs \cap actifs' : ServeurFini' \/ Avance(l)
AuTour(k, c) ==
  /\ k \in actifs /\ Titulaire(k, c)
  /\ UNCHANGED <<lien, descr, clients, actifs>>
  /\ PosServeur(k)' = PosServeur(k) + 1
  /\ \A l \in actifs : l # k => PosServeur(l)' = PosServeur(l)
Lecture(k, c) == AuTour(k, c) /\ ServeurLit(c) /\ EchangeAvec(k, c)
Envoi(k, c, m) ==
  /\ AuTour(k, c) /\ ServeurEnvoie(c, m)
  /\ PosServeur(k) \in DuServeur /\ m.type = Ordre[PosServeur(k)]
  /\ m \in {Message("signal", SIGNAL), Message("forme", forme), Message("indices", indices),
            Message("meilleur", meilleur), Message("pire", pire)}
  /\ UNCHANGED mancheVars

\* The lowest slot of a loop is one.
LEMMA UneTete ==
  ASSUME aFaire \subseteq Slots, NEW k \in aFaire, \A l \in aFaire : k <= l
  PROVE  Tete(k) /\ \A l \in Slots : l # k => ~Tete(l)
<1>1. Slots \subseteq Int
  BY SocketsAssumption DEF Slots
<1> QED BY <1>1 DEF Tete

\* The five sends.
LEMMA PosEnvoi ==
  ASSUME RInv, NEW k \in Slots, NEW c \in Clients,
         EnvoyerSignal(k, c) \/ EnvoyerForme(k, c) \/ EnvoyerIndices(k, c)
         \/ EnvoyerMeilleur(k, c) \/ EnvoyerPire(k, c)
  PROVE  \E m : Envoi(k, c, m)
<1>1. /\ k \in aFaire /\ Titulaire(k, c) /\ \A l \in aFaire : k <= l
      /\ pcS \in EtatsEnvoi /\ UNCHANGED <<nbClients, clients, actifs>>
      /\ UNCHANGED mancheVars
  BY DEF EnvoyerSignal, EnvoyerForme, EnvoyerIndices, EnvoyerMeilleur, EnvoyerPire, Tour,
         salonVars, EtatsEnvoi
<1>2. aFaire \subseteq Slots /\ actifs \subseteq Slots /\ aFaire \subseteq actifs
  <2>1. ~ServeurFini
    BY <1>1 DEF ServeurFini, EtatsEnvoi
  <2> QED BY <2>1, SocketsAssumption
          DEF RInv, IInv, TypeServeur, TypeSalon, DescripteursSains, SalonSain, Slots
<1>3. Tete(k) /\ \A l \in Slots : l # k => ~Tete(l)
  BY <1>1, <1>2, UneTete
<1> USE DEF AuTour, Envoi, PosServeur, Boucle, Message, Ordre, DuServeur, ServeurEnvoie
<1>4. CASE EnvoyerSignal(k, c)
  <2>1. Envoi(k, c, Message("signal", SIGNAL))
    BY <1>1, <1>2, <1>4 DEF EnvoyerSignal
  <2> QED BY <2>1
<1>5. CASE EnvoyerForme(k, c)
  <2>1. pcS = "forme" /\ pcS' = "indices" /\ aFaire' = aFaire
    BY <1>5 DEF EnvoyerForme
  <2>2. Tete(k)' /\ \A l \in Slots : l # k => ~Tete(l)'
    BY <1>3, <2>1 DEF Tete
  <2>3. Envoi(k, c, Message("forme", forme))
    BY <1>1, <1>2, <1>5, <2>1, <2>2 DEF EnvoyerForme, UniteForme
  <2> QED BY <2>3
<1>6. CASE EnvoyerIndices(k, c)
  <2>1. Envoi(k, c, Message("indices", indices))
    BY <1>1, <1>2, <1>3, <1>6 DEF EnvoyerIndices
  <2> QED BY <2>1
<1>7. CASE EnvoyerMeilleur(k, c)
  <2>1. pcS = "meilleur" /\ pcS' = "pire" /\ aFaire' = aFaire
    BY <1>7 DEF EnvoyerMeilleur
  <2>2. Tete(k)' /\ \A l \in Slots : l # k => ~Tete(l)'
    BY <1>3, <2>1 DEF Tete
  <2>3. Envoi(k, c, Message("meilleur", meilleur))
    BY <1>1, <1>2, <1>7, <2>1, <2>2 DEF EnvoyerMeilleur
  <2> QED BY <2>3
<1>8. CASE EnvoyerPire(k, c)
  <2>1. Envoi(k, c, Message("pire", pire))
    BY <1>1, <1>2, <1>3, <1>8 DEF EnvoyerPire
  <2> QED BY <2>1
<1> QED BY <1>4, <1>5, <1>6, <1>7, <1>8

\* close() of the connection of the turn discards what it holds and no more.
LEMMA FluxPerte ==
  ASSUME RInv, NEW c \in Clients, FermerServeur(c) \/ LireEtFermer(c)
  PROVE  /\ versClient' = versClient
         /\ \A d \in Clients : \/ versServeur'[d] = versServeur[d]
                               \/ versServeur'[d] = <<>> /\ lien'[d] = "ferme"
BY DEF FermerServeur, LireEtFermer, Couper

\* The four recv(): a unit is read, or the client is lost.
LEMMA PosLecture ==
  ASSUME RInv, NEW k \in Slots, NEW c \in Clients,
         LirePret(k, c) \/ RecevoirJuste(k, c) \/ RecevoirTemps(k, c) \/ RecevoirChoix(k, c)
  PROVE  Lecture(k, c) \/ Muet
<1>1. /\ k \in aFaire /\ Titulaire(k, c) /\ \A l \in aFaire : k <= l
      /\ pcS \in {"prets", "juste", "temps", "choix"}
      /\ EchangeAvec(k, c)
  BY DEF LirePret, RecevoirJuste, RecevoirTemps, RecevoirChoix, Tour, EchangeAvec
<1>2. aFaire \subseteq Slots /\ actifs \subseteq Slots /\ aFaire \subseteq actifs
  <2>1. ~ServeurFini
    BY <1>1 DEF ServeurFini
  <2> QED BY <2>1, SocketsAssumption
          DEF RInv, IInv, TypeServeur, TypeSalon, DescripteursSains, SalonSain, Slots
<1>3. Tete(k) /\ \A l \in Slots : l # k => ~Tete(l)
  BY <1>1, <1>2, UneTete
<1> USE DEF AuTour, PosServeur, Boucle
\* A unit of the connection is read ...
<1>4. CASE ServeurLit(c) /\ UNCHANGED salonVars
  <2> USE DEF Lecture, ServeurLit, salonVars
  <2>1. CASE LirePret(k, c)
    <3>1. versServeur[c][1].type = "pret" => versServeur[c][1].val = SIGNAL
      <4>1. versServeur[c] \in Seq(Unites) /\ versServeur[c] # <<>>
        BY <1>4 DEF RInv, IInv, TypeServeur, TypeSockets
      <4>2. Len(versServeur[c]) >= 1 /\ Len(versServeur[c]) \in Nat
        BY <4>1
      <4> QED BY <4>2 DEF RInv, Fiche, Suite
    <3>2. pcS = "prets" /\ k \notin prets
      BY <1>1, <2>1 DEF LirePret, RInv, Confirmes
    <3>3. Head(versServeur[c]).type = "pret" /\ Head(versServeur[c]) = versServeur[c][1]
      <4>1. versServeur[c] \in Seq(Unites) /\ versServeur[c] # <<>>
        BY <1>4 DEF RInv, IInv, TypeServeur, TypeSockets
      <4>2. AligneServeur(1, versServeur[c])
        BY <1>1, <1>2, <3>2 DEF RInv, Fiche, Converse
      <4> QED BY <4>1, <4>2, AligneLectureServeur, Retrait DEF Ordre
    <3>4. prets' = prets \cup {k} /\ pcS' = "prets"
      BY <1>4, <2>1, <3>1, <3>3 DEF LirePret, FluxFini
    <3> QED BY <1>1, <1>2, <1>4, <3>2, <3>4
  <2>2. CASE RecevoirJuste(k, c)
    <3>1. pcS = "juste" /\ pcS' = "temps" /\ aFaire' = aFaire
      BY <1>4, <2>2 DEF RecevoirJuste, FluxFini
    <3>2. Tete(k)' /\ \A l \in Slots : l # k => ~Tete(l)'
      BY <1>3, <3>1 DEF Tete
    <3> QED BY <1>1, <1>2, <1>4, <3>1, <3>2
  <2>3. CASE RecevoirTemps(k, c)
    BY <1>1, <1>2, <1>3, <1>4, <2>3 DEF RecevoirTemps
  <2>4. CASE RecevoirChoix(k, c)
    BY <1>1, <1>2, <1>4, <2>4 DEF RecevoirChoix
  <2> QED BY <2>1, <2>2, <2>3, <2>4
\* ... or the client of the slot k is lost.
<1>5. CASE /\ Deconnecter(k, c) \/ Depart(k, c)
           /\ aFaire' = aFaire \ {k} /\ (pcS # "temps" => pcS' = pcS)
           /\ (pcS = "temps" => pcS' = "juste") /\ prets' = prets
  <2>1. actifs' = actifs \ {k} /\ (FermerServeur(c) \/ LireEtFermer(c))
    BY <1>5 DEF Deconnecter, Depart
  <2>2. \A l \in actifs' : PosServeur(l)' = PosServeur(l)
    BY <1>1, <1>2, <1>3, <1>5, <2>1
  <2> QED BY <2>1, <2>2, FluxPerte DEF Muet, Avance
<1>6. CASE ~(ServeurLit(c) /\ UNCHANGED salonVars)
  <2>1. CASE LirePret(k, c)
    BY <1>1, <1>5, <1>6, <2>1 DEF LirePret
  <2>2. CASE RecevoirJuste(k, c)
    BY <1>1, <1>5, <1>6, <2>2 DEF RecevoirJuste, PerteReponse
  <2>3. CASE RecevoirTemps(k, c)
    BY <1>1, <1>5, <1>6, <2>3 DEF RecevoirTemps
  <2>4. CASE RecevoirChoix(k, c)
    BY <1>1, <1>5, <1>6, <2>4 DEF RecevoirChoix
  <2> QED BY <2>1, <2>2, <2>3, <2>4
<1> QED BY <1>4, <1>6

\* The steps between the loops, and the turns of the loop of envoyer_resultats.
LEMMA PosMuet ==
  ASSUME RInv,
         \/ FinDelai \/ FinTour \/ FinSignal \/ FinGrille \/ FinTemps \/ FinBilan
         \/ FinResultats \/ FinChoix \/ SelectErreur \/ (\E k \in Slots : Bilan(k))
  PROVE  Muet /\ UNCHANGED <<sockVars, salonVars>>
<1>1. UNCHANGED <<sockVars, salonVars>>
  BY DEF FinDelai, FinTour, FinSignal, FinGrille, FinTemps, FinBilan, FinResultats, FinChoix,
         SelectErreur, Bilan
<1> SUFFICES ASSUME NEW l \in actifs PROVE Avance(l)
  BY <1>1 DEF Muet, sockVars, salonVars
<1> USE DEF Avance, PosServeur, Boucle
<1>2. CASE FinDelai
  BY <1>2 DEF FinDelai, DebutAttente, PretsInitiaux, RInv, Confirmes
<1>3. CASE FinTour
  BY <1>3 DEF FinTour, TousPrets
<1>4. CASE FinSignal \/ FinGrille \/ FinTemps \/ FinBilan \/ (\E k \in Slots : Bilan(k))
  BY <1>4 DEF FinSignal, FinGrille, FinTemps, FinBilan, Bilan
<1>5. CASE FinResultats
  BY <1>5 DEF FinResultats
<1>6. CASE FinChoix
  <2>1. pcS = "choix" /\ aFaire = {}
    BY <1>6 DEF FinChoix
  <2>2. rejouer # 0
    <3>1. rejouer = Cardinality(actifs)
      <4>1. actifs \ aFaire = actifs
        BY <2>1
      <4> QED BY <2>1, <4>1 DEF RInv, RejoueurGarde
    <3>2. IsFiniteSet(actifs)
      <4>1. actifs \subseteq 0 .. nbClients - 1 /\ nbClients - 1 \in Int
        BY SocketsAssumption DEF RInv, IInv, TypeServeur, TypeSalon
      <4>2. IsFiniteSet(0 .. nbClients - 1)
        BY <4>1, FS_Interval
      <4> QED BY <4>1, <4>2, FS_Subset
    <3> QED BY <3>1, <3>2, FS_EmptySet
  <2> QED BY <1>6, <2>1, <2>2 DEF FinChoix, DebutAttente, PretsInitiaux
<1>7. CASE SelectErreur
  BY <1>7 DEF SelectErreur
<1> QED BY <1>2, <1>3, <1>4, <1>5, <1>6, <1>7

\* Accepting, refusing, starting and stopping.
LEMMA PosConnexion ==
  ASSUME RInv,
         Demarrer \/ AccepterPremier \/ AccepterAutre \/ Select \/ Fermeture \/ TueParSigpipe
  PROVE  Muet
<1>1. versClient' = versClient
  BY DEF Demarrer, AccepterPremier, AccepterAutre, Select, Fermeture, TueParSigpipe, Accepter,
         Refuser, ToutFermer, Couper, sockVars
<1>2. \A d \in Clients : \/ versServeur'[d] = versServeur[d]
                         \/ versServeur'[d] = <<>> /\ lien'[d] = "ferme"
  <2>1. CASE \E C, R : Couper(C, R)
    BY <2>1 DEF Couper
  <2>2. CASE versServeur' = versServeur
    BY <2>2
  <2> QED BY <2>1, <2>2 DEF Demarrer, AccepterPremier, AccepterAutre, Select, Fermeture,
               TueParSigpipe, Accepter, Refuser, ToutFermer, sockVars
<1>3. ASSUME NEW l \in actifs PROVE ServeurFini' \/ Avance(l)
  <2>1. l # nbClients /\ nbClients # 0
    BY SocketsAssumption DEF RInv, IInv, TypeServeur, TypeSalon
  <2>2. pcS \notin {"demarrage", "premier"}
    BY <2>1 DEF RInv, IInv, Debut
  <2> QED BY <2>1, <2>2 DEF Demarrer, AccepterPremier, AccepterAutre, Select, Fermeture,
             TueParSigpipe, ServeurFini, Avance, PosServeur, Boucle
<1> QED BY <1>1, <1>2, <1>3 DEF Muet

\* Every action of the server.
LEMMA TroisPas ==
  ASSUME RInv, NextServeur
  PROVE  \/ Muet
         \/ \E k \in Slots, c \in Clients : Lecture(k, c)
         \/ \E k \in Slots, c \in Clients : \E m : Envoi(k, c, m)
BY PosEnvoi, PosLecture, PosMuet, PosConnexion DEF NextServeur, PasServeur, EchangeAvec

\* A client that gets a slot has not confirmed, for the server.
LEMMA Accueilli ==
  ASSUME RInv, NextServeur, nbClients' # nbClients, NEW n, n = nbClients
  PROVE  PosServeur(n)' = 1
<1>1. AccepterPremier \/ AccepterAutre \/ Select
  BY DEF NextServeur, PasServeur, EchangeAvec, FinDelai, FinTour, FinSignal, FinGrille,
         FinTemps, FinBilan, FinResultats, FinChoix, SelectErreur, Bilan, Demarrer, Fermeture,
         TueParSigpipe, LirePret, EnvoyerSignal, EnvoyerForme, EnvoyerIndices, RecevoirJuste,
         RecevoirTemps, EnvoyerMeilleur, EnvoyerPire, RecevoirChoix, PerteReponse,
         Deconnecter, Depart, salonVars
<1>2. pcS' \in {"autres", "prets"}
  BY <1>1 DEF AccepterPremier, AccepterAutre, Select
<1>3. n \notin prets'
  BY <1>1 DEF AccepterPremier, AccepterAutre, Select, RInv, Confirmes, salonVars
<1> QED BY <1>2, <1>3 DEF PosServeur

\* The holder of a slot held it before, or has just been accepted.
LEMMA Titulaires ==
  ASSUME RInv, NextServeur
  PROVE  /\ finClient' = finClient
         /\ \A d \in Clients : /\ lien'[d] = "file" => lien[d] = "file"
                               /\ lien'[d] = "libre" <=> lien[d] = "libre"
                               /\ lien'[d] = "ouvert" => lien[d] \in {"file", "ouvert"}
         /\ \A l \in actifs', d \in Clients : Titulaire(l, d)' =>
              \/ l \in actifs /\ Titulaire(l, d)
              \/ l = nbClients /\ nbClients' # nbClients /\ lien[d] = "file"
<1>1. ~ServeurFini
  BY DEF ServeurFini, NextServeur, PasServeur, EchangeAvec, AccepterPremier, AccepterAutre,
         FinDelai, Select, FinTour, FinSignal, FinGrille, FinTemps, Bilan, FinBilan,
         FinResultats, FinChoix, Fermeture, SelectErreur, TueParSigpipe, LirePret,
         EnvoyerSignal, EnvoyerForme, EnvoyerIndices, RecevoirJuste, RecevoirTemps,
         EnvoyerMeilleur, EnvoyerPire, RecevoirChoix, Demarrer, EtatsEnvoi
<1>2. Sain /\ Debut
  BY <1>1 DEF RInv, IInv, Sain, DescripteursSains
<1>3. finClient' = finClient
  <2>1. CASE Demarrer \/ AccepterPremier \/ AccepterAutre \/ Select \/ Fermeture \/ TueParSigpipe
    BY <2>1 DEF Demarrer, AccepterPremier, AccepterAutre, Select, Fermeture, TueParSigpipe,
         Accepter, Refuser, ToutFermer, Couper, sockVars
  <2>2. CASE \/ FinDelai \/ FinTour \/ FinSignal \/ FinGrille \/ FinTemps \/ FinBilan
             \/ FinResultats \/ FinChoix \/ SelectErreur \/ (\E k \in Slots : Bilan(k))
    BY <2>2, PosMuet DEF sockVars
  <2>3. CASE \E k \in Slots, c \in Clients :
               \/ LirePret(k, c) \/ RecevoirJuste(k, c) \/ RecevoirTemps(k, c)
               \/ RecevoirChoix(k, c)
    BY <2>3 DEF LirePret, RecevoirJuste, RecevoirTemps, RecevoirChoix, PerteReponse,
         Deconnecter, Depart, LireEtFermer, FermerServeur, Couper, ServeurLit
  <2>4. CASE \E k \in Slots, c \in Clients :
               \/ EnvoyerSignal(k, c) \/ EnvoyerForme(k, c) \/ EnvoyerIndices(k, c)
               \/ EnvoyerMeilleur(k, c) \/ EnvoyerPire(k, c)
    BY <2>4, PosEnvoi DEF Envoi, ServeurEnvoie
  <2> QED BY <2>1, <2>2, <2>3, <2>4 DEF NextServeur, PasServeur, EchangeAvec
<1>4. CASE Calme
  BY <1>3, <1>4 DEF Calme, Titulaire
<1>5. CASE Accueil /\ nbClients < MAX_CLIENTS
  <2>1. PICK f \in Descripteurs : Accepter(f) /\ AjouterClient(f)
    BY <1>5 DEF Accueil
  <2> DEFINE h == Head(file)
  <2>2. /\ h \in Clients /\ lien[h] = "file"
        /\ \A d \in Clients : lien'[d] = (IF d = h THEN "ouvert" ELSE lien[d])
                              /\ descr'[d] = (IF d = h THEN f ELSE descr[d])
                              /\ descr[d] # f
    <3>1. h \in Clients /\ TypeSockets /\ file \in Seq(Clients) /\ file # <<>>
      BY <1>2, <2>1, TypeAccepter DEF Sain, TypeServeur, TypeSockets, Accepter
    <3>2. 1 \in 1 .. Len(file) /\ h = file[1]
      BY <3>1
    <3>3. lien[h] = "file"
      BY <1>2, <3>2 DEF Sain, Connexions
    <3> QED BY <2>1, <3>1, <3>3 DEF Accepter, PlusPetitLibre, TypeSockets
  <2>3. /\ actifs' = actifs \cup {nbClients} /\ nbClients' # nbClients
        /\ nbClients \notin actifs /\ actifs \subseteq Slots
        /\ \A k \in Slots : clients'[k] = IF k = nbClients THEN f ELSE clients[k]
    BY <1>2, <2>1, SocketsAssumption DEF AjouterClient, Sain, TypeServeur, TypeSalon, Slots
  <2> HIDE DEF h
  <2>4. \A k \in actifs : clients[k] # f
    BY <1>2, <2>2 DEF Sain, SalonSain, Titulaire
  <2>5. ASSUME NEW l \in actifs', NEW d \in Clients, Titulaire(l, d)'
        PROVE  \/ l \in actifs /\ Titulaire(l, d)
               \/ l = nbClients /\ lien[d] = "file"
    <3>1. lien'[d] = "ouvert" /\ descr'[d] = clients'[l]
      BY <2>5 DEF Titulaire
    <3>2. CASE l = nbClients
      <4>1. l \in Slots
        BY <1>2, <1>5, <3>2, SocketsAssumption DEF Sain, TypeServeur, TypeSalon, Slots
      <4>2. descr'[d] = f
        BY <2>3, <3>1, <3>2, <4>1
      <4> QED BY <2>2, <3>2, <4>2
    <3>3. CASE l # nbClients
      <4>1. l \in actifs /\ clients'[l] = clients[l]
        BY <2>3, <3>3
      <4>2. d # h
        BY <2>2, <2>4, <3>1, <4>1
      <4> QED BY <2>2, <3>1, <4>1, <4>2 DEF Titulaire
    <3> QED BY <3>2, <3>3
  <2> QED BY <1>3, <2>2, <2>3, <2>5
<1>6. CASE Perte
  <2>1. PICK k \in actifs, c \in Clients :
          /\ Titulaire(k, c)
          /\ \E R : Couper({c}, R)
          /\ actifs' = actifs \ {k}
          /\ UNCHANGED <<file, nbClients, clients>>
    BY <1>6 DEF Perte
  <2>2. lien[c] = "ouvert" /\ \A d \in Clients :
             lien'[d] = (IF d = c THEN "ferme" ELSE lien[d])
             /\ descr'[d] = (IF d = c THEN 0 ELSE descr[d])
    BY <2>1 DEF Couper, Titulaire
  <2> QED BY <1>3, <2>1, <2>2 DEF Titulaire
<1>7. CASE Refus
  <2> DEFINE h == Head(file)
  <2>1. h \in Clients /\ file \in Seq(Clients) /\ file # <<>>
    BY <1>2, <1>7, TypeRefuser DEF Sain, Refus, Refuser, TypeServeur, TypeSockets
  <2>2. 1 \in 1 .. Len(file) /\ h = file[1]
    BY <2>1
  <2>3. lien[h] = "file"
    BY <1>2, <2>2 DEF Sain, Connexions
  <2>4. \A d \in Clients : lien'[d] = (IF d = h THEN "ferme" ELSE lien[d])
                          /\ descr'[d] = (IF d = h THEN 0 ELSE descr[d])
    BY <1>7 DEF Refus, Refuser, Couper
  <2> HIDE DEF h
  <2> QED BY <1>3, <1>7, <2>3, <2>4 DEF Refus, Titulaire
<1>8. CASE Fin
  <2> DEFINE C == {c \in Clients : lien[c] \in {"file", "ouvert"}}
  <2>1. PICK R : Couper(C, R)
    BY <1>8, Zenon DEF Fin, ToutFermer
  <2>2. \A c \in Clients : c \in C <=> lien[c] \in {"file", "ouvert"}
    OBVIOUS
  <2> HIDE DEF C
  <2>3. \A c \in Clients : lien'[c] = IF c \in C THEN "ferme" ELSE lien[c]
    BY <2>1 DEF Couper
  <2>4. \A c \in Clients : /\ lien'[c] \notin {"file", "ouvert"}
                           /\ lien'[c] = "libre" <=> lien[c] = "libre"
    BY <2>2, <2>3
  <2> QED BY <1>3, <2>4 DEF Titulaire
<1> QED BY <1>2, <1>4, <1>5, <1>6, <1>7, <1>8, ClasseServeur


-----------------------------------------------------------------------------
(***************************************************************************)
(* The server's steps and the conversations.                               *)
(***************************************************************************)
\* A client that has a connection and has not closed it is running.
LEMMA Vivant ==
  ASSUME RInv, NEW c \in Clients, ~finClient[c], lien[c] # "libre"
  PROVE  pcC[c] \in EnMarche /\ Pos(pcC[c]) \in 1 .. 9
<1>1. pcC[c] \in EnMarche
  BY DEF RInv, TypesClients, Fiche, Processus, EnMarche
<1> QED BY <1>1, PosClient

\* The server is somewhere in its conversation with a connected client.
LEMMA PosBornee ==
  ASSUME RInv, NEW k \in actifs, NEW c \in Clients, Titulaire(k, c)
  PROVE  PosServeur(k) \in 1 .. 10 /\ ~ServeurFini
<1>1. pcS \notin {"demarrage", "premier"}
  <2>1. nbClients # 0
    BY SocketsAssumption DEF RInv, IInv, TypeServeur, TypeSalon
  <2> QED BY <2>1 DEF RInv, IInv, Debut
<1>2. ~ServeurFini
  BY DEF RInv, Apres, Titulaire
<1>3. pcS \in EtatsServeur
  BY DEF RInv, IInv, TypeServeur
<1> QED BY <1>1, <1>2, <1>3 DEF EtatsServeur, EtatsEnvoi, ServeurFini, PosServeur, Boucle

\* A slot has one holder and a client one slot.
LEMMA Unique ==
  ASSUME RInv, NEW k \in actifs, NEW l \in actifs, NEW c \in Clients, NEW d \in Clients,
         Titulaire(k, c), Titulaire(l, d)
  PROVE  k = l <=> c = d
<1>1. SalonSain /\ Connexions
  BY PosBornee DEF RInv, IInv, DescripteursSains
<1> QED BY <1>1 DEF SalonSain, Connexions, Titulaire

\* The types of the two streams of a client.
LEMMA TypesFlux ==
  ASSUME RInv, NEW c \in Clients
  PROVE  /\ versServeur[c] \in Seq(Unites) /\ versClient[c] \in Seq(UnitesClient)
         /\ Len(versServeur[c]) \in Nat /\ Len(versClient[c]) \in Nat
<1>1. versServeur[c] \in Seq(Unites) /\ versClient[c] \in Seq(UnitesClient)
  BY DEF RInv, IInv, TypeServeur, TypeSockets, TypesClients
<1> QED BY <1>1

\* What the server sends has its type.
LEMMA TypeUnite ==
  ASSUME RInv, NEW k, NEW c, NEW m, Envoi(k, c, m)
  PROVE  m \in UnitesClient
<1>1. forme \in Valeurs /\ indices \in Valeurs /\ meilleur \in Valeurs /\ pire \in Valeurs
      /\ SIGNAL \in Valeurs
  BY DEF RInv, IInv, TypeServeur, TypeManche, Formes, Valeurs, SIGNAL
<1>2. ASSUME NEW t \in Genres, NEW v \in Valeurs PROVE Message(t, v) \in UnitesClient
  BY DEF Message, UnitesClient
<1>3. /\ "signal" \in Genres /\ "forme" \in Genres /\ "indices" \in Genres
      /\ "meilleur" \in Genres /\ "pire" \in Genres
  BY DEF Genres
<1>4. /\ Message("signal", SIGNAL) \in UnitesClient /\ Message("forme", forme) \in UnitesClient
      /\ Message("indices", indices) \in UnitesClient
      /\ Message("meilleur", meilleur) \in UnitesClient /\ Message("pire", pire) \in UnitesClient
  BY <1>1, <1>2, <1>3, Zenon
<1> QED BY <1>4, Zenon DEF Envoi

\* The server ends with all its connections.
LEMMA ApresServeur ==
  ASSUME RInv, NextServeur
  PROVE  Apres'
<1> SUFFICES ASSUME pcS' = "demarrage" \/ ServeurFini'
             PROVE  ecoute' = FALSE /\ \A c \in Clients : lien'[c] \notin {"file", "ouvert"}
  BY DEF Apres
<1>1. Fermeture \/ TueParSigpipe \/ Demarrer
  BY DEF ServeurFini, NextServeur, PasServeur, EchangeAvec, AccepterPremier, AccepterAutre,
         FinDelai, Select, FinTour, FinSignal, FinGrille, FinTemps, Bilan, FinBilan,
         FinResultats, FinChoix, SelectErreur, LirePret, EnvoyerSignal, EnvoyerForme,
         EnvoyerIndices, RecevoirJuste, RecevoirTemps, EnvoyerMeilleur, EnvoyerPire,
         RecevoirChoix, DebutAttente
<1>2. CASE ToutFermer
  <2> DEFINE C == {c \in Clients : lien[c] \in {"file", "ouvert"}}
  <2>1. PICK R : Couper(C, R)
    BY <1>2, Zenon DEF ToutFermer
  <2>2. \A c \in Clients : lien[c] \in {"file", "ouvert"} => c \in C
    OBVIOUS
  <2> HIDE DEF C
  <2>3. \A c \in Clients : lien'[c] \notin {"file", "ouvert"}
    BY <2>1, <2>2 DEF Couper
  <2>4. ecoute' = FALSE
    BY <1>2, Zenon DEF ToutFermer
  <2> QED BY <2>3, <2>4
<1>3. CASE Demarrer
  <2>1. pcS = "demarrage" /\ pcS' = "arret" /\ ecoute' = ecoute /\ lien' = lien
    BY <1>3 DEF Demarrer, ServeurFini
  <2> QED BY <2>1, Zenon DEF RInv, Apres
<1> QED BY <1>1, <1>2, <1>3 DEF Fermeture, TueParSigpipe

\* Every step of the server keeps each conversation in order.
LEMMA ConverseServeur ==
  ASSUME RInv, NextServeur, UNCHANGED clientVars, NEW c \in Clients
  PROVE  /\ lien'[c] = "file" => Converse(1, c)'
         /\ \A k \in actifs' : Titulaire(k, c)' => Converse(PosServeur(k), c)'
<1> USE DEF clientVars
<1>1. finClient' = finClient /\ pcC' = pcC /\ (lien'[c] = "file" => lien[c] = "file")
  BY Titulaires
<1>2. CASE Muet
  <2>1. versClient' = versClient /\ (lien'[c] # "ferme" => versServeur'[c] = versServeur[c])
    BY <1>2 DEF Muet
  <2>2. ASSUME lien'[c] = "file" PROVE Converse(1, c)'
    BY <1>1, <2>1, <2>2 DEF RInv, Fiche, Converse
  <2>3. ASSUME NEW k \in actifs', Titulaire(k, c)' PROVE Converse(PosServeur(k), c)'
    <3>1. versServeur'[c] = versServeur[c]
      BY <2>1, <2>3 DEF Titulaire
    <3>2. CASE k \in actifs /\ Titulaire(k, c)
      <4>1. Converse(PosServeur(k), c) /\ PosServeur(k) \in 1 .. 10
        BY <3>2, PosBornee DEF RInv, Fiche
      <4>2. CASE PosServeur(k)' = PosServeur(k)
        BY <1>1, <2>1, <3>1, <4>1, <4>2 DEF Converse
      <4>3. CASE PosServeur(k) = 10 /\ PosServeur(k)' = 1
        <5>1. versServeur[c] \in Seq(Unites) /\ versClient[c] \in Seq(UnitesClient)
          BY TypesFlux
        <5>2. AligneServeur(1, versServeur[c])
          BY <4>1, <4>3, <5>1, AligneTour DEF Converse
        <5>3. ASSUME ~finClient[c] PROVE Accord(1, Pos(pcC[c]), versServeur[c], versClient[c])
          <6>1. Pos(pcC[c]) \in 1 .. 9
            BY <3>2, <5>3, Vivant DEF Titulaire
          <6> QED BY <4>1, <4>3, <5>1, <5>3, <6>1, AccordTour DEF Converse
        <5> QED BY <1>1, <2>1, <3>1, <4>3, <5>2, <5>3 DEF Converse
      <4> QED BY <1>2, <2>3, <3>2, <4>2, <4>3, ApresServeur DEF Muet, Avance, Titulaire, Apres
    <3>3. CASE k = nbClients /\ nbClients' # nbClients /\ lien[c] = "file"
      <4>1. PosServeur(k)' = 1
        BY <3>3, Accueilli
      <4> QED BY <1>1, <2>1, <3>1, <3>3, <4>1 DEF RInv, Fiche, Converse
    <3> QED BY <2>3, <3>2, <3>3, Titulaires
  <2> QED BY <2>2, <2>3
\* A client whose turn it is not sees nothing of an exchange.
<1>3. ASSUME NEW k \in Slots, NEW d \in Clients, AuTour(k, d), c # d,
             versServeur'[c] = versServeur[c], versClient'[c] = versClient[c]
      PROVE  /\ lien'[c] = "file" => Converse(1, c)'
             /\ \A l \in actifs' : Titulaire(l, c)' => Converse(PosServeur(l), c)'
  <2>1. ASSUME NEW l \in actifs, Titulaire(l, c)
        PROVE  PosServeur(l)' = PosServeur(l) /\ Converse(PosServeur(l), c)
    <3>1. l # k
      BY <1>3, <2>1, Unique DEF AuTour
    <3> QED BY <1>3, <2>1, <3>1 DEF AuTour, RInv, Fiche
  <2>2. \A l \in actifs : Titulaire(l, c)' => Titulaire(l, c)
    BY <1>3 DEF AuTour, Titulaire
  <2> QED BY <1>1, <1>3, <2>1, <2>2 DEF AuTour, RInv, Fiche, Converse
\* The slot of the client whose turn it is.
<1>4. ASSUME NEW k \in Slots, AuTour(k, c)
      PROVE  /\ lien'[c] # "file" /\ \A l \in actifs' : Titulaire(l, c)' => l = k
             /\ Converse(PosServeur(k), c) /\ PosServeur(k) \in 1 .. 10
             /\ ~finClient[c] => Pos(pcC[c]) \in 1 .. 9
  <2>1. k \in actifs /\ Titulaire(k, c) /\ actifs' = actifs /\ lien'[c] = "ouvert"
    BY <1>4 DEF AuTour, Titulaire
  <2>2. \A l \in actifs' : Titulaire(l, c)' => Titulaire(l, c)
    BY <1>4 DEF AuTour, Titulaire
  <2>3. ~finClient[c] => Pos(pcC[c]) \in 1 .. 9
    BY <2>1, Vivant DEF Titulaire
  <2> QED BY <2>1, <2>2, <2>3, Unique, PosBornee DEF RInv, Fiche
<1>5. versServeur[c] \in Seq(Unites) /\ versClient[c] \in Seq(UnitesClient)
  BY TypesFlux
<1>6. ASSUME NEW k \in Slots, NEW d \in Clients, Lecture(k, d)
      PROVE  /\ lien'[c] = "file" => Converse(1, c)'
             /\ \A l \in actifs' : Titulaire(l, c)' => Converse(PosServeur(l), c)'
  <2>1. AuTour(k, d) /\ ServeurLit(d)
    BY <1>6 DEF Lecture
  <2>2. CASE c # d
    <3>1. versServeur'[c] = versServeur[c] /\ versClient'[c] = versClient[c]
      BY <2>1, <2>2 DEF ServeurLit, RInv, IInv, TypeServeur, TypeSockets
    <3> QED BY <1>3, <2>1, <2>2, <3>1
  <2>3. CASE c = d
    <3>1. /\ versServeur[c] # <<>> /\ versServeur'[c] = Tail(versServeur[c])
          /\ versClient'[c] = versClient[c]
      BY <2>1, <2>3 DEF ServeurLit, RInv, IInv, TypeServeur, TypeSockets
    <3>2. AuTour(k, c) /\ PosServeur(k)' = PosServeur(k) + 1
      BY <2>1, <2>3 DEF AuTour
    <3>3. AligneServeur(PosServeur(k) + 1, Tail(versServeur[c]))
      BY <1>4, <1>5, <3>1, <3>2, AligneLectureServeur DEF Converse
    <3>4. ~finClient[c] =>
            Accord(PosServeur(k) + 1, Pos(pcC[c]), Tail(versServeur[c]), versClient[c])
      BY <1>4, <1>5, <3>1, <3>2, AccordLectureServeur DEF Converse
    <3>5. Converse(PosServeur(k), c)'
      BY <1>1, <3>1, <3>2, <3>3, <3>4 DEF Converse
    <3> QED BY <1>4, <3>2, <3>5
  <2> QED BY <2>2, <2>3
<1>7. ASSUME NEW k \in Slots, NEW d \in Clients, NEW m, Envoi(k, d, m)
      PROVE  /\ lien'[c] = "file" => Converse(1, c)'
             /\ \A l \in actifs' : Titulaire(l, c)' => Converse(PosServeur(l), c)'
  <2>1. AuTour(k, d) /\ ServeurEnvoie(d, m) /\ versServeur' = versServeur
        /\ PosServeur(k) \in DuServeur /\ m.type = Ordre[PosServeur(k)]
    BY <1>7 DEF Envoi, ServeurEnvoie
  <2>2. CASE c # d
    <3>1. versServeur'[c] = versServeur[c] /\ versClient'[c] = versClient[c]
      BY <2>1, <2>2 DEF ServeurEnvoie, RInv, TypesClients
    <3> QED BY <1>3, <2>1, <2>2, <3>1
  <2>3. CASE c = d
    <3>1. AuTour(k, c) /\ PosServeur(k)' = PosServeur(k) + 1
      BY <2>1, <2>3 DEF AuTour
    <3>2. AligneServeur(PosServeur(k) + 1, versServeur[c])
      <4>1. versServeur[c] = <<>>
        <5>1. PosServeur(k) \notin DuClient
          BY <2>1 DEF DuServeur, DuClient
        <5> QED BY <1>4, <1>5, <3>1, <5>1, AligneLectureServeur DEF Converse
      <4> QED BY <4>1 DEF AligneServeur
    <3>3. ASSUME ~finClient[c]
          PROVE  Accord(PosServeur(k) + 1, Pos(pcC[c]), versServeur[c], versClient'[c])
      <4>1. versClient'[c] = Append(versClient[c], m)
        BY <2>1, <2>3, <3>3 DEF ServeurEnvoie, RInv, TypesClients
      <4>2. m \in UnitesClient
        BY <1>7, TypeUnite
      <4>3. Accord(PosServeur(k), Pos(pcC[c]), versServeur[c], versClient[c])
            /\ Pos(pcC[c]) \in 1 .. 9
        BY <1>4, <3>1, <3>3 DEF Converse
      <4> QED BY <1>5, <2>1, <4>1, <4>2, <4>3, AccordEnvoiServeur
    <3>4. Converse(PosServeur(k), c)'
      BY <1>1, <2>1, <3>1, <3>2, <3>3 DEF Converse
    <3> QED BY <1>4, <3>1, <3>4
  <2> QED BY <2>2, <2>3
<1> QED BY <1>2, <1>6, <1>7, TroisPas


\* The streams of a client after a step of the server.
LEMMA FluxServeur ==
  ASSUME RInv, NextServeur, NEW c \in Clients
  PROVE  /\ \/ versServeur'[c] = versServeur[c]
            \/ versServeur'[c] = <<>>
            \/ versServeur[c] # <<>> /\ versServeur'[c] = Tail(versServeur[c])
         /\ \/ versClient'[c] = versClient[c]
            \/ \E k \in Slots : \E m :
                 /\ Envoi(k, c, m) /\ EnLigne(c)
                 /\ versClient'[c] = Append(versClient[c], m)
<1>1. CASE Muet
  BY <1>1 DEF Muet
<1>2. ASSUME NEW k \in Slots, NEW d \in Clients, Lecture(k, d)
      PROVE  /\ \/ versServeur'[c] = versServeur[c]
                \/ versServeur[c] # <<>> /\ versServeur'[c] = Tail(versServeur[c])
             /\ versClient'[c] = versClient[c]
  BY <1>2 DEF Lecture, ServeurLit, RInv, IInv, TypeServeur, TypeSockets
<1>3. ASSUME NEW k \in Slots, NEW d \in Clients, NEW m, Envoi(k, d, m)
      PROVE  /\ versServeur'[c] = versServeur[c]
             /\ versClient'[c] = versClient[c] \/
                (d = c /\ EnLigne(c) /\ versClient'[c] = Append(versClient[c], m))
  BY <1>3 DEF Envoi, AuTour, Titulaire, EnLigne, ServeurEnvoie, RInv, TypesClients
<1> QED BY <1>1, <1>2, <1>3, TroisPas

\* No step of the server gives a unit to a client that is gone.
LEMMA ProcessusServeur ==
  ASSUME RInv, NextServeur, UNCHANGED clientVars, NEW c \in Clients
  PROVE  Processus(c)'
<1>1. /\ finClient' = finClient /\ pcC' = pcC /\ (lien'[c] = "libre" <=> lien[c] = "libre")
      /\ Processus(c)
  BY Titulaires DEF clientVars, RInv, Fiche
<1>2. versServeur[c] = <<>> => versServeur'[c] = <<>>
  BY FluxServeur
<1>3. (lien[c] = "libre" \/ finClient[c]) => versClient'[c] = versClient[c]
  BY FluxServeur DEF EnLigne
<1> QED BY <1>1, <1>2, <1>3 DEF Processus

\* What is left of a stream was in it.
LEMMA ResteDuFlux ==
  ASSUME RInv, NextServeur, NEW c \in Clients, NEW i \in 1 .. Len(versServeur'[c])
  PROVE  \E j \in 1 .. Len(versServeur[c]) : versServeur'[c][i] = versServeur[c][j]
<1>1. CASE versServeur'[c] = versServeur[c]
  BY <1>1
<1>2. CASE versServeur'[c] = <<>>
  BY <1>2
<1>3. CASE versServeur[c] # <<>> /\ versServeur'[c] = Tail(versServeur[c])
  <2>1. /\ Len(versServeur[c]) \in Nat /\ i \in 1 .. Len(versServeur[c]) - 1
        /\ versServeur'[c][i] = versServeur[c][i + 1]
    BY <1>3, TypesFlux, Retrait
  <2>2. i + 1 \in 1 .. Len(versServeur[c])
    BY <2>1
  <2> QED BY <2>1, <2>2
<1> QED BY <1>1, <1>2, <1>3, FluxServeur

\* What is in the stream of a client was in it or has just been sent.
LEMMA AjoutAuFlux ==
  ASSUME RInv, NextServeur, NEW c \in Clients, NEW i \in 1 .. Len(versClient'[c])
  PROVE  \/ i \in 1 .. Len(versClient[c]) /\ versClient'[c][i] = versClient[c][i]
         \/ EnLigne(c) /\ \E k \in Slots : Envoi(k, c, versClient'[c][i])
<1>1. CASE versClient'[c] = versClient[c]
  BY <1>1
<1>2. ASSUME NEW k \in Slots, NEW m, Envoi(k, c, m), EnLigne(c),
             versClient'[c] = Append(versClient[c], m)
      PROVE  \/ i \in 1 .. Len(versClient[c]) /\ versClient'[c][i] = versClient[c][i]
             \/ EnLigne(c) /\ Envoi(k, c, versClient'[c][i])
  <2>1. m \in UnitesClient /\ versClient[c] \in Seq(UnitesClient) /\ Len(versClient[c]) \in Nat
    BY <1>2, TypeUnite, TypesFlux
  <2>2. /\ Len(versClient'[c]) = Len(versClient[c]) + 1
        /\ \A j \in 1 .. Len(versClient[c]) : versClient'[c][j] = versClient[c][j]
        /\ versClient'[c][Len(versClient[c]) + 1] = m
    BY <1>2, <2>1, Ajout
  <2>3. CASE i \in 1 .. Len(versClient[c])
    BY <2>2, <2>3
  <2>4. CASE i = Len(versClient[c]) + 1
    <3>1. versClient'[c][i] = m
      BY <2>2, <2>4
    <3> QED BY <1>2, <3>1
  <2> QED BY <2>1, <2>2, <2>3, <2>4
<1> QED BY <1>1, <1>2, FluxServeur

\* Both streams go on in order.
LEMMA SuiteServeur ==
  ASSUME RInv, NextServeur, UNCHANGED clientVars, NEW c \in Clients
  PROVE  Suite(c)'
<1>1. Suite(c) /\ pcC' = pcC
  BY DEF RInv, Fiche, clientVars
<1>2. \A i \in 1 .. Len(versServeur'[c]) :
        versServeur'[c][i].type = "pret" => versServeur'[c][i].val = SIGNAL
  BY <1>1, ResteDuFlux DEF Suite
<1>3. ASSUME NEW i \in 1 .. Len(versClient'[c]), versClient'[c][i].type = "signal"
      PROVE  versClient'[c][i].val = SIGNAL
  <2>1. CASE i \in 1 .. Len(versClient[c]) /\ versClient'[c][i] = versClient[c][i]
    BY <1>1, <1>3, <2>1 DEF Suite
  <2>2. ASSUME NEW k \in Slots, Envoi(k, c, versClient'[c][i])
        PROVE  versClient'[c][i].val = SIGNAL
    BY <1>3, <2>2 DEF Envoi, Message
  <2> QED BY <2>1, <2>2, AjoutAuFlux
<1>4. AligneClient(Pos(pcC[c]), versClient'[c])
  <2>1. CASE versClient'[c] = versClient[c]
    BY <1>1, <2>1 DEF Suite
  <2>2. ASSUME NEW k \in Slots, NEW m, Envoi(k, c, m), EnLigne(c)
        PROVE  AligneClient(Pos(pcC[c]), versClient'[c])
    <3>1. k \in actifs' /\ Titulaire(k, c)' /\ ~finClient'[c]
      BY <2>2, Titulaires DEF Envoi, AuTour, Titulaire, EnLigne
    <3>2. Converse(PosServeur(k), c)'
      BY <3>1, ConverseServeur
    <3> QED BY <1>1, <3>1, <3>2 DEF Converse, Accord
  <2> QED BY <2>1, <2>2, FluxServeur
<1> QED BY <1>1, <1>2, <1>3, <1>4 DEF Suite


-----------------------------------------------------------------------------
(***************************************************************************)
(* The server's steps and the values: a variable of the round is assigned  *)
(* only where no client holds it or waits for it.                          *)
(***************************************************************************)
\* The two ends of a connected client.
LEMMA Place ==
  ASSUME RInv, NEW c \in Clients, EnLigne(c)
  PROVE  \E k \in actifs :
           /\ Titulaire(k, c) /\ Reponse(k, c)
           /\ PosServeur(k) \in 1 .. 10 /\ Pos(pcC[c]) \in 1 .. 9
           /\ Accord(PosServeur(k), Pos(pcC[c]), versServeur[c], versClient[c])
<1>1. lien[c] = "ouvert" /\ ~finClient[c]
  BY DEF EnLigne
<1>2. SalonSain
  BY <1>1 DEF RInv, IInv, DescripteursSains, Apres
<1>3. PICK k \in actifs : Titulaire(k, c)
  BY <1>1, <1>2 DEF SalonSain
<1> QED BY <1>1, <1>3, PosBornee, Vivant DEF RInv, Fiche, Converse

\* A client that is accepted has nothing to read and is at the barrier.
LEMMA Nouveau ==
  ASSUME RInv, NEW c \in Clients, lien[c] = "file", ~finClient[c]
  PROVE  /\ Pos(pcC[c]) \in {1, 2} /\ versClient[c] = <<>>
         /\ \A i \in 1 .. Len(versServeur[c]) : versServeur[c][i].type = "pret"
<1>1. Pos(pcC[c]) \in 1 .. 9 /\ Accord(1, Pos(pcC[c]), versServeur[c], versClient[c])
  BY Vivant DEF RInv, Fiche, Converse
<1>2. versServeur[c] \in Seq(Unites) /\ versClient[c] \in Seq(UnitesClient)
      /\ Len(versServeur[c]) \in Nat
  BY TypesFlux
<1>3. Pos(pcC[c]) \in {1, 2} /\ versClient[c] = <<>>
  BY <1>1, <1>2, OuEstLeClient
<1>4. ASSUME NEW i \in 1 .. Len(versServeur[c]) PROVE versServeur[c][i].type = "pret"
  <2>1. 1 + i - 1 = i /\ i \in DuClient /\ versServeur[c][i].type = Ordre[i]
    BY <1>1, <1>2 DEF Accord, AligneServeur
  <2>2. Len(versServeur[c]) <= 1 \/ 1 + Len(versServeur[c]) >= 10
    BY <1>1, <1>2, <1>3 DEF Accord
  <2>3. Len(versServeur[c]) <= 1
    <3>1. ASSUME Len(versServeur[c]) >= 2 PROVE FALSE
      <4>1. 2 \in 1 .. Len(versServeur[c]) /\ 1 + 2 - 1 = 2
        BY <1>2, <3>1
      <4>2. 2 \in DuClient
        BY <1>1, <4>1 DEF Accord, AligneServeur
      <4> QED BY <4>2 DEF DuClient
    <3> QED BY <1>2, <3>1
  <2>4. i = 1
    BY <1>2, <2>3
  <2> QED BY <2>1, <2>4 DEF Ordre
<1> QED BY <1>3, <1>4

\* At the barrier and at the first signal no client has seen a draw.
LEMMA SansTirage ==
  ASSUME RInv, NEW c \in Clients, EnLigne(c),
         \A k \in actifs : PosServeur(k) \in {1, 3, 10}
  PROVE  /\ Pos(pcC[c]) \in {1, 2, 3}
         /\ \A i \in 1 .. Len(versClient[c]) : versClient[c][i].type = "signal"
<1>1. PICK k \in actifs :
           /\ PosServeur(k) \in 1 .. 10 /\ Pos(pcC[c]) \in 1 .. 9
           /\ Accord(PosServeur(k), Pos(pcC[c]), versServeur[c], versClient[c])
  BY Place
<1>2. versServeur[c] \in Seq(Unites) /\ versClient[c] \in Seq(UnitesClient)
      /\ Len(versClient[c]) \in Nat
  BY TypesFlux
<1>3. /\ PosServeur(k) \in {1, 10} => Pos(pcC[c]) \in {1, 2} /\ versClient[c] = <<>>
      /\ PosServeur(k) = 3 => Pos(pcC[c]) \in {2, 3} /\ Pos(pcC[c]) + Len(versClient[c]) = 3
  BY <1>1, <1>2, OuEstLeClient
<1>4. ASSUME NEW i \in 1 .. Len(versClient[c]), PosServeur(k) = 3
      PROVE  versClient[c][i].type = "signal"
  <2>1. Pos(pcC[c]) + i - 1 = 2
    BY <1>2, <1>3, <1>4
  <2>2. versClient[c][i].type = Ordre[2]
    BY <1>1, <2>1 DEF Accord, AligneClient
  <2> QED BY <2>2 DEF Ordre
<1> QED BY <1>1, <1>3, <1>4

\* The draw of the round reaches the clients of the round.
LEMMA TirageServeur ==
  ASSUME RInv, NextServeur, UNCHANGED clientVars, NEW c \in Clients, EnLigne(c)'
  PROVE  Tirage(c)'
<1>1. pcC' = pcC /\ loc' = loc /\ finClient' = finClient /\ lien[c] \in {"file", "ouvert"}
      /\ ~finClient[c]
  BY Titulaires DEF clientVars, EnLigne
<1>2. ASSUME Pos(pcC[c]) \in {1, 2, 3},
             \A i \in 1 .. Len(versClient'[c]) : versClient'[c][i].type = "signal"
      PROVE  Tirage(c)'
  BY <1>1, <1>2 DEF Tirage
<1>3. CASE lien[c] = "file"
  <2>1. Pos(pcC[c]) \in {1, 2} /\ versClient[c] = <<>>
    BY <1>1, <1>3, Nouveau
  <2>2. versClient'[c] = <<>>
    BY <1>3, <2>1, FluxServeur DEF EnLigne
  <2> QED BY <1>2, <2>1, <2>2
<1>4. CASE lien[c] = "ouvert" /\ UNCHANGED <<forme, indices>>
  <2>1. Tirage(c)
    BY <1>1, <1>4 DEF RInv, Fiche, EnLigne
  <2>2. ASSUME NEW i \in 1 .. Len(versClient'[c])
        PROVE  /\ versClient'[c][i].type = "forme" => versClient'[c][i].val = forme
               /\ versClient'[c][i].type = "indices" => versClient'[c][i].val = indices
    <3>1. CASE i \in 1 .. Len(versClient[c]) /\ versClient'[c][i] = versClient[c][i]
      BY <2>1, <3>1 DEF Tirage
    <3>2. ASSUME NEW k \in Slots, Envoi(k, c, versClient'[c][i])
          PROVE  /\ versClient'[c][i].type = "forme" => versClient'[c][i].val = forme
                 /\ versClient'[c][i].type = "indices" => versClient'[c][i].val = indices
      BY <3>2 DEF Envoi, Message
    <3> QED BY <3>1, <3>2, AjoutAuFlux
  <2> QED BY <1>1, <1>4, <2>1, <2>2 DEF Tirage
<1>5. CASE lien[c] = "ouvert" /\ ~UNCHANGED <<forme, indices>>
  <2>1. FinSignal \/ FinDelai \/ FinChoix
    BY <1>5 DEF NextServeur, PasServeur, EchangeAvec, AccepterPremier, AccepterAutre, Select,
         FinTour, FinGrille, FinTemps, Bilan, FinBilan, FinResultats, Fermeture, SelectErreur,
         TueParSigpipe, LirePret, EnvoyerSignal, EnvoyerForme, EnvoyerIndices, RecevoirJuste,
         RecevoirTemps, EnvoyerMeilleur, EnvoyerPire, RecevoirChoix, Demarrer, mancheVars
  <2>2. \A k \in actifs : PosServeur(k) \in {1, 3, 10}
    BY <2>1 DEF FinSignal, FinDelai, FinChoix, PosServeur, Boucle, RInv, Confirmes
  <2>3. versClient' = versClient
    BY <2>1 DEF FinSignal, FinDelai, FinChoix, sockVars
  <2> QED BY <1>1, <1>2, <1>5, <2>2, <2>3, SansTirage DEF EnLigne
<1> QED BY <1>1, <1>3, <1>4, <1>5

\* Nor has any client seen results before they are complete.
LEMMA SansResultat ==
  ASSUME RInv, NEW c \in Clients, EnLigne(c),
         \A k \in actifs : PosServeur(k) \in {1, 7, 10}
  PROVE  Pos(pcC[c]) \in {1, 2, 7} /\ versClient[c] = <<>>
<1>1. PICK k \in actifs :
           /\ PosServeur(k) \in 1 .. 10 /\ Pos(pcC[c]) \in 1 .. 9
           /\ Accord(PosServeur(k), Pos(pcC[c]), versServeur[c], versClient[c])
  BY Place
<1>2. versServeur[c] \in Seq(Unites) /\ versClient[c] \in Seq(UnitesClient)
  BY TypesFlux
<1> QED BY <1>1, <1>2, OuEstLeClient

\* The results of the round reach the clients of the round.
LEMMA ResultatServeur ==
  ASSUME RInv, NextServeur, UNCHANGED clientVars, NEW c \in Clients, EnLigne(c)'
  PROVE  Resultat(c)'
<1>1. pcC' = pcC /\ loc' = loc /\ finClient' = finClient /\ lien[c] \in {"file", "ouvert"}
      /\ ~finClient[c]
  BY Titulaires DEF clientVars, EnLigne
<1>2. ASSUME Pos(pcC[c]) \in {1, 2, 7}, versClient'[c] = <<>>
      PROVE  Resultat(c)'
  BY <1>1, <1>2 DEF Resultat
<1>3. CASE lien[c] = "file"
  <2>1. Pos(pcC[c]) \in {1, 2} /\ versClient[c] = <<>>
    BY <1>1, <1>3, Nouveau
  <2>2. versClient'[c] = <<>>
    BY <1>3, <2>1, FluxServeur DEF EnLigne
  <2> QED BY <1>2, <2>1, <2>2
<1>4. CASE lien[c] = "ouvert" /\ UNCHANGED <<meilleur, pire>>
  <2>1. Resultat(c)
    BY <1>1, <1>4 DEF RInv, Fiche, EnLigne
  <2>2. ASSUME NEW i \in 1 .. Len(versClient'[c])
        PROVE  /\ versClient'[c][i].type = "meilleur" => versClient'[c][i].val = meilleur
               /\ versClient'[c][i].type = "pire" => versClient'[c][i].val = pire
    <3>1. CASE i \in 1 .. Len(versClient[c]) /\ versClient'[c][i] = versClient[c][i]
      BY <2>1, <3>1 DEF Resultat
    <3>2. ASSUME NEW k \in Slots, Envoi(k, c, versClient'[c][i])
          PROVE  /\ versClient'[c][i].type = "meilleur" => versClient'[c][i].val = meilleur
                 /\ versClient'[c][i].type = "pire" => versClient'[c][i].val = pire
      BY <3>2 DEF Envoi, Message
    <3> QED BY <3>1, <3>2, AjoutAuFlux
  <2> QED BY <1>1, <1>4, <2>1, <2>2 DEF Resultat
<1>5. CASE lien[c] = "ouvert" /\ ~UNCHANGED <<meilleur, pire>>
  <2>1. FinTemps \/ (\E k \in Slots : Bilan(k)) \/ FinDelai \/ FinChoix
    BY <1>5 DEF NextServeur, PasServeur, EchangeAvec, AccepterPremier, AccepterAutre, Select,
         FinTour, FinSignal, FinGrille, FinBilan, FinResultats, Fermeture, SelectErreur,
         TueParSigpipe, LirePret, EnvoyerSignal, EnvoyerForme, EnvoyerIndices, RecevoirJuste,
         RecevoirTemps, EnvoyerMeilleur, EnvoyerPire, RecevoirChoix, Demarrer, mancheVars
  <2>2. \A k \in actifs : PosServeur(k) \in {1, 7, 10}
    BY <2>1 DEF FinTemps, Bilan, FinDelai, FinChoix, PosServeur, Boucle, RInv, Confirmes
  <2>3. versClient' = versClient
    BY <2>1 DEF FinTemps, Bilan, FinDelai, FinChoix, sockVars
  <2> QED BY <1>1, <1>2, <1>5, <2>2, <2>3, SansResultat DEF EnLigne
<1> QED BY <1>1, <1>3, <1>4, <1>5


\* The unit that the server reads from slot k.
LEMMA TeteDuFlux ==
  ASSUME RInv, NEW k \in actifs, NEW c \in Clients, Titulaire(k, c), versServeur[c] # <<>>
  PROVE  /\ PosServeur(k) \in DuClient
         /\ Head(versServeur[c]).type = Ordre[PosServeur(k)]
         /\ 1 \in 1 .. Len(versServeur[c]) /\ Head(versServeur[c]) = versServeur[c][1]
<1>1. versServeur[c] \in Seq(Unites)
  BY TypesFlux
<1>2. AligneServeur(PosServeur(k), versServeur[c]) /\ PosServeur(k) \in 1 .. 10
  BY PosBornee DEF RInv, Fiche, Converse
<1> QED BY <1>1, <1>2, AligneLectureServeur, Retrait

\* The position of a client that stays.
LEMMA PasDePos ==
  ASSUME RInv, NextServeur, NEW k \in actifs, k \in actifs', ~ServeurFini'
  PROVE  PosServeur(k)' \in {1, PosServeur(k), PosServeur(k) + 1}
BY TroisPas DEF Muet, Avance, Lecture, Envoi, AuTour

\* recv() of est_correct (serveur.c:246).
LEMMA ReponseJuste ==
  ASSUME RInv, NEW l \in Slots, NEW d \in Clients, RecevoirJuste(l, d), UNCHANGED clientVars,
         NEW k \in actifs, k \in actifs', NEW c \in Clients, Titulaire(k, c), Reponse(k, c)
  PROVE  /\ pcS' \in {"juste", "temps"} /\ PosServeur(k)' = 5 => k \notin justes'
         /\ PosServeur(k)' = 6 => (k \in justes' <=> Rendu(c)' = 1)
         /\ PosServeur(k)' \in 7 .. 9 /\ Pos(pcC[c])' \in 7 .. 9 =>
              temps'[k] = loc'[c].temps /\ (k \in justes' <=> Rendu(c)' = 1)
<1>1. /\ pcS = "juste" /\ temps' = temps /\ loc' = loc /\ pcC' = pcC
      /\ l \in aFaire /\ Titulaire(l, d) /\ l \in actifs
  <2>1. aFaire \subseteq actifs
    BY DEF RecevoirJuste, RInv, IInv, DescripteursSains, ServeurFini, SalonSain
  <2> QED BY <2>1 DEF RecevoirJuste, clientVars, Tour
<1>2. Rendu(c)' = Rendu(c)
  BY <1>1 DEF Rendu
<1>3. PosServeur(k) \in {5, 7} /\ PosServeur(l) = 5
  BY <1>1 DEF PosServeur, Boucle
<1>4. Lecture(l, d) \/ Muet
  BY PosLecture
<1>5. CASE k # l
  <2>1. k \in justes' <=> k \in justes
    BY <1>5 DEF RecevoirJuste
  <2>2. PosServeur(k)' = PosServeur(k)
    <3>1. ~ServeurFini'
      BY DEF RecevoirJuste, ServeurFini
    <3> QED BY <1>3, <1>4, <1>5, <3>1 DEF Lecture, AuTour, Muet, Avance
  <2> QED BY <1>1, <1>2, <2>1, <2>2 DEF Reponse
<1>6. CASE k = l
  <2>1. c = d
    BY <1>1, <1>6, Unique
  <2>2. ServeurLit(c) /\ UNCHANGED aFaire /\ pcS' = "temps"
        /\ justes' = IF Head(versServeur[c]).val = 1 THEN justes \cup {k} ELSE justes
    BY <1>6, <2>1 DEF RecevoirJuste, PerteReponse, Deconnecter
  <2>3. versServeur[c] # <<>>
    BY <2>2 DEF ServeurLit
  <2>4. Head(versServeur[c]).type = "juste" /\ 1 \in 1 .. Len(versServeur[c])
        /\ Head(versServeur[c]) = versServeur[c][1]
    BY <1>3, <1>6, <2>3, TeteDuFlux DEF Ordre
  <2>5. Head(versServeur[c]).val = Rendu(c)
    BY <2>4 DEF Reponse
  <2>6. k \notin justes
    BY <1>1, <1>3, <1>6 DEF Reponse
  <2>7. PosServeur(k)' = 6
    <3>1. Tete(k)' /\ aFaire' = aFaire
      BY <1>6, <2>2 DEF Tete, RecevoirJuste, Tour
    <3> QED BY <2>2, <3>1 DEF PosServeur
  <2>8. k \in justes' <=> Rendu(c) = 1
    BY <2>2, <2>5, <2>6
  <2> QED BY <1>2, <2>7, <2>8
<1> QED BY <1>5, <1>6

\* recv() of temps_client (serveur.c:258).
LEMMA ReponseTemps ==
  ASSUME RInv, NEW l \in Slots, NEW d \in Clients, RecevoirTemps(l, d), UNCHANGED clientVars,
         NEW k \in actifs, k \in actifs', NEW c \in Clients, Titulaire(k, c), Reponse(k, c)
  PROVE  /\ pcS' \in {"juste", "temps"} /\ PosServeur(k)' = 5 => k \notin justes'
         /\ PosServeur(k)' = 6 => (k \in justes' <=> Rendu(c)' = 1)
         /\ PosServeur(k)' \in 7 .. 9 /\ Pos(pcC[c])' \in 7 .. 9 =>
              temps'[k] = loc'[c].temps /\ (k \in justes' <=> Rendu(c)' = 1)
<1>1. /\ pcS = "temps" /\ pcS' = "juste" /\ loc' = loc /\ pcC' = pcC
      /\ l \in aFaire /\ Titulaire(l, d) /\ l \in actifs /\ actifs \subseteq Slots
      /\ temps \in [Slots -> Int]
  <2>1. aFaire \subseteq actifs
    BY DEF RecevoirTemps, RInv, IInv, DescripteursSains, ServeurFini, SalonSain
  <2>2. actifs \subseteq Slots /\ temps \in [Slots -> Int]
    BY SocketsAssumption DEF RInv, IInv, TypeServeur, TypeSalon, TypeManche, Slots
  <2> QED BY <2>1, <2>2 DEF RecevoirTemps, clientVars, Tour
<1>2. Rendu(c)' = Rendu(c)
  BY <1>1 DEF Rendu
<1>3. PosServeur(k) \in {5, 6, 7} /\ PosServeur(l) = 6
  <2>1. Tete(l)
    BY DEF RecevoirTemps, Tour, Tete
  <2> QED BY <1>1, <2>1 DEF PosServeur, Boucle
<1>4. Lecture(l, d) \/ Muet
  BY PosLecture
<1>5. CASE k # l
  <2>1. (k \in justes' <=> k \in justes) /\ temps'[k] = temps[k]
    BY <1>1, <1>5 DEF RecevoirTemps
  <2>2. PosServeur(k)' = PosServeur(k)
    <3>1. ~ServeurFini'
      BY <1>1 DEF ServeurFini
    <3> QED BY <1>3, <1>4, <1>5, <3>1 DEF Lecture, AuTour, Muet, Avance
  <2> QED BY <1>1, <1>2, <2>1, <2>2 DEF Reponse
<1>6. CASE k = l
  <2>1. c = d
    BY <1>1, <1>6, Unique
  <2>2. ServeurLit(c) /\ justes' = justes /\ aFaire' = aFaire \ {k}
        /\ temps' = [temps EXCEPT ![k] = Head(versServeur[c]).val]
    BY <1>6, <2>1 DEF RecevoirTemps, Deconnecter
  <2>3. versServeur[c] # <<>>
    BY <2>2 DEF ServeurLit
  <2>4. Head(versServeur[c]).type = "temps" /\ 1 \in 1 .. Len(versServeur[c])
        /\ Head(versServeur[c]) = versServeur[c][1]
    BY <1>3, <1>6, <2>3, TeteDuFlux DEF Ordre
  <2>5. Head(versServeur[c]).val = loc[c].temps
    BY <2>4 DEF Reponse
  <2>6. temps'[k] = loc[c].temps
    BY <1>1, <2>2, <2>5
  <2>7. PosServeur(k)' = 7
    BY <1>1, <2>2 DEF PosServeur, Boucle
  <2>8. k \in justes' <=> Rendu(c) = 1
    BY <1>3, <1>6, <2>2 DEF Reponse
  <2> QED BY <1>1, <1>2, <2>6, <2>7, <2>8
<1> QED BY <1>5, <1>6

\* Every step of the server keeps the answer of each connected client.
LEMMA ReponseServeur ==
  ASSUME RInv, NextServeur, UNCHANGED clientVars,
         NEW k \in actifs', NEW c \in Clients, Titulaire(k, c)', ~finClient'[c]
  PROVE  Reponse(k, c)'
<1>1. loc' = loc /\ pcC' = pcC /\ Rendu(c)' = Rendu(c) /\ ~finClient[c]
  BY Titulaires DEF clientVars, Rendu
<1>2. CASE k = nbClients /\ nbClients' # nbClients /\ lien[c] = "file"
  <2>1. PosServeur(k)' = 1
    BY <1>2, Accueilli
  <2>2. \A i \in 1 .. Len(versServeur[c]) : versServeur[c][i].type = "pret"
    BY <1>1, <1>2, Nouveau
  <2>3. \A i \in 1 .. Len(versServeur'[c]) : versServeur'[c][i].type = "pret"
    BY <2>2, ResteDuFlux
  <2> QED BY <2>1, <2>3 DEF Reponse
<1>3. CASE k \in actifs /\ Titulaire(k, c)
  <2>1. Reponse(k, c)
    BY <1>1, <1>3 DEF RInv, Fiche
  <2>2. \A i \in 1 .. Len(versServeur'[c]) :
          /\ versServeur'[c][i].type = "juste" => versServeur'[c][i].val = Rendu(c)
          /\ versServeur'[c][i].type = "temps" => versServeur'[c][i].val = loc[c].temps
    BY SMTT(60), <2>1, ResteDuFlux DEF Reponse
  <2>3. CASE \E l \in Slots, d \in Clients : RecevoirJuste(l, d) \/ RecevoirTemps(l, d)
    BY <1>1, <1>3, <2>1, <2>2, <2>3, ReponseJuste, ReponseTemps DEF Reponse
  <2>4. CASE FinGrille
    <3>1. PosServeur(k)' = 5 /\ justes' = {}
      BY <1>3, <2>4 DEF FinGrille, PosServeur, Boucle
    <3> QED BY <1>1, <2>2, <3>1 DEF Reponse
  <2>5. CASE FinDelai \/ FinChoix
    <3>1. PosServeur(k)' \in {1, 2} /\ pcS' \notin {"juste", "temps"}
      BY <2>5 DEF FinDelai, FinChoix, DebutAttente, PosServeur
    <3> QED BY <1>1, <2>2, <3>1 DEF Reponse
  <2>6. CASE /\ ~(\E l \in Slots, d \in Clients : RecevoirJuste(l, d) \/ RecevoirTemps(l, d))
             /\ ~FinGrille /\ ~FinDelai /\ ~FinChoix
    <3>1. UNCHANGED <<temps, justes>> /\ pcS # "temps" /\ pcS' \notin {"juste", "temps"}
      <4>1. CASE \/ Demarrer \/ AccepterPremier \/ AccepterAutre \/ Select \/ Fermeture
                 \/ TueParSigpipe \/ FinTour \/ FinSignal \/ FinTemps \/ FinBilan
                 \/ FinResultats \/ SelectErreur \/ (\E l \in Slots : Bilan(l))
        BY <4>1 DEF Demarrer, AccepterPremier, AccepterAutre, Select, Fermeture,
             TueParSigpipe, FinTour, FinSignal, FinTemps, FinBilan, FinResultats,
             SelectErreur, Bilan, mancheVars, EtatsEnvoi
      <4>2. CASE \E l \in Slots, d \in Clients :
                   \/ LirePret(l, d) \/ EnvoyerSignal(l, d) \/ EnvoyerForme(l, d)
                   \/ EnvoyerIndices(l, d) \/ EnvoyerMeilleur(l, d) \/ EnvoyerPire(l, d)
                   \/ RecevoirChoix(l, d)
        BY <4>2 DEF LirePret, EnvoyerSignal, EnvoyerForme, EnvoyerIndices, EnvoyerMeilleur,
             EnvoyerPire, RecevoirChoix, mancheVars
      <4> QED BY <2>6, <4>1, <4>2 DEF NextServeur, PasServeur, EchangeAvec
    <3>2. PosServeur(k) # 6 /\ PosServeur(k) \in 1 .. 10
      BY <1>3, <3>1, PosBornee DEF PosServeur, Boucle
    <3>3. ~ServeurFini'
      BY ApresServeur DEF Apres, Titulaire
    <3>4. PosServeur(k)' \in {1, PosServeur(k), PosServeur(k) + 1}
      BY <1>3, <3>3, PasDePos
    <3>5. PosServeur(k)' # 6
      BY <3>1 DEF PosServeur, Boucle
    <3>6. PosServeur(k)' \in 7 .. 9 => PosServeur(k) \in 7 .. 9
      BY <3>2, <3>4
    <3> QED BY <1>1, <2>1, <2>2, <3>1, <3>5, <3>6 DEF Reponse
  <2> QED BY <2>3, <2>4, <2>5, <2>6
<1> QED BY <1>2, <1>3, Titulaires

-----------------------------------------------------------------------------
\* Who is read has not confirmed yet (serveur.c:139).
LEMMA ConfirmesServeur ==
  ASSUME RInv, NextServeur
  PROVE  Confirmes'
<1>1. CASE Demarrer \/ AccepterPremier \/ AccepterAutre
  BY <1>1 DEF Demarrer, AccepterPremier, AccepterAutre, RInv, Confirmes
<1>2. CASE Select
  BY <1>2 DEF Select, ALire, Confirmes
<1>3. CASE \E k \in Slots, c \in Clients : LirePret(k, c)
  BY <1>3 DEF LirePret, RInv, Confirmes
<1>4. CASE \/ FinDelai \/ FinTour \/ FinSignal \/ FinGrille \/ FinTemps \/ FinBilan
           \/ FinResultats \/ FinChoix \/ Fermeture \/ TueParSigpipe \/ SelectErreur
           \/ (\E k \in Slots : Bilan(k))
  <2>1. pcS' \notin {"demarrage", "premier", "autres", "prets"}
    BY <1>4 DEF FinDelai, FinTour, FinSignal, FinGrille, FinTemps, FinBilan, FinResultats,
         FinChoix, Fermeture, TueParSigpipe, SelectErreur, Bilan, DebutAttente
  <2> QED BY <2>1 DEF Confirmes
<1>5. CASE \E k \in Slots, c \in Clients :
             \/ EnvoyerSignal(k, c) \/ EnvoyerForme(k, c) \/ EnvoyerIndices(k, c)
             \/ RecevoirJuste(k, c) \/ RecevoirTemps(k, c) \/ EnvoyerMeilleur(k, c)
             \/ EnvoyerPire(k, c) \/ RecevoirChoix(k, c)
  <2>1. pcS' \notin {"demarrage", "premier", "autres", "prets"}
    BY <1>5 DEF EnvoyerSignal, EnvoyerForme, EnvoyerIndices, RecevoirJuste, RecevoirTemps,
         EnvoyerMeilleur, EnvoyerPire, RecevoirChoix
  <2> QED BY <2>1 DEF Confirmes
<1> QED BY <1>1, <1>2, <1>3, <1>4, <1>5 DEF NextServeur, PasServeur, EchangeAvec

\* The results stay true while the choices come in.
LEMMA BilanChoixServeur ==
  ASSUME RInv, NextServeur
  PROVE  BilanChoix'
<1>1. CASE FinResultats
  <2>1. BilanDe(actifs)
    BY <1>1 DEF FinResultats, RInv, IInv, BilanInv
  <2> QED BY <1>1, <2>1 DEF FinResultats, BilanDe, BilanChoix, salonVars
<1>2. CASE \E k \in Slots, c \in Clients : RecevoirChoix(k, c)
  <2>1. pcS = "choix" /\ actifs' \subseteq actifs /\ UNCHANGED <<temps, justes, meilleur, pire>>
    BY <1>2 DEF RecevoirChoix, Deconnecter, Depart, salonVars
  <2> QED BY <2>1 DEF RInv, BilanChoix
<1>3. CASE \/ AccepterPremier \/ AccepterAutre \/ FinDelai \/ Select \/ FinTour \/ FinSignal
           \/ FinGrille \/ FinTemps \/ FinBilan \/ FinChoix \/ Fermeture
           \/ (\E k \in Slots : Bilan(k))
           \/ Demarrer \/ SelectErreur \/ TueParSigpipe
  <2>1. pcS' # "choix"
    BY <1>3 DEF AccepterPremier, AccepterAutre, FinDelai, Select, FinTour, FinSignal,
         FinGrille, FinTemps, FinBilan, FinChoix, Fermeture, Bilan, Demarrer,
         SelectErreur, TueParSigpipe, DebutAttente
  <2> QED BY <2>1 DEF BilanChoix
<1>4. CASE \E k \in Slots, c \in Clients :
             \/ LirePret(k, c) \/ EnvoyerSignal(k, c) \/ EnvoyerForme(k, c)
             \/ EnvoyerIndices(k, c) \/ RecevoirJuste(k, c) \/ RecevoirTemps(k, c)
             \/ EnvoyerMeilleur(k, c) \/ EnvoyerPire(k, c)
  <2>1. pcS' # "choix"
    BY <1>4 DEF LirePret, EnvoyerSignal, EnvoyerForme, EnvoyerIndices, RecevoirJuste,
         RecevoirTemps, EnvoyerMeilleur, EnvoyerPire
  <2> QED BY <2>1 DEF BilanChoix
<1> QED BY <1>1, <1>2, <1>3, <1>4 DEF NextServeur, PasServeur, EchangeAvec

\* Every action of the server preserves the invariant of the whole game.
LEMMA ServeurRInv ==
  ASSUME RInv, NextServeur, UNCHANGED clientVars
  PROVE  RInv'
<1>1. IInv' /\ RejoueurGarde'
  BY ServeurInv, GardeServeur DEF RInv
<1>2. TypesClients'
  <2>1. versClient' \in [Clients -> Seq(UnitesClient)]
    <3>1. versClient \in [Clients -> Seq(UnitesClient)]
      BY DEF RInv, TypesClients
    <3>2. ASSUME NEW k \in Slots, NEW c \in Clients, NEW m, Envoi(k, c, m)
          PROVE  versClient' \in [Clients -> Seq(UnitesClient)]
      <4>1. Append(versClient[c], m) \in Seq(UnitesClient)
        BY <3>2, TypeUnite, TypesFlux, Ajout
      <4> QED BY <3>1, <3>2, <4>1 DEF Envoi, ServeurEnvoie
    <3> QED BY <3>1, <3>2, TroisPas DEF Muet, Lecture, ServeurLit
  <2> QED BY <2>1 DEF RInv, TypesClients, clientVars
<1>3. Confirmes' /\ Apres' /\ BilanChoix'
  BY ConfirmesServeur, ApresServeur, BilanChoixServeur
<1>4. ASSUME NEW c \in Clients PROVE Fiche(c)'
  <2>1. Processus(c)' /\ Suite(c)'
    BY ProcessusServeur, SuiteServeur
  <2>2. \A k \in actifs' : Titulaire(k, c)' => (~finClient'[c] => Reponse(k, c)')
    BY ReponseServeur
  <2>3. EnLigne(c)' => Tirage(c)' /\ Resultat(c)'
    BY TirageServeur, ResultatServeur
  <2> QED BY <2>1, <2>2, <2>3, ConverseServeur DEF Fiche
<1> QED BY <1>1, <1>2, <1>3, <1>4 DEF RInv


-----------------------------------------------------------------------------
(***************************************************************************)
(* The clients' steps.                                                     *)
(***************************************************************************)
\* Nothing of the client d changes.
Meme(d) ==
  /\ versServeur'[d] = versServeur[d] /\ versClient'[d] = versClient[d]
  /\ finClient'[d] = finClient[d] /\ lien'[d] = lien[d] /\ descr'[d] = descr[d]
  /\ pcC'[d] = pcC[d] /\ loc'[d] = loc[d]

\* A client does not move the server.
LEMMA PosFixe ==
  ASSUME UNCHANGED serveurVars, NEW k
  PROVE  PosServeur(k)' = PosServeur(k)
BY DEF serveurVars, PosServeur, Boucle, Tete

\* A client to which nothing happens keeps its part of the invariant.
LEMMA Cadre ==
  ASSUME RInv, UNCHANGED serveurVars, NEW d \in Clients, Meme(d)
  PROVE  Fiche(d)'
<1>1. Fiche(d) /\ actifs' = actifs
  BY DEF RInv, serveurVars
<1>2. Processus(d)' /\ Suite(d)'
  BY <1>1 DEF Fiche, Processus, Suite, Meme
<1>3. \A k \in actifs : Titulaire(k, d)' <=> Titulaire(k, d)
  BY DEF Titulaire, Meme, serveurVars
<1>4. \A p : Converse(p, d)' <=> Converse(p, d)
  BY DEF Converse, Meme
<1>5. \A k \in actifs : Converse(PosServeur(k), d)' <=> Converse(PosServeur(k), d)
  BY <1>4, PosFixe DEF Converse, Meme
<1>6. \A k \in actifs : Reponse(k, d) => Reponse(k, d)'
  <2> SUFFICES ASSUME NEW k \in actifs, Reponse(k, d) PROVE Reponse(k, d)'
    OBVIOUS
  <2>1. PosServeur(k)' = PosServeur(k) /\ Rendu(d)' = Rendu(d)
    BY PosFixe DEF Rendu, Meme
  <2> QED BY <2>1 DEF Reponse, Meme, serveurVars
<1>7. (EnLigne(d)' <=> EnLigne(d)) /\ (Tirage(d) => Tirage(d)') /\ (Resultat(d) => Resultat(d)')
  BY DEF EnLigne, Tirage, Resultat, Meme, serveurVars
<1>8. lien'[d] = "file" => Converse(1, d)'
  BY <1>1, <1>4 DEF Fiche, Meme
<1>9. finClient'[d] = finClient[d]
  BY DEF Meme
<1> QED BY <1>1, <1>2, <1>3, <1>5, <1>6, <1>7, <1>8, <1>9 DEF Fiche

\* A running client has a connection and has not closed it.
LEMMA Marche ==
  ASSUME RInv, NEW c \in Clients, pcC[c] \in EnMarche
  PROVE  lien[c] # "libre" /\ ~finClient[c] /\ Pos(pcC[c]) \in 1 .. 9
<1>1. lien[c] # "libre" /\ ~finClient[c]
  BY DEF RInv, Fiche, Processus, EnMarche
<1> QED BY <1>1, PosClient

\* send() of a client and the conversation.
LEMMA EnvoiClient ==
  ASSUME RInv, UNCHANGED serveurVars, NEW c \in Clients, NEW m \in Unites, ClientEnvoie(c, m),
         pcC[c] \in EnMarche, pcC'[c] \in EnMarche,
         Pos(pcC[c]) \in DuClient, m.type = Ordre[Pos(pcC[c])],
         Pos(pcC'[c]) = (IF Pos(pcC[c]) = 9 THEN 1 ELSE Pos(pcC[c]) + 1),
         m.type = "pret" => m.val = SIGNAL
  PROVE  /\ Processus(c)' /\ Suite(c)'
         /\ lien'[c] = "file" => Converse(1, c)'
         /\ \A k \in actifs : Titulaire(k, c)' => Converse(PosServeur(k), c)' /\ Titulaire(k, c)
         /\ versClient'[c] = <<>> /\ finClient' = finClient
         /\ lien'[c] = "ouvert" =>
              lien[c] = "ouvert" /\ versServeur'[c] = Append(versServeur[c], m)
<1>1. lien[c] # "libre" /\ ~finClient[c] /\ Pos(pcC[c]) \in 1 .. 9
  BY Marche
<1>2. versServeur[c] \in Seq(Unites) /\ versClient[c] \in Seq(UnitesClient)
      /\ Len(versServeur[c]) \in Nat
  BY TypesFlux
<1>3. versClient[c] = <<>>
  BY <1>1, <1>2, ClientALu DEF RInv, Fiche, Suite
<1>4. /\ UNCHANGED <<lien, descr, versClient, finClient>>
      /\ \/ versServeur'[c] = versServeur[c] /\ lien[c] = "ferme"
         \/ versServeur'[c] = Append(versServeur[c], m)
  BY DEF ClientEnvoie, RInv, IInv, TypeServeur, TypeSockets
<1>5. Processus(c)'
  BY <1>1, <1>4 DEF Processus, EnMarche
<1>6. Suite(c)'
  <2>1. AligneClient(Pos(pcC'[c]), versClient'[c]) /\ versClient'[c] = <<>>
    BY <1>3, <1>4 DEF AligneClient
  <2>2. \A i \in 1 .. Len(versServeur'[c]) :
          versServeur'[c][i].type = "pret" => versServeur'[c][i].val = SIGNAL
    <3>1. \A i \in 1 .. Len(versServeur[c]) :
            versServeur[c][i].type = "pret" => versServeur[c][i].val = SIGNAL
      BY DEF RInv, Fiche, Suite
    <3>2. CASE versServeur'[c] = Append(versServeur[c], m)
      <4>1. /\ Len(versServeur'[c]) = Len(versServeur[c]) + 1
            /\ \A i \in 1 .. Len(versServeur[c]) : versServeur'[c][i] = versServeur[c][i]
            /\ versServeur'[c][Len(versServeur[c]) + 1] = m
        BY <1>2, <3>2, Ajout
      <4> QED BY <1>2, <3>1, <4>1
    <3> QED BY <1>4, <3>1, <3>2
  <2> QED BY <2>1, <2>2 DEF Suite
<1>7. ASSUME NEW p \in 1 .. 10, Converse(p, c), lien[c] # "ferme" PROVE Converse(p, c)'
  <2>1. versServeur'[c] = Append(versServeur[c], m)
    BY <1>4, <1>7
  <2>2. Accord(p, Pos(pcC[c]), versServeur[c], versClient[c])
    BY <1>1, <1>7 DEF Converse
  <2>3. Accord(p, Pos(pcC'[c]), Append(versServeur[c], m), versClient[c])
    BY <1>1, <1>2, <2>2, AccordEnvoiClient
  <2>4. Accord(p, Pos(pcC'[c]), versServeur'[c], versClient'[c])
    BY <1>4, <2>1, <2>3
  <2> QED BY <2>4 DEF Converse, Accord
<1>8. lien'[c] = "file" => Converse(1, c)'
  BY <1>4, <1>7 DEF RInv, Fiche
<1>9. ASSUME NEW k \in actifs, Titulaire(k, c)'
      PROVE  Converse(PosServeur(k), c)' /\ Titulaire(k, c)
  <2>1. Titulaire(k, c)
    BY <1>4, <1>9 DEF Titulaire, serveurVars
  <2>2. Converse(PosServeur(k), c) /\ PosServeur(k) \in 1 .. 10 /\ lien[c] # "ferme"
    BY <2>1, PosBornee DEF RInv, Fiche, Titulaire
  <2>3. PosServeur(k)' = PosServeur(k)
    BY PosFixe
  <2> QED BY <1>7, <2>1, <2>2, <2>3 DEF Converse
<1> QED BY <1>3, <1>4, <1>5, <1>6, <1>8, <1>9


\* recv() of a client and the conversation: it reads a unit, or the connection
\* is over.
LitOuFini(c) ==
  \/ versClient[c] # <<>> /\ ClientLit(c) /\ Pos(pcC'[c]) = Pos(pcC[c]) + 1
  \/ versClient[c] = <<>> /\ lien[c] = "ferme" /\ UNCHANGED sockVars
\* A recv() of client.c, or one that finds the connection over, keeps the
\* conversation.
LEMMA LectureClient ==
  ASSUME RInv, UNCHANGED serveurVars, NEW c \in Clients,
         pcC[c] \in EnMarche, pcC'[c] \in EnMarche, LitOuFini(c)
  PROVE  /\ Processus(c)' /\ Suite(c)'
         /\ lien'[c] = "file" => Converse(1, c)'
         /\ \A k \in actifs : Titulaire(k, c)' => Converse(PosServeur(k), c)' /\ Titulaire(k, c)
         /\ UNCHANGED <<lien, versServeur, finClient>>
<1>1. lien[c] # "libre" /\ ~finClient[c] /\ Pos(pcC[c]) \in 1 .. 9
  BY Marche
<1>2. versServeur[c] \in Seq(Unites) /\ versClient[c] \in Seq(UnitesClient)
      /\ Len(versClient[c]) \in Nat
  BY TypesFlux
<1>3. /\ UNCHANGED <<lien, descr, versServeur, finClient>>
      /\ \/ /\ versClient[c] # <<>> /\ versClient'[c] = Tail(versClient[c])
            /\ Pos(pcC'[c]) = Pos(pcC[c]) + 1
         \/ versClient[c] = <<>> /\ versClient'[c] = <<>> /\ lien[c] = "ferme"
  BY DEF LitOuFini, ClientLit, RInv, TypesClients, sockVars
<1>4. Processus(c)'
  BY <1>1, <1>3 DEF Processus, EnMarche
<1>5. Suite(c)'
  <2>1. Suite(c)
    BY DEF RInv, Fiche
  <2>2. CASE versClient'[c] = <<>>
    BY <1>3, <2>1, <2>2 DEF Suite, AligneClient
  <2>3. CASE /\ versClient[c] # <<>> /\ versClient'[c] = Tail(versClient[c])
             /\ Pos(pcC'[c]) = Pos(pcC[c]) + 1
    <3>1. AligneClient(Pos(pcC'[c]), versClient'[c])
      BY <1>1, <1>2, <2>1, <2>3, AligneLectureClient DEF Suite
    <3>2. /\ Len(versClient'[c]) = Len(versClient[c]) - 1
          /\ \A i \in 1 .. Len(versClient[c]) - 1 : versClient'[c][i] = versClient[c][i + 1]
      BY <1>2, <2>3, Retrait
    <3>3. ASSUME NEW i \in 1 .. Len(versClient'[c]), versClient'[c][i].type = "signal"
          PROVE  versClient'[c][i].val = SIGNAL
      <4>1. i \in 1 .. Len(versClient[c]) - 1 /\ i + 1 \in 1 .. Len(versClient[c])
        BY <1>2, <3>2
      <4> QED BY <2>1, <3>2, <3>3, <4>1 DEF Suite
    <3> QED BY <1>3, <2>1, <3>1, <3>3 DEF Suite
  <2> QED BY <1>3, <2>2, <2>3
<1>6. ASSUME NEW p \in 1 .. 10, Converse(p, c), lien[c] # "ferme" PROVE Converse(p, c)'
  <2>1. Accord(p, Pos(pcC[c]), versServeur[c], versClient[c])
    BY <1>1, <1>6 DEF Converse
  <2>2. Accord(p, Pos(pcC[c]) + 1, versServeur[c], Tail(versClient[c]))
    BY <1>1, <1>2, <1>3, <1>6, <2>1, AccordLectureClient
  <2>3. Accord(p, Pos(pcC'[c]), versServeur'[c], versClient'[c])
    BY <1>3, <1>6, <2>2
  <2> QED BY <2>3 DEF Converse, Accord
<1>7. lien'[c] = "file" => Converse(1, c)'
  BY <1>3, <1>6 DEF RInv, Fiche
<1>8. ASSUME NEW k \in actifs, Titulaire(k, c)'
      PROVE  Converse(PosServeur(k), c)' /\ Titulaire(k, c)
  <2>1. Titulaire(k, c)
    BY <1>3, <1>8 DEF Titulaire, serveurVars
  <2>2. Converse(PosServeur(k), c) /\ PosServeur(k) \in 1 .. 10 /\ lien[c] # "ferme"
    BY <2>1, PosBornee DEF RInv, Fiche, Titulaire
  <2>3. PosServeur(k)' = PosServeur(k)
    BY PosFixe
  <2> QED BY <1>6, <2>1, <2>2, <2>3 DEF Converse
<1> QED BY <1>3, <1>4, <1>5, <1>7, <1>8

\* What a connected client stores of the unit it reads.
Rangement(c) ==
  LET q == Pos(pcC[c])
      v == Head(versClient[c]).val
  IN  /\ loc'[c].juste = loc[c].juste /\ loc'[c].temps = loc[c].temps
      /\ loc'[c].forme = (IF q = 3 THEN v ELSE loc[c].forme)
      /\ loc'[c].indices = (IF q = 4 THEN v ELSE loc[c].indices)
      /\ loc'[c].meilleur = (IF q = 7 THEN v ELSE loc[c].meilleur)
      /\ loc'[c].pire = (IF q = 8 THEN v ELSE loc[c].pire)

\* recv() of a client puts the server's value where the client shows it.
LEMMA FicheLecture ==
  ASSUME RInv, UNCHANGED serveurVars, NEW c \in Clients,
         pcC[c] \in EnMarche, pcC'[c] \in EnMarche, LitOuFini(c),
         lien[c] = "ouvert" => Rangement(c)
  PROVE  Fiche(c)'
<1>1. /\ Processus(c)' /\ Suite(c)' /\ (lien'[c] = "file" => Converse(1, c)')
      /\ \A k \in actifs : Titulaire(k, c)' => Converse(PosServeur(k), c)' /\ Titulaire(k, c)
      /\ UNCHANGED <<lien, versServeur, finClient>> /\ actifs' = actifs
  BY LectureClient DEF serveurVars
<1>2. ~finClient[c] /\ Pos(pcC[c]) \in 1 .. 9
  BY Marche
<1>3. CASE lien[c] # "ouvert"
  BY <1>1, <1>3 DEF Fiche, EnLigne, Titulaire
<1>4. CASE lien[c] = "ouvert"
  <2>1. Tirage(c) /\ Resultat(c) /\ Suite(c) /\ Rangement(c)
    BY <1>2, <1>4 DEF RInv, Fiche, EnLigne
  <2>2. /\ versClient[c] # <<>> /\ versClient'[c] = Tail(versClient[c])
        /\ Pos(pcC'[c]) = Pos(pcC[c]) + 1 /\ versClient[c] \in Seq(UnitesClient)
    BY <1>4, TypesFlux DEF LitOuFini, ClientLit, RInv, TypesClients
  <2>3. /\ Pos(pcC[c]) \in DuServeur /\ versClient[c][1].type = Ordre[Pos(pcC[c])]
        /\ Head(versClient[c]) = versClient[c][1] /\ 1 \in 1 .. Len(versClient[c])
        /\ \A i \in 1 .. Len(versClient'[c]) :
             i + 1 \in 1 .. Len(versClient[c]) /\ versClient'[c][i] = versClient[c][i + 1]
    <3>1. /\ Len(versClient[c]) \in Nat /\ Len(versClient[c]) >= 1
          /\ Len(versClient'[c]) = Len(versClient[c]) - 1
          /\ \A i \in 1 .. Len(versClient[c]) - 1 : versClient'[c][i] = versClient[c][i + 1]
          /\ Head(versClient[c]) = versClient[c][1]
      BY <2>2, Retrait
    <3>2. Pos(pcC[c]) \in DuServeur /\ Head(versClient[c]).type = Ordre[Pos(pcC[c])]
      BY <1>2, <2>1, <2>2, AligneLectureClient DEF Suite
    <3> QED BY <3>1, <3>2
  <2> DEFINE q == Pos(pcC[c])
             v == versClient[c][1].val
  <2>4. q \in {2, 3, 4, 7, 8} /\ Pos(pcC'[c]) = q + 1
    BY <2>2, <2>3 DEF DuServeur
  <2>5. /\ q = 3 => versClient[c][1].type = "forme" /\ loc'[c].forme = v
        /\ q # 3 => loc'[c].forme = loc[c].forme
        /\ q = 4 => versClient[c][1].type = "indices" /\ loc'[c].indices = v
        /\ q # 4 => loc'[c].indices = loc[c].indices
        /\ q = 7 => versClient[c][1].type = "meilleur" /\ loc'[c].meilleur = v
        /\ q # 7 => loc'[c].meilleur = loc[c].meilleur
        /\ q = 8 => versClient[c][1].type = "pire" /\ loc'[c].pire = v
        /\ q # 8 => loc'[c].pire = loc[c].pire
    BY <2>1, <2>3 DEF Rangement, Ordre
  <2>6. Tirage(c)'
    <3>1. forme' = forme /\ indices' = indices
      BY DEF serveurVars
    <3>2. \A i \in 1 .. Len(versClient'[c]) :
            /\ versClient'[c][i].type = "forme" => versClient'[c][i].val = forme
            /\ versClient'[c][i].type = "indices" => versClient'[c][i].val = indices
      BY <2>1, <2>3 DEF Tirage
    <3>3. (q = 3 => v = forme) /\ (q = 4 => v = indices)
      BY <2>1, <2>3, <2>5 DEF Tirage
    <3>4. Pos(pcC'[c]) \in 4 .. 8 => loc'[c].forme = forme
      BY <2>1, <2>4, <2>5, <3>3 DEF Tirage
    <3>5. Pos(pcC'[c]) \in 5 .. 8 => loc'[c].indices = indices
      BY <2>1, <2>4, <2>5, <3>3 DEF Tirage
    <3> QED BY <3>1, <3>2, <3>4, <3>5 DEF Tirage
  <2>7. Resultat(c)'
    <3>1. meilleur' = meilleur /\ pire' = pire
      BY DEF serveurVars
    <3>2. \A i \in 1 .. Len(versClient'[c]) :
            /\ versClient'[c][i].type = "meilleur" => versClient'[c][i].val = meilleur
            /\ versClient'[c][i].type = "pire" => versClient'[c][i].val = pire
      BY <2>1, <2>3 DEF Resultat
    <3>3. (q = 7 => v = meilleur) /\ (q = 8 => v = pire)
      BY <2>1, <2>3, <2>5 DEF Resultat
    <3>4. Pos(pcC'[c]) \in 8 .. 9 => loc'[c].meilleur = meilleur
      BY <2>1, <2>4, <2>5, <3>3 DEF Resultat
    <3>5. Pos(pcC'[c]) = 9 => loc'[c].pire = pire
      BY <2>1, <2>4, <2>5, <3>3 DEF Resultat
    <3> QED BY <3>1, <3>2, <3>4, <3>5 DEF Resultat
  <2>8. ASSUME NEW k \in actifs, Titulaire(k, c)' PROVE Reponse(k, c)'
    <3>1. Reponse(k, c) /\ PosServeur(k)' = PosServeur(k)
      BY <1>1, <1>2, <2>8, PosFixe DEF RInv, Fiche
    <3>2. Rendu(c)' = Rendu(c) /\ loc'[c].temps = loc[c].temps
      BY <2>1 DEF Rangement, Rendu
    <3>3. Pos(pcC'[c]) \in 7 .. 9 => q \in 7 .. 9
      BY <2>4
    <3>4. UNCHANGED <<pcS, justes, temps>> /\ versServeur' = versServeur
      BY <1>1 DEF serveurVars
    <3> QED BY <3>1, <3>2, <3>3, <3>4 DEF Reponse
  <2> QED BY <1>1, <2>6, <2>7, <2>8 DEF Fiche
<1> QED BY <1>3, <1>4


\* send() of a client carries its own answer.
LEMMA FicheEnvoi ==
  ASSUME RInv, UNCHANGED serveurVars, NEW c \in Clients, NEW m \in Unites, ClientEnvoie(c, m),
         pcC[c] \in EnMarche, pcC'[c] \in EnMarche,
         Pos(pcC[c]) \in DuClient, m.type = Ordre[Pos(pcC[c])],
         Pos(pcC'[c]) = (IF Pos(pcC[c]) = 9 THEN 1 ELSE Pos(pcC[c]) + 1),
         m.type = "pret" => m.val = SIGNAL,
         Pos(pcC[c]) # 9 => loc'[c] = loc[c],
         m.type = "juste" => m.val = Rendu(c),
         m.type = "temps" => m.val = loc[c].temps
  PROVE  Fiche(c)'
<1>1. /\ Processus(c)' /\ Suite(c)' /\ (lien'[c] = "file" => Converse(1, c)')
      /\ \A k \in actifs : Titulaire(k, c)' => Converse(PosServeur(k), c)' /\ Titulaire(k, c)
      /\ versClient'[c] = <<>> /\ finClient' = finClient /\ actifs' = actifs
      /\ lien'[c] = "ouvert" =>
           lien[c] = "ouvert" /\ versServeur'[c] = Append(versServeur[c], m)
  BY EnvoiClient DEF serveurVars
<1>2. ~finClient[c] /\ Pos(pcC[c]) \in 1 .. 9
  BY Marche
<1>3. Pos(pcC[c]) \in {1, 5, 6, 9}
  BY <1>2 DEF DuClient
<1>4. ASSUME EnLigne(c)' PROVE Tirage(c)' /\ Resultat(c)'
  <2>1. Tirage(c) /\ forme' = forme /\ indices' = indices
    BY <1>1, <1>2, <1>4 DEF RInv, Fiche, EnLigne, serveurVars
  <2>2. Tirage(c)'
    BY <1>1, <1>3, <2>1 DEF Tirage
  <2>3. Resultat(c)'
    BY <1>1, <1>3 DEF Resultat
  <2> QED BY <2>2, <2>3
<1>5. ASSUME NEW k \in actifs, Titulaire(k, c)' PROVE Reponse(k, c)'
  <2>1. /\ Reponse(k, c) /\ Titulaire(k, c) /\ PosServeur(k)' = PosServeur(k)
        /\ PosServeur(k) \in 1 .. 10
        /\ Accord(PosServeur(k), Pos(pcC[c]), versServeur[c], versClient[c])
    BY <1>1, <1>2, <1>5, PosFixe, PosBornee DEF RInv, Fiche, Converse
  <2>2. versServeur[c] \in Seq(Unites) /\ versClient[c] \in Seq(UnitesClient)
        /\ Len(versServeur[c]) \in Nat
    BY TypesFlux
  <2>3. /\ Pos(pcC[c]) = 6 => PosServeur(k) \in {5, 6}
        /\ Pos(pcC[c]) = 9 => PosServeur(k) = 9 /\ versServeur[c] = <<>>
    BY <1>2, <2>1, <2>2, OuEstLeClient
  <2>4. /\ Len(versServeur'[c]) = Len(versServeur[c]) + 1
        /\ \A i \in 1 .. Len(versServeur[c]) : versServeur'[c][i] = versServeur[c][i]
        /\ versServeur'[c][Len(versServeur[c]) + 1] = m
    <3>1. versServeur'[c] = Append(versServeur[c], m)
      BY <1>1, <1>5 DEF Titulaire
    <3> QED BY <2>2, <3>1, Ajout
  <2>5. UNCHANGED <<pcS, justes, temps>>
    BY DEF serveurVars
  <2>6. CASE Pos(pcC[c]) = 9
    <3>1. PosServeur(k)' = 9 /\ Pos(pcC'[c]) = 1 /\ m.type = "choix"
      BY <2>1, <2>3, <2>6 DEF Ordre
    <3>2. \A i \in 1 .. Len(versServeur'[c]) : versServeur'[c][i].type = "choix"
      BY <2>3, <2>4, <2>6, <3>1
    <3> QED BY <3>1, <3>2 DEF Reponse
  <2>7. CASE Pos(pcC[c]) # 9
    <3>1. loc'[c] = loc[c] /\ Rendu(c)' = Rendu(c)
      BY <2>7 DEF Rendu
    <3>2. \A i \in 1 .. Len(versServeur'[c]) :
            /\ versServeur'[c][i].type = "juste" => versServeur'[c][i].val = Rendu(c)
            /\ versServeur'[c][i].type = "temps" => versServeur'[c][i].val = loc[c].temps
      <4>1. ASSUME NEW i \in 1 .. Len(versServeur'[c])
            PROVE  (i \in 1 .. Len(versServeur[c]) /\ versServeur'[c][i] = versServeur[c][i])
                   \/ versServeur'[c][i] = m
        BY <2>2, <2>4
      <4> QED BY <2>1, <4>1 DEF Reponse
    <3>3. ~(PosServeur(k) \in 7 .. 9 /\ Pos(pcC'[c]) \in 7 .. 9)
      BY <1>3, <2>3, <2>7
    <3> QED BY <2>1, <2>5, <3>1, <3>2, <3>3 DEF Reponse
  <2> QED BY <2>6, <2>7
<1> QED BY <1>1, <1>4, <1>5 DEF Fiche

\* A client that closes, or whose process ends, leaves its stream in order.
LEMMA FicheFermeture ==
  ASSUME RInv, UNCHANGED serveurVars, NEW c \in Clients, ClientFerme(c),
         pcC'[c] \in {"fini", "tue"}
  PROVE  Fiche(c)'
<1>1. /\ finClient'[c] = TRUE /\ versClient'[c] = <<>> /\ lien[c] # "libre"
      /\ UNCHANGED <<lien, descr, versServeur>>
  BY DEF ClientFerme, RInv, IInv, TypeServeur, TypeSockets, TypesClients
<1>2. Fiche(c) /\ actifs' = actifs /\ clients' = clients
  BY DEF RInv, serveurVars
<1>3. Processus(c)'
  BY <1>1 DEF Processus
<1>4. Suite(c)'
  BY <1>1, <1>2 DEF Fiche, Suite, AligneClient
<1>5. \A p : Converse(p, c) => Converse(p, c)'
  BY <1>1 DEF Converse
<1>6. ASSUME NEW k \in actifs, Titulaire(k, c)' PROVE Converse(PosServeur(k), c)'
  <2>1. Titulaire(k, c) /\ PosServeur(k)' = PosServeur(k)
    BY <1>1, <1>2, <1>6, PosFixe DEF Titulaire
  <2> QED BY <1>1, <1>2, <2>1 DEF Fiche, Converse
<1>7. ~EnLigne(c)'
  BY <1>1 DEF EnLigne
<1>8. lien'[c] = "file" => Converse(1, c)'
  BY <1>1, <1>2, <1>5 DEF Fiche
<1> QED BY <1>1, <1>2, <1>3, <1>4, <1>6, <1>7, <1>8 DEF Fiche

\* connect(): the two ends are at the beginning.
LEMMA FicheConnexion ==
  ASSUME RInv, UNCHANGED serveurVars, NEW c \in Clients, Connecter(c)
  PROVE  Fiche(c)'
<1>1. /\ pcC'[c] = "tactile" /\ lien[c] = "libre" /\ lien'[c] = "file"
      /\ UNCHANGED <<versServeur, versClient, finClient>>
  BY DEF Connecter, Aller, ClientConnecte, RInv, IInv, TypeServeur, TypeSockets, TypesClients
<1>2. versServeur[c] = <<>> /\ versClient[c] = <<>> /\ ~finClient[c]
  BY <1>1 DEF RInv, Fiche, Processus
<1>3. Accord(1, 1, <<>>, <<>>)
  BY DEF Accord, AligneServeur, AligneClient
<1>4. Processus(c)' /\ Suite(c)'
  BY <1>1, <1>2 DEF Processus, Suite, AligneClient
<1>5. Converse(1, c)'
  <2>1. Pos(pcC'[c]) = 1
    BY <1>1 DEF Pos
  <2> QED BY <1>1, <1>2, <1>3, <2>1 DEF Converse, Accord
<1> QED BY <1>1, <1>4, <1>5 DEF Fiche, Titulaire, EnLigne

\* The chronometer runs and the answer is written while the server waits for it.
LEMMA FicheJeu ==
  ASSUME RInv, UNCHANGED serveurVars, NEW c \in Clients, Jouer(c)
  PROVE  Fiche(c)'
<1>1. /\ pcC[c] = "jeu" /\ pcC'[c] = "juste" /\ UNCHANGED sockVars
      /\ loc[c] \in Locales /\ loc'[c] = [loc[c] EXCEPT !.juste = loc'[c].juste,
                                                        !.temps = loc'[c].temps]
  BY DEF Jouer, Aller, RInv, TypesClients, Locales
<1>2. /\ loc'[c].forme = loc[c].forme /\ loc'[c].indices = loc[c].indices
      /\ Pos(pcC[c]) = 5 /\ Pos(pcC'[c]) = 5
  BY <1>1 DEF Pos, Locales
<1>3. Fiche(c) /\ actifs' = actifs /\ clients' = clients
      /\ UNCHANGED <<lien, descr, versServeur, versClient, finClient>>
  BY <1>1 DEF RInv, serveurVars, sockVars
<1>4. Processus(c)' /\ Suite(c)'
  BY <1>1, <1>2, <1>3 DEF Fiche, Processus, Suite
<1>5. \A p : Converse(p, c) => Converse(p, c)'
  BY <1>2, <1>3 DEF Converse
<1>6. ASSUME NEW k \in actifs, Titulaire(k, c)'
      PROVE  Converse(PosServeur(k), c)' /\ (~finClient[c] => Reponse(k, c)')
  <2>1. Titulaire(k, c) /\ PosServeur(k)' = PosServeur(k) /\ PosServeur(k) \in 1 .. 10
    BY <1>3, <1>6, PosFixe, PosBornee DEF Titulaire
  <2>2. Converse(PosServeur(k), c)'
    BY <1>2, <1>3, <2>1 DEF Fiche, Converse
  <2>3. ASSUME ~finClient[c] PROVE Reponse(k, c)'
    <3>1. /\ Accord(PosServeur(k), Pos(pcC[c]), versServeur[c], versClient[c]) /\ Reponse(k, c)
          /\ versServeur[c] \in Seq(Unites) /\ versClient[c] \in Seq(UnitesClient)
      BY <1>3, <2>1, <2>3, TypesFlux DEF Fiche, Converse
    <3>2. PosServeur(k) = 5 /\ versServeur[c] = <<>>
      BY <1>2, <2>1, <3>1, OuEstLeClient
    <3>3. pcS' = pcS /\ justes' = justes
      BY DEF serveurVars
    <3> QED BY <1>3, <2>1, <3>1, <3>2, <3>3 DEF Reponse
  <2> QED BY <2>2, <2>3
<1>7. EnLigne(c)' => Tirage(c)' /\ Resultat(c)'
  <2>1. EnLigne(c)' => EnLigne(c)
    BY <1>3 DEF EnLigne
  <2>2. forme' = forme /\ indices' = indices /\ meilleur' = meilleur /\ pire' = pire
    BY DEF serveurVars
  <2> QED BY <1>2, <1>3, <2>1, <2>2 DEF Fiche, Tirage, Resultat
<1>8. lien'[c] = "file" => Converse(1, c)'
  BY <1>3, <1>5 DEF Fiche
<1> QED BY <1>3, <1>4, <1>6, <1>7, <1>8 DEF Fiche


\* Every unit of a client is an integer or a character.
LEMMA UnitesDuClient ==
  ASSUME RInv, NEW c \in Clients
  PROVE  /\ Message("pret", SIGNAL) \in Unites
         /\ Message("juste", IF loc[c].juste THEN 1 ELSE 0) \in Unites
         /\ Message("temps", loc[c].temps) \in Unites
         /\ Message("choix", OUI) \in Unites /\ Message("choix", NON) \in Unites
<1>1. loc[c].temps \in Int
  BY DEF RInv, TypesClients, Locales
<1>2. ASSUME NEW t \in Genres, NEW v \in Int PROVE Message(t, v) \in Unites
  BY DEF Message, Unites
<1>3. "pret" \in Genres /\ "juste" \in Genres /\ "temps" \in Genres /\ "choix" \in Genres
  BY DEF Genres
<1>4. (IF loc[c].juste THEN 1 ELSE 0) \in Int /\ SIGNAL \in Int /\ OUI \in Int /\ NON \in Int
  BY DEF SIGNAL, OUI, NON
<1> QED BY <1>1, <1>2, <1>3, <1>4

\* The four sends.
LEMMA FicheEnvois ==
  ASSUME RInv, UNCHANGED serveurVars, NEW c \in Clients,
         Confirmer(c) \/ EnvoyerJuste(c) \/ EnvoyerTemps(c) \/ Choisir(c)
  PROVE  Fiche(c)'
<1> USE UnitesDuClient
<1>1. pcC \in [Clients -> EtatsClient] /\ loc \in [Clients -> Locales]
  BY DEF RInv, TypesClients
<1>2. CASE Confirmer(c)
  <2> DEFINE m == Message("pret", SIGNAL)
  <2>1. pcC[c] = "tactile" /\ pcC'[c] = "synchro" /\ ClientEnvoie(c, m) /\ loc' = loc
    BY <1>1, <1>2 DEF Confirmer, Aller
  <2>2. Pos(pcC[c]) = 1 /\ Pos(pcC'[c]) = 2 /\ pcC[c] \in EnMarche /\ pcC'[c] \in EnMarche
    BY <2>1 DEF Pos, EnMarche, EtatsClient
  <2>3. m.type = "pret" /\ m.val = SIGNAL /\ Ordre[1] = "pret" /\ 1 \in DuClient
    BY DEF Message, Ordre, DuClient
  <2> HIDE DEF m
  <2> QED BY <2>1, <2>2, <2>3, FicheEnvoi DEF m
<1>3. CASE EnvoyerJuste(c)
  <2> DEFINE m == Message("juste", IF loc[c].juste THEN 1 ELSE 0)
  <2>1. pcC[c] = "juste" /\ pcC'[c] = "temps" /\ ClientEnvoie(c, m) /\ loc' = loc
    BY <1>1, <1>3 DEF EnvoyerJuste, Aller
  <2>2. Pos(pcC[c]) = 5 /\ Pos(pcC'[c]) = 6 /\ pcC[c] \in EnMarche /\ pcC'[c] \in EnMarche
    BY <2>1 DEF Pos, EnMarche, EtatsClient
  <2>3. m.type = "juste" /\ m.val = Rendu(c) /\ Ordre[5] = "juste" /\ 5 \in DuClient
    BY DEF Message, Ordre, DuClient, Rendu
  <2> HIDE DEF m
  <2> QED BY <2>1, <2>2, <2>3, FicheEnvoi DEF m
<1>4. CASE EnvoyerTemps(c)
  <2> DEFINE m == Message("temps", loc[c].temps)
  <2>1. pcC[c] = "temps" /\ pcC'[c] = "meilleur" /\ ClientEnvoie(c, m) /\ loc' = loc
    BY <1>1, <1>4 DEF EnvoyerTemps, Aller
  <2>2. Pos(pcC[c]) = 6 /\ Pos(pcC'[c]) = 7 /\ pcC[c] \in EnMarche /\ pcC'[c] \in EnMarche
    BY <2>1 DEF Pos, EnMarche, EtatsClient
  <2>3. m.type = "temps" /\ m.val = loc[c].temps /\ Ordre[6] = "temps" /\ 6 \in DuClient
    BY DEF Message, Ordre, DuClient
  <2> HIDE DEF m
  <2> QED BY <2>1, <2>2, <2>3, FicheEnvoi DEF m
<1>5. CASE Choisir(c)
  <2>1. PICK v \in {OUI, NON} : ClientEnvoie(c, Message("choix", v))
    BY <1>5 DEF Choisir
  <2> DEFINE m == Message("choix", v)
  <2>2. pcC[c] = "choix" /\ pcC'[c] \in {"tactile", "fermer"} /\ m \in Unites
    BY <1>1, <1>5 DEF Choisir, Aller
  <2>3. Pos(pcC[c]) = 9 /\ Pos(pcC'[c]) = 1 /\ pcC[c] \in EnMarche /\ pcC'[c] \in EnMarche
    BY <2>2 DEF Pos, EnMarche, EtatsClient
  <2>4. m.type = "choix" /\ Ordre[9] = "choix" /\ 9 \in DuClient
    BY DEF Message, Ordre, DuClient
  <2> HIDE DEF m
  <2> QED BY <2>1, <2>2, <2>3, <2>4, FicheEnvoi DEF m
<1> QED BY <1>2, <1>3, <1>4, <1>5

\* The five receives.
LEMMA FicheLectures ==
  ASSUME RInv, UNCHANGED serveurVars, NEW c \in Clients,
         RecevoirSynchro(c) \/ RecevoirForme(c) \/ RecevoirIndices(c)
         \/ RecevoirMeilleur(c) \/ RecevoirPire(c)
  PROVE  Fiche(c)'
<1>1. pcC \in [Clients -> EtatsClient] /\ loc \in [Clients -> Locales] /\ loc[c] \in Locales
  BY DEF RInv, TypesClients
<1>2. ASSUME NEW R, NEW v \in Recu(c, R), Consommer(c)
      PROVE  \/ versClient[c] # <<>> /\ ClientLit(c) /\ v = Head(versClient[c]).val
             \/ versClient[c] = <<>> /\ lien[c] = "ferme" /\ UNCHANGED sockVars
  BY <1>2 DEF Recu, Consommer
<1>3. CASE RecevoirSynchro(c)
  <2>1. PICK v \in Recu(c, Residus) :
          pcC[c] = "synchro" /\ pcC'[c] = IF v = SIGNAL THEN "forme" ELSE "fermer"
    BY <1>1, <1>3 DEF RecevoirSynchro, Aller
  <2>2. Consommer(c) /\ loc' = loc
    BY <1>3 DEF RecevoirSynchro
  <2>3. Pos(pcC[c]) = 2 /\ pcC[c] \in EnMarche /\ pcC'[c] \in EnMarche
    BY <2>1 DEF Pos, EnMarche, EtatsClient
  <2>4. ASSUME versClient[c] # <<>>, v = Head(versClient[c]).val PROVE Pos(pcC'[c]) = 3
    <3>1. /\ versClient[c] \in Seq(UnitesClient) /\ Suite(c)
      BY TypesFlux DEF RInv, Fiche
    <3>2. Head(versClient[c]).type = Ordre[2] /\ Head(versClient[c]) = versClient[c][1]
          /\ 1 \in 1 .. Len(versClient[c])
      BY <2>3, <2>4, <3>1, AligneLectureClient, Retrait DEF Suite
    <3>3. v = SIGNAL
      BY <2>4, <3>1, <3>2 DEF Suite, Ordre
    <3> QED BY <2>1, <3>3 DEF Pos
  <2>5. LitOuFini(c)
    BY <1>2, <2>1, <2>2, <2>3, <2>4 DEF LitOuFini
  <2>6. Rangement(c)
    BY <2>2, <2>3 DEF Rangement
  <2> QED BY <2>3, <2>5, <2>6, FicheLecture
<1>4. CASE RecevoirForme(c)
  <2>1. PICK v \in Recu(c, Residus) : loc' = [loc EXCEPT ![c].forme = v]
    BY <1>4 DEF RecevoirForme
  <2>2. Consommer(c) /\ pcC[c] = "forme" /\ pcC'[c] = "indices"
    BY <1>1, <1>4 DEF RecevoirForme, Aller
  <2>3. Pos(pcC[c]) = 3 /\ Pos(pcC'[c]) = 4 /\ pcC[c] \in EnMarche /\ pcC'[c] \in EnMarche
    BY <2>2 DEF Pos, EnMarche, EtatsClient
  <2>4. LitOuFini(c) /\ (lien[c] = "ouvert" => v = Head(versClient[c]).val)
    BY <1>2, <2>1, <2>2, <2>3 DEF LitOuFini
  <2>5. lien[c] = "ouvert" => Rangement(c)
    BY <1>1, <2>1, <2>3, <2>4 DEF Rangement, Locales
  <2> QED BY <2>3, <2>4, <2>5, FicheLecture
<1>5. CASE RecevoirIndices(c)
  <2>1. PICK v \in Recu(c, [Formes -> Residus]) : loc' = [loc EXCEPT ![c].indices = v]
    BY <1>5 DEF RecevoirIndices
  <2>2. Consommer(c) /\ pcC[c] = "indices" /\ pcC'[c] = "jeu"
    BY <1>1, <1>5 DEF RecevoirIndices, Aller
  <2>3. Pos(pcC[c]) = 4 /\ Pos(pcC'[c]) = 5 /\ pcC[c] \in EnMarche /\ pcC'[c] \in EnMarche
    BY <2>2 DEF Pos, EnMarche, EtatsClient
  <2>4. LitOuFini(c) /\ (lien[c] = "ouvert" => v = Head(versClient[c]).val)
    BY <1>2, <2>1, <2>2, <2>3 DEF LitOuFini
  <2>5. lien[c] = "ouvert" => Rangement(c)
    BY <1>1, <2>1, <2>3, <2>4 DEF Rangement, Locales
  <2> QED BY <2>3, <2>4, <2>5, FicheLecture
<1>6. CASE RecevoirMeilleur(c)
  <2>1. PICK v \in Recu(c, Residus) : loc' = [loc EXCEPT ![c].meilleur = v]
    BY <1>6 DEF RecevoirMeilleur
  <2>2. Consommer(c) /\ pcC[c] = "meilleur" /\ pcC'[c] = "pire"
    BY <1>1, <1>6 DEF RecevoirMeilleur, Aller
  <2>3. Pos(pcC[c]) = 7 /\ Pos(pcC'[c]) = 8 /\ pcC[c] \in EnMarche /\ pcC'[c] \in EnMarche
    BY <2>2 DEF Pos, EnMarche, EtatsClient
  <2>4. LitOuFini(c) /\ (lien[c] = "ouvert" => v = Head(versClient[c]).val)
    BY <1>2, <2>1, <2>2, <2>3 DEF LitOuFini
  <2>5. lien[c] = "ouvert" => Rangement(c)
    BY <1>1, <2>1, <2>3, <2>4 DEF Rangement, Locales
  <2> QED BY <2>3, <2>4, <2>5, FicheLecture
<1>7. CASE RecevoirPire(c)
  <2>1. PICK v \in Recu(c, Residus) : loc' = [loc EXCEPT ![c].pire = v]
    BY <1>7 DEF RecevoirPire
  <2>2. Consommer(c) /\ pcC[c] = "pire" /\ pcC'[c] = "choix"
    BY <1>1, <1>7 DEF RecevoirPire, Aller
  <2>3. Pos(pcC[c]) = 8 /\ Pos(pcC'[c]) = 9 /\ pcC[c] \in EnMarche /\ pcC'[c] \in EnMarche
    BY <2>2 DEF Pos, EnMarche, EtatsClient
  <2>4. LitOuFini(c) /\ (lien[c] = "ouvert" => v = Head(versClient[c]).val)
    BY <1>2, <2>1, <2>2, <2>3 DEF LitOuFini
  <2>5. lien[c] = "ouvert" => Rangement(c)
    BY <1>1, <2>1, <2>3, <2>4 DEF Rangement, Locales
  <2> QED BY <2>3, <2>4, <2>5, FicheLecture
<1> QED BY <1>3, <1>4, <1>5, <1>6, <1>7


\* Every action of a client keeps its part of the invariant.
LEMMA FicheClient ==
  ASSUME RInv, UNCHANGED serveurVars, NEW c \in Clients, NextClient(c)
  PROVE  Fiche(c)'
<1>1. pcC \in [Clients -> EtatsClient]
  BY DEF RInv, TypesClients
<1>2. CASE EchecDemarrage(c)
  <2>1. pcC[c] = "depart" /\ pcC'[c] = "fini" /\ UNCHANGED sockVars
    BY <1>1, <1>2 DEF EchecDemarrage, Aller
  <2>2. lien[c] = "libre" /\ ~finClient[c] /\ versServeur[c] = <<>> /\ versClient[c] = <<>>
    BY <2>1 DEF RInv, Fiche, Processus
  <2>3. Processus(c)' /\ Suite(c)'
    BY <2>1, <2>2 DEF sockVars, Processus, Suite, AligneClient
  <2> QED BY <2>1, <2>2, <2>3 DEF sockVars, Fiche, Titulaire, EnLigne
<1>3. CASE Fermer(c) \/ LireHorsTable(c) \/ ClientTue(c) \/ Interrompre(c)
  <2>1. ClientFerme(c) /\ pcC'[c] \in {"fini", "tue"}
    BY <1>1, <1>3 DEF Fermer, LireHorsTable, ClientTue, Interrompre, Aller
  <2> QED BY <2>1, FicheFermeture
<1> QED BY <1>2, <1>3, FicheConnexion, FicheJeu, FicheEnvois, FicheLectures
        DEF NextClient, PasClient

\* A client does nothing to the connections of the others.
LEMMA Autres ==
  ASSUME RInv, NEW c \in Clients, NextClient(c), NEW d \in Clients, d # c
  PROVE  Meme(d)
<1>1. /\ pcC \in [Clients -> EtatsClient] /\ loc \in [Clients -> Locales]
      /\ versClient \in [Clients -> Seq(UnitesClient)]
      /\ versServeur \in [Clients -> Seq(Unites)] /\ finClient \in [Clients -> BOOLEAN]
      /\ lien \in [Clients -> Liens]
  BY DEF RInv, TypesClients, IInv, TypeServeur, TypeSockets
<1>2. pcC'[d] = pcC[d]
  BY <1>1 DEF NextClient, PasClient, EchecDemarrage, Connecter, Confirmer, RecevoirSynchro,
       RecevoirForme, RecevoirIndices, Jouer, LireHorsTable, EnvoyerJuste, EnvoyerTemps,
       RecevoirMeilleur, RecevoirPire, Choisir, Fermer, ClientTue, Interrompre, Aller
<1>3. loc'[d] = loc[d]
  BY <1>1 DEF NextClient, PasClient, EchecDemarrage, Connecter, Confirmer, RecevoirSynchro,
       RecevoirForme, RecevoirIndices, Jouer, LireHorsTable, EnvoyerJuste, EnvoyerTemps,
       RecevoirMeilleur, RecevoirPire, Choisir, Fermer, ClientTue, Interrompre
<1>4. \/ UNCHANGED sockVars \/ ClientConnecte(c) \/ (\E m : ClientEnvoie(c, m))
      \/ ClientLit(c) \/ ClientFerme(c)
  BY DEF NextClient, PasClient, EchecDemarrage, Connecter, Confirmer, RecevoirSynchro,
       RecevoirForme, RecevoirIndices, Jouer, LireHorsTable, EnvoyerJuste, EnvoyerTemps,
       RecevoirMeilleur, RecevoirPire, Choisir, Fermer, ClientTue, Interrompre, Consommer
<1>5. /\ versServeur'[d] = versServeur[d] /\ versClient'[d] = versClient[d]
      /\ lien'[d] = lien[d] /\ descr'[d] = descr[d]
  BY <1>1, <1>4 DEF ClientConnecte, ClientEnvoie, ClientLit, ClientFerme, sockVars
<1>6. finClient'[d] = finClient[d]
  BY <1>1, <1>4 DEF ClientConnecte, ClientEnvoie, ClientLit, ClientFerme, sockVars
<1> QED BY <1>2, <1>3, <1>5, <1>6 DEF Meme

\* The kinds of step of a client, seen from the sockets.
LEMMA ClasseClient ==
  ASSUME RInv, NEW c \in Clients, NextClient(c)
  PROVE  \/ UNCHANGED sockVars \/ Connecter(c) \/ (\E m \in Unites : ClientEnvoie(c, m))
         \/ ClientLit(c) \/ ClientFerme(c)
<1>1. CASE EchecDemarrage(c) \/ Jouer(c)
  BY <1>1 DEF EchecDemarrage, Jouer
<1>2. CASE Confirmer(c) \/ EnvoyerJuste(c) \/ EnvoyerTemps(c) \/ Choisir(c)
  BY <1>2, UnitesDuClient DEF Confirmer, EnvoyerJuste, EnvoyerTemps, Choisir
<1>3. CASE RecevoirSynchro(c) \/ RecevoirForme(c) \/ RecevoirIndices(c)
           \/ RecevoirMeilleur(c) \/ RecevoirPire(c)
  BY <1>3 DEF RecevoirSynchro, RecevoirForme, RecevoirIndices, RecevoirMeilleur, RecevoirPire,
       Consommer
<1>4. CASE Fermer(c) \/ LireHorsTable(c) \/ ClientTue(c) \/ Interrompre(c)
  BY <1>4 DEF Fermer, LireHorsTable, ClientTue, Interrompre
<1> QED BY <1>1, <1>2, <1>3, <1>4 DEF NextClient, PasClient

\* The values a client may store.
LEMMA TypeRecu ==
  ASSUME RInv, NEW c \in Clients
  PROVE  Recu(c, Residus) \subseteq Valeurs /\ Recu(c, [Formes -> Residus]) \subseteq Valeurs
<1>1. versClient[c] # <<>> => Head(versClient[c]).val \in Valeurs
  <2>1. versClient[c] # <<>> => Head(versClient[c]) \in UnitesClient
    BY TypesFlux, Retrait
  <2>2. \A u \in UnitesClient : u.val \in Valeurs
    BY DEF UnitesClient
  <2> QED BY <2>1, <2>2
<1>2. Residus \subseteq Valeurs /\ [Formes -> Residus] \subseteq Valeurs
  BY ClientAssumption DEF Valeurs
<1> QED BY <1>1, <1>2 DEF Recu

\* Every action of a client keeps the types of its variables.
LEMMA TypesClientEtape ==
  ASSUME RInv, NEW c \in Clients, NextClient(c)
  PROVE  TypesClients'
<1>1. /\ pcC \in [Clients -> EtatsClient] /\ loc \in [Clients -> Locales]
      /\ versClient \in [Clients -> Seq(UnitesClient)]
      /\ parties \in [Clients -> 1 .. MaxParties] /\ pannes \in 0 .. MaxPannes
  BY DEF RInv, TypesClients
<1>2. versClient' \in [Clients -> Seq(UnitesClient)]
  <2>1. <<>> \in Seq(UnitesClient)
    OBVIOUS
  <2>2. versClient[c] # <<>> => Tail(versClient[c]) \in Seq(UnitesClient)
    BY TypesFlux, Retrait
  <2> QED BY <1>1, <2>1, <2>2, ClasseClient
          DEF Connecter, ClientConnecte, ClientEnvoie, ClientLit, ClientFerme, sockVars
<1>3. pcC' \in [Clients -> EtatsClient]
  BY <1>1 DEF NextClient, PasClient, EchecDemarrage, Connecter, Confirmer, RecevoirSynchro,
       RecevoirForme, RecevoirIndices, Jouer, LireHorsTable, EnvoyerJuste, EnvoyerTemps,
       RecevoirMeilleur, RecevoirPire, Choisir, Fermer, ClientTue, Interrompre, Aller,
       EtatsClient
<1>4. loc' \in [Clients -> Locales]
  <2>1. CASE loc' = loc
    BY <1>1, <2>1
  <2>2. CASE loc' = [loc EXCEPT ![c] = LocVierge]
    <3>1. LocVierge \in Locales
      BY DEF LocVierge, Locales, Valeurs
    <3> QED BY <1>1, <2>2, <3>1
  <2>3. ASSUME NEW v \in Valeurs,
               \/ loc' = [loc EXCEPT ![c].forme = v] \/ loc' = [loc EXCEPT ![c].indices = v]
               \/ loc' = [loc EXCEPT ![c].meilleur = v] \/ loc' = [loc EXCEPT ![c].pire = v]
        PROVE  loc' \in [Clients -> Locales]
    <3> DEFINE r == loc[c]
    <3>1. r \in Locales
      BY <1>1
    <3>2. [r EXCEPT !.forme = v] \in Locales /\ [r EXCEPT !.indices = v] \in Locales
      BY <3>1 DEF Locales
    <3>3. [r EXCEPT !.meilleur = v] \in Locales /\ [r EXCEPT !.pire = v] \in Locales
      BY <3>1 DEF Locales
    <3>4. \/ loc' = [loc EXCEPT ![c] = [r EXCEPT !.forme = v]]
          \/ loc' = [loc EXCEPT ![c] = [r EXCEPT !.indices = v]]
          \/ loc' = [loc EXCEPT ![c] = [r EXCEPT !.meilleur = v]]
          \/ loc' = [loc EXCEPT ![c] = [r EXCEPT !.pire = v]]
      BY <2>3
    <3> HIDE DEF r
    <3> QED BY <1>1, <3>2, <3>3, <3>4
  <2>4. CASE Jouer(c)
    <3>1. PICK b \in BOOLEAN, t \in Int :
            loc' = [loc EXCEPT ![c].juste = b, ![c].temps = t]
      BY <2>4, ClientAssumption DEF Jouer
    <3> QED BY <1>1, <3>1 DEF Locales
  <2>5. RecevoirForme(c) \/ RecevoirIndices(c) \/ RecevoirMeilleur(c) \/ RecevoirPire(c) =>
          \E v \in Valeurs :
            \/ loc' = [loc EXCEPT ![c].forme = v] \/ loc' = [loc EXCEPT ![c].indices = v]
            \/ loc' = [loc EXCEPT ![c].meilleur = v] \/ loc' = [loc EXCEPT ![c].pire = v]
    BY TypeRecu DEF RecevoirForme, RecevoirIndices, RecevoirMeilleur, RecevoirPire
  <2>6. \/ RecevoirForme(c) \/ RecevoirIndices(c) \/ RecevoirMeilleur(c) \/ RecevoirPire(c)
        \/ Jouer(c) \/ loc' = loc \/ loc' = [loc EXCEPT ![c] = LocVierge]
    BY DEF NextClient, PasClient, EchecDemarrage, Connecter, Confirmer, RecevoirSynchro,
         LireHorsTable, EnvoyerJuste, EnvoyerTemps, Choisir, Fermer, ClientTue, Interrompre
  <2> QED BY <2>1, <2>2, <2>3, <2>4, <2>5, <2>6
<1>5. parties' \in [Clients -> 1 .. MaxParties]
  <2>1. CASE parties' = parties
    BY <1>1, <2>1
  <2>2. CASE parties[c] < MaxParties /\ parties' = [parties EXCEPT ![c] = @ + 1]
    BY <1>1, <2>2, ClientAssumption
  <2> QED BY <2>1, <2>2 DEF NextClient, PasClient, EchecDemarrage, Connecter, Confirmer,
       RecevoirSynchro, RecevoirForme, RecevoirIndices, Jouer, LireHorsTable, EnvoyerJuste,
       EnvoyerTemps, RecevoirMeilleur, RecevoirPire, Choisir, Fermer, ClientTue, Interrompre
<1>6. pannes' \in 0 .. MaxPannes
  <2>1. pannes' = pannes \/ (pannes < MaxPannes /\ pannes' = pannes + 1)
    BY DEF NextClient, PasClient, EchecDemarrage, Connecter, Confirmer,
       RecevoirSynchro, RecevoirForme, RecevoirIndices, Jouer, LireHorsTable, EnvoyerJuste,
       EnvoyerTemps, RecevoirMeilleur, RecevoirPire, Choisir, Fermer, ClientTue, Interrompre
  <2> QED BY <1>1, <2>1, ClientAssumption
<1> QED BY <1>2, <1>3, <1>4, <1>5, <1>6 DEF TypesClients

\* Every action of a client preserves the invariant of the whole game.
LEMMA ClientRInv ==
  ASSUME RInv, UNCHANGED serveurVars, NEW c \in Clients, NextClient(c)
  PROVE  RInv'
<1>1. IInv'
  <2>1. CASE UNCHANGED sockVars
    BY <2>1, EtapeInv DEF RInv, varsOuvert
  <2>2. CASE ~UNCHANGED sockVars
    BY <2>2, ClasseClient, BoutInv DEF RInv, Connecter
  <2> QED BY <2>1, <2>2
<1>2. RejoueurGarde' /\ Confirmes' /\ BilanChoix'
  BY DEF RInv, RejoueurGarde, Confirmes, BilanChoix, serveurVars
<1>3. Apres'
  <2>1. CASE Connecter(c)
    <3>1. ecoute
      BY <2>1, Zenon DEF Connecter, ClientConnecte
    <3>2. ~(pcS = "demarrage" \/ ServeurFini)
      BY <3>1, Zenon DEF RInv, Apres
    <3> QED BY <3>2 DEF Apres, ServeurFini, serveurVars
  <2>2. CASE ~Connecter(c)
    <3>1. UNCHANGED <<ecoute, lien>>
      BY <2>2, ClasseClient DEF ClientEnvoie, ClientLit, ClientFerme, sockVars
    <3> QED BY <3>1, Zenon DEF RInv, Apres, ServeurFini, serveurVars
  <2> QED BY <2>1, <2>2
<1>4. \A d \in Clients : Fiche(d)'
  BY FicheClient, Autres, Cadre
<1> QED BY <1>1, <1>2, <1>3, <1>4, TypesClientEtape DEF RInv


-----------------------------------------------------------------------------
(***************************************************************************)
(* The invariant is inductive.                                             *)
(***************************************************************************)
\* It holds before anybody has started.
LEMMA InitRInv == Init => RInv
<1> SUFFICES ASSUME Init PROVE RInv
  OBVIOUS
<1>1. IInv /\ RejoueurGarde
  BY InitInv DEF Init, InitOuvert, InitServeur, RejoueurGarde
<1>2. TypesClients
  <2>1. <<>> \in Seq(UnitesClient)
    OBVIOUS
  <2>2. LocVierge \in Locales
    BY DEF LocVierge, Locales, Valeurs
  <2>3. "depart" \in EtatsClient /\ 1 \in 1 .. MaxParties /\ 0 \in 0 .. MaxPannes
    BY ClientAssumption DEF EtatsClient
  <2> QED BY <2>1, <2>2, <2>3 DEF TypesClients, Init, InitClients, InitSockets
<1>3. Confirmes /\ BilanChoix
  BY DEF Init, InitServeur, Confirmes, BilanChoix
<1>4. Apres
  <2>1. ecoute = FALSE
    BY Zenon DEF Init, InitSockets
  <2>2. \A c \in Clients : lien[c] \notin {"file", "ouvert"}
    BY DEF Init, InitSockets
  <2> QED BY <2>1, <2>2, Zenon DEF Apres
<1>5. ASSUME NEW c \in Clients PROVE Fiche(c)
  <2>1. /\ lien[c] = "libre" /\ pcC[c] = "depart" /\ ~finClient[c]
        /\ versServeur[c] = <<>> /\ versClient[c] = <<>>
    BY DEF Init, InitSockets, InitClients
  <2>2. Processus(c) /\ Suite(c)
    BY <2>1 DEF Processus, Suite, AligneClient
  <2> QED BY <2>1, <2>2 DEF Fiche, Titulaire, EnLigne
<1> QED BY <1>1, <1>2, <1>3, <1>4, <1>5 DEF RInv

\* A step in which nothing but a reset moves.
LEMMA ImmobileRInv ==
  ASSUME RInv, IInv', UNCHANGED <<serveurVars, clientVars>>,
         UNCHANGED <<ecoute, lien, descr, versServeur, versClient, finClient>>
  PROVE  RInv'
<1>1. RejoueurGarde' /\ Confirmes' /\ BilanChoix'
  BY DEF RInv, RejoueurGarde, Confirmes, BilanChoix, serveurVars
<1>2. TypesClients'
  BY DEF RInv, TypesClients, clientVars
<1>3. Apres'
  BY Zenon DEF RInv, Apres, ServeurFini, serveurVars
<1>4. \A d \in Clients : Fiche(d)'
  BY Cadre DEF Meme, clientVars
<1> QED BY <1>1, <1>2, <1>3, <1>4 DEF RInv

\* Every step of the game preserves it.
LEMMA EtapeRInv == RInv /\ [Next]_vars => RInv'
<1> SUFFICES ASSUME RInv, [Next]_vars PROVE RInv'
  OBVIOUS
<1>1. CASE NextServeur /\ UNCHANGED clientVars
  BY <1>1, ServeurRInv
<1>2. CASE \E c \in Clients : NextClient(c) /\ UNCHANGED serveurVars
  BY <1>2, ClientRInv
<1>3. CASE \E c \in Clients : ArriveeRst(c) /\ UNCHANGED <<serveurVars, clientVars>>
  <2>1. PICK c \in Clients : ArriveeRst(c) /\ UNCHANGED <<serveurVars, clientVars>>
    BY <1>3
  <2>2. IInv'
    BY <2>1, BoutInv DEF RInv
  <2> QED BY <2>1, <2>2, ImmobileRInv DEF ArriveeRst
<1>4. CASE UNCHANGED vars
  <2>1. IInv'
    BY <1>4, EtapeInv DEF RInv, vars, varsOuvert
  <2> QED BY <1>4, <2>1, ImmobileRInv DEF vars, sockVars
<1> QED BY <1>1, <1>2, <1>3, <1>4 DEF Next, Termine

\* It holds in every state of the game.
LEMMA InvariantJeu == Spec => []RInv
<1> QED BY InitRInv, EtapeRInv, PTL DEF Spec

-----------------------------------------------------------------------------
(* No recv() of either program takes a unit for another one: the two ends  *)
(* of a connection that the code never types agree on every unit, whoever  *)
(* joined late, left, died or was lost (serveur.c:142, 246, 258, 342;      *)
(* client.c:112, 124, 128, 233, 234).                                      *)
THEOREM LectureAligneeProuvee == Spec => []LectureAlignee
<1>1. RInv => LectureAlignee
  <2> SUFFICES ASSUME RInv PROVE LectureAlignee
    OBVIOUS
  <2>1. ASSUME pcS \in {"prets", "juste", "temps", "choix"},
               NEW k \in aFaire, NEW c \in Clients, Titulaire(k, c), versServeur[c] # <<>>
        PROVE  Head(versServeur[c]).type = AttenduServeur(k)
    <3>1. k \in actifs
      BY <2>1 DEF RInv, IInv, DescripteursSains, ServeurFini, SalonSain
    <3>2. Head(versServeur[c]).type = Ordre[PosServeur(k)]
      BY <2>1, <3>1, TeteDuFlux
    <3>3. k \in prets => pcS # "prets"
      BY <2>1 DEF RInv, Confirmes
    <3>4. Ordre[PosServeur(k)] = AttenduServeur(k)
      <4>1. CASE pcS = "prets"
        BY <3>3, <4>1 DEF PosServeur, AttenduServeur, Ordre
      <4>2. CASE pcS = "juste"
        BY <4>2 DEF PosServeur, Boucle, AttenduServeur, Ordre
      <4>3. CASE pcS = "temps"
        BY <4>3 DEF PosServeur, Boucle, Tete, AttenduServeur, Ordre
      <4>4. CASE pcS = "choix"
        BY <4>4 DEF PosServeur, Boucle, AttenduServeur, Ordre
      <4> QED BY <2>1, <4>1, <4>2, <4>3, <4>4
    <3> QED BY <3>2, <3>4
  <2>2. ASSUME NEW c \in Clients, versClient[c] # <<>>,
               pcC[c] \in {"synchro", "forme", "indices", "meilleur", "pire"}
        PROVE  Head(versClient[c]).type = AttenduClient(c)
    <3>1. Pos(pcC[c]) \in 1 .. 9 /\ Ordre[Pos(pcC[c])] = AttenduClient(c)
      <4>1. CASE pcC[c] = "synchro"
        BY <4>1 DEF Pos, Ordre, AttenduClient
      <4>2. ASSUME pcC[c] \in {"forme", "indices", "meilleur", "pire"}
            PROVE  /\ AttenduClient(c) = pcC[c]
                   /\ Pos(pcC[c]) \in 1 .. 9 /\ Ordre[Pos(pcC[c])] = pcC[c]
        <5>1. AttenduClient(c) = pcC[c]
          BY <4>2 DEF AttenduClient
        <5>2. Pos(pcC[c]) \in 1 .. 9 /\ Ordre[Pos(pcC[c])] = pcC[c]
          <6>1. CASE pcC[c] = "forme"
            BY <6>1 DEF Pos, Ordre
          <6>2. CASE pcC[c] = "indices"
            BY <6>2 DEF Pos, Ordre
          <6>3. CASE pcC[c] = "meilleur"
            BY <6>3 DEF Pos, Ordre
          <6>4. CASE pcC[c] = "pire"
            BY <6>4 DEF Pos, Ordre
          <6> QED BY <4>2, <6>1, <6>2, <6>3, <6>4
        <5> QED BY <5>1, <5>2
      <4> QED BY <2>2, <4>1, <4>2
    <3>2. AligneClient(Pos(pcC[c]), versClient[c]) /\ versClient[c] \in Seq(UnitesClient)
      BY TypesFlux DEF RInv, Fiche, Suite
    <3> QED BY <2>2, <3>1, <3>2, AligneLectureClient
  <2> QED BY <2>1, <2>2 DEF LectureAlignee
<1> QED BY <1>1, InvariantJeu, PTL

(* The start barrier: while a round is played nobody who is connected is   *)
(* before its confirmation or in another round, and nobody plays outside a *)
(* round of the server (serveur.c:153-190, client.c:104-116).              *)
THEOREM BarriereProuvee == Spec => []Barriere
<1>1. RInv => Barriere
  <2> SUFFICES ASSUME RInv, NEW c \in Clients, EnLigne(c)
               PROVE  /\ pcS \in {"signal", "forme", "indices", "juste", "temps", "bilan"} =>
                           pcC[c] \in {"synchro", "forme", "indices", "jeu", "juste", "temps",
                                       "meilleur"}
                      /\ pcC[c] \in {"forme", "indices", "jeu", "juste", "temps", "meilleur",
                                     "pire"} =>
                           pcS \notin {"premier", "autres", "select", "prets"}
    BY DEF Barriere
  <2>1. PICK k \in actifs :
           /\ PosServeur(k) \in 1 .. 10 /\ Pos(pcC[c]) \in 1 .. 9
           /\ Accord(PosServeur(k), Pos(pcC[c]), versServeur[c], versClient[c])
    BY Place
  <2>2. versServeur[c] \in Seq(Unites) /\ versClient[c] \in Seq(UnitesClient)
    BY TypesFlux
  <2>3. /\ PosServeur(k) \in {2, 3, 4, 5, 6, 7} => Pos(pcC[c]) \in {2, 3, 4, 5, 6, 7}
        /\ PosServeur(k) \in {1, 2} => Pos(pcC[c]) \in {1, 2}
    BY <2>1, <2>2, OuEstLeClient
  <2>4. pcC[c] \in EtatsClient
    BY DEF RInv, TypesClients
  <2>5. /\ pcS \in {"signal", "forme", "indices", "juste", "temps", "bilan"} =>
             PosServeur(k) \in {2, 3, 4, 5, 6, 7}
        /\ pcS \in {"autres", "select", "prets"} => PosServeur(k) \in {1, 2}
        /\ pcS # "premier"
    BY <2>1 DEF PosServeur, Boucle
  <2>6. /\ Pos(pcC[c]) \in {2, 3, 4, 5, 6, 7} =>
             pcC[c] \in {"synchro", "forme", "indices", "jeu", "juste", "temps", "meilleur"}
        /\ pcC[c] \in {"forme", "indices", "jeu", "juste", "temps", "meilleur", "pire"} =>
             Pos(pcC[c]) \notin {1, 2}
    BY <2>4 DEF EtatsClient, Pos
  <2> QED BY <2>3, <2>5, <2>6
<1> QED BY <1>1, InvariantJeu, PTL

(* Everybody plays the same game: the shape and the order a connected      *)
(* client shows are those of the round (serveur.c:206-221, client.c:124,   *)
(* 128).                                                                   *)
THEOREM MemeTirageProuve == Spec => []MemeTirage
<1>1. RInv => MemeTirage
  <2> SUFFICES ASSUME RInv, NEW c \in Clients, EnLigne(c),
                      pcC[c] \in {"jeu", "juste", "temps", "meilleur", "pire"}
               PROVE  loc[c].forme = forme /\ loc[c].indices = indices
    BY DEF MemeTirage
  <2>1. Tirage(c)
    BY DEF RInv, Fiche
  <2>2. Pos(pcC[c]) \in 5 .. 8 /\ Pos(pcC[c]) \in 4 .. 8
    BY DEF Pos
  <2> QED BY <2>1, <2>2 DEF Tirage
<1> QED BY <1>1, InvariantJeu, PTL

(* The results a connected client shows are those of its own round and the *)
(* same for all (serveur.c:282-320, client.c:233-243).                     *)
THEOREM ResultatsCoherentsProuves == Spec => []ResultatsCoherents
<1>1. RInv => ResultatsCoherents
  <2> SUFFICES ASSUME RInv PROVE ResultatsCoherents
    OBVIOUS
  <2>1. ASSUME NEW c \in Clients, EnLigne(c), pcC[c] = "choix"
        PROVE  /\ loc[c].meilleur = meilleur /\ loc[c].pire = pire
               /\ loc[c].temps <= loc[c].pire
               /\ loc[c].juste => loc[c].meilleur <= loc[c].temps
    <3>1. Pos(pcC[c]) = 9
      BY <2>1 DEF Pos
    <3>2. loc[c].meilleur = meilleur /\ loc[c].pire = pire
      BY <2>1, <3>1 DEF RInv, Fiche, Resultat
    <3>3. PICK k \in actifs :
             /\ Reponse(k, c) /\ PosServeur(k) \in 1 .. 10
             /\ Accord(PosServeur(k), Pos(pcC[c]), versServeur[c], versClient[c])
      BY <2>1, Place
    <3>4. PosServeur(k) = 9
      BY <3>1, <3>3, TypesFlux, OuEstLeClient
    <3>5. temps[k] = loc[c].temps /\ (k \in justes <=> Rendu(c) = 1)
      BY <3>1, <3>3, <3>4 DEF Reponse
    <3>6. temps[k] <= pire /\ (k \in justes => meilleur <= temps[k])
      <4>1. pcS \in {"meilleur", "pire", "choix"}
        BY <3>4 DEF PosServeur, Boucle
      <4> QED BY <4>1 DEF RInv, IInv, BilanInv, BilanDe, BilanChoix
    <3>7. loc[c].juste => Rendu(c) = 1
      BY DEF Rendu
    <3> QED BY <3>2, <3>5, <3>6, <3>7
  <2> QED BY <2>1 DEF ResultatsCoherents
<1> QED BY <1>1, InvariantJeu, PTL

-----------------------------------------------------------------------------
(***************************************************************************)
(* The times that the results are made of.                                 *)
(***************************************************************************)
Million == 1000000

\* The times, in tenths, whose seconds have six digits at most.
Affichables == {t \in Nat : t \div 10 < Million}

\* Below a million a number has six digits at most, so "%d" of client.c:240,
\* 242 writes six.
LEMMA SixChiffres ==
  ASSUME NEW n \in Nat, n < Million
  PROVE  Chiffres(n) \in 1 .. 6
<1> DEFINE P(d) == n < 10^d /\ (d = 1 \/ n >= 10^(d - 1))
<1>1. P(1) \/ P(2) \/ P(3) \/ P(4) \/ P(5) \/ P(6)
  BY SMT DEF Million
<1>2. ~P(7) /\ ~P(8) /\ ~P(9)
  BY SMT DEF Million
<1> HIDE DEF P
<1>3. \A d \in 1 .. 9 : P(d) => d \in 1 .. 6
  BY <1>2
<1>4. \E d \in 1 .. 9 : P(d)
  BY <1>1
<1>5. Chiffres(n) = CHOOSE d \in 1 .. 9 : P(d)
  BY Zenon DEF Chiffres, P
<1> QED BY <1>3, <1>4, <1>5

\* Up to the ten seconds the server starts its search from, it has two
\* (serveur.c:279).
LEMMA DeuxChiffres ==
  ASSUME NEW n \in 0 .. 10
  PROVE  Chiffres(n) \in 1 .. 2
<1> DEFINE P(d) == n < 10^d /\ (d = 1 \/ n >= 10^(d - 1))
<1>1. P(1) \/ P(2)
  BY SMT
<1>2. ~P(3) /\ ~P(4) /\ ~P(5) /\ ~P(6) /\ ~P(7) /\ ~P(8) /\ ~P(9)
  BY SMT
<1> HIDE DEF P
<1>3. \A d \in 1 .. 9 : P(d) => d \in 1 .. 2
  BY <1>2
<1>4. \E d \in 1 .. 9 : P(d)
  BY <1>1
<1>5. Chiffres(n) = CHOOSE d \in 1 .. 9 : P(d)
  BY Zenon DEF Chiffres, P
<1> QED BY <1>3, <1>4, <1>5

\* The two times the server starts its search from can be shown (serveur.c:279,
\* 280).
LEMMA QuelquesAffichables ==
  0 \in Affichables /\ TempsMax \in Affichables /\ Affichables \subseteq Nat
BY SMT DEF Affichables, Million, TempsMax

\* Every time is one that a client has measured, or a value of the server.
TempsEnRoute(c) ==
  \A i \in 1 .. Len(versServeur[c]) :
    versServeur[c][i].type = "temps" => versServeur[c][i].val \in Affichables
TempsMesures ==
  /\ \A c \in Clients : loc[c].temps \in Affichables /\ TempsEnRoute(c)
  /\ \A k \in Slots : temps[k] \in Affichables
  /\ meilleur \in 0 .. TempsMax /\ pire \in Affichables

\* The steps of the server: what recv() puts into temps[] was meant as a time.
LEMMA MesuresServeur ==
  ASSUME RInv, TempsMesures, NextServeur, UNCHANGED clientVars
  PROVE  TempsMesures'
<1>1. \A c \in Clients : loc'[c].temps \in Affichables /\ TempsEnRoute(c)'
  <2>1. ASSUME NEW c \in Clients PROVE TempsEnRoute(c)'
    BY ResteDuFlux DEF TempsEnRoute, TempsMesures
  <2> QED BY <2>1 DEF TempsMesures, clientVars
<1>2. \A k \in Slots : temps'[k] \in Affichables
  <2>1. temps \in [Slots -> Int]
    BY DEF RInv, IInv, TypeServeur, TypeManche
  <2>2. CASE temps' = temps
    BY <2>2 DEF TempsMesures
  <2>3. CASE temps' = [k \in Slots |-> TempsMax]
    BY <2>3, QuelquesAffichables
  <2>4. ASSUME NEW k \in Slots, NEW c \in Clients, RecevoirTemps(k, c)
        PROVE  \A l \in Slots : temps'[l] \in Affichables
    <3>1. CASE FluxFini(c) /\ temps' = [temps EXCEPT ![k] = TempsMax]
      BY <2>1, <3>1, QuelquesAffichables DEF TempsMesures
    <3>2. CASE ServeurLit(c) /\ temps' = [temps EXCEPT ![k] = Head(versServeur[c]).val]
      <4>1. k \in aFaire /\ Tete(k) /\ Titulaire(k, c) /\ versServeur[c] # <<>> /\ pcS = "temps"
        BY <2>4, <3>2 DEF RecevoirTemps, Tour, ServeurLit, Tete
      <4>2. k \in actifs
        BY <4>1 DEF RInv, IInv, DescripteursSains, ServeurFini, SalonSain
      <4>3. PosServeur(k) = 6
        BY <4>1 DEF PosServeur
      <4>4. /\ Head(versServeur[c]).type = "temps" /\ 1 \in 1 .. Len(versServeur[c])
            /\ Head(versServeur[c]) = versServeur[c][1]
        BY <4>1, <4>2, <4>3, TeteDuFlux DEF Ordre
      <4>5. Head(versServeur[c]).val \in Affichables
        BY <4>4 DEF TempsMesures, TempsEnRoute
      <4> QED BY <2>1, <3>2, <4>5 DEF TempsMesures
    <3> QED BY <2>4, <3>1, <3>2 DEF RecevoirTemps
  <2>5. \/ temps' = temps \/ temps' = [k \in Slots |-> TempsMax]
        \/ \E k \in Slots, c \in Clients : RecevoirTemps(k, c)
    BY DEF NextServeur, PasServeur, EchangeAvec, AccepterPremier, AccepterAutre, Select,
         FinDelai, FinTour, FinSignal, FinGrille, FinTemps, Bilan, FinBilan, FinResultats,
         FinChoix, Fermeture, SelectErreur, TueParSigpipe, LirePret, EnvoyerSignal,
         EnvoyerForme, EnvoyerIndices, RecevoirJuste, EnvoyerMeilleur, EnvoyerPire,
         RecevoirChoix, Demarrer, DebutAttente, Vierges, mancheVars
  <2> QED BY <2>2, <2>3, <2>4, <2>5
<1>3. meilleur' \in 0 .. TempsMax /\ pire' \in Affichables
  <2>1. CASE UNCHANGED <<meilleur, pire>>
    BY <2>1 DEF TempsMesures
  <2>2. CASE meilleur' = TempsMax /\ pire' = 0
    BY <2>2, QuelquesAffichables
  <2>3. ASSUME NEW k \in Slots, Bilan(k)
        PROVE  meilleur' \in 0 .. TempsMax /\ pire' \in Affichables
    <3>1. temps[k] \in Affichables /\ temps[k] \in Nat /\ meilleur \in 0 .. TempsMax
      BY QuelquesAffichables DEF TempsMesures
    <3>2. meilleur' = meilleur \/ (temps[k] < meilleur /\ meilleur' = temps[k])
      BY <2>3 DEF Bilan, MeilleurAvec
    <3>3. pire' = pire \/ pire' = temps[k]
      BY <2>3 DEF Bilan, PireAvec
    <3> QED BY <3>1, <3>2, <3>3 DEF TempsMesures, TempsMax
  <2>4. \/ UNCHANGED <<meilleur, pire>> \/ (meilleur' = TempsMax /\ pire' = 0)
        \/ \E k \in Slots : Bilan(k)
    BY DEF NextServeur, PasServeur, EchangeAvec, AccepterPremier, AccepterAutre, Select,
         FinDelai, FinTour, FinSignal, FinGrille, FinTemps, FinBilan, FinResultats,
         FinChoix, Fermeture, SelectErreur, TueParSigpipe, LirePret, EnvoyerSignal,
         EnvoyerForme, EnvoyerIndices, RecevoirJuste, RecevoirTemps, EnvoyerMeilleur,
         EnvoyerPire, RecevoirChoix, Demarrer, DebutAttente, mancheVars
  <2> QED BY <2>1, <2>2, <2>3, <2>4
<1> QED BY <1>1, <1>2, <1>3 DEF TempsMesures

\* The steps of a client: the time it sends is the one it has measured.
LEMMA MesuresClient ==
  ASSUME Durees \subseteq Affichables, RInv, TempsMesures,
         NEW c \in Clients, NextClient(c), UNCHANGED serveurVars
  PROVE  TempsMesures'
<1>1. \A k \in Slots : temps'[k] \in Affichables
  BY DEF TempsMesures, serveurVars
<1>2. meilleur' \in 0 .. TempsMax /\ pire' \in Affichables
  BY DEF TempsMesures, serveurVars
<1>3. ASSUME NEW d \in Clients, d # c
      PROVE  loc'[d].temps \in Affichables /\ TempsEnRoute(d)'
  BY <1>3, Autres DEF Meme, TempsMesures, TempsEnRoute
<1>4. loc \in [Clients -> Locales] /\ loc[c].temps \in Affichables /\ TempsEnRoute(c)
  BY DEF RInv, TypesClients, TempsMesures
<1>5. loc'[c].temps \in Affichables
  <2>1. CASE loc' = loc
    BY <1>4, <2>1
  <2>2. CASE loc' = [loc EXCEPT ![c] = LocVierge]
    <3>1. loc'[c] = LocVierge
      BY <1>4, <2>2
    <3> QED BY <3>1, QuelquesAffichables DEF LocVierge
  <2>3. ASSUME NEW v, \/ loc' = [loc EXCEPT ![c].forme = v] \/ loc' = [loc EXCEPT ![c].indices = v]
                      \/ loc' = [loc EXCEPT ![c].meilleur = v] \/ loc' = [loc EXCEPT ![c].pire = v]
        PROVE  loc'[c].temps \in Affichables
    <3>1. loc'[c].temps = loc[c].temps
      BY <1>4, <2>3 DEF Locales
    <3> QED BY <1>4, <3>1
  <2>4. CASE Jouer(c)
    <3>1. PICK b \in BOOLEAN, t \in Durees : loc' = [loc EXCEPT ![c].juste = b, ![c].temps = t]
      BY <2>4 DEF Jouer
    <3>2. loc'[c].temps = t
      BY <1>4, <3>1 DEF Locales
    <3> QED BY <3>2
  <2>5. RecevoirForme(c) \/ RecevoirIndices(c) \/ RecevoirMeilleur(c) \/ RecevoirPire(c) =>
          \E v :
            \/ loc' = [loc EXCEPT ![c].forme = v] \/ loc' = [loc EXCEPT ![c].indices = v]
            \/ loc' = [loc EXCEPT ![c].meilleur = v] \/ loc' = [loc EXCEPT ![c].pire = v]
    BY DEF RecevoirForme, RecevoirIndices, RecevoirMeilleur, RecevoirPire
  <2>6. \/ RecevoirForme(c) \/ RecevoirIndices(c) \/ RecevoirMeilleur(c) \/ RecevoirPire(c)
        \/ Jouer(c) \/ loc' = loc \/ loc' = [loc EXCEPT ![c] = LocVierge]
    BY DEF NextClient, PasClient, EchecDemarrage, Connecter, Confirmer, RecevoirSynchro,
         LireHorsTable, EnvoyerJuste, EnvoyerTemps, Choisir, Fermer, ClientTue, Interrompre
  <2> QED BY <2>1, <2>2, <2>3, <2>4, <2>5, <2>6
<1>6. TempsEnRoute(c)'
  <2>1. CASE versServeur' = versServeur
    BY <1>4, <2>1 DEF TempsEnRoute
  <2>2. ASSUME NEW m \in Unites, m.type = "temps" => m.val \in Affichables,
               versServeur' = [versServeur EXCEPT ![c] = Append(versServeur[c], m)]
        PROVE  TempsEnRoute(c)'
    <3>1. versServeur[c] \in Seq(Unites) /\ versServeur'[c] = Append(versServeur[c], m)
      BY <2>2 DEF RInv, IInv, TypeServeur, TypeSockets
    <3>2. /\ Len(versServeur[c]) \in Nat /\ Len(versServeur'[c]) = Len(versServeur[c]) + 1
          /\ \A j \in 1 .. Len(versServeur[c]) : versServeur'[c][j] = versServeur[c][j]
          /\ versServeur'[c][Len(versServeur[c]) + 1] = m
      BY <3>1, Ajout
    <3> QED BY <1>4, <2>2, <3>2 DEF TempsEnRoute
  <2>3. ASSUME NEW m \in Unites, m.type = "temps" => m.val \in Affichables, ClientEnvoie(c, m)
        PROVE  TempsEnRoute(c)'
    BY <2>1, <2>2, <2>3 DEF ClientEnvoie
  <2>4. CASE Confirmer(c) \/ EnvoyerJuste(c) \/ EnvoyerTemps(c) \/ Choisir(c)
    <3>1. /\ Message("pret", SIGNAL).type # "temps" /\ Message("choix", OUI).type # "temps"
          /\ Message("choix", NON).type # "temps"
          /\ Message("juste", IF loc[c].juste THEN 1 ELSE 0).type # "temps"
          /\ Message("temps", loc[c].temps).val \in Affichables
      BY <1>4 DEF Message
    <3> QED BY <2>3, <2>4, <3>1, UnitesDuClient
            DEF Confirmer, EnvoyerJuste, EnvoyerTemps, Choisir
  <2>5. CASE ~(Confirmer(c) \/ EnvoyerJuste(c) \/ EnvoyerTemps(c) \/ Choisir(c))
    <3>1. versServeur' = versServeur
      BY <2>5 DEF NextClient, PasClient, EchecDemarrage, Connecter, RecevoirSynchro,
         RecevoirForme, RecevoirIndices, Jouer, LireHorsTable, RecevoirMeilleur,
         RecevoirPire, Fermer, ClientTue, Interrompre, Consommer, ClientLit, ClientFerme,
         ClientConnecte, sockVars
    <3> QED BY <2>1, <3>1
  <2> QED BY <2>4, <2>5
<1> QED BY <1>1, <1>2, <1>3, <1>5, <1>6 DEF TempsMesures

\* Every step keeps the times measured (client.c:189, serveur.c:258-301).
LEMMA MesuresEtape ==
  ASSUME Durees \subseteq Affichables, RInv, TempsMesures, [Next]_vars
  PROVE  TempsMesures'
<1>1. CASE NextServeur /\ UNCHANGED clientVars
  BY <1>1, MesuresServeur
<1>2. CASE \E c \in Clients : NextClient(c) /\ UNCHANGED serveurVars
  BY <1>2, MesuresClient
<1>3. ASSUME UNCHANGED <<serveurVars, clientVars, versServeur>>
      PROVE  TempsMesures'
  BY <1>3 DEF TempsMesures, TempsEnRoute, serveurVars, clientVars
<1>4. CASE \E c \in Clients : ArriveeRst(c) /\ UNCHANGED <<serveurVars, clientVars>>
  BY <1>3, <1>4 DEF ArriveeRst
<1>5. CASE UNCHANGED vars
  BY <1>3, <1>5 DEF vars, sockVars
<1> QED BY <1>1, <1>2, <1>4, <1>5 DEF Next, Termine

\* No time is on its way before the first round.
LEMMA MesuresInit == Init => TempsMesures
<1> SUFFICES ASSUME Init PROVE TempsMesures
  OBVIOUS
<1>1. \A c \in Clients : loc[c] = LocVierge /\ versServeur[c] = <<>>
  BY DEF Init, InitClients, InitSockets
<1>2. \A c \in Clients : loc[c].temps \in Affichables /\ TempsEnRoute(c)
  BY <1>1, QuelquesAffichables DEF LocVierge, TempsEnRoute
<1>3. \A k \in Slots : temps[k] = TempsMax
  BY DEF Init, InitServeur, Vierges
<1>4. meilleur = TempsMax /\ pire = 0
  BY DEF Init, InitServeur
<1> QED BY <1>2, <1>3, <1>4, QuelquesAffichables DEF TempsMesures, TempsMax

(* The two lines of results fit into message[16] (client.c:206, 240, 242)  *)
(* for any number of clients, rounds and kills, as long as the times that  *)
(* clients measure are not negative and below a million seconds: the best  *)
(* time never exceeds the value that the server starts from, and the worst *)
(* one is 0 or has been measured by a client.                              *)
THEOREM MessageTientProuve == Durees \subseteq Affichables => (Spec => []MessageTient)
<1> SUFFICES ASSUME Durees \subseteq Affichables PROVE Spec => []MessageTient
  OBVIOUS
<1>1. RInv /\ TempsMesures => MessageTient
  <2> SUFFICES ASSUME RInv, TempsMesures, NEW c \in Clients, EnLigne(c), pcC[c] = "choix"
               PROVE  /\ 10 + Chiffres(loc[c].meilleur \div 10) + 3 < 16
                      /\ 6 + Chiffres(loc[c].pire \div 10) + 3 < 16
    BY DEF MessageTient
  <2>1. Pos(pcC[c]) = 9
    BY DEF Pos
  <2>2. loc[c].meilleur = meilleur /\ loc[c].pire = pire
    BY <2>1 DEF RInv, Fiche, Resultat
  <2>3. meilleur \div 10 \in 0 .. 10
    BY DEF TempsMesures, TempsMax
  <2>4. pire \div 10 \in Nat /\ pire \div 10 < Million
    BY DEF TempsMesures, Affichables
  <2>5. Chiffres(meilleur \div 10) \in 1 .. 2 /\ Chiffres(pire \div 10) \in 1 .. 6
    BY <2>3, <2>4, DeuxChiffres, SixChiffres
  <2> QED BY <2>2, <2>5
<1>2. Init => RInv /\ TempsMesures
  BY InitRInv, MesuresInit
<1>3. RInv /\ TempsMesures /\ [Next]_vars => (RInv /\ TempsMesures)'
  BY EtapeRInv, MesuresEtape
<1> QED BY <1>1, <1>2, <1>3, PTL DEF Spec

-----------------------------------------------------------------------------
(***************************************************************************)
(* The refinement of the rounds of Manches.  RInv says which places of the *)
(* programs go together; what is missing is about the values: a time that  *)
(* counts has been measured, who sends 'n' leaves, and a round that is     *)
(* announced has players.                                                  *)
(***************************************************************************)
Sincere(c) ==
  /\ pcC[c] \in {"juste", "temps"} => loc[c].temps \in Durees
  /\ \A i \in 1 .. Len(versServeur[c]) :
       /\ versServeur[c][i].type = "temps" => versServeur[c][i].val \in Durees
       /\ versServeur[c][i].type = "choix" /\ versServeur[c][i].val # OUI
            => pcC[c] \in {"fermer", "fini", "tue"}
TempsComptes ==
  /\ pcS \in {"juste", "temps"} => \A k \in actifs \ aFaire : temps[k] \in Durees
  /\ pcS = "bilan" => \A k \in actifs : temps[k] \in Durees
MancheInv ==
  /\ pcS = "signal" => actifs # {}
  /\ pire >= 0
  /\ TempsComptes
  /\ \A c \in Clients : Sincere(c)

\* It holds before main() of any program has done anything.
LEMMA InitMancheInv == Init => MancheInv
<1> SUFFICES ASSUME Init PROVE MancheInv
  OBVIOUS
<1>1. \A c \in Clients : pcC[c] = "depart" /\ versServeur[c] = <<>>
  BY DEF Init, InitClients, InitSockets
<1>2. \A c \in Clients : Sincere(c)
  BY <1>1 DEF Sincere
<1>3. pcS = "demarrage" /\ pire = 0
  BY DEF Init, InitServeur
<1> QED BY <1>2, <1>3 DEF MancheInv, TempsComptes

\* A time that is read was meant as one, and has been measured.
LEMMA TempsLu ==
  ASSUME RInv, MancheInv, NEW k \in Slots, NEW c \in Clients, RecevoirTemps(k, c), ServeurLit(c)
  PROVE  Head(versServeur[c]).val \in Durees
<1>1. k \in aFaire /\ Tete(k) /\ Titulaire(k, c) /\ versServeur[c] # <<>> /\ pcS = "temps"
  BY DEF RecevoirTemps, Tour, ServeurLit, Tete
<1>2. k \in actifs
  BY <1>1 DEF RInv, IInv, DescripteursSains, ServeurFini, SalonSain
<1>3. PosServeur(k) = 6
  BY <1>1 DEF PosServeur
<1>4. /\ Head(versServeur[c]).type = "temps" /\ 1 \in 1 .. Len(versServeur[c])
      /\ Head(versServeur[c]) = versServeur[c][1]
  BY <1>1, <1>2, <1>3, TeteDuFlux DEF Ordre
<1> QED BY <1>4 DEF MancheInv, Sincere

\* The steps of the server.
LEMMA TempsComptesServeur ==
  ASSUME RInv, MancheInv, NextServeur
  PROVE  TempsComptes'
<1>1. ASSUME NEW k \in Slots, NEW c \in Clients, RecevoirTemps(k, c)
      PROVE  TempsComptes'
  <2>1. pcS = "temps" /\ pcS' = "juste" /\ aFaire' = aFaire \ {k} /\ temps \in [Slots -> Int]
    BY <1>1 DEF RecevoirTemps, RInv, IInv, TypeServeur, TypeManche
  <2>2. actifs \subseteq Slots
    BY SocketsAssumption DEF RInv, IInv, TypeServeur, TypeSalon, Slots
  <2>3. CASE FluxFini(c) /\ Deconnecter(k, c) /\ temps' = [temps EXCEPT ![k] = TempsMax]
    <3>1. actifs' = actifs \ {k}
      BY <2>3 DEF Deconnecter
    <3> QED BY <2>1, <2>2, <2>3, <3>1 DEF TempsComptes, MancheInv
  <2>4. CASE /\ ServeurLit(c) /\ temps' = [temps EXCEPT ![k] = Head(versServeur[c]).val]
             /\ UNCHANGED salonVars
    <3>1. Head(versServeur[c]).val \in Durees /\ actifs' = actifs
      BY <1>1, <2>4, TempsLu DEF salonVars
    <3> QED BY <2>1, <2>2, <2>4, <3>1 DEF TempsComptes, MancheInv
  <2> QED BY <1>1, <2>3, <2>4 DEF RecevoirTemps
<1>2. ASSUME NEW k \in Slots, NEW c \in Clients, RecevoirJuste(k, c)
      PROVE  TempsComptes'
  <2>1. temps' = temps /\ pcS = "juste" /\ pcS' \in {"juste", "temps"}
    BY <1>2 DEF RecevoirJuste
  <2>2. actifs' \ aFaire' \subseteq actifs \ aFaire
    BY <1>2 DEF RecevoirJuste, PerteReponse, Deconnecter, salonVars
  <2> QED BY <2>1, <2>2 DEF TempsComptes, MancheInv
<1>3. CASE FinGrille
  BY <1>3 DEF FinGrille, TempsComptes, salonVars
<1>4. CASE FinTemps
  BY <1>4 DEF FinTemps, TempsComptes, salonVars, MancheInv
<1>5. ASSUME NEW k \in Slots, Bilan(k)
      PROVE  TempsComptes'
  BY <1>5 DEF Bilan, TempsComptes, salonVars, MancheInv
<1>6. \/ pcS' \notin {"juste", "temps", "bilan"}
      \/ FinGrille \/ FinTemps \/ (\E k \in Slots : Bilan(k))
      \/ \E k \in Slots, c \in Clients : RecevoirJuste(k, c) \/ RecevoirTemps(k, c)
  BY DEF NextServeur, PasServeur, EchangeAvec, AccepterPremier, AccepterAutre, Select,
         FinDelai, FinTour, FinSignal, FinBilan, FinResultats, FinChoix, Fermeture,
         SelectErreur, TueParSigpipe, LirePret, EnvoyerSignal, EnvoyerForme,
         EnvoyerIndices, EnvoyerMeilleur, EnvoyerPire, RecevoirChoix, Demarrer, DebutAttente
<1>7. CASE pcS' \notin {"juste", "temps", "bilan"}
  BY <1>7 DEF TempsComptes
<1> QED BY <1>1, <1>2, <1>3, <1>4, <1>5, <1>6, <1>7

\* Every step of serveur.c keeps it.
LEMMA MancheServeur ==
  ASSUME RInv, MancheInv, NextServeur, UNCHANGED clientVars
  PROVE  MancheInv'
<1>1. ASSUME NEW c \in Clients PROVE Sincere(c)'
  BY ResteDuFlux DEF Sincere, MancheInv, clientVars
<1>2. pcS' = "signal" => actifs' # {}
  <2>1. CASE FinTour
    BY <2>1 DEF FinTour, salonVars
  <2>2. ASSUME NEW k \in Slots, NEW c \in Clients, EnvoyerSignal(k, c)
        PROVE  pcS' = "signal" => actifs' # {}
    BY <2>2 DEF EnvoyerSignal, salonVars, MancheInv
  <2>3. \/ pcS' # "signal" \/ FinTour
        \/ \E k \in Slots, c \in Clients : EnvoyerSignal(k, c)
    BY DEF NextServeur, PasServeur, EchangeAvec, AccepterPremier, AccepterAutre, Select,
         FinDelai, FinSignal, FinGrille, FinTemps, Bilan, FinBilan, FinResultats, FinChoix,
         Fermeture, SelectErreur, TueParSigpipe, LirePret, EnvoyerForme, EnvoyerIndices,
         RecevoirJuste, RecevoirTemps, EnvoyerMeilleur, EnvoyerPire, RecevoirChoix,
         Demarrer, DebutAttente
  <2> QED BY <2>1, <2>2, <2>3
<1>3. pire' >= 0
  <2>1. pire \in Int /\ temps \in [Slots -> Int] /\ pire >= 0
    BY DEF RInv, IInv, TypeServeur, TypeManche, MancheInv
  <2>2. ASSUME NEW k \in Slots, Bilan(k)
        PROVE  pire' >= 0
    BY <2>1, <2>2 DEF Bilan, PireAvec
  <2>3. pire' = pire \/ pire' = 0 \/ \E k \in Slots : Bilan(k)
    BY DEF NextServeur, PasServeur, EchangeAvec, AccepterPremier, AccepterAutre, Select,
         FinDelai, FinTour, FinSignal, FinGrille, FinTemps, FinBilan, FinResultats,
         FinChoix, Fermeture, SelectErreur, TueParSigpipe, LirePret, EnvoyerSignal,
         EnvoyerForme, EnvoyerIndices, RecevoirJuste, RecevoirTemps, EnvoyerMeilleur,
         EnvoyerPire, RecevoirChoix, Demarrer, DebutAttente, mancheVars
  <2> QED BY <2>1, <2>2, <2>3
<1> QED BY <1>1, <1>2, <1>3, TempsComptesServeur DEF MancheInv

\* The steps of a client.
LEMMA MancheClient ==
  ASSUME RInv, MancheInv, NEW c \in Clients, NextClient(c), UNCHANGED serveurVars
  PROVE  MancheInv'
<1>1. (pcS' = "signal" => actifs' # {}) /\ pire' >= 0 /\ TempsComptes'
  BY DEF MancheInv, TempsComptes, serveurVars
<1>2. ASSUME NEW d \in Clients, d # c
      PROVE  Sincere(d)'
  BY <1>2, Autres DEF Meme, MancheInv, Sincere
<1>3. /\ loc \in [Clients -> Locales] /\ pcC \in [Clients -> EtatsClient]
      /\ versServeur[c] \in Seq(Unites) /\ Sincere(c)
  BY DEF RInv, TypesClients, MancheInv, IInv, TypeServeur, TypeSockets
<1>4. pcC'[c] \in {"juste", "temps"} => loc'[c].temps \in Durees
  <2>1. CASE Jouer(c)
    <3>1. PICK b \in BOOLEAN, t \in Durees : loc' = [loc EXCEPT ![c].juste = b, ![c].temps = t]
      BY <2>1 DEF Jouer
    <3>2. loc'[c].temps = t
      BY <1>3, <3>1 DEF Locales
    <3> QED BY <3>2
  <2>2. CASE EnvoyerJuste(c)
    BY <1>3, <2>2 DEF EnvoyerJuste, Aller, Sincere
  <2>3. pcC'[c] \notin {"juste", "temps"} \/ Jouer(c) \/ EnvoyerJuste(c)
    BY <1>3 DEF NextClient, PasClient, EchecDemarrage, Connecter, Confirmer, RecevoirSynchro,
         RecevoirForme, RecevoirIndices, LireHorsTable, EnvoyerTemps, RecevoirMeilleur,
         RecevoirPire, Choisir, Fermer, ClientTue, Interrompre, Aller
  <2> QED BY <2>1, <2>2, <2>3
<1> DEFINE Vrai(m, s) == /\ m.type = "temps" => m.val \in Durees
                         /\ m.type = "choix" /\ m.val # OUI => s \in {"fermer", "fini", "tue"}
<1>5. pcC[c] \in {"fermer", "fini", "tue"} => pcC'[c] \in {"fermer", "fini", "tue"}
  BY <1>3 DEF NextClient, PasClient, EchecDemarrage, Connecter, Confirmer, RecevoirSynchro,
         RecevoirForme, RecevoirIndices, LireHorsTable, EnvoyerTemps, EnvoyerJuste, Jouer,
         RecevoirMeilleur, RecevoirPire, Choisir, Fermer, ClientTue, Interrompre, Aller
<1>6. \A i \in 1 .. Len(versServeur[c]) : Vrai(versServeur[c][i], pcC'[c])
  BY <1>3, <1>5 DEF Sincere
<1>7. \A i \in 1 .. Len(versServeur'[c]) : Vrai(versServeur'[c][i], pcC'[c])
  <2> HIDE DEF Vrai
  <2>1. CASE versServeur' = versServeur
    BY <1>6, <2>1
  <2>2. ASSUME NEW m \in Unites, Vrai(m, pcC'[c]), ClientEnvoie(c, m)
        PROVE  \A i \in 1 .. Len(versServeur'[c]) : Vrai(versServeur'[c][i], pcC'[c])
    <3>1. CASE versServeur' = [versServeur EXCEPT ![c] = Append(versServeur[c], m)]
      <4>1. versServeur'[c] = Append(versServeur[c], m)
        BY <3>1 DEF RInv, IInv, TypeServeur, TypeSockets
      <4>2. /\ Len(versServeur[c]) \in Nat /\ Len(versServeur'[c]) = Len(versServeur[c]) + 1
            /\ \A j \in 1 .. Len(versServeur[c]) : versServeur'[c][j] = versServeur[c][j]
            /\ versServeur'[c][Len(versServeur[c]) + 1] = m
        BY <1>3, <4>1, Ajout
      <4> QED BY <1>6, <2>2, <4>2
    <3> QED BY <2>1, <2>2, <3>1 DEF ClientEnvoie
  <2>3. CASE Confirmer(c) \/ EnvoyerJuste(c) \/ EnvoyerTemps(c) \/ Choisir(c)
    <3>1. /\ Vrai(Message("pret", SIGNAL), pcC'[c]) /\ Vrai(Message("choix", OUI), pcC'[c])
          /\ Vrai(Message("juste", IF loc[c].juste THEN 1 ELSE 0), pcC'[c])
          /\ pcC[c] = "temps" => Vrai(Message("temps", loc[c].temps), pcC'[c])
          /\ pcC'[c] = "fermer" => Vrai(Message("choix", NON), pcC'[c])
      BY <1>3 DEF Message, Vrai, Sincere
    <3>2. CASE Confirmer(c)
      BY <2>2, <3>1, <3>2, UnitesDuClient DEF Confirmer
    <3>3. CASE EnvoyerJuste(c)
      BY <2>2, <3>1, <3>3, UnitesDuClient DEF EnvoyerJuste
    <3>4. CASE EnvoyerTemps(c)
      BY <2>2, <3>1, <3>4, UnitesDuClient DEF EnvoyerTemps, Aller
    <3>5. CASE Choisir(c)
      <4>1. \/ ClientEnvoie(c, Message("choix", OUI))
            \/ pcC'[c] = "fermer" /\ ClientEnvoie(c, Message("choix", NON))
        BY <1>3, <3>5 DEF Choisir, Aller
      <4> QED BY <2>2, <3>1, <4>1, UnitesDuClient
    <3> QED BY <2>3, <3>2, <3>3, <3>4, <3>5
  <2>4. CASE ~(Confirmer(c) \/ EnvoyerJuste(c) \/ EnvoyerTemps(c) \/ Choisir(c))
    <3>1. versServeur' = versServeur
      BY <2>4 DEF NextClient, PasClient, EchecDemarrage, Connecter, RecevoirSynchro,
         RecevoirForme, RecevoirIndices, Jouer, LireHorsTable, RecevoirMeilleur,
         RecevoirPire, Fermer, ClientTue, Interrompre, Consommer, ClientLit, ClientFerme,
         ClientConnecte, sockVars
    <3> QED BY <2>1, <3>1
  <2> QED BY <2>3, <2>4
<1>8. Sincere(c)'
  BY <1>4, <1>7 DEF Sincere
<1> QED BY <1>1, <1>2, <1>8 DEF MancheInv

\* Every step of the game keeps it.
LEMMA EtapeMancheInv ==
  ASSUME RInv, MancheInv, [Next]_vars
  PROVE  MancheInv'
<1>1. CASE NextServeur /\ UNCHANGED clientVars
  BY <1>1, MancheServeur
<1>2. CASE \E c \in Clients : NextClient(c) /\ UNCHANGED serveurVars
  BY <1>2, MancheClient
<1>3. ASSUME UNCHANGED <<serveurVars, clientVars, versServeur>>
      PROVE  MancheInv'
  BY <1>3 DEF MancheInv, TempsComptes, Sincere, serveurVars, clientVars
<1>4. CASE \E c \in Clients : ArriveeRst(c) /\ UNCHANGED <<serveurVars, clientVars>>
  BY <1>3, <1>4 DEF ArriveeRst
<1>5. CASE UNCHANGED vars
  BY <1>3, <1>5 DEF vars, sockVars
<1> QED BY <1>1, <1>2, <1>4, <1>5 DEF Next, Termine

-----------------------------------------------------------------------------
(***************************************************************************)
(* The steps of a client.                                                  *)
(***************************************************************************)
\* They move that client only.
LEMMA UnSeulBouge ==
  ASSUME RInv, NEW c \in Clients, NextClient(c), UNCHANGED serveurVars
  PROVE  /\ Etapes' = [Etapes EXCEPT ![c] = EtapeDe(c)']
         /\ Vues' = [Vues EXCEPT ![c] = VueDe(c)']
         /\ UNCHANGED <<MancheDe, TirageDe, ResultatDe, AdmisDe>>
<1>1. ASSUME NEW d \in Clients, d # c
      PROVE  EtapeDe(d)' = EtapeDe(d) /\ VueDe(d)' = VueDe(d)
  <2>1. Meme(d)
    BY <1>1, Autres
  <2>2. EtapeDe(d)' = EtapeDe(d)
    BY <2>1 DEF Meme, EtapeDe, Parti
  <2> QED BY <2>1, <2>2 DEF Meme, VueDe, Rien
<1>2. Etapes' = [Etapes EXCEPT ![c] = EtapeDe(c)']
  BY <1>1 DEF Etapes
<1>3. Vues' = [Vues EXCEPT ![c] = VueDe(c)']
  BY <1>1 DEF Vues
<1>4. UNCHANGED MancheDe
  BY DEF MancheDe, serveurVars
<1>5. UNCHANGED <<TirageDe, ResultatDe>>
  BY <1>4 DEF TirageDe, ResultatDe, Rien, serveurVars
<1>6. UNCHANGED AdmisDe
  <2>1. \A d \in Clients : lien'[d] = "ouvert" <=> lien[d] = "ouvert"
    <3>1. lien \in [Clients -> Liens]
      BY DEF RInv, IInv, TypeServeur, TypeSockets
    <3>2. CASE UNCHANGED sockVars \/ (\E m \in Unites : ClientEnvoie(c, m)) \/ ClientLit(c)
               \/ ClientFerme(c)
      BY <3>2 DEF ClientEnvoie, ClientLit, ClientFerme, sockVars
    <3>3. CASE Connecter(c)
      BY <3>1, <3>3 DEF Connecter, ClientConnecte
    <3> QED BY <3>2, <3>3, ClasseClient
  <2> QED BY <2>1 DEF AdmisDe
<1> QED BY <1>2, <1>3, <1>4, <1>5, <1>6

\* Hence a step of the client is one of Manches, if its place is.
LEMMA PlaceAvance ==
  ASSUME RInv, NEW c \in Clients, NextClient(c), UNCHANGED serveurVars,
         NEW de, NEW vers, NEW v, EtapeDe(c) = de, EtapeDe(c)' = vers, VueDe(c)' = v
  PROVE  M!Avancer(c, de, vers, v)
<1>1. Etapes[c] = de
  BY DEF Etapes
<1>2. /\ Etapes' = [Etapes EXCEPT ![c] = vers] /\ Vues' = [Vues EXCEPT ![c] = v]
      /\ UNCHANGED <<MancheDe, TirageDe, ResultatDe, AdmisDe>>
  BY UnSeulBouge
<1> QED BY <1>1, <1>2 DEF M!Avancer

\* A call of the client that does not change its step changes nothing of the
\* rounds.
LEMMA PlaceGardee ==
  ASSUME RInv, NEW c \in Clients, NextClient(c), UNCHANGED serveurVars,
         EtapeDe(c)' = EtapeDe(c), VueDe(c)' = VueDe(c)
  PROVE  UNCHANGED M!vars
<1>1. /\ Etapes' = [Etapes EXCEPT ![c] = EtapeDe(c)] /\ Vues' = [Vues EXCEPT ![c] = VueDe(c)]
      /\ UNCHANGED <<MancheDe, TirageDe, ResultatDe, AdmisDe>>
  BY UnSeulBouge
<1>2. Etapes' = Etapes /\ Vues' = Vues
  BY <1>1 DEF Etapes, Vues
<1> QED BY <1>1, <1>2 DEF M!vars

\* A client that goes is a player who leaves.
LEMMA PlaceQuittee ==
  ASSUME RInv, NEW c \in Clients, NextClient(c), UNCHANGED serveurVars, EtapeDe(c)' = "parti"
  PROVE  M!Quitter
<1>1. VueDe(c)' = Rien
  BY DEF VueDe
<1>2. /\ Etapes' = [Etapes EXCEPT ![c] = "parti"] /\ Vues' = [Vues EXCEPT ![c] = Rien]
      /\ UNCHANGED <<MancheDe, TirageDe, ResultatDe, AdmisDe>>
  BY <1>1, UnSeulBouge
<1>3. M!Partir({c})
  BY <1>2 DEF M!Partir, M!Rien, Rien, Etapes, Vues
<1> QED BY <1>2, <1>3 DEF M!Quitter

\* The mapping, place by place.
LEMMA EtapeSelonPlace ==
  ASSUME NEW c \in Clients,
         pcC[c] \notin {"fermer", "fini", "tue"}, lien[c] \in {"file", "ouvert"}, ~finClient[c]
  PROVE  /\ pcC[c] = "depart" => EtapeDe(c) = "dehors"
         /\ pcC[c] = "tactile" => EtapeDe(c) = "appelle"
         /\ pcC[c] \in {"synchro", "forme", "indices"} => EtapeDe(c) = "attend"
         /\ pcC[c] = "jeu" => EtapeDe(c) = "joue"
         /\ pcC[c] \in {"juste", "temps", "meilleur", "pire"} => EtapeDe(c) = "repondu"
         /\ pcC[c] = "choix" => EtapeDe(c) = "choisit"
<1>1. CASE pcC[c] = "depart"
  BY <1>1 DEF EtapeDe, Parti
<1>2. CASE pcC[c] = "tactile"
  BY <1>2 DEF EtapeDe, Parti
<1>3. CASE pcC[c] \in {"synchro", "forme", "indices"}
  BY <1>3 DEF EtapeDe, Parti
<1>4. CASE pcC[c] = "jeu"
  BY <1>4 DEF EtapeDe, Parti
<1>5. CASE pcC[c] \in {"juste", "temps", "meilleur", "pire"}
  BY <1>5 DEF EtapeDe, Parti
<1>6. CASE pcC[c] = "choix"
  BY <1>6 DEF EtapeDe, Parti
<1> QED BY <1>1, <1>2, <1>3, <1>4, <1>5, <1>6

\* A client that is gone stays gone.
LEMMA PartiReste ==
  ASSUME RInv, NEW c \in Clients, NextClient(c), EtapeDe(c) = "parti"
  PROVE  EtapeDe(c)' = "parti"
<1>1. /\ pcC \in [Clients -> EtatsClient] /\ lien \in [Clients -> Liens]
      /\ finClient \in [Clients -> BOOLEAN]
  BY DEF RInv, TypesClients, IInv, TypeServeur, TypeSockets
<1>2. pcC[c] # "depart" /\ pcC'[c] # "depart"
  <2>1. pcC[c] # "depart"
    BY DEF EtapeDe, Parti
  <2> QED BY <1>1, <2>1 DEF NextClient, PasClient, EchecDemarrage, Connecter, Confirmer,
         RecevoirSynchro, RecevoirForme, RecevoirIndices, LireHorsTable, EnvoyerTemps,
         EnvoyerJuste, Jouer, RecevoirMeilleur, RecevoirPire, Choisir, Fermer, ClientTue,
         Interrompre, Aller
<1>3. pcC[c] \in {"fermer", "fini", "tue"} => pcC'[c] \in {"fermer", "fini", "tue"}
  BY <1>1 DEF NextClient, PasClient, EchecDemarrage, Connecter, Confirmer, RecevoirSynchro,
         RecevoirForme, RecevoirIndices, LireHorsTable, EnvoyerTemps, EnvoyerJuste, Jouer,
         RecevoirMeilleur, RecevoirPire, Choisir, Fermer, ClientTue, Interrompre, Aller
<1>4. finClient[c] => finClient'[c]
  <2>1. CASE UNCHANGED sockVars \/ (\E m \in Unites : ClientEnvoie(c, m)) \/ ClientLit(c)
             \/ Connecter(c)
    BY <2>1 DEF Connecter, ClientConnecte, ClientEnvoie, ClientLit, sockVars
  <2>2. CASE ClientFerme(c)
    BY <1>1, <2>2 DEF ClientFerme
  <2> QED BY <2>1, <2>2, ClasseClient
<1>5. lien[c] \notin {"file", "ouvert"} => lien'[c] \notin {"file", "ouvert"}
  <2>1. ~Connecter(c)
    BY <1>2 DEF Connecter, Aller
  <2> QED BY <2>1, ClasseClient DEF ClientEnvoie, ClientLit, ClientFerme, sockVars
<1>6. pcC[c] \in {"fermer", "fini", "tue"} \/ lien[c] \notin {"file", "ouvert"} \/ finClient[c]
  BY <1>1, EtapeSelonPlace DEF EtatsClient
<1> QED BY <1>2, <1>3, <1>4, <1>5, <1>6 DEF EtapeDe, Parti

\* The places of a client that is there.
LEMMA EnPlace ==
  ASSUME RInv, NEW c \in Clients, EtapeDe(c) \notin {"dehors", "parti"}
  PROVE  /\ lien[c] \in {"file", "ouvert"} /\ ~finClient[c]
         /\ pcC[c] \in EtatsClient \ {"depart", "fermer", "fini", "tue"}
<1>1. pcC[c] \in EtatsClient /\ lien[c] \in Liens
  BY DEF RInv, TypesClients, IInv, TypeServeur, TypeSockets
<1>2. pcC[c] # "depart"
  BY DEF EtapeDe, Parti
<1>3. pcC[c] \notin {"fermer", "fini", "tue"}
  BY <1>2 DEF EtapeDe, Parti
<1>4. lien[c] \in {"file", "ouvert"} /\ ~finClient[c]
  BY <1>2 DEF EtapeDe, Parti
<1> QED BY <1>1, <1>2, <1>3, <1>4

\* What a client that is there reads comes from the server, in order.
LEMMA LuEnOrdre ==
  ASSUME RInv, NEW c \in Clients, EtapeDe(c) \notin {"dehors", "parti"},
         NEW R, NEW v \in Recu(c, R),
         pcC[c] \in {"synchro", "forme", "indices", "meilleur", "pire"}
  PROVE  /\ EnLigne(c) /\ versClient[c] # <<>> /\ v = versClient[c][1].val
         /\ 1 \in 1 .. Len(versClient[c])
         /\ versClient[c][1].type = AttenduClient(c)
<1>1. lien[c] \in {"file", "ouvert"} /\ ~finClient[c]
  BY EnPlace
<1>2. versClient[c] # <<>> /\ v = Head(versClient[c]).val
  BY <1>1 DEF Recu
<1>3. EnLigne(c)
  BY <1>1, <1>2, Nouveau DEF EnLigne
<1>4. 1 \in 1 .. Len(versClient[c]) /\ Head(versClient[c]) = versClient[c][1]
  BY <1>2, TypesFlux
<1>5. Head(versClient[c]).type = AttenduClient(c)
  <2>1. AligneClient(Pos(pcC[c]), versClient[c]) /\ versClient[c] \in Seq(UnitesClient)
    BY TypesFlux DEF RInv, Fiche, Suite
  <2>2. Pos(pcC[c]) \in 1 .. 9
    BY DEF Pos
  <2>3. Head(versClient[c]).type = Ordre[Pos(pcC[c])]
    BY <1>2, <2>1, <2>2, AligneLectureClient
  <2>4. Ordre[Pos(pcC[c])] = AttenduClient(c)
    <3>1. CASE pcC[c] = "synchro"
      BY <3>1 DEF Pos, Ordre, AttenduClient
    <3>2. CASE pcC[c] = "forme"
      BY <3>2 DEF Pos, Ordre, AttenduClient
    <3>3. CASE pcC[c] = "indices"
      BY <3>3 DEF Pos, Ordre, AttenduClient
    <3>4. CASE pcC[c] = "meilleur"
      BY <3>4 DEF Pos, Ordre, AttenduClient
    <3>5. CASE pcC[c] = "pire"
      BY <3>5 DEF Pos, Ordre, AttenduClient
    <3> QED BY <3>1, <3>2, <3>3, <3>4, <3>5
  <2> QED BY <2>3, <2>4
<1> QED BY <1>2, <1>3, <1>4, <1>5

\* Who reads the order is in a round, and then sees its draw.
LEMMA DecouvrirManches ==
  ASSUME RInv, NEW c \in Clients, RecevoirIndices(c), UNCHANGED serveurVars,
         EtapeDe(c) \notin {"dehors", "parti"}
  PROVE  M!Decouvrir(c)
<1>1. /\ pcC \in [Clients -> EtatsClient] /\ loc \in [Clients -> Locales]
      /\ pcC[c] = "indices" /\ pcC'[c] = "jeu" /\ UNCHANGED <<lien, finClient>>
  BY DEF RecevoirIndices, Aller, Consommer, ClientLit, sockVars, RInv, TypesClients
<1>2. PICK v \in Recu(c, [Formes -> Residus]) : loc' = [loc EXCEPT ![c].indices = v]
  BY DEF RecevoirIndices
<1>3. /\ EnLigne(c) /\ versClient[c] # <<>> /\ v = versClient[c][1].val
      /\ 1 \in 1 .. Len(versClient[c]) /\ versClient[c][1].type = "indices"
  BY <1>1, <1>2, LuEnOrdre DEF AttenduClient
<1>4. v = indices /\ loc[c].forme = forme
  <2>1. Pos(pcC[c]) \in 4 .. 8
    BY <1>1 DEF Pos
  <2> QED BY <1>3, <2>1 DEF RInv, Fiche, Tirage
<1>5. loc'[c].forme = forme /\ loc'[c].indices = indices
  BY <1>1, <1>2, <1>4 DEF Locales
<1>6. MancheDe = "jeu"
  <2>1. PICK k \in actifs :
           /\ PosServeur(k) \in 1 .. 10 /\ Pos(pcC[c]) \in 1 .. 9
           /\ Accord(PosServeur(k), Pos(pcC[c]), versServeur[c], versClient[c])
    BY <1>3, Place
  <2>2. Pos(pcC[c]) = 4
    BY <1>1 DEF Pos
  <2>3. PosServeur(k) \in {4, 5}
    BY <1>3, <2>1, <2>2, TypesFlux, OuEstLeClient
  <2>4. PosServeur(k) # 4
    <3> SUFFICES ASSUME PosServeur(k) = 4 PROVE FALSE
      OBVIOUS
    <3>1. Len(versServeur[c]) \in Nat /\ Len(versServeur[c]) >= 1
      BY <1>3, <2>1, <2>2, TypesFlux DEF Accord
    <3>2. 4 + 1 - 1 \in DuClient
      BY <2>1, <3>1 DEF Accord, AligneServeur
    <3> QED BY <3>2 DEF DuClient
  <2> QED BY <2>3, <2>4 DEF PosServeur, Boucle, MancheDe
<1>7. EtapeDe(c) = "attend" /\ EtapeDe(c)' = "joue"
  BY <1>1, EnPlace DEF EtapeDe, Parti
<1>8. VueDe(c)' = TirageDe
  BY <1>5, <1>6, <1>7 DEF VueDe, TirageDe
<1>9. c \in AdmisDe
  BY <1>3 DEF AdmisDe, EnLigne
<1>10. NextClient(c)
  BY DEF NextClient, PasClient
<1> QED BY <1>6, <1>7, <1>8, <1>9, <1>10, PlaceAvance DEF M!Decouvrir

\* Who reads the worst time has the result of its round.
LEMMA ApprendreManches ==
  ASSUME RInv, NEW c \in Clients, RecevoirPire(c), UNCHANGED serveurVars,
         EtapeDe(c) \notin {"dehors", "parti"}
  PROVE  M!Apprendre(c)
<1>1. /\ pcC \in [Clients -> EtatsClient] /\ loc \in [Clients -> Locales]
      /\ pcC[c] = "pire" /\ pcC'[c] = "choix" /\ UNCHANGED <<lien, finClient>>
  BY DEF RecevoirPire, Aller, Consommer, ClientLit, sockVars, RInv, TypesClients
<1>2. PICK v \in Recu(c, Residus) : loc' = [loc EXCEPT ![c].pire = v]
  BY DEF RecevoirPire
<1>3. /\ EnLigne(c) /\ versClient[c] # <<>> /\ v = versClient[c][1].val
      /\ 1 \in 1 .. Len(versClient[c]) /\ versClient[c][1].type = "pire"
  BY <1>1, <1>2, LuEnOrdre DEF AttenduClient
<1>4. v = pire /\ loc[c].meilleur = meilleur
  <2>1. Pos(pcC[c]) \in 8 .. 9
    BY <1>1 DEF Pos
  <2> QED BY <1>3, <2>1 DEF RInv, Fiche, Resultat
<1>5. loc'[c].meilleur = meilleur /\ loc'[c].pire = pire
  BY <1>1, <1>2, <1>4 DEF Locales
<1>6. MancheDe = "resultats"
  <2>1. PICK k \in actifs :
           /\ PosServeur(k) \in 1 .. 10 /\ Pos(pcC[c]) \in 1 .. 9
           /\ Accord(PosServeur(k), Pos(pcC[c]), versServeur[c], versClient[c])
    BY <1>3, Place
  <2>2. Pos(pcC[c]) = 8
    BY <1>1 DEF Pos
  <2>3. PosServeur(k) \in {8, 9}
    BY <2>1, <2>2, TypesFlux, OuEstLeClient
  <2> QED BY <2>3 DEF PosServeur, Boucle, MancheDe
<1>7. EtapeDe(c) = "repondu" /\ EtapeDe(c)' = "choisit"
  BY <1>1, EnPlace DEF EtapeDe, Parti
<1>8. VueDe(c)' = ResultatDe
  BY <1>5, <1>6, <1>7 DEF VueDe, ResultatDe
<1>9. NextClient(c)
  BY DEF NextClient, PasClient
<1> QED BY <1>6, <1>7, <1>8, <1>9, PlaceAvance DEF M!Apprendre

\* An answer is one of a player.
LEMMA RepondreManches ==
  ASSUME RInv, NEW c \in Clients, Jouer(c), UNCHANGED serveurVars,
         EtapeDe(c) \notin {"dehors", "parti"}
  PROVE  M!Repondre(c)
<1>1. /\ pcC \in [Clients -> EtatsClient] /\ loc \in [Clients -> Locales]
      /\ pcC[c] = "jeu" /\ pcC'[c] = "juste" /\ UNCHANGED <<lien, finClient>>
  BY DEF Jouer, Aller, sockVars, RInv, TypesClients
<1>2. PICK b \in BOOLEAN, t \in Durees : loc' = [loc EXCEPT ![c].juste = b, ![c].temps = t]
  BY DEF Jouer
<1>3. loc'[c].juste = b /\ loc'[c].temps = t
  BY <1>1, <1>2 DEF Locales
<1>4. EtapeDe(c) = "joue" /\ EtapeDe(c)' = "repondu"
  BY <1>1, EnPlace DEF EtapeDe, Parti
<1>5. VueDe(c)' = [juste |-> b, temps |-> t]
  BY <1>3, <1>4 DEF VueDe
<1>6. NextClient(c)
  BY DEF NextClient, PasClient
<1>7. M!Avancer(c, "joue", "repondu", [juste |-> b, temps |-> t])
  BY <1>4, <1>5, <1>6, PlaceAvance
<1>8. [juste |-> b, temps |-> t] \in [juste : BOOLEAN, temps : Durees]
  OBVIOUS
<1> QED BY <1>7, <1>8 DEF M!Repondre

\* Who closes or dies has left.
LEMMA QuitterManches ==
  ASSUME RInv, NEW c \in Clients, NextClient(c), UNCHANGED serveurVars,
         pcC'[c] \in {"fermer", "fini", "tue"}
  PROVE  M!Quitter
BY PlaceQuittee DEF EtapeDe, Parti

\* connect(), the confirmation and the wish to stay.
LEMMA EntrerManches ==
  ASSUME RInv, NEW c \in Clients, Connecter(c), UNCHANGED serveurVars
  PROVE  M!Arriver(c)
<1>1. /\ pcC \in [Clients -> EtatsClient] /\ lien \in [Clients -> Liens]
      /\ pcC[c] = "depart" /\ pcC'[c] = "tactile" /\ lien[c] = "libre"
  BY DEF Connecter, Aller, ClientConnecte, RInv, TypesClients, IInv, TypeServeur, TypeSockets
<1>2. lien'[c] = "file" /\ ~finClient'[c]
  BY <1>1 DEF Connecter, ClientConnecte, RInv, Fiche, Processus
<1>3. EtapeDe(c) = "dehors" /\ EtapeDe(c)' = "appelle"
  BY <1>1, <1>2 DEF EtapeDe, Parti
<1>4. VueDe(c)' = M!Rien
  BY <1>3 DEF VueDe, Rien, M!Rien
<1>5. NextClient(c)
  BY DEF NextClient
<1> QED BY <1>3, <1>4, <1>5, PlaceAvance DEF M!Arriver

\* The confirmation after the touch sensor (client.c:104-108) and the choice to
\* stay (client.c:251-263).
LEMMA AttendreManches ==
  ASSUME RInv, NEW c \in Clients, UNCHANGED serveurVars,
         EtapeDe(c) \notin {"dehors", "parti"},
         Confirmer(c) \/ (Choisir(c) /\ pcC'[c] = "tactile")
  PROVE  M!Confirmer(c) \/ M!Rester(c)
<1>1. pcC \in [Clients -> EtatsClient] /\ NextClient(c)
  BY DEF RInv, TypesClients, NextClient, PasClient
<1>2. UNCHANGED <<lien, finClient>>
  BY DEF Confirmer, Choisir, ClientEnvoie
<1>3. CASE Confirmer(c)
  <2>1. pcC[c] = "tactile" /\ pcC'[c] = "synchro"
    BY <1>1, <1>3 DEF Confirmer, Aller
  <2>2. EtapeDe(c) = "appelle" /\ EtapeDe(c)' = "attend"
    BY <1>2, <2>1, EnPlace DEF EtapeDe, Parti
  <2>3. VueDe(c)' = M!Rien
    BY <2>2 DEF VueDe, Rien, M!Rien
  <2> QED BY <1>1, <2>2, <2>3, PlaceAvance DEF M!Confirmer
<1>4. CASE Choisir(c) /\ pcC'[c] = "tactile"
  <2>1. pcC[c] = "choix" /\ pcC'[c] = "tactile"
    BY <1>4 DEF Choisir, Aller
  <2>2. EtapeDe(c) = "choisit" /\ EtapeDe(c)' = "appelle"
    BY <1>2, <2>1, EnPlace DEF EtapeDe, Parti
  <2>3. VueDe(c)' = M!Rien
    BY <2>2 DEF VueDe, Rien, M!Rien
  <2> QED BY <1>1, <2>2, <2>3, PlaceAvance DEF M!Rester
<1> QED BY <1>3, <1>4

\* The calls of a client that its player does not see.
LEMMA DiscretManches ==
  ASSUME RInv, NEW c \in Clients, UNCHANGED serveurVars, EtapeDe(c) \notin {"dehors", "parti"},
         \/ RecevoirSynchro(c) /\ pcC'[c] = "forme"
         \/ RecevoirForme(c) \/ EnvoyerJuste(c) \/ EnvoyerTemps(c) \/ RecevoirMeilleur(c)
  PROVE  UNCHANGED M!vars
<1>1. /\ pcC \in [Clients -> EtatsClient] /\ loc \in [Clients -> Locales] /\ NextClient(c)
  BY DEF RInv, TypesClients, NextClient, PasClient
<1>2. UNCHANGED <<lien, finClient>>
  BY DEF RecevoirSynchro, RecevoirForme, RecevoirMeilleur, EnvoyerJuste, EnvoyerTemps,
         Consommer, ClientLit, ClientEnvoie, sockVars
<1>3. CASE (RecevoirSynchro(c) /\ pcC'[c] = "forme") \/ RecevoirForme(c)
  <2>1. pcC[c] \in {"synchro", "forme"} /\ pcC'[c] \in {"forme", "indices"}
    BY <1>1, <1>3 DEF RecevoirSynchro, RecevoirForme, Aller
  <2>2. EtapeDe(c) = "attend" /\ EtapeDe(c)' = "attend"
    BY <1>2, <2>1, EnPlace DEF EtapeDe, Parti
  <2>3. VueDe(c)' = VueDe(c)
    BY <2>2 DEF VueDe, Rien
  <2> QED BY <1>1, <2>2, <2>3, PlaceGardee
<1>4. CASE EnvoyerJuste(c) \/ EnvoyerTemps(c) \/ RecevoirMeilleur(c)
  <2>1. pcC[c] \in {"juste", "temps", "meilleur"} /\ pcC'[c] \in {"temps", "meilleur", "pire"}
    BY <1>1, <1>4 DEF EnvoyerJuste, EnvoyerTemps, RecevoirMeilleur, Aller
  <2>2. EtapeDe(c) = "repondu" /\ EtapeDe(c)' = "repondu"
    BY <1>2, <2>1, EnPlace DEF EtapeDe, Parti
  <2>3. loc'[c].juste = loc[c].juste /\ loc'[c].temps = loc[c].temps
    BY <1>1, <1>4 DEF EnvoyerJuste, EnvoyerTemps, RecevoirMeilleur, Locales
  <2>4. VueDe(c)' = VueDe(c)
    BY <2>2, <2>3 DEF VueDe
  <2> QED BY <1>1, <2>2, <2>4, PlaceGardee
<1> QED BY <1>3, <1>4

\* Every step of client.c is a step of Manches or none.
LEMMA ClientManches ==
  ASSUME RInv, NEW c \in Clients, NextClient(c), UNCHANGED serveurVars
  PROVE  M!Next \/ UNCHANGED M!vars
<1>1. pcC \in [Clients -> EtatsClient]
  BY DEF RInv, TypesClients
<1>2. CASE EtapeDe(c) = "parti"
  <2>1. EtapeDe(c)' = "parti"
    BY <1>2, PartiReste
  <2>2. VueDe(c)' = VueDe(c)
    BY <1>2, <2>1 DEF VueDe, Rien
  <2> QED BY <1>2, <2>1, <2>2, PlaceGardee
<1>3. CASE pcC'[c] \in {"fermer", "fini", "tue"}
  BY <1>3, QuitterManches DEF M!Next
<1>4. CASE EtapeDe(c) = "dehors" /\ pcC'[c] \notin {"fermer", "fini", "tue"}
  <2>1. pcC[c] = "depart"
    <3>1. pcC[c] \in EtatsClient
      BY <1>1
    <3> QED BY <1>4, <3>1 DEF EtapeDe, Parti, EtatsClient
  <2>2. Connecter(c)
    BY <1>1, <1>4, <2>1 DEF NextClient, PasClient, EchecDemarrage, Confirmer, RecevoirSynchro,
         RecevoirForme, RecevoirIndices, LireHorsTable, EnvoyerTemps, EnvoyerJuste, Jouer,
         RecevoirMeilleur, RecevoirPire, Choisir, Fermer, ClientTue, Interrompre, Aller
  <2> QED BY <2>2, EntrerManches DEF M!Next
<1>5. CASE EtapeDe(c) \notin {"dehors", "parti"} /\ pcC'[c] \notin {"fermer", "fini", "tue"}
  <2>1. pcC[c] # "depart"
    BY <1>5, EnPlace
  <2>2. \/ Confirmer(c)
        \/ Choisir(c) /\ pcC'[c] = "tactile"
        \/ RecevoirSynchro(c) /\ pcC'[c] = "forme"
        \/ RecevoirForme(c) \/ EnvoyerJuste(c) \/ EnvoyerTemps(c) \/ RecevoirMeilleur(c)
        \/ RecevoirIndices(c) \/ Jouer(c) \/ RecevoirPire(c)
    <3>1. ~(EchecDemarrage(c) \/ Connecter(c) \/ LireHorsTable(c) \/ Fermer(c) \/ ClientTue(c)
            \/ Interrompre(c))
      BY <1>1, <1>5, <2>1 DEF EchecDemarrage, Connecter, LireHorsTable, Fermer, ClientTue,
           Interrompre, Aller
    <3>2. RecevoirSynchro(c) => pcC'[c] = "forme"
      BY <1>1, <1>5 DEF RecevoirSynchro, Aller
    <3>3. Choisir(c) => pcC'[c] = "tactile"
      BY <1>1, <1>5 DEF Choisir, Aller
    <3> QED BY <3>1, <3>2, <3>3 DEF NextClient, PasClient
  <2> QED BY <1>5, <2>2, AttendreManches, DiscretManches, DecouvrirManches, RepondreManches,
             ApprendreManches DEF M!Next
<1> QED BY <1>2, <1>3, <1>4, <1>5

-----------------------------------------------------------------------------
(***************************************************************************)
(* The steps of the server.                                                *)
(***************************************************************************)
\* A player leaves when the server closes its connection, and only then.
LEMMA CoupesPartent ==
  ASSUME RInv, RInv', NextServeur, UNCHANGED clientVars, NEW c \in Clients
  PROVE  /\ lien[c] # "ferme" /\ lien'[c] = "ferme" => EtapeDe(c)' = "parti"
         /\ ~(lien[c] # "ferme" /\ lien'[c] = "ferme") => EtapeDe(c)' = EtapeDe(c)
<1>1. /\ lien[c] \in Liens /\ lien'[c] \in Liens
      /\ pcC' = pcC /\ finClient' = finClient
      /\ lien'[c] = "file" => lien[c] = "file"
      /\ lien'[c] = "libre" <=> lien[c] = "libre"
      /\ lien'[c] = "ouvert" => lien[c] \in {"file", "ouvert"}
  BY Titulaires DEF RInv, IInv, TypeServeur, TypeSockets, clientVars
<1>2. ASSUME lien[c] # "ferme", lien'[c] = "ferme" PROVE EtapeDe(c)' = "parti"
  <2>1. lien[c] # "libre"
    BY <1>1, <1>2
  <2>2. pcC[c] # "depart"
    BY <2>1 DEF RInv, Fiche, Processus
  <2> QED BY <1>1, <1>2, <2>2 DEF EtapeDe, Parti
<1>3. ASSUME ~(lien[c] # "ferme" /\ lien'[c] = "ferme") PROVE EtapeDe(c)' = EtapeDe(c)
  <2>1. lien'[c] \in {"file", "ouvert"} <=> lien[c] \in {"file", "ouvert"}
    BY <1>1, <1>3 DEF Liens
  <2>2. CASE pcC[c] = "depart"
    BY <1>1, <2>2 DEF EtapeDe
  <2>3. CASE pcC[c] # "depart" /\ Parti(c)
    BY <1>1, <2>1, <2>3 DEF EtapeDe, Parti
  <2>4. CASE pcC[c] # "depart" /\ ~Parti(c)
    <3>1. pcC[c] \in EtatsClient /\ pcC[c] \notin {"fermer", "fini", "tue"}
      BY <2>4 DEF RInv, TypesClients, Parti
    <3>2. ~Parti(c)'
      BY <1>1, <2>1, <2>4 DEF Parti
    <3> QED BY <1>1, <2>4, <3>1, <3>2 DEF EtapeDe, EtatsClient
  <2> QED BY <2>2, <2>3, <2>4
<1> QED BY <1>2, <1>3

\* What a player sees changes in a step of the server only when it is cut.
LEMMA VueServeur ==
  ASSUME UNCHANGED clientVars, NEW c \in Clients
  PROVE  /\ EtapeDe(c)' = EtapeDe(c) => VueDe(c)' = VueDe(c)
         /\ EtapeDe(c)' = "parti" => VueDe(c)' = Rien
<1>1. loc' = loc
  BY DEF clientVars
<1>2. ASSUME EtapeDe(c)' = EtapeDe(c) PROVE VueDe(c)' = VueDe(c)
  BY <1>1, <1>2 DEF VueDe, Rien
<1>3. ASSUME EtapeDe(c)' = "parti" PROVE VueDe(c)' = Rien
  BY <1>3 DEF VueDe, Rien
<1> QED BY <1>2, <1>3

\* In a step of the server those leave whose connection it closes, and nobody
\* else.
LEMMA PartirServeur ==
  ASSUME RInv, RInv', NextServeur, UNCHANGED clientVars
  PROVE  \E P \in SUBSET Clients : M!Partir(P)
<1> DEFINE P == {c \in Clients : lien[c] # "ferme" /\ lien'[c] = "ferme"}
<1>1. \A c \in Clients : IF c \in P THEN EtapeDe(c)' = "parti" ELSE EtapeDe(c)' = EtapeDe(c)
  BY CoupesPartent
<1>2. P \in SUBSET Clients
  OBVIOUS
<1> HIDE DEF P
<1>3. \A c \in Clients : IF c \in P THEN VueDe(c)' = Rien ELSE VueDe(c)' = VueDe(c)
  BY <1>1, VueServeur
<1>4. M!Partir(P)
  BY <1>1, <1>3 DEF M!Partir, M!Rien, Rien, Etapes, Vues
<1> QED BY <1>2, <1>4

\* Nobody leaves when only clients that are gone are closed.
LEMMA PersonneNePart ==
  ASSUME RInv, RInv', NextServeur, UNCHANGED clientVars,
         \A c \in Clients : lien[c] # "ferme" /\ lien'[c] = "ferme" => EtapeDe(c) = "parti"
  PROVE  UNCHANGED <<Etapes, Vues>>
<1>1. \A c \in Clients : EtapeDe(c)' = EtapeDe(c)
  BY CoupesPartent
<1>2. \A c \in Clients : VueDe(c)' = VueDe(c)
  BY <1>1, VueServeur
<1> QED BY <1>1, <1>2 DEF Etapes, Vues

\* The game is over.
LEMMA ArreterManches ==
  ASSUME RInv, RInv', NextServeur, UNCHANGED clientVars, MancheDe' = "fin"
  PROVE  M!Arreter
<1>1. TirageDe' = M!Rien /\ ResultatDe' = M!Rien
  BY DEF TirageDe, ResultatDe, M!Rien, Rien
<1>2. \E P \in SUBSET Clients : M!Partir(P)
  BY PartirServeur
<1>3. pcS' \notin {"demarrage", "premier", "autres", "select", "prets", "signal", "forme",
                  "indices", "juste", "temps", "bilan", "meilleur", "pire", "choix"}
  BY DEF MancheDe
<1>4. lien' = lien \/ ToutFermer
  BY <1>3 DEF NextServeur, PasServeur, EchangeAvec, AccepterPremier, AccepterAutre, Select,
         FinDelai, FinTour, FinSignal, FinGrille, FinTemps, Bilan, FinBilan, FinResultats,
         FinChoix, Fermeture, SelectErreur, TueParSigpipe, Demarrer, LirePret, EnvoyerSignal,
         EnvoyerForme, EnvoyerIndices, RecevoirJuste, RecevoirTemps, EnvoyerMeilleur,
         EnvoyerPire, RecevoirChoix, sockVars
<1>5. AdmisDe' \in SUBSET AdmisDe
  BY <1>4 DEF ToutFermer, Couper, AdmisDe
<1> QED BY <1>1, <1>2, <1>5 DEF M!Arreter

\* The two modules count in the same way.
LEMMA MemeCardinal ==
  ASSUME NEW S PROVE M!Cardinality(S) = Cardinality(S)
BY Zenon DEF M!Cardinality, Cardinality

\* There are as many players as active slots, at most.
LEMMA AdmisComptes ==
  ASSUME RInv, ~ServeurFini
  PROVE  /\ IsFiniteSet(AdmisDe) /\ Cardinality(AdmisDe) \in Nat
         /\ Cardinality(AdmisDe) <= nbClients
<1>1. nbClients \in Nat /\ actifs \in SUBSET (0 .. nbClients - 1) /\ SalonSain
  BY SocketsAssumption DEF RInv, IInv, TypeServeur, TypeSalon, DescripteursSains
<1>2. IsFiniteSet(0 .. nbClients - 1) /\ Cardinality(0 .. nbClients - 1) = nbClients
  <2>1. IsFiniteSet(0 .. nbClients - 1)
        /\ Cardinality(0 .. nbClients - 1)
             = IF 0 > nbClients - 1 THEN 0 ELSE nbClients - 1 - 0 + 1
    BY <1>1, FS_Interval
  <2> QED BY <1>1, <2>1
<1>3. IsFiniteSet(actifs) /\ Cardinality(actifs) <= nbClients /\ Cardinality(actifs) \in Nat
  BY <1>1, <1>2, FS_Subset, FS_CardinalityType
<1> DEFINE f == [k \in actifs |-> CHOOSE c \in Clients : Titulaire(k, c)]
<1>4. \A k \in actifs : f[k] \in Clients /\ Titulaire(k, f[k])
  BY <1>1 DEF SalonSain
<1>5. f \in [actifs -> AdmisDe]
  BY <1>4 DEF Titulaire, AdmisDe
<1>6. ASSUME NEW c \in AdmisDe PROVE \E k \in actifs : f[k] = c
  <2>1. c \in Clients /\ lien[c] = "ouvert"
    BY DEF AdmisDe
  <2>2. PICK k \in actifs : Titulaire(k, c)
    BY <1>1, <2>1 DEF SalonSain
  <2>3. Titulaire(k, f[k]) /\ f[k] \in Clients
    BY <1>4
  <2> HIDE DEF f
  <2>4. f[k] = c
    BY <2>1, <2>2, <2>3, Unique
  <2> QED BY <2>4
<1> HIDE DEF f
<1>7. f \in Surjection(actifs, AdmisDe)
  BY <1>5, <1>6 DEF Surjection
<1>8. IsFiniteSet(AdmisDe) /\ Cardinality(AdmisDe) <= Cardinality(actifs)
  BY <1>3, <1>7, FS_Surjection
<1>9. Cardinality(AdmisDe) \in Nat
  BY <1>8, FS_CardinalityType
<1> QED BY <1>1, <1>3, <1>8, <1>9

\* accept(): somebody enters between two rounds.
LEMMA AdmettreManches ==
  ASSUME RInv, RInv', NextServeur, UNCHANGED clientVars, Accueil, nbClients < MAX_CLIENTS,
         UNCHANGED <<MancheDe, TirageDe, ResultatDe>>
  PROVE  \E c \in Clients : M!Admettre(c)
<1>1. PICK f \in Descripteurs : Accepter(f) /\ AjouterClient(f)
  BY DEF Accueil
<1>2. Head(file) \in Clients /\ TypeSockets
  BY <1>1, TypeAccepter DEF RInv, IInv, TypeServeur
<1> DEFINE h == Head(file)
<1>3. file \in Seq(Clients) /\ file # <<>> /\ lien \in [Clients -> Liens]
      /\ lien' = [lien EXCEPT ![h] = "ouvert"]
  BY <1>1, <1>2 DEF Accepter, TypeSockets
<1>4. h = file[1] /\ 1 \in 1 .. Len(file)
  BY <1>3
<1>5. lien[h] = "file"
  BY <1>4 DEF RInv, IInv, Connexions
<1>6. h \in Clients
  BY <1>2
<1> HIDE DEF h
<1>7. h \notin AdmisDe /\ AdmisDe' = AdmisDe \cup {h}
  BY <1>3, <1>5, <1>6 DEF AdmisDe
<1>8. UNCHANGED <<Etapes, Vues>>
  <2>1. \A c \in Clients : lien'[c] = "ferme" => lien[c] = "ferme"
    BY <1>3
  <2> QED BY <2>1, PersonneNePart
<1>9. pcS \in {"premier", "autres", "select"}
  <2>1. nbClients \in Nat /\ nbClients' = nbClients + 1
    BY <1>1 DEF AjouterClient, RInv, IInv, TypeServeur, TypeSalon
  <2>2. nbClients' # nbClients
    BY <2>1
  <2> QED BY <2>2 DEF NextServeur, PasServeur, EchangeAvec, AccepterPremier, AccepterAutre,
         Select, FinDelai, FinTour, FinSignal, FinGrille, FinTemps, FinBilan, FinResultats,
         FinChoix, SelectErreur, Bilan, Demarrer, Fermeture, TueParSigpipe, LirePret,
         EnvoyerSignal, EnvoyerForme, EnvoyerIndices, RecevoirJuste, RecevoirTemps,
         EnvoyerMeilleur, EnvoyerPire, RecevoirChoix, PerteReponse, Deconnecter, Depart,
         salonVars
<1>10. MancheDe = "salon"
  BY <1>9 DEF MancheDe
<1>11. Cardinality(AdmisDe) < MAX_CLIENTS
  <2>1. ~ServeurFini
    BY <1>9 DEF ServeurFini
  <2>2. Cardinality(AdmisDe) \in Nat /\ Cardinality(AdmisDe) <= nbClients /\ nbClients \in Nat
    BY <2>1, AdmisComptes DEF RInv, IInv, TypeServeur, TypeSalon
  <2> QED BY <2>2, SocketsAssumption
<1>12. M!Cardinality(AdmisDe) < MAX_CLIENTS
  BY <1>11, MemeCardinal
<1>13. M!Admettre(h)
  BY <1>7, <1>8, <1>10, <1>12 DEF M!Admettre
<1> QED BY <1>6, <1>13

\* close() of a client that is gone: it is forgotten.
LEMMA OublierManches ==
  ASSUME RInv, RInv', NextServeur, UNCHANGED clientVars,
         NEW c \in Clients, NEW R, Couper({c}, R), EtapeDe(c) = "parti",
         UNCHANGED <<MancheDe, TirageDe, ResultatDe>>
  PROVE  M!Oublier
<1>1. \A d \in Clients : lien'[d] = (IF d = c THEN "ferme" ELSE lien[d])
  BY DEF Couper
<1>2. UNCHANGED <<Etapes, Vues>>
  BY <1>1, PersonneNePart
<1>3. AdmisDe' = AdmisDe \ {c}
  BY <1>1 DEF AdmisDe
<1>4. c \notin M!Presents
  BY DEF M!Presents, Etapes
<1>5. M!Presents \subseteq AdmisDe'
  BY <1>3, <1>4 DEF M!Presents
<1> QED BY <1>2, <1>3, <1>5 DEF M!Oublier

\* A connection that is refused is a player who leaves.
LEMMA RefuserManches ==
  ASSUME RInv, RInv', NextServeur, UNCHANGED clientVars, Refuser,
         UNCHANGED <<MancheDe, TirageDe, ResultatDe>>
  PROVE  M!Quitter
<1>1. file \in Seq(Clients) /\ file # <<>>
  BY DEF Refuser, RInv, IInv, TypeServeur, TypeSockets
<1>2. Head(file) = file[1] /\ 1 \in 1 .. Len(file) /\ Head(file) \in Clients
  BY <1>1
<1>3. lien[Head(file)] = "file"
  BY <1>2 DEF RInv, IInv, Connexions
<1>4. \A d \in Clients : lien'[d] = (IF d = Head(file) THEN "ferme" ELSE lien[d])
  BY DEF Refuser, Couper
<1>5. AdmisDe' = AdmisDe
  BY <1>3, <1>4 DEF AdmisDe
<1> QED BY <1>5, PartirServeur DEF M!Quitter

\* The server closes a connection in a loop only when its client is gone: the
\* end of the stream says so, and who answers 'n' leaves.
LEMMA PerduEstParti ==
  ASSUME RInv, MancheInv, NEW k \in Slots, NEW c \in Clients, EchangeAvec(k, c)
  PROVE  \/ lien' = lien
         \/ EtapeDe(c) = "parti" /\ \E R : Couper({c}, R)
<1>1. ASSUME FluxFini(c), Deconnecter(k, c)
      PROVE  EtapeDe(c) = "parti" /\ \E R : Couper({c}, R)
  <2>1. pcC[c] \in {"fini", "tue"}
    BY <1>1 DEF FluxFini, RInv, Fiche, Processus
  <2>2. EtapeDe(c) = "parti"
    BY <2>1 DEF EtapeDe, Parti
  <2> QED BY <1>1, <2>2 DEF Deconnecter, FermerServeur
<1>2. ASSUME pcS = "choix", Tour(k, c), versServeur[c] # <<>>, Head(versServeur[c]).val # OUI,
             Depart(k, c)
      PROVE  EtapeDe(c) = "parti" /\ \E R : Couper({c}, R)
  <2>1. k \in aFaire /\ Titulaire(k, c)
    BY <1>2 DEF Tour
  <2>2. k \in actifs
    BY <1>2, <2>1 DEF RInv, IInv, DescripteursSains, ServeurFini, SalonSain
  <2>3. PosServeur(k) = 9
    BY <1>2, <2>1 DEF PosServeur, Boucle
  <2>4. /\ Head(versServeur[c]).type = "choix" /\ 1 \in 1 .. Len(versServeur[c])
        /\ Head(versServeur[c]) = versServeur[c][1]
    BY <1>2, <2>1, <2>2, <2>3, TeteDuFlux DEF Ordre
  <2>5. pcC[c] \in {"fermer", "fini", "tue"}
    BY <1>2, <2>4 DEF MancheInv, Sincere
  <2>6. EtapeDe(c) = "parti"
    BY <2>5 DEF EtapeDe, Parti
  <2> QED BY <1>2, <2>6 DEF Depart, LireEtFermer
<1>3. ASSUME ServeurLit(c) \/ \E m : ServeurEnvoie(c, m) PROVE lien' = lien
  BY <1>3 DEF ServeurLit, ServeurEnvoie
<1>4. CASE LirePret(k, c)
  BY <1>1, <1>3, <1>4 DEF LirePret
<1>5. CASE RecevoirJuste(k, c)
  BY <1>1, <1>3, <1>5 DEF RecevoirJuste, PerteReponse
<1>6. CASE RecevoirTemps(k, c)
  BY <1>1, <1>3, <1>6 DEF RecevoirTemps
<1>7. CASE RecevoirChoix(k, c)
  BY <1>1, <1>2, <1>3, <1>7 DEF RecevoirChoix, VeutRejouer
<1>8. CASE EnvoyerSignal(k, c) \/ EnvoyerForme(k, c) \/ EnvoyerIndices(k, c)
           \/ EnvoyerMeilleur(k, c) \/ EnvoyerPire(k, c)
  BY <1>3, <1>8 DEF EnvoyerSignal, EnvoyerForme, EnvoyerIndices, EnvoyerMeilleur, EnvoyerPire
<1> QED BY <1>4, <1>5, <1>6, <1>7, <1>8 DEF EchangeAvec

\* Only the loops lose a client.
LEMMA PerteEnBoucle ==
  ASSUME NextServeur, Perte, RInv
  PROVE  \E k \in Slots, c \in Clients : EchangeAvec(k, c)
<1>1. actifs' # actifs /\ nbClients' = nbClients
  BY DEF Perte
<1>2. nbClients + 1 # nbClients
  BY DEF RInv, IInv, TypeServeur, TypeSalon
<1> QED BY <1>1, <1>2 DEF NextServeur, PasServeur, AccepterPremier, AccepterAutre,
         AjouterClient, Select, FinDelai, FinTour, FinSignal, FinGrille, FinTemps, FinBilan,
         FinResultats, FinChoix, SelectErreur, Bilan, Demarrer, Fermeture, TueParSigpipe,
         salonVars

\* When the round stays what it is, somebody has come, gone or been forgotten.
LEMMA SalonManches ==
  ASSUME RInv, RInv', MancheInv, NextServeur, UNCHANGED clientVars, MancheDe' # "fin",
         UNCHANGED <<MancheDe, TirageDe, ResultatDe>>
  PROVE  M!Next \/ UNCHANGED M!vars
<1>1. ASSUME lien' = lien PROVE UNCHANGED M!vars
  <2>1. UNCHANGED <<Etapes, Vues>>
    BY <1>1, PersonneNePart
  <2>2. AdmisDe' = AdmisDe
    BY <1>1 DEF AdmisDe
  <2> QED BY <2>1, <2>2 DEF M!vars
<1>2. Sain /\ Debut
  <2>1. ~ServeurFini
    BY DEF ServeurFini, MancheDe
  <2> QED BY <2>1 DEF RInv, IInv, Sain, DescripteursSains
<1>3. CASE Calme
  BY <1>1, <1>3 DEF Calme
<1>4. CASE Accueil /\ nbClients < MAX_CLIENTS
  BY <1>4, AdmettreManches DEF M!Next
<1>5. CASE Perte
  <2>1. PICK k \in Slots, c \in Clients : EchangeAvec(k, c)
    BY <1>5, PerteEnBoucle
  <2>2. CASE lien' = lien
    BY <1>1, <2>2
  <2>3. CASE EtapeDe(c) = "parti" /\ \E R : Couper({c}, R)
    BY <2>3, OublierManches DEF M!Next
  <2> QED BY <2>1, <2>2, <2>3, PerduEstParti
<1>6. CASE Refus
  BY <1>6, RefuserManches DEF M!Next, Refus
<1>7. ~Fin
  BY DEF Fin, ServeurFini, MancheDe
<1> QED BY <1>2, <1>3, <1>4, <1>5, <1>6, <1>7, ClasseServeur

\* The steps that change the round.
LEMMA TournantServeur ==
  ASSUME RInv, NextServeur, MancheDe' # "fin"
  PROVE  \/ UNCHANGED <<MancheDe, TirageDe, ResultatDe>>
         \/ FinSignal \/ FinBilan \/ (FinChoix /\ rejouer > 0)
<1>1. pcS' \notin {"fermeture", "arret", "tue"}
  BY DEF MancheDe
<1>2. CASE \E k \in Slots : Bilan(k)
  BY <1>2 DEF Bilan, MancheDe, TirageDe, ResultatDe, Rien
<1>3. CASE FinGrille \/ FinTemps
  BY <1>3 DEF FinGrille, FinTemps, MancheDe, TirageDe, ResultatDe, Rien
<1>4. CASE FinTour \/ FinResultats \/ FinDelai \/ Demarrer
  BY <1>1, <1>4 DEF FinTour, FinResultats, FinDelai, Demarrer, DebutAttente, mancheVars,
       MancheDe, TirageDe, ResultatDe, Rien
<1>5. CASE AccepterPremier \/ AccepterAutre \/ Select
  BY <1>5 DEF AccepterPremier, AccepterAutre, Select, MancheDe, TirageDe, ResultatDe, Rien
<1>6. CASE \E k \in Slots, c \in Clients : EchangeAvec(k, c)
  <2>1. PICK k \in Slots, c \in Clients : EchangeAvec(k, c)
    BY <1>6
  <2>2. UNCHANGED <<forme, indices, meilleur, pire>>
    BY <2>1 DEF EchangeAvec, LirePret, EnvoyerSignal, EnvoyerForme, EnvoyerIndices,
         RecevoirJuste, RecevoirTemps, EnvoyerMeilleur, EnvoyerPire, RecevoirChoix, mancheVars
  <2>3. MancheDe' = MancheDe
    BY <2>1 DEF EchangeAvec, LirePret, EnvoyerSignal, EnvoyerForme, EnvoyerIndices,
         RecevoirJuste, RecevoirTemps, EnvoyerMeilleur, EnvoyerPire, RecevoirChoix, MancheDe
  <2> QED BY <2>2, <2>3 DEF TirageDe, ResultatDe, Rien
<1>7. CASE FinChoix
  BY <1>1, <1>7 DEF FinChoix
<1>8. ~Fermeture /\ ~SelectErreur /\ ~TueParSigpipe
  BY <1>1 DEF Fermeture, SelectErreur, TueParSigpipe
<1> QED BY <1>2, <1>3, <1>4, <1>5, <1>6, <1>7, <1>8 DEF NextServeur, PasServeur

\* A player who is there is connected, and its place says what it does.
LEMMA PresentEnLigne ==
  ASSUME RInv, NEW c \in M!Presents
  PROVE  /\ c \in Clients /\ EnLigne(c) /\ Etapes[c] = EtapeDe(c)
         /\ pcC[c] \notin {"fermer", "fini", "tue"} /\ lien[c] = "ouvert" /\ ~finClient[c]
<1>1. c \in Clients /\ lien[c] = "ouvert" /\ Etapes[c] # "parti"
  BY DEF M!Presents, AdmisDe
<1>2. Etapes[c] = EtapeDe(c)
  BY <1>1 DEF Etapes
<1>3. pcC[c] # "depart"
  BY <1>1 DEF RInv, Fiche, Processus
<1> QED BY <1>1, <1>2, <1>3 DEF EtapeDe, Parti, EnLigne

\* Between two loops the server is at one place with everybody.
LEMMA TousAuMeme ==
  ASSUME RInv, NEW p \in 1 .. 10, \A k \in actifs : PosServeur(k) = p, NEW c \in M!Presents
  PROVE  /\ p = 3 => EtapeDe(c) = "attend"
         /\ p = 7 => EtapeDe(c) = "repondu" /\ Pos(pcC[c]) = 7
         /\ p = 10 => EtapeDe(c) \in {"appelle", "attend"}
<1>1. /\ c \in Clients /\ EnLigne(c) /\ pcC[c] \notin {"fermer", "fini", "tue"}
      /\ lien[c] \in {"file", "ouvert"} /\ ~finClient[c]
  BY PresentEnLigne
<1>2. PICK k \in actifs :
         /\ PosServeur(k) \in 1 .. 10 /\ Pos(pcC[c]) \in 1 .. 9
         /\ Accord(PosServeur(k), Pos(pcC[c]), versServeur[c], versClient[c])
  BY <1>1, Place
<1>3. /\ p = 3 => Pos(pcC[c]) \in {2, 3}
      /\ p = 7 => Pos(pcC[c]) = 7
      /\ p = 10 => Pos(pcC[c]) \in {1, 2}
  BY <1>1, <1>2, TypesFlux, OuEstLeClient
<1>4. /\ Pos(pcC[c]) = 1 => pcC[c] = "tactile"
      /\ Pos(pcC[c]) = 2 => pcC[c] = "synchro"
      /\ Pos(pcC[c]) = 3 => pcC[c] = "forme"
      /\ Pos(pcC[c]) = 7 => pcC[c] = "meilleur"
  <2>1. pcC[c] \in EtatsClient
    BY <1>1 DEF RInv, TypesClients
  <2> QED BY <1>1, <2>1 DEF Pos, EtatsClient
<1> QED BY <1>1, <1>3, <1>4, EtapeSelonPlace

\* Somebody is in the game when a slot is active.
LEMMA QuelquUn ==
  ASSUME RInv, ~ServeurFini, actifs # {}
  PROVE  AdmisDe # {}
<1>1. PICK k \in actifs, c \in Clients : Titulaire(k, c)
  BY DEF RInv, IInv, DescripteursSains, SalonSain
<1> QED BY <1>1 DEF Titulaire, AdmisDe

\* These three steps touch no connection.
LEMMA SansMouvement ==
  ASSUME RInv, RInv', NextServeur, UNCHANGED clientVars, UNCHANGED sockVars
  PROVE  UNCHANGED <<AdmisDe, Etapes, Vues>>
<1>1. lien' = lien
  BY DEF sockVars
<1>2. UNCHANGED <<Etapes, Vues>>
  BY <1>1, PersonneNePart
<1> QED BY <1>1, <1>2 DEF AdmisDe

\* The draw: everybody who is there has confirmed.
LEMMA LancerManches ==
  ASSUME RInv, RInv', MancheInv, FinSignal, UNCHANGED clientVars
  PROVE  M!Lancer
<1>1. pcS = "signal" /\ aFaire = {} /\ pcS' = "forme" /\ actifs # {} /\ ~ServeurFini
  BY DEF FinSignal, MancheInv, ServeurFini
<1>2. UNCHANGED <<AdmisDe, Etapes, Vues>>
  BY SansMouvement DEF FinSignal, NextServeur, PasServeur
<1>3. MancheDe = "salon" /\ MancheDe' = "jeu"
  BY <1>1 DEF MancheDe
<1>4. ResultatDe' = ResultatDe
  BY <1>3 DEF ResultatDe, Rien
<1>5. TirageDe' \in [forme : Formes, indices : Ordres]
  <2>1. TirageDe' = [forme |-> forme', indices |-> indices']
    BY <1>3 DEF TirageDe
  <2> QED BY <2>1 DEF FinSignal
<1>6. \A k \in actifs : PosServeur(k) = 3
  BY <1>1 DEF PosServeur, Boucle
<1>7. M!Tous({"attend"})
  <2>1. ASSUME NEW c \in M!Presents PROVE Etapes[c] \in {"attend"}
    <3>1. EtapeDe(c) = "attend"
      BY <1>6, TousAuMeme
    <3> QED BY <3>1, PresentEnLigne
  <2> QED BY <2>1 DEF M!Tous
<1>8. AdmisDe # {}
  BY <1>1, QuelquUn
<1> QED BY <1>2, <1>3, <1>4, <1>5, <1>7, <1>8 DEF M!Lancer

\* The next wait: everybody who is there has chosen, and somebody stays.
LEMMA ReprendreManches ==
  ASSUME RInv, RInv', FinChoix, rejouer > 0, UNCHANGED clientVars
  PROVE  M!Reprendre
<1>1. pcS = "choix" /\ aFaire = {} /\ ~ServeurFini
  BY DEF FinChoix, ServeurFini
<1>2. pcS' = "select"
  BY DEF FinChoix, DebutAttente, RInv, IInv, TypeServeur, TypeManche
<1>3. UNCHANGED <<AdmisDe, Etapes, Vues>>
  BY SansMouvement DEF FinChoix, NextServeur, PasServeur
<1>4. MancheDe = "resultats" /\ MancheDe' = "salon"
  BY <1>1, <1>2 DEF MancheDe
<1>5. TirageDe' = M!Rien /\ ResultatDe' = M!Rien
  BY <1>4 DEF TirageDe, ResultatDe, Rien, M!Rien
<1>6. \A k \in actifs : PosServeur(k) = 10
  BY <1>1 DEF PosServeur, Boucle
<1>7. M!Tous({"appelle", "attend"})
  <2>1. ASSUME NEW c \in M!Presents PROVE Etapes[c] \in {"appelle", "attend"}
    <3>1. EtapeDe(c) \in {"appelle", "attend"}
      BY <1>6, TousAuMeme
    <3> QED BY <3>1, PresentEnLigne
  <2> QED BY <2>1 DEF M!Tous
<1>8. AdmisDe # {}
  <2>1. rejouer = Cardinality(actifs \ aFaire)
    BY <1>1 DEF RInv, RejoueurGarde
  <2>2. actifs # {}
    BY <1>1, <2>1, FS_EmptySet
  <2> QED BY <1>1, <2>2, QuelquUn
<1> QED BY <1>3, <1>4, <1>5, <1>7, <1>8 DEF M!Reprendre

\* The minimum and the maximum that a result is made of.
LEMMA PlusPetit ==
  ASSUME NEW S \in SUBSET Int, NEW m \in S, \A y \in S : m <= y
  PROVE  M!Min(S) = m
<1>1. \E x \in S : \A y \in S : x <= y
  OBVIOUS
<1>2. M!Min(S) \in S /\ \A y \in S : M!Min(S) <= y
  BY <1>1 DEF M!Min
<1>3. M!Min(S) \in Int /\ m \in Int /\ M!Min(S) <= m /\ m <= M!Min(S)
  BY <1>2
<1> QED BY <1>3

\* The maximum likewise.
LEMMA PlusGrand ==
  ASSUME NEW S \in SUBSET Int, NEW m \in S, \A y \in S : m >= y
  PROVE  M!Max(S) = m
<1>1. \E x \in S : \A y \in S : x >= y
  OBVIOUS
<1>2. M!Max(S) \in S /\ \A y \in S : M!Max(S) >= y
  BY <1>1 DEF M!Max
<1>3. M!Max(S) \in Int /\ m \in Int /\ M!Max(S) >= m /\ m >= M!Max(S)
  BY <1>2
<1> QED BY <1>3

\* The answer in the tables of the server for slot k, and the slot of a client.
Inscrite(k) == [juste |-> k \in justes, temps |-> temps[k]]
Slot(c) == CHOOSE k \in actifs : Titulaire(k, c)

\* A player of the game has a slot, and holds it (clients[], clients_actifs[]).
LEMMA SlotDe ==
  ASSUME RInv, ~ServeurFini, NEW c \in AdmisDe
  PROVE  Slot(c) \in actifs /\ Titulaire(Slot(c), c) /\ c \in Clients
<1>1. c \in Clients /\ lien[c] = "ouvert"
  BY DEF AdmisDe
<1>2. \E k \in actifs : Titulaire(k, c)
  BY <1>1 DEF RInv, IInv, DescripteursSains, SalonSain
<1> QED BY <1>1, <1>2 DEF Slot

\* What the loop of envoyer_resultats has found is the result of the answers
\* in the tables.
LEMMA BilanDesInscrites ==
  ASSUME RInv, MancheInv, pcS = "bilan", aFaire = {}
  PROVE  [meilleur |-> meilleur, pire |-> pire] = M!Bilan({Inscrite(k) : k \in actifs})
<1> DEFINE R == {Inscrite(k) : k \in actifs}
           J == {TempsMax} \cup {r.temps : r \in {x \in R : x.juste}}
           T == {0} \cup {r.temps : r \in R}
<1>1. /\ actifs \subseteq Slots /\ temps \in [Slots -> Int]
      /\ meilleur \in Int /\ pire \in Int /\ pire >= 0
  BY SocketsAssumption
     DEF RInv, IInv, TypeServeur, TypeManche, TypeSalon, Slots, MancheInv
<1>2. BilanDe(actifs)
  <2>1. actifs \ aFaire = actifs
    OBVIOUS
  <2> QED BY <2>1 DEF RInv, IInv, BilanInv
<1> DEFINE Juste(x) == x.juste
           Temps(x) == x.temps
<1>3. \A k : (Juste(Inscrite(k)) <=> k \in justes) /\ Temps(Inscrite(k)) = temps[k]
  BY DEF Inscrite
<1>4. J = {TempsMax} \cup {temps[k] : k \in actifs \cap justes}
  <2>1. J = {TempsMax} \cup {Temps(r) : r \in {x \in R : Juste(x)}}
    OBVIOUS
  <2> HIDE DEF J, Juste, Temps
  <2> QED BY <1>3, <2>1
<1>5. T = {0} \cup {temps[k] : k \in actifs}
  <2>1. T = {0} \cup {Temps(r) : r \in R}
    OBVIOUS
  <2> HIDE DEF T, Temps
  <2> QED BY <1>3, <2>1
<1>6. J \in SUBSET Int /\ meilleur \in J /\ \A y \in J : meilleur <= y
  <2> HIDE DEF J
  <2> QED BY <1>1, <1>2, <1>4 DEF BilanDe, TempsMax
<1>7. T \in SUBSET Int /\ pire \in T /\ \A y \in T : pire >= y
  <2> HIDE DEF T
  <2> QED BY <1>1, <1>2, <1>5 DEF BilanDe
<1>8. M!Bilan(R) = [meilleur |-> M!Min(J), pire |-> M!Max(T)]
  BY DEF M!Bilan
<1> HIDE DEF J, T, R
<1>9. M!Min(J) = meilleur /\ M!Max(T) = pire
  BY <1>6, <1>7, PlusPetit, PlusGrand
<1> QED BY <1>8, <1>9 DEF R

\* The results: everybody who is there has answered and counts with its
\* answer, and who has died since counts with the one that it sent.
LEMMA PublierManches ==
  ASSUME RInv, RInv', MancheInv, FinBilan, UNCHANGED clientVars
  PROVE  M!Publier
<1>1. pcS = "bilan" /\ aFaire = {} /\ pcS' = "meilleur" /\ ~ServeurFini
  BY DEF FinBilan, ServeurFini
<1>2. UNCHANGED <<AdmisDe, Etapes, Vues>>
  BY SansMouvement DEF FinBilan, NextServeur, PasServeur
<1>3. MancheDe = "jeu" /\ MancheDe' = "resultats"
  BY <1>1 DEF MancheDe
<1>4. UNCHANGED <<forme, indices, meilleur, pire>>
  BY DEF FinBilan, mancheVars
<1>5. TirageDe' = TirageDe /\ ResultatDe' = [meilleur |-> meilleur, pire |-> pire]
  BY <1>3, <1>4 DEF TirageDe, ResultatDe
<1>6. \A k \in actifs : PosServeur(k) = 7
  BY <1>1 DEF PosServeur
<1>7. ASSUME NEW c \in M!Presents
      PROVE  EtapeDe(c) = "repondu" /\ Pos(pcC[c]) = 7 /\ Etapes[c] = "repondu"
  BY <1>6, TousAuMeme, PresentEnLigne
<1>8. M!Tous({"repondu"})
  BY <1>7 DEF M!Tous
<1>9. ASSUME NEW c \in M!Presents PROVE Vues[c] = Inscrite(Slot(c))
  <2>1. /\ c \in Clients /\ EnLigne(c) /\ c \in AdmisDe
    BY PresentEnLigne DEF M!Presents
  <2>2. Slot(c) \in actifs /\ Titulaire(Slot(c), c)
    BY <1>1, <2>1, SlotDe
  <2>3. Reponse(Slot(c), c) /\ PosServeur(Slot(c)) = 7
    BY <1>6, <2>1, <2>2 DEF RInv, Fiche, EnLigne
  <2>4. temps[Slot(c)] = loc[c].temps /\ (Slot(c) \in justes <=> Rendu(c) = 1)
    BY <1>7, <2>3 DEF Reponse
  <2>5. loc[c].juste \in BOOLEAN
    BY <2>1 DEF RInv, TypesClients, Locales
  <2>6. loc[c].juste = (Slot(c) \in justes)
    BY <2>4, <2>5 DEF Rendu
  <2>7. Vues[c] = [juste |-> loc[c].juste, temps |-> loc[c].temps]
    BY <1>7, <2>1 DEF Vues, VueDe
  <2> QED BY <2>4, <2>6, <2>7 DEF Inscrite
<1> DEFINE Morts == AdmisDe \ M!Presents
           A == {Inscrite(Slot(c)) : c \in Morts}
<1>10. A \in SUBSET [juste : BOOLEAN, temps : Durees]
  <2>1. ASSUME NEW c \in Morts PROVE Inscrite(Slot(c)) \in [juste : BOOLEAN, temps : Durees]
    <3>1. Slot(c) \in actifs
      BY <1>1, SlotDe
    <3>2. temps[Slot(c)] \in Durees
      BY <1>1, <3>1 DEF MancheInv, TempsComptes
    <3> QED BY <3>2 DEF Inscrite
  <2> QED BY <2>1
<1>11. M!Cardinality(A) <= M!Cardinality(AdmisDe \ M!Presents)
  <2> DEFINE g == [c \in Morts |-> Inscrite(Slot(c))]
  <2>1. g \in Surjection(Morts, A)
    BY DEF Surjection
  <2>2. IsFiniteSet(Morts)
    BY <1>1, AdmisComptes, FS_Subset
  <2> HIDE DEF g, A, Morts
  <2>3. Cardinality(A) <= Cardinality(Morts)
    BY <2>1, <2>2, FS_Surjection
  <2> QED BY <2>3, MemeCardinal DEF Morts
<1>12. {Vues[c] : c \in M!Presents} \cup A = {Inscrite(k) : k \in actifs}
  <2>1. ASSUME NEW c \in AdmisDe PROVE Inscrite(Slot(c)) \in {Inscrite(k) : k \in actifs}
    BY <1>1, SlotDe
  <2>2. M!Presents \subseteq AdmisDe
    BY DEF M!Presents
  <2>3. ASSUME NEW k \in actifs
        PROVE  Inscrite(k) \in {Vues[c] : c \in M!Presents} \cup A
    <3>1. PICK c \in Clients : Titulaire(k, c)
      BY <1>1 DEF RInv, IInv, DescripteursSains, SalonSain
    <3>2. c \in AdmisDe
      BY <3>1 DEF Titulaire, AdmisDe
    <3>3. Slot(c) = k
      BY <1>1, <3>1, <3>2, SlotDe, Unique
    <3>4. CASE c \in M!Presents
      BY <1>9, <3>3, <3>4
    <3>5. CASE c \notin M!Presents
      BY <3>2, <3>3, <3>5
    <3> QED BY <3>4, <3>5
  <2> QED BY <1>9, <2>1, <2>2, <2>3
<1> HIDE DEF A, Morts
<1>13. ResultatDe' = M!Bilan({Vues[c] : c \in M!Presents} \cup A)
  BY <1>1, <1>5, <1>12, BilanDesInscrites
<1> QED BY <1>2, <1>3, <1>5, <1>8, <1>10, <1>11, <1>13 DEF M!Publier

\* Every step of serveur.c is a step of Manches or none.
LEMMA ServeurManches ==
  ASSUME RInv, RInv', MancheInv, NextServeur, UNCHANGED clientVars
  PROVE  M!Next \/ UNCHANGED M!vars
<1>1. CASE MancheDe' = "fin"
  BY <1>1, ArreterManches DEF M!Next
<1>2. CASE MancheDe' # "fin" /\ UNCHANGED <<MancheDe, TirageDe, ResultatDe>>
  BY <1>2, SalonManches
<1>3. CASE FinSignal \/ FinBilan \/ (FinChoix /\ rejouer > 0)
  BY <1>3, LancerManches, PublierManches, ReprendreManches DEF M!Next
<1> QED BY <1>1, <1>2, <1>3, TournantServeur

\* So is every step of the game; a reset on its way is none.
LEMMA EtapeManches ==
  ASSUME RInv, MancheInv, [Next]_vars
  PROVE  [M!Next]_(M!vars)
<1>1. CASE NextServeur /\ UNCHANGED clientVars
  <2>1. RInv'
    BY EtapeRInv
  <2> QED BY <1>1, <2>1, ServeurManches
<1>2. CASE \E c \in Clients : NextClient(c) /\ UNCHANGED serveurVars
  BY <1>2, ClientManches
<1>3. ASSUME UNCHANGED <<serveurVars, clientVars, lien, finClient>>
      PROVE  UNCHANGED M!vars
  <2>1. UNCHANGED <<MancheDe, TirageDe, ResultatDe, AdmisDe>>
    BY <1>3 DEF MancheDe, TirageDe, ResultatDe, AdmisDe, Rien, serveurVars
  <2>2. UNCHANGED <<Etapes, Vues>>
    BY <1>3 DEF Etapes, Vues, EtapeDe, Parti, VueDe, Rien, clientVars
  <2> QED BY <2>1, <2>2 DEF M!vars
<1>4. CASE \E c \in Clients : ArriveeRst(c) /\ UNCHANGED <<serveurVars, clientVars>>
  BY <1>3, <1>4 DEF ArriveeRst
<1>5. CASE UNCHANGED vars
  BY <1>3, <1>5 DEF vars, sockVars
<1> QED BY <1>1, <1>2, <1>4, <1>5 DEF Next, Termine

\* The programs start where the rounds start: nobody is in the game.
LEMMA InitManches == Init => M!Init
<1> SUFFICES ASSUME Init PROVE M!Init
  OBVIOUS
<1>1. pcS = "demarrage" /\ \A c \in Clients : pcC[c] = "depart" /\ lien[c] = "libre"
  BY DEF Init, InitServeur, InitClients, InitSockets
<1>2. MancheDe = "salon" /\ AdmisDe = {}
  BY <1>1 DEF MancheDe, AdmisDe
<1>3. TirageDe = M!Rien /\ ResultatDe = M!Rien
  BY <1>2 DEF TirageDe, ResultatDe, Rien, M!Rien
<1>4. \A c \in Clients : EtapeDe(c) = "dehors"
  BY <1>1 DEF EtapeDe
<1>5. \A c \in Clients : VueDe(c) = M!Rien
  BY <1>4 DEF VueDe, Rien, M!Rien
<1> QED BY <1>2, <1>3, <1>4, <1>5 DEF M!Init, Etapes, Vues

(* The two programs implement the rounds of Manches, for any number of     *)
(* clients, slots, shapes and durations: whoever joins late, dies, is lost *)
(* or leaves at any call, a round starts only when all who are there have  *)
(* confirmed (serveur.c:153-190), all see its one draw (serveur.c:206-221, *)
(* client.c:124, 128), its result is made of the answers of all those who  *)
(* are there, and of no others but what players lost since had sent        *)
(* (serveur.c:278-301), each is shown that result (client.c:233-243), and  *)
(* the next round waits for the choice of all (serveur.c:335-357).         *)
THEOREM ManchesProuvees == Spec => ImplementeManches
<1>1. Init => RInv /\ MancheInv
  BY InitRInv, InitMancheInv
<1>2. RInv /\ MancheInv /\ [Next]_vars => RInv' /\ MancheInv'
  BY EtapeRInv, EtapeMancheInv
<1>3. Init => M!Init
  BY InitManches
<1>4. RInv /\ MancheInv /\ [Next]_vars => [M!Next]_(M!vars)
  BY EtapeManches
<1> QED BY <1>1, <1>2, <1>3, <1>4, PTL DEF Spec, ImplementeManches, M!Spec

-----------------------------------------------------------------------------
(***************************************************************************)
(* Nobody is sent away.                                                    *)
(***************************************************************************)
\* The connection of c is cut in a loop only after its player has gone.
LEMMA CoupeServeur ==
  ASSUME RInv, MancheInv, NextServeur, ~ServeurFini', NEW c \in Clients,
         lien[c] = "ouvert", lien'[c] = "ferme"
  PROVE  finClient[c] \/ pcC[c] = "fermer"
<1>1. Sain /\ Debut
  <2>1. ~ServeurFini
    BY DEF RInv, Apres
  <2> QED BY <2>1 DEF RInv, IInv, Sain, DescripteursSains
<1>2. ~Calme
  BY DEF Calme
<1>3. ~Accueil
  <2>1. \A f \in Descripteurs : Accepter(f) => lien'[c] # "ferme"
    BY <1>1 DEF Accepter, Sain, TypeServeur, TypeSockets
  <2> QED BY <2>1 DEF Accueil
<1>4. ~Refus
  <2> SUFFICES ASSUME Refus PROVE FALSE
    OBVIOUS
  <2>1. file # <<>> /\ file \in Seq(Clients)
    BY <1>1 DEF Refus, Refuser, Sain, TypeServeur, TypeSockets
  <2>2. 1 \in 1 .. Len(file) /\ Head(file) = file[1]
    BY <2>1
  <2>3. lien[Head(file)] = "file"
    BY <1>1, <2>2 DEF Sain, Connexions
  <2>4. c \notin {Head(file)}
    BY <2>3
  <2>5. lien'[c] = lien[c]
    BY <2>4 DEF Refus, Refuser, Couper
  <2> QED BY <2>5
<1>5. ~Fin
  BY DEF Fin
<1>6. Perte
  BY <1>1, <1>2, <1>3, <1>4, <1>5, ClasseServeur
<1>7. PICK k \in Slots, d \in Clients : EchangeAvec(k, d)
  BY <1>6, PerteEnBoucle
<1>8. EtapeDe(d) = "parti" /\ \E R : Couper({d}, R)
  BY <1>7, PerduEstParti
<1>9. d = c
  BY <1>8 DEF Couper
<1>10. Parti(c)
  <2>1. pcC[c] \in EtatsClient
    BY DEF RInv, TypesClients
  <2> QED BY <1>8, <1>9, <2>1 DEF EtapeDe, EtatsClient, Parti
<1> QED BY <1>10 DEF Parti, RInv, Fiche, Processus

\* Nothing that a client does closes the server's end of a connection.
LEMMA CoupeClient ==
  ASSUME TypeSockets, NEW d \in Clients, NextClient(d) \/ ArriveeRst(d),
         NEW c \in Clients, lien[c] = "ouvert"
  PROVE  lien'[c] # "ferme"
<1>1. ASSUME ClientConnecte(d) PROVE lien'[c] # "ferme"
  BY <1>1 DEF ClientConnecte, TypeSockets
<1>2. ASSUME \/ \E m : ClientEnvoie(d, m)
             \/ ClientLit(d) \/ ClientFerme(d) \/ ArriveeRst(d) \/ UNCHANGED sockVars
      PROVE  lien'[c] # "ferme"
  BY <1>2 DEF ClientEnvoie, ClientLit, ClientFerme, ArriveeRst, sockVars
<1> QED BY <1>1, <1>2 DEF NextClient, PasClient, Confirmer, RecevoirSynchro, RecevoirForme,
     RecevoirIndices, Jouer, EnvoyerJuste, EnvoyerTemps, RecevoirMeilleur, RecevoirPire,
     Choisir, Fermer, EchecDemarrage, Connecter, LireHorsTable, ClientTue, Interrompre,
     Consommer

\* main() leaves its loop, select() apart, with an empty table of clients: the
\* count of those who stay is not 0 while somebody is there.
LEMMA FinSansPersonne ==
  ASSUME RInv, NextServeur, pcS \notin {"select", "fermeture"}, pcS' = "fermeture"
  PROVE  \A c \in Clients : lien[c] # "ouvert"
<1>1. CASE FinTour \/ FinResultats
  <2>1. actifs = {} /\ ~ServeurFini
    BY <1>1 DEF FinTour, FinResultats, ServeurFini
  <2> QED BY <2>1 DEF RInv, IInv, DescripteursSains, SalonSain
<1>2. CASE FinChoix
  <2>1. pcS = "choix" /\ aFaire = {} /\ rejouer = 0
    BY <1>2 DEF FinChoix, DebutAttente
  <2>2. actifs \ aFaire = actifs /\ ~ServeurFini
    BY <2>1 DEF ServeurFini
  <2>3. Cardinality(actifs) = 0
    BY <2>1, <2>2 DEF RInv, RejoueurGarde
  <2>4. IsFiniteSet(actifs)
    <3>1. actifs \subseteq 0 .. nbClients - 1 /\ nbClients - 1 \in Int
      BY SocketsAssumption DEF RInv, IInv, TypeServeur, TypeSalon
    <3>2. IsFiniteSet(0 .. nbClients - 1)
      BY <3>1, FS_Interval
    <3> QED BY <3>1, <3>2, FS_Subset
  <2>5. actifs = {}
    BY <2>3, <2>4, FS_EmptySet
  <2> QED BY <2>2, <2>5 DEF RInv, IInv, DescripteursSains, SalonSain
<1>3. ASSUME \/ AccepterPremier \/ AccepterAutre \/ FinDelai \/ Select \/ FinSignal
             \/ FinGrille \/ FinTemps \/ FinBilan \/ Fermeture
             \/ (\E k \in Slots : Bilan(k))
             \/ Demarrer \/ SelectErreur \/ TueParSigpipe
      PROVE  FALSE
  BY <1>3 DEF AccepterPremier, AccepterAutre, FinDelai, Select, FinSignal, FinGrille,
       FinTemps, FinBilan, Fermeture, Bilan, Demarrer, SelectErreur, TueParSigpipe,
       DebutAttente
<1>4. ASSUME \E k \in Slots, c \in Clients : EchangeAvec(k, c) PROVE FALSE
  BY <1>4 DEF EchangeAvec, LirePret, EnvoyerSignal, EnvoyerForme, EnvoyerIndices,
       RecevoirJuste, RecevoirTemps, EnvoyerMeilleur, EnvoyerPire, RecevoirChoix
<1> QED BY <1>1, <1>2, <1>3, <1>4 DEF NextServeur, PasServeur

(* A running server cuts off only a player who has gone or is leaving, and *)
(* ends the game, unless select() fails, only when nobody is connected,    *)
(* although it reads an untyped stream and decides by a count of           *)
(* characters (serveur.c:147, 169, 252, 263, 334, 347, 354, 361).          *)
THEOREM PersonneChasseeProuvee == Spec => PersonneChassee
<1> DEFINE Juste == /\ \A c \in Clients :
                         lien[c] = "ouvert" /\ lien'[c] = "ferme" /\ ~ServeurFini' =>
                           finClient[c] \/ pcC[c] = "fermer"
                    /\ pcS \notin {"select", "fermeture"} /\ pcS' = "fermeture" =>
                         \A c \in Clients : lien[c] # "ouvert"
<1>1. Init => RInv /\ MancheInv
  BY InitRInv, InitMancheInv
<1>2. RInv /\ MancheInv /\ [Next]_vars => RInv' /\ MancheInv'
  BY EtapeRInv, EtapeMancheInv
<1>3. RInv /\ MancheInv /\ [Next]_vars => [Juste]_vars
  <2> SUFFICES ASSUME RInv, MancheInv, [Next]_vars, ~UNCHANGED vars PROVE Juste
    OBVIOUS
  <2>1. CASE NextServeur
    BY <2>1, CoupeServeur, FinSansPersonne
  <2>2. CASE \E d \in Clients : (NextClient(d) \/ ArriveeRst(d)) /\ UNCHANGED serveurVars
    <3>1. TypeSockets /\ pcS' = pcS
      BY <2>2 DEF RInv, IInv, TypeServeur, serveurVars
    <3> QED BY <2>2, <3>1, CoupeClient
  <2> QED BY <2>1, <2>2 DEF Next, Termine
<1> QED BY <1>1, <1>2, <1>3, PTL DEF Spec, PersonneChassee
=============================================================================
