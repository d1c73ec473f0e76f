---------------------------- MODULE FluxPreuves ----------------------------
(***************************************************************************)
(* Proofs about one connection byte by byte (Flux): as long as no send()   *)
(* is cut on its way, the lengths of serveur.c and client.c keep the two   *)
(* ends together, for any size of an int, any number of shapes and any     *)
(* number of rounds, however many sends arrive together.                   *)
(***************************************************************************)
EXTENDS Flux, SequenceTheorems, FiniteSetTheorems, TLAPS

-----------------------------------------------------------------------------
(***************************************************************************)
(* The two programs, call by call.                                         *)
(***************************************************************************)
Nom == <<"pret", "signal", "forme", "indices", "juste", "temps", "meilleur", "pire", "choix">>
Taille == <<1, 1, SIZEOF_INT, NbFormes * SIZEOF_INT, SIZEOF_INT, SIZEOF_INT, SIZEOF_INT,
            SIZEOF_INT, 1>>
DuServeur == {2, 3, 4, 7, 8}
DuClient == {1, 5, 6, 9}

\* The function that an end calls at position p of the round.
Sens(b, p) ==
  IF b = "serveur" THEN IF p \in DuServeur THEN "send" ELSE "recv"
                   ELSE IF p \in DuClient THEN "send" ELSE "recv"

LEMMA TaillesPositives ==
  ASSUME NEW p \in 1 .. 9
  PROVE  Taille[p] \in Nat \ {0}
<1>1. NbFormes * SIZEOF_INT \in Nat \ {0}
  BY FluxAssumption
<1> QED BY <1>1, FluxAssumption DEF Taille

\* Two pieces of a program, one after the other.
LesCalls == [fonction : {"send", "recv"}, unite : Noms, longueur : Nat]
LEMMA Bout ==
  ASSUME NEW s \in Seq(LesCalls), NEW t \in Seq(LesCalls)
  PROVE  /\ s \o t \in Seq(LesCalls) /\ Len(s) \in Nat
         /\ Len(s \o t) = Len(s) + Len(t)
         /\ \A i \in 1 .. Len(s) : (s \o t)[i] = s[i]
         /\ \A i \in 1 .. Len(t) : (s \o t)[Len(s) + i] = t[i]
OBVIOUS

\* Pieces of two, two, two, two calls and one.
Pieces(s, a, b, c, d, e) ==
  /\ s = a \o b \o c \o d \o e
  /\ a \in Seq(LesCalls) /\ b \in Seq(LesCalls) /\ c \in Seq(LesCalls)
  /\ d \in Seq(LesCalls) /\ e \in Seq(LesCalls)
  /\ Len(a) = 2 /\ Len(b) = 2 /\ Len(c) = 2 /\ Len(d) = 2 /\ Len(e) = 1

LEMMA CinqPieces ==
  ASSUME NEW a, NEW b, NEW c, NEW d, NEW e, NEW s,
         Pieces(s, a, b, c, d, e)
  PROVE  /\ Len(s) = 9
         /\ s[1] = a[1] /\ s[2] = a[2] /\ s[3] = b[1] /\ s[4] = b[2] /\ s[5] = c[1]
         /\ s[6] = c[2] /\ s[7] = d[1] /\ s[8] = d[2] /\ s[9] = e[1]
<1> USE DEF Pieces
<1> DEFINE s2 == a \o b
           s3 == s2 \o c
           s4 == s3 \o d
           s5 == s4 \o e
<1>1. /\ s2 \in Seq(LesCalls) /\ Len(s2) = 4
      /\ s2[1] = a[1] /\ s2[2] = a[2] /\ s2[3] = b[1] /\ s2[4] = b[2]
  <2>1. /\ s2 \in Seq(LesCalls) /\ Len(s2) = Len(a) + Len(b)
        /\ \A i \in 1 .. Len(a) : s2[i] = a[i]
        /\ \A i \in 1 .. Len(b) : s2[Len(a) + i] = b[i]
    BY Bout
  <2> HIDE DEF s2
  <2>2. s2[2 + 1] = b[1] /\ s2[2 + 2] = b[2]
    BY <2>1
  <2> QED BY <2>1, <2>2
<1> HIDE DEF s2
<1>2. /\ s3 \in Seq(LesCalls) /\ Len(s3) = 6
      /\ s3[1] = a[1] /\ s3[2] = a[2] /\ s3[3] = b[1]
      /\ s3[4] = b[2] /\ s3[5] = c[1] /\ s3[6] = c[2]
  <2>1. /\ s3 \in Seq(LesCalls) /\ Len(s3) = Len(s2) + Len(c)
        /\ \A i \in 1 .. Len(s2) : s3[i] = s2[i]
        /\ \A i \in 1 .. Len(c) : s3[Len(s2) + i] = c[i]
    BY <1>1, Bout
  <2> HIDE DEF s3
  <2>2. s3[4 + 1] = c[1] /\ s3[4 + 2] = c[2]
    BY <1>1, <2>1
  <2> QED BY <1>1, <2>1, <2>2
<1> HIDE DEF s3
<1>3. /\ s4 \in Seq(LesCalls) /\ Len(s4) = 8
      /\ s4[1] = a[1] /\ s4[2] = a[2] /\ s4[3] = b[1] /\ s4[4] = b[2]
      /\ s4[5] = c[1] /\ s4[6] = c[2] /\ s4[7] = d[1] /\ s4[8] = d[2]
  <2>1. /\ s4 \in Seq(LesCalls) /\ Len(s4) = Len(s3) + Len(d)
        /\ \A i \in 1 .. Len(s3) : s4[i] = s3[i]
        /\ \A i \in 1 .. Len(d) : s4[Len(s3) + i] = d[i]
    BY <1>2, Bout
  <2> HIDE DEF s4
  <2>2. s4[6 + 1] = d[1] /\ s4[6 + 2] = d[2]
    BY <1>2, <2>1
  <2> QED BY <1>2, <2>1, <2>2
<1> HIDE DEF s4
<1>4. /\ s5 \in Seq(LesCalls) /\ Len(s5) = 9
      /\ s5[1] = a[1] /\ s5[2] = a[2] /\ s5[3] = b[1] /\ s5[4] = b[2] /\ s5[5] = c[1]
      /\ s5[6] = c[2] /\ s5[7] = d[1] /\ s5[8] = d[2] /\ s5[9] = e[1]
  <2>1. /\ s5 \in Seq(LesCalls) /\ Len(s5) = Len(s4) + Len(e)
        /\ \A i \in 1 .. Len(s4) : s5[i] = s4[i]
        /\ \A i \in 1 .. Len(e) : s5[Len(s4) + i] = e[i]
    BY <1>3, Bout
  <2> HIDE DEF s5
  <2>2. s5[8 + 1] = e[1]
    BY <1>3, <2>1
  <2> QED BY <1>3, <2>1, <2>2
<1>5. s = s5
  BY Zenon DEF s2, s3, s4, s5
<1> HIDE DEF s5
<1> QED BY <1>4, <1>5

\* Both programs make the same nine calls, with the same lengths, one of them
\* to send and the other one to receive (serveur.c:131-353, client.c:97-262).
LEMMA LesAppels ==
  ASSUME NEW b \in Bouts
  PROVE  /\ Len(Appels(b)) = 9
         /\ \A p \in 1 .. 9 : Appels(b)[p] = Appel(Sens(b, p), Nom[p], Taille[p])
<1>1. NbFormes * SIZEOF_INT \in Nat /\ SIZEOF_INT \in Nat
  BY FluxAssumption
<1>2. CASE b = "serveur"
  <2>1. /\ PretServeur \in Seq(LesCalls) /\ Len(PretServeur) = 2
        /\ PretServeur[1] = Appel("recv", "pret", 1)
        /\ PretServeur[2] = Appel("send", "signal", 1)
    BY DEF PretServeur, Appel, LesCalls, Noms
  <2>2. /\ TirageServeur \in Seq(LesCalls) /\ Len(TirageServeur) = 2
        /\ TirageServeur[1] = Appel("send", "forme", SIZEOF_INT)
        /\ TirageServeur[2] = Appel("send", "indices", NbFormes * SIZEOF_INT)
    BY <1>1 DEF TirageServeur, Appel, LesCalls, Noms, Entier, Ordre
  <2>3. /\ TempsServeur \in Seq(LesCalls) /\ Len(TempsServeur) = 2
        /\ TempsServeur[1] = Appel("recv", "juste", SIZEOF_INT)
        /\ TempsServeur[2] = Appel("recv", "temps", SIZEOF_INT)
    BY <1>1 DEF TempsServeur, Appel, LesCalls, Noms, Entier
  <2>4. /\ ResultatsServeur \in Seq(LesCalls) /\ Len(ResultatsServeur) = 2
        /\ ResultatsServeur[1] = Appel("send", "meilleur", SIZEOF_INT)
        /\ ResultatsServeur[2] = Appel("send", "pire", SIZEOF_INT)
    BY <1>1 DEF ResultatsServeur, Appel, LesCalls, Noms, Entier
  <2>5. /\ ChoixServeur \in Seq(LesCalls) /\ Len(ChoixServeur) = 1
        /\ ChoixServeur[1] = Appel("recv", "choix", 1)
    BY DEF ChoixServeur, Appel, LesCalls, Noms
  <2> DEFINE s == AppelsServeur
  <2>6. s = PretServeur \o TirageServeur \o TempsServeur \o ResultatsServeur \o ChoixServeur
    BY DEF AppelsServeur
  <2> HIDE DEF s
  <2>9. Pieces(s, PretServeur, TirageServeur, TempsServeur, ResultatsServeur, ChoixServeur)
    BY <2>1, <2>2, <2>3, <2>4, <2>5, <2>6 DEF Pieces
  <2>8. /\ Len(s) = 9
        /\ s[1] = PretServeur[1] /\ s[2] = PretServeur[2]
        /\ s[3] = TirageServeur[1] /\ s[4] = TirageServeur[2]
        /\ s[5] = TempsServeur[1] /\ s[6] = TempsServeur[2]
        /\ s[7] = ResultatsServeur[1] /\ s[8] = ResultatsServeur[2]
        /\ s[9] = ChoixServeur[1]
    BY <2>9, CinqPieces, SMT
  <2>7. Appels(b) = s
    BY <1>2 DEF Appels, s
  <2> QED BY <1>2, <2>1, <2>2, <2>3, <2>4, <2>5, <2>8, <2>7 DEF Sens, Nom, Taille, DuServeur
<1>3. CASE b = "client"
  <2>1. /\ PretClient \in Seq(LesCalls) /\ Len(PretClient) = 2
        /\ PretClient[1] = Appel("send", "pret", 1)
        /\ PretClient[2] = Appel("recv", "signal", 1)
    BY DEF PretClient, Appel, LesCalls, Noms
  <2>2. /\ TirageClient \in Seq(LesCalls) /\ Len(TirageClient) = 2
        /\ TirageClient[1] = Appel("recv", "forme", SIZEOF_INT)
        /\ TirageClient[2] = Appel("recv", "indices", NbFormes * SIZEOF_INT)
    BY <1>1 DEF TirageClient, Appel, LesCalls, Noms, Entier, Ordre
  <2>3. /\ TempsClient \in Seq(LesCalls) /\ Len(TempsClient) = 2
        /\ TempsClient[1] = Appel("send", "juste", SIZEOF_INT)
        /\ TempsClient[2] = Appel("send", "temps", SIZEOF_INT)
    BY <1>1 DEF TempsClient, Appel, LesCalls, Noms, Entier
  <2>4. /\ ResultatsClient \in Seq(LesCalls) /\ Len(ResultatsClient) = 2
        /\ ResultatsClient[1] = Appel("recv", "meilleur", SIZEOF_INT)
        /\ ResultatsClient[2] = Appel("recv", "pire", SIZEOF_INT)
    BY <1>1 DEF ResultatsClient, Appel, LesCalls, Noms, Entier
  <2>5. /\ ChoixClient \in Seq(LesCalls) /\ Len(ChoixClient) = 1
        /\ ChoixClient[1] = Appel("send", "choix", 1)
    BY DEF ChoixClient, Appel, LesCalls, Noms
  <2> DEFINE s == AppelsClient
  <2>6. s = PretClient \o TirageClient \o TempsClient \o ResultatsClient \o ChoixClient
    BY DEF AppelsClient
  <2> HIDE DEF s
  <2>9. Pieces(s, PretClient, TirageClient, TempsClient, ResultatsClient, ChoixClient)
    BY <2>1, <2>2, <2>3, <2>4, <2>5, <2>6 DEF Pieces
  <2>8. /\ Len(s) = 9
        /\ s[1] = PretClient[1] /\ s[2] = PretClient[2]
        /\ s[3] = TirageClient[1] /\ s[4] = TirageClient[2]
        /\ s[5] = TempsClient[1] /\ s[6] = TempsClient[2]
        /\ s[7] = ResultatsClient[1] /\ s[8] = ResultatsClient[2]
        /\ s[9] = ChoixClient[1]
    BY <2>9, CinqPieces, SMT
  <2>7. Appels(b) = s
    BY <1>3 DEF Appels, s
  <2> QED BY <1>3, <2>1, <2>2, <2>3, <2>4, <2>5, <2>8, <2>7 DEF Sens, Nom, Taille, DuClient
<1> QED BY <1>2, <1>3 DEF Bouts

-----------------------------------------------------------------------------
(***************************************************************************)
(* Streams of whole units.  Positions 10 and above are those of the next   *)
(* round.                                                                  *)
(***************************************************************************)
LesOctets == [unite : Noms, tour : Int, rang : Nat, de : Nat]
Morceau(p, t) ==
  IF p <= 9 THEN Octets(Nom[p], t, Taille[p]) ELSE Octets(Nom[p - 9], t + 1, Taille[p - 9])

\* The d units from position p of round t on, three at most.
Flot(p, t, d) ==
  CASE d = 0 -> <<>>
    [] d = 1 -> Morceau(p, t)
    [] d = 2 -> Morceau(p, t) \o Morceau(p + 1, t)
    [] OTHER -> Morceau(p, t) \o (Morceau(p + 1, t) \o Morceau(p + 2, t))

LEMMA OctetsType ==
  ASSUME NEW u \in Noms, NEW t \in Int, NEW n \in Nat \ {0}
  PROVE  /\ Octets(u, t, n) \in Seq(LesOctets) /\ Len(Octets(u, t, n)) = n
         /\ \A r \in 1 .. n : Octets(u, t, n)[r] = Octet(u, t, r, n)
<1>1. \A r \in 1 .. n : Octet(u, t, r, n) \in LesOctets
  BY DEF Octet, LesOctets
<1> QED BY <1>1 DEF Octets

LEMMA MorceauType ==
  ASSUME NEW p \in 1 .. 18, NEW t \in Int
  PROVE  /\ Morceau(p, t) \in Seq(LesOctets)
         /\ Len(Morceau(p, t)) = Taille[IF p <= 9 THEN p ELSE p - 9]
         /\ Len(Morceau(p, t)) \in Nat \ {0}
         /\ \A r \in 1 .. Len(Morceau(p, t)) :
              /\ Morceau(p, t)[r].rang = r
              /\ Morceau(p, t)[r].de = Len(Morceau(p, t))
<1> DEFINE q == IF p <= 9 THEN p ELSE p - 9
           v == IF p <= 9 THEN t ELSE t + 1
<1>1. q \in 1 .. 9 /\ v \in Int /\ Morceau(p, t) = Octets(Nom[q], v, Taille[q])
  BY DEF Morceau
<1> HIDE DEF q, v
<1>2. Nom[q] \in Noms /\ Taille[q] \in Nat \ {0}
  BY <1>1, TaillesPositives DEF Nom, Noms
<1>3. /\ Octets(Nom[q], v, Taille[q]) \in Seq(LesOctets)
      /\ Len(Octets(Nom[q], v, Taille[q])) = Taille[q]
      /\ \A r \in 1 .. Taille[q] : Octets(Nom[q], v, Taille[q])[r] = Octet(Nom[q], v, r, Taille[q])
  BY <1>1, <1>2, OctetsType
<1>4. \A r \in 1 .. Taille[q] : /\ Octet(Nom[q], v, r, Taille[q]).rang = r
                                /\ Octet(Nom[q], v, r, Taille[q]).de = Taille[q]
  BY DEF Octet
<1> HIDE DEF Morceau
<1> QED BY <1>1, <1>2, <1>3, <1>4 DEF q

\* The algebra of streams that is needed.
LEMMA Joints ==
  ASSUME NEW S, NEW s \in Seq(S), NEW u \in Seq(S)
  PROVE  /\ s \o u \in Seq(S)
         /\ Len(s \o u) = Len(s) + Len(u)
         /\ SubSeq(s \o u, 1, Len(s)) = s
         /\ SubSeq(s \o u, Len(s) + 1, Len(s \o u)) = u
         /\ <<>> \o u = u /\ u \o <<>> = u
         /\ \A w \in Seq(S) : (s \o u) \o w = s \o (u \o w)
OBVIOUS

\* A stream begins with its first unit ...
LEMMA FlotSuite ==
  ASSUME NEW p \in 1 .. 11, NEW t \in Int, NEW d \in 1 .. 3
  PROVE  /\ Flot(p, t, d) \in Seq(LesOctets)
         /\ Flot(p + 1, t, d - 1) \in Seq(LesOctets)
         /\ Flot(p, t, d) = Morceau(p, t) \o Flot(p + 1, t, d - 1)
<1>1. /\ Morceau(p, t) \in Seq(LesOctets) /\ Morceau(p + 1, t) \in Seq(LesOctets)
      /\ Morceau(p + 2, t) \in Seq(LesOctets) /\ <<>> \in Seq(LesOctets)
  <2>1. p \in 1 .. 18 /\ p + 1 \in 1 .. 18 /\ p + 2 \in 1 .. 18
    OBVIOUS
  <2>2. <<>> \in Seq(LesOctets)
    OBVIOUS
  <2> QED BY <2>1, <2>2, MorceauType, Zenon
<1> DEFINE a == Morceau(p, t)
           b == Morceau(p + 1, t)
           c == Morceau(p + 2, t)
<1>2. CASE d = 1
  <2>1. Flot(p, t, d) = a /\ Flot(p + 1, t, d - 1) = <<>>
    BY <1>2 DEF Flot
  <2> QED BY <1>1, <2>1, Joints
<1>3. CASE d = 2
  <2>1. Flot(p, t, d) = a \o b /\ Flot(p + 1, t, d - 1) = b
    BY <1>3 DEF Flot
  <2> HIDE DEF a, b, c
  <2>2. a \in Seq(LesOctets) /\ b \in Seq(LesOctets)
    BY <1>1, Zenon DEF a, b
  <2>3. a \o b \in Seq(LesOctets)
    BY <2>2
  <2> QED BY <2>1, <2>2, <2>3, Zenon DEF a
<1>4. CASE d = 3
  <2>1. p + 1 + 1 = p + 2
    OBVIOUS
  <2>2. Flot(p, t, d) = a \o (b \o c) /\ Flot(p + 1, t, d - 1) = b \o c
    BY <1>4, <2>1 DEF Flot
  <2> HIDE DEF a, b, c
  <2>3. a \in Seq(LesOctets) /\ b \in Seq(LesOctets) /\ c \in Seq(LesOctets)
    BY <1>1 DEF a, b, c
  <2>4. b \o c \in Seq(LesOctets)
    BY <2>3
  <2>5. a \o (b \o c) \in Seq(LesOctets)
    BY <2>3, <2>4
  <2> QED BY <2>2, <2>4, <2>5, Zenon DEF a
<1> QED BY <1>2, <1>3, <1>4

LEMMA FlotType ==
  ASSUME NEW p \in 1 .. 12, NEW t \in Int, NEW d \in 0 .. 3, p + d <= 12
  PROVE  Flot(p, t, d) \in Seq(LesOctets) /\ (Flot(p, t, d) = <<>> <=> d = 0)
<1>1. CASE d = 0
  BY <1>1 DEF Flot
<1>2. CASE d \in 1 .. 3
  <2>1. p \in 1 .. 11 /\ p \in 1 .. 18
    BY <1>2
  <2>2. /\ Morceau(p, t) \in Seq(LesOctets) /\ Len(Morceau(p, t)) \in Nat \ {0}
    BY <2>1, MorceauType, Zenon
  <2>3. /\ Flot(p, t, d) \in Seq(LesOctets)
        /\ Flot(p + 1, t, d - 1) \in Seq(LesOctets)
        /\ Flot(p, t, d) = Morceau(p, t) \o Flot(p + 1, t, d - 1)
    BY <1>2, <2>1, FlotSuite, Zenon
  <2>4. Len(Flot(p, t, d)) = Len(Morceau(p, t)) + Len(Flot(p + 1, t, d - 1))
    BY <2>2, <2>3, Joints
  <2>5. Len(Flot(p, t, d)) # 0
    BY <2>2, <2>3, <2>4
  <2> QED BY <1>2, <2>3, <2>5
<1> QED BY <1>1, <1>2

\* ... and goes on where another one ends.
LEMMA FlotJoint ==
  ASSUME NEW p \in 1 .. 11, NEW t \in Int, NEW d \in 0 .. 3, NEW e \in 0 .. 3,
         d + e <= 3, p + d + e <= 12
  PROVE  Flot(p, t, d) \o Flot(p + d, t, e) = Flot(p, t, d + e)
<1>1. p \in 1 .. 11 /\ p + 1 \in 1 .. 18 /\ p + 2 \in 1 .. 18 /\ p \in 1 .. 18
  OBVIOUS
<1> DEFINE a == Morceau(p, t)
           b == Morceau(p + 1, t)
           c == Morceau(p + 2, t)
<1>2. a \in Seq(LesOctets) /\ b \in Seq(LesOctets) /\ c \in Seq(LesOctets)
  BY <1>1, MorceauType, Zenon
<1>3. p + 1 + 1 = p + 2 /\ p + 0 = p
  OBVIOUS
<1> HIDE DEF a, b, c
<1>4. /\ Flot(p, t, 0) = <<>> /\ Flot(p, t, 1) = a /\ Flot(p, t, 2) = a \o b
      /\ Flot(p, t, 3) = a \o (b \o c)
  BY DEF Flot, a, b, c
<1>5. /\ Flot(p + 1, t, 0) = <<>> /\ Flot(p + 1, t, 1) = b /\ Flot(p + 1, t, 2) = b \o c
  BY <1>3 DEF Flot, b, c
<1>6. Flot(p + 2, t, 0) = <<>> /\ Flot(p + 2, t, 1) = c /\ Flot(p + 3, t, 0) = <<>>
  BY DEF Flot, c
<1>7. /\ a \o <<>> = a /\ <<>> \o a = a /\ (a \o b) \o c = a \o (b \o c) /\ <<>> \o (a \o b) = a \o b
      /\ (a \o b) \o <<>> = a \o b /\ <<>> \o <<>> = <<>>
      /\ <<>> \o (a \o (b \o c)) = a \o (b \o c) /\ (a \o (b \o c)) \o <<>> = a \o (b \o c)
  <2>1. a \o b \in Seq(LesOctets) /\ a \o (b \o c) \in Seq(LesOctets) /\ <<>> \in Seq(LesOctets)
    BY <1>2
  <2> QED BY <1>2, <2>1, Joints
<1>8. CASE d = 0
  <2>1. p + d = p + 0
    BY <1>8
  <2>2. (e = 0 /\ d + e = 0) \/ (e = 1 /\ d + e = 1) \/ (e = 2 /\ d + e = 2) \/ (e = 3 /\ d + e = 3)
    BY <1>8
  <2> QED BY <1>3, <1>4, <1>7, <1>8, <2>1, <2>2, Zenon
<1>9. CASE d = 1
  <2>1. p + d = p + 1
    BY <1>9
  <2>2. (e = 0 /\ d + e = 1) \/ (e = 1 /\ d + e = 2) \/ (e = 2 /\ d + e = 3)
    BY <1>9
  <2> QED BY <1>4, <1>5, <1>7, <1>9, <2>1, <2>2, Zenon
<1>10. CASE d = 2
  <2>1. p + d = p + 2
    BY <1>10
  <2>2. (e = 0 /\ d + e = 2) \/ (e = 1 /\ d + e = 3)
    BY <1>10
  <2> QED BY <1>4, <1>6, <1>7, <1>10, <2>1, <2>2, Zenon
<1>11. CASE d = 3
  <2>1. p + d = p + 3
    BY <1>11
  <2>2. e = 0 /\ d + e = 3
    BY <1>11
  <2>3. Flot(p, t, d) = a \o (b \o c) /\ Flot(p + d, t, e) = <<>>
    BY <1>4, <1>6, <1>11, <2>1, <2>2, Zenon
  <2>4. Flot(p, t, d + e) = a \o (b \o c)
    BY <1>4, <2>2, Zenon
  <2> QED BY <1>7, <2>3, <2>4, Zenon
<1>12. d = 0 \/ d = 1 \/ d = 2 \/ d = 3
  OBVIOUS
<1> QED BY <1>8, <1>9, <1>10, <1>11, <1>12, Zenon

\* A stream that begins with the unit m and is cut at the end of a unit is cut
\* at the end of m or in what follows.
LEMMA UneCoupe ==
  ASSUME NEW m \in Seq(LesOctets), NEW s \in Seq(LesOctets), NEW n \in 1 .. Len(m \o s),
         \A r \in 1 .. Len(m) : m[r].rang = r /\ m[r].de = Len(m),
         (m \o s)[n].rang = (m \o s)[n].de
  PROVE  \/ n = Len(m)
         \/ /\ n - Len(m) \in 1 .. Len(s)
            /\ s[n - Len(m)].rang = s[n - Len(m)].de
            /\ SubSeq(m \o s, 1, n) = m \o SubSeq(s, 1, n - Len(m))
            /\ SubSeq(m \o s, n + 1, Len(m \o s)) = SubSeq(s, n - Len(m) + 1, Len(s))
<1>1. /\ Len(m) \in Nat /\ Len(s) \in Nat /\ m \o s \in Seq(LesOctets)
      /\ Len(m \o s) = Len(m) + Len(s)
      /\ \A i \in 1 .. Len(m) : (m \o s)[i] = m[i]
      /\ \A i \in 1 .. Len(s) : (m \o s)[Len(m) + i] = s[i]
  OBVIOUS
<1>2. CASE n <= Len(m)
  BY <1>1, <1>2
<1>3. CASE n > Len(m)
  <2> DEFINE k == n - Len(m)
  <2>1. k \in 1 .. Len(s) /\ n = Len(m) + k
    BY <1>1, <1>3
  <2> HIDE DEF k
  <2>2. (m \o s)[n] = s[k]
    BY <1>1, <2>1
  <2>3. SubSeq(m \o s, 1, n) = m \o SubSeq(s, 1, k)
    BY <1>1, <2>1
  <2>4. SubSeq(m \o s, n + 1, Len(m \o s)) = SubSeq(s, k + 1, Len(s))
    BY <1>1, <2>1
  <2> QED BY <2>1, <2>2, <2>3, <2>4 DEF k
<1>4. n <= Len(m) \/ n > Len(m)
  BY <1>1
<1> QED BY <1>2, <1>3, <1>4, Zenon

\* A segment that brings whole sends brings the first ones of the stream.
LEMMA FlotCoupe ==
  ASSUME NEW p \in 1 .. 11, NEW t \in Int, NEW d \in 0 .. 3, p + d <= 12,
         NEW n \in 1 .. Len(Flot(p, t, d)), Flot(p, t, d)[n].rang = Flot(p, t, d)[n].de
  PROVE  \E j \in 1 .. d :
           /\ SubSeq(Flot(p, t, d), 1, n) = Flot(p, t, j)
           /\ SubSeq(Flot(p, t, d), n + 1, Len(Flot(p, t, d))) = Flot(p + j, t, d - j)
<1> DEFINE Coupe(q, v, w, k, j) == /\ SubSeq(v, 1, k) = Flot(q, t, j)
                                   /\ SubSeq(v, k + 1, Len(v)) = Flot(q + j, t, w - j)
<1>1. ASSUME NEW q \in 1 .. 11, NEW w \in 1 .. 3, q + w <= 12,
             NEW k \in 1 .. Len(Flot(q, t, w)),
             Flot(q, t, w)[k].rang = Flot(q, t, w)[k].de
      PROVE  \/ Coupe(q, Flot(q, t, w), w, k, 1)
             \/ \E l \in 1 .. Len(Flot(q + 1, t, w - 1)) :
                  /\ Flot(q + 1, t, w - 1)[l].rang = Flot(q + 1, t, w - 1)[l].de
                  /\ \A j \in 1 .. w - 1 :
                       Coupe(q + 1, Flot(q + 1, t, w - 1), w - 1, l, j)
                         => Coupe(q, Flot(q, t, w), w, k, j + 1)
  <2> DEFINE m == Morceau(q, t)
             r == Flot(q + 1, t, w - 1)
             f == Flot(q, t, w)
  <2>1. q \in 1 .. 18 /\ q + 1 \in 1 .. 12 /\ w - 1 \in 0 .. 3 /\ q + 1 + (w - 1) <= 12
    BY <1>1
  <2>2. /\ m \in Seq(LesOctets) /\ Len(m) \in Nat \ {0}
        /\ \A i \in 1 .. Len(m) : m[i].rang = i /\ m[i].de = Len(m)
    BY <2>1, MorceauType, Zenon
  <2>3. f = m \o r /\ r \in Seq(LesOctets)
    BY FlotSuite, Zenon
  <2>4. Flot(q, t, 1) = m
    BY DEF Flot
  <2> HIDE DEF m, r, f
  <2>5. k \in 1 .. Len(m \o r) /\ (m \o r)[k].rang = (m \o r)[k].de
    BY <1>1, <2>3, Zenon DEF f
  <2>6. \/ k = Len(m)
        \/ /\ k - Len(m) \in 1 .. Len(r)
           /\ r[k - Len(m)].rang = r[k - Len(m)].de
           /\ SubSeq(m \o r, 1, k) = m \o SubSeq(r, 1, k - Len(m))
           /\ SubSeq(m \o r, k + 1, Len(m \o r)) = SubSeq(r, k - Len(m) + 1, Len(r))
    BY <2>2, <2>3, <2>5, UneCoupe, Zenon
  <2>7. CASE k = Len(m)
    <3>1. SubSeq(f, 1, k) = m /\ SubSeq(f, k + 1, Len(f)) = r
      BY <2>2, <2>3, <2>7, Joints
    <3> QED BY <3>1, <2>4 DEF r, f
  <2>8. CASE /\ k - Len(m) \in 1 .. Len(r)
             /\ r[k - Len(m)].rang = r[k - Len(m)].de
             /\ SubSeq(m \o r, 1, k) = m \o SubSeq(r, 1, k - Len(m))
             /\ SubSeq(m \o r, k + 1, Len(m \o r)) = SubSeq(r, k - Len(m) + 1, Len(r))
    <3> DEFINE l == k - Len(m)
    <3> HIDE DEF l
    <3>1. ASSUME NEW j \in 1 .. w - 1, Coupe(q + 1, r, w - 1, l, j)
          PROVE  Coupe(q, f, w, k, j + 1)
      <4>1. SubSeq(f, 1, k) = m \o Flot(q + 1, t, j)
        BY <2>3, <2>8, <3>1 DEF l
      <4>2. j + 1 \in 1 .. 3 /\ j + 1 - 1 = j /\ q + 1 + j = q + (j + 1) /\ w - 1 - j = w - (j + 1)
        BY <3>1
      <4>3. Flot(q, t, j + 1) = m \o Flot(q + 1, t, j)
        <5> DEFINE e == j + 1
        <5>1. e \in 1 .. 3 /\ e - 1 = j
          BY <4>2
        <5> HIDE DEF e
        <5>2. Flot(q, t, e) = Morceau(q, t) \o Flot(q + 1, t, e - 1)
          BY <5>1, FlotSuite, Zenon
        <5> QED BY <5>1, <5>2, Zenon DEF e, m
      <4>4. SubSeq(f, k + 1, Len(f)) = Flot(q + (j + 1), t, w - (j + 1))
        <5>1. SubSeq(f, k + 1, Len(f)) = SubSeq(r, l + 1, Len(r))
          BY <2>3, <2>8, Zenon DEF l
        <5>2. SubSeq(r, l + 1, Len(r)) = Flot(q + 1 + j, t, w - 1 - j)
          BY <3>1
        <5> QED BY <4>2, <5>1, <5>2, Zenon
      <4> QED BY <4>1, <4>3, <4>4
    <3>2. l \in 1 .. Len(r) /\ r[l].rang = r[l].de
      BY <2>8 DEF l
    <3> HIDE DEF Coupe
    <3> QED BY <3>1, <3>2, Zenon DEF r, f
  <2> QED BY <2>6, <2>7, <2>8, Zenon
<1>2. ASSUME NEW q \in 1 .. 11, NEW k \in 1 .. Len(Flot(q, t, 1)),
             Flot(q, t, 1)[k].rang = Flot(q, t, 1)[k].de
      PROVE  \E j \in 1 .. 1 : Coupe(q, Flot(q, t, 1), 1, k, j)
  <2>1. 1 \in 1 .. 3 /\ q + 1 <= 12 /\ 1 - 1 = 0 /\ 1 \in 1 .. 1
    OBVIOUS
  <2>2. Flot(q + 1, t, 0) = <<>> /\ 1 .. Len(<<>>) = {}
    BY DEF Flot
  <2> HIDE DEF Coupe
  <2>3. \/ Coupe(q, Flot(q, t, 1), 1, k, 1)
        \/ \E l \in 1 .. Len(Flot(q + 1, t, 1 - 1)) : TRUE
    BY <1>1, <1>2, <2>1, Zenon
  <2> QED BY <2>1, <2>2, <2>3
<1>3. ASSUME NEW q \in 1 .. 10, NEW k \in 1 .. Len(Flot(q, t, 2)),
             Flot(q, t, 2)[k].rang = Flot(q, t, 2)[k].de
      PROVE  \E j \in 1 .. 2 : Coupe(q, Flot(q, t, 2), 2, k, j)
  <2>1. /\ 2 \in 1 .. 3 /\ q \in 1 .. 11 /\ q + 1 \in 1 .. 11 /\ q + 2 <= 12 /\ 2 - 1 = 1
        /\ 1 \in 1 .. 2 /\ 1 \in 1 .. 1 /\ 1 + 1 = 2 /\ 2 \in 1 .. 2
        /\ \A j \in 1 .. 1 : j = 1
    OBVIOUS
  <2> HIDE DEF Coupe
  <2>2. \/ Coupe(q, Flot(q, t, 2), 2, k, 1)
        \/ \E l \in 1 .. Len(Flot(q + 1, t, 1)) :
             /\ Flot(q + 1, t, 1)[l].rang = Flot(q + 1, t, 1)[l].de
             /\ \A j \in 1 .. 1 : Coupe(q + 1, Flot(q + 1, t, 1), 1, l, j)
                                    => Coupe(q, Flot(q, t, 2), 2, k, j + 1)
    <3> DEFINE w == 2
    <3>1. w = 2 /\ w \in 1 .. 3 /\ q + w <= 12 /\ w - 1 = 1
      OBVIOUS
    <3> HIDE DEF w
    <3>2. k \in 1 .. Len(Flot(q, t, w)) /\ Flot(q, t, w)[k].rang = Flot(q, t, w)[k].de
      BY <1>3, <3>1, Zenon
    <3>3. \/ Coupe(q, Flot(q, t, w), w, k, 1)
          \/ \E l \in 1 .. Len(Flot(q + 1, t, w - 1)) :
               /\ Flot(q + 1, t, w - 1)[l].rang = Flot(q + 1, t, w - 1)[l].de
               /\ \A j \in 1 .. w - 1 : Coupe(q + 1, Flot(q + 1, t, w - 1), w - 1, l, j)
                                           => Coupe(q, Flot(q, t, w), w, k, j + 1)
      BY <1>1, <2>1, <3>1, <3>2, Zenon
    <3> QED BY <3>1, <3>3, Zenon
  <2> QED BY <1>2, <2>1, <2>2, Zenon
<1>4. ASSUME NEW q \in 1 .. 9, NEW k \in 1 .. Len(Flot(q, t, 3)),
             Flot(q, t, 3)[k].rang = Flot(q, t, 3)[k].de
      PROVE  \E j \in 1 .. 3 : Coupe(q, Flot(q, t, 3), 3, k, j)
  <2>1. /\ 3 \in 1 .. 3 /\ q \in 1 .. 11 /\ q + 1 \in 1 .. 10 /\ q + 3 <= 12 /\ 3 - 1 = 2
        /\ 1 \in 1 .. 3 /\ \A j \in 1 .. 2 : j + 1 \in 1 .. 3
    OBVIOUS
  <2> HIDE DEF Coupe
  <2>2. \/ Coupe(q, Flot(q, t, 3), 3, k, 1)
        \/ \E l \in 1 .. Len(Flot(q + 1, t, 2)) :
             /\ Flot(q + 1, t, 2)[l].rang = Flot(q + 1, t, 2)[l].de
             /\ \A j \in 1 .. 2 : Coupe(q + 1, Flot(q + 1, t, 2), 2, l, j)
                                    => Coupe(q, Flot(q, t, 3), 3, k, j + 1)
    <3> DEFINE w == 3
    <3>1. w = 3 /\ w \in 1 .. 3 /\ q + w <= 12 /\ w - 1 = 2
      OBVIOUS
    <3> HIDE DEF w
    <3>2. k \in 1 .. Len(Flot(q, t, w)) /\ Flot(q, t, w)[k].rang = Flot(q, t, w)[k].de
      BY <1>4, <3>1, Zenon
    <3>3. \/ Coupe(q, Flot(q, t, w), w, k, 1)
          \/ \E l \in 1 .. Len(Flot(q + 1, t, w - 1)) :
               /\ Flot(q + 1, t, w - 1)[l].rang = Flot(q + 1, t, w - 1)[l].de
               /\ \A j \in 1 .. w - 1 : Coupe(q + 1, Flot(q + 1, t, w - 1), w - 1, l, j)
                                           => Coupe(q, Flot(q, t, w), w, k, j + 1)
      BY <1>1, <2>1, <3>1, <3>2, Zenon
    <3> QED BY <3>1, <3>3, Zenon
  <2> QED BY <1>3, <2>1, <2>2, Zenon
<1>5. d # 0
  <2>1. ASSUME d = 0 PROVE FALSE
    BY <2>1 DEF Flot
  <2> QED BY <2>1
<1>6. \E j \in 1 .. d : Coupe(p, Flot(p, t, d), d, n, j)
  <2>1. d = 1 \/ d = 2 \/ d = 3
    BY <1>5
  <2>2. (d = 1 => p \in 1 .. 11) /\ (d = 2 => p \in 1 .. 10) /\ (d = 3 => p \in 1 .. 9)
    OBVIOUS
  <2> HIDE DEF Coupe
  <2> QED BY <1>2, <1>3, <1>4, <2>1, <2>2, Zenon
<1> QED BY <1>6

-----------------------------------------------------------------------------
(***************************************************************************)
(* The inductive invariant: the server is at position p of round t, the    *)
(* client at position q, counted from the same round, and the units that   *)
(* lie between them, and nothing else, are on the way, whole.              *)
(***************************************************************************)
ParClient == DuClient \cup {10}
Ecart(p, q) ==
  /\ p \in 1 .. 10 /\ q \in 1 .. 11
  /\ \A i \in p .. q - 1 : i \in ParClient
  /\ \A i \in q .. p - 1 : i \in DuServeur

\* What can be read and what is in transit: the d units from position p on.
Dispose(p, t, d, lisible, route) ==
  \E e \in 0 .. d : lisible = Flot(p, t, e) /\ route = Flot(p + e, t, d - e)

Distance(x, y) == IF x <= y THEN y - x ELSE 0

Accord(p, t, q, lisible, route) ==
  /\ Ecart(p, q)
  /\ Dispose(p, t, Distance(p, q), lisible["serveur"], route["serveur"])
  /\ Dispose(q, t, Distance(q, p), lisible["client"], route["client"])

TypeFlux ==
  /\ pas \in [Bouts -> 1 .. 9] /\ tour \in [Bouts -> Nat \ {0}]
  /\ transit \in [Bouts -> Seq(LesOctets)] /\ tampon \in [Bouts -> Seq(LesOctets)]
  /\ lu = [b \in Bouts |-> lu[b]]

PosClient == pas["client"] + 9 * (tour["client"] - tour["serveur"])
Ensemble == Accord(pas["serveur"], tour["serveur"], PosClient, tampon, transit)

Lues ==
  \A b \in Bouts :
    lu[b].octets # <<>> => Entiere(lu[b].octets) /\ lu[b].octets[1].unite = lu[b].unite

\* After its last round the server makes no call.
Arret == tour["serveur"] > MaxManches => pas["serveur"] = 1

FInv == TypeFlux /\ Ensemble /\ Lues /\ Arret

\* The positions, in arithmetic: the one who is ahead has only sent.
LEMMA Ecarts ==
  ASSUME NEW p, NEW q, Ecart(p, q)
  PROVE  /\ p \in 1 .. 10 /\ q \in 1 .. 11
         /\ Distance(p, q) \in 0 .. 3 /\ Distance(q, p) \in 0 .. 3
         /\ p + Distance(p, q) <= 12 /\ q + Distance(q, p) <= 12
         /\ q \in ParClient => p <= q /\ (p # 10 => Ecart(p, q + 1))
         /\ p \in DuServeur => q <= p /\ Ecart(p + 1, q)
         /\ q < p => q \in DuServeur /\ Ecart(p, q + 1)
         /\ p < q => p \in ParClient /\ (p # 10 => Ecart(p + 1, q))
BY DEF Ecart, Distance, ParClient, DuClient, DuServeur

\* The same stream, counted from the next round.
LEMMA FlotTour ==
  ASSUME NEW p \in 1 .. 2, NEW t \in Int, NEW d \in 0 .. 3
  PROVE  Flot(p + 9, t, d) = Flot(p, t + 1, d)
<1>1. ASSUME NEW i \in 1 .. 9 PROVE Morceau(i + 9, t) = Morceau(i, t + 1)
  BY DEF Morceau
<1>2. /\ p \in 1 .. 9 /\ p + 1 \in 1 .. 9 /\ p + 2 \in 1 .. 9
      /\ p + 9 + 1 = p + 1 + 9 /\ p + 9 + 2 = p + 2 + 9
  OBVIOUS
<1>3. /\ Morceau(p + 9, t) = Morceau(p, t + 1) /\ Morceau(p + 9 + 1, t) = Morceau(p + 1, t + 1)
      /\ Morceau(p + 9 + 2, t) = Morceau(p + 2, t + 1)
  BY <1>1, <1>2, Zenon
<1> QED BY <1>3 DEF Flot

LEMMA ResteCoupe ==
  ASSUME NEW p \in 1 .. 11, NEW d \in 0 .. 3, NEW e \in 0 .. d, e # d, p + d <= 12
  PROVE  p + e \in 1 .. 11 /\ d - e \in 0 .. 3 /\ p + e + (d - e) <= 12
OBVIOUS

\* What an arrival, a send and a recv do to one stream.
LEMMA DisposeArrive ==
  ASSUME NEW p \in 1 .. 11, NEW t \in Int, NEW d \in 0 .. 3, p + d <= 12,
         NEW lisible, NEW route, Dispose(p, t, d, lisible, route),
         NEW n \in 1 .. Len(route), route[n].rang = route[n].de
  PROVE  Dispose(p, t, d, lisible \o SubSeq(route, 1, n), SubSeq(route, n + 1, Len(route)))
<1>1. PICK e \in 0 .. d : lisible = Flot(p, t, e) /\ route = Flot(p + e, t, d - e)
  BY DEF Dispose
<1>2. p + e \in 1 .. 11 /\ d - e \in 0 .. 3 /\ p + e + (d - e) <= 12
  <2>1. e # d
    <3>1. ASSUME e = d PROVE FALSE
      <4>1. d - e = 0
        BY <3>1
      <4>2. route = <<>>
        <5>1. Flot(p + e, t, 0) = <<>>
          BY DEF Flot
        <5> QED BY <1>1, <4>1, <5>1, Zenon
      <4>3. Len(route) = 0
        BY <4>2
      <4> QED BY <4>3
    <3> QED BY <3>1
  <2> QED BY <2>1, ResteCoupe, Zenon
<1>3. PICK j \in 1 .. d - e : /\ SubSeq(route, 1, n) = Flot(p + e, t, j)
                              /\ SubSeq(route, n + 1, Len(route)) = Flot(p + e + j, t, d - e - j)
  <2> DEFINE a == p + e
             g == d - e
  <2>1. a \in 1 .. 11 /\ g \in 0 .. 3 /\ a + g <= 12 /\ route = Flot(a, t, g)
    BY <1>1, <1>2
  <2> HIDE DEF a, g
  <2>2. \E j \in 1 .. g : /\ SubSeq(route, 1, n) = Flot(a, t, j)
                          /\ SubSeq(route, n + 1, Len(route)) = Flot(a + j, t, g - j)
    <3>1. /\ n \in 1 .. Len(Flot(a, t, g))
          /\ Flot(a, t, g)[n].rang = Flot(a, t, g)[n].de
      BY <2>1, Zenon
    <3>2. \E j \in 1 .. g :
            /\ SubSeq(Flot(a, t, g), 1, n) = Flot(a, t, j)
            /\ SubSeq(Flot(a, t, g), n + 1, Len(Flot(a, t, g))) = Flot(a + j, t, g - j)
      BY <2>1, <3>1, FlotCoupe, Zenon
    <3> QED BY <2>1, <3>2, Zenon
  <2> QED BY <2>2, Zenon DEF a, g
<1>4. /\ e + j \in 0 .. d /\ p + e + j = p + (e + j) /\ d - e - j = d - (e + j)
      /\ e \in 0 .. 3 /\ j \in 0 .. 3 /\ e + j <= 3 /\ p + e + j <= 12
  BY <1>2
<1>5. p \in 1 .. 11
  OBVIOUS
<1>6. Flot(p, t, e) \o Flot(p + e, t, j) = Flot(p, t, e + j)
  BY <1>4, <1>5, FlotJoint, Zenon
<1>7. lisible \o SubSeq(route, 1, n) = Flot(p, t, e + j)
  BY <1>1, <1>3, <1>6, Zenon
<1>8. SubSeq(route, n + 1, Len(route)) = Flot(p + (e + j), t, d - (e + j))
  BY <1>3, <1>4, Zenon
<1> QED BY <1>4, <1>7, <1>8 DEF Dispose

LEMMA DisposeEnvoie ==
  ASSUME NEW p \in 1 .. 11, NEW t \in Int, NEW d \in 0 .. 2, p + d <= 11,
         NEW lisible, NEW route, Dispose(p, t, d, lisible, route)
  PROVE  Dispose(p, t, d + 1, lisible, route \o Morceau(p + d, t))
<1>1. PICK e \in 0 .. d : lisible = Flot(p, t, e) /\ route = Flot(p + e, t, d - e)
  BY DEF Dispose
<1> DEFINE a == p + e
           g == d - e
<1>2. /\ a \in 1 .. 11 /\ g \in 0 .. 3 /\ 1 \in 0 .. 3 /\ g + 1 <= 3 /\ a + g + 1 <= 12
      /\ a + g = p + d /\ g + 1 = d + 1 - e /\ e \in 0 .. d + 1
  OBVIOUS
<1>3. Flot(p + d, t, 1) = Morceau(p + d, t)
  BY DEF Flot
<1>4. route = Flot(a, t, g)
  BY <1>1
<1> HIDE DEF a, g
<1>5. Flot(a, t, g) \o Flot(a + g, t, 1) = Flot(a, t, g + 1)
  BY <1>2, FlotJoint, Zenon
<1>6. route \o Morceau(p + d, t) = Flot(a, t, d + 1 - e)
  BY <1>2, <1>3, <1>4, <1>5, Zenon
<1>7. route \o Morceau(p + d, t) = Flot(p + e, t, d + 1 - e)
  BY <1>6 DEF a
<1>8. e \in 0 .. d + 1 /\ lisible = Flot(p, t, e)
  BY <1>1, <1>2
<1> DEFINE suite == route \o Morceau(p + d, t)
           n == d + 1
<1>9. e \in 0 .. n /\ lisible = Flot(p, t, e) /\ suite = Flot(p + e, t, n - e)
  BY <1>7, <1>8
<1> HIDE DEF suite, n
<1>10. Dispose(p, t, n, lisible, suite)
  BY <1>9, Zenon DEF Dispose
<1> QED BY <1>10, Zenon DEF suite, n

LEMMA DisposeLit ==
  ASSUME NEW p \in 1 .. 11, NEW t \in Int, NEW d \in 0 .. 3, p + d <= 12,
         NEW lisible, NEW route, Dispose(p, t, d, lisible, route), lisible # <<>>
  PROVE  /\ d # 0
         /\ Len(Morceau(p, t)) <= Len(lisible)
         /\ SubSeq(lisible, 1, Len(Morceau(p, t))) = Morceau(p, t)
         /\ Dispose(p + 1, t, d - 1,
                    SubSeq(lisible, Len(Morceau(p, t)) + 1, Len(lisible)), route)
<1>1. PICK e \in 0 .. d : lisible = Flot(p, t, e) /\ route = Flot(p + e, t, d - e)
  BY DEF Dispose
<1>2. e # 0
  <2>1. Flot(p, t, 0) = <<>>
    BY DEF Flot
  <2> QED BY <1>1, <2>1, Zenon
<1>3. /\ e \in 1 .. 3 /\ p \in 1 .. 18 /\ e - 1 \in 0 .. d - 1
      /\ p + e = p + 1 + (e - 1) /\ d - e = d - 1 - (e - 1) /\ d # 0
  BY <1>2
<1> DEFINE m == Morceau(p, t)
           s == Flot(p + 1, t, e - 1)
<1>4. lisible = m \o s /\ s \in Seq(LesOctets)
  BY <1>1, <1>3, FlotSuite, Zenon
<1>5. m \in Seq(LesOctets) /\ Len(m) \in Nat
  BY <1>3, MorceauType
<1> HIDE DEF m, s
<1>6. /\ SubSeq(m \o s, 1, Len(m)) = m /\ SubSeq(m \o s, Len(m) + 1, Len(m \o s)) = s
      /\ Len(m) <= Len(m \o s)
  <2>1. Len(m \o s) = Len(m) + Len(s) /\ Len(s) \in Nat
    BY <1>4, <1>5
  <2>2. /\ SubSeq(m \o s, 1, Len(m)) = m /\ SubSeq(m \o s, Len(m) + 1, Len(m \o s)) = s
    BY <1>4, <1>5, Joints
  <2> QED BY <1>5, <2>1, <2>2
<1>7. SubSeq(lisible, Len(m) + 1, Len(lisible)) = Flot(p + 1, t, e - 1)
  BY <1>4, <1>6, Zenon DEF s
<1>8. route = Flot(p + 1 + (e - 1), t, d - 1 - (e - 1))
  BY <1>1, <1>3, Zenon
<1>9. Dispose(p + 1, t, d - 1, SubSeq(lisible, Len(m) + 1, Len(lisible)), route)
  BY <1>3, <1>7, <1>8, Zenon DEF Dispose
<1> QED BY <1>3, <1>4, <1>6, <1>9, Zenon DEF m

LEMMA DisposeVide ==
  ASSUME NEW p, NEW t, NEW lisible, NEW route
  PROVE  Dispose(p, t, 0, lisible, route) <=> lisible = <<>> /\ route = <<>>
<1>1. \A e \in 0 .. 0 : e = 0
  OBVIOUS
<1>2. /\ 0 \in 0 .. 0 /\ 0 - 0 = 0
      /\ \A x : Flot(x, t, 0) = <<>>
  BY DEF Flot
<1> QED BY <1>1, <1>2, Zenon DEF Dispose

\* The four calls, on the pair of streams.
LEMMA ClientEnvoie ==
  ASSUME NEW p \in 1 .. 9, NEW t \in Int, NEW q, NEW lisible, NEW route, NEW suite,
         Accord(p, t, q, lisible, route), q \in ParClient,
         suite["serveur"] = route["serveur"] \o Morceau(q, t), suite["client"] = route["client"]
  PROVE  Accord(p, t, q + 1, lisible, suite)
<1>1. Ecart(p, q)
  BY DEF Accord
<1>2. p <= q /\ q \in 1 .. 11 /\ Ecart(p, q + 1) /\ p # 10
  BY <1>1, Ecarts
<1>3. Distance(p, q + 1) \in 0 .. 3
  BY <1>2, Ecarts
<1> DEFINE d == Distance(p, q)
<1>4. /\ d \in 0 .. 2 /\ p + d = q /\ p + d <= 11 /\ p \in 1 .. 11
      /\ Distance(p, q + 1) = d + 1
  <2>1. Distance(p, q + 1) = q + 1 - p /\ d = q - p
    BY <1>2 DEF Distance
  <2>2. q \in 1 .. 10
    BY DEF ParClient, DuClient
  <2> QED BY <1>2, <1>3, <2>1, <2>2
<1>5. Distance(q, p) = 0 /\ Distance(q + 1, p) = 0
  BY <1>2 DEF Distance
<1> HIDE DEF d
<1>6. Dispose(p, t, d, lisible["serveur"], route["serveur"])
  BY Zenon DEF Accord, d
<1>7. Dispose(p, t, d + 1, lisible["serveur"], route["serveur"] \o Morceau(p + d, t))
  BY <1>4, <1>6, DisposeEnvoie, Zenon
<1>8. Dispose(p, t, Distance(p, q + 1), lisible["serveur"], suite["serveur"])
  BY <1>4, <1>7, Zenon
<1>9. Dispose(q + 1, t, Distance(q + 1, p), lisible["client"], suite["client"])
  <2>1. Dispose(q, t, 0, lisible["client"], route["client"])
    BY <1>5, Zenon DEF Accord
  <2> QED BY <1>5, <2>1, DisposeVide, Zenon
<1> QED BY <1>2, <1>8, <1>9, Zenon DEF Accord

LEMMA ServeurEnvoie ==
  ASSUME NEW p \in 1 .. 9, NEW t \in Int, NEW q, NEW lisible, NEW route, NEW suite,
         Accord(p, t, q, lisible, route), p \in DuServeur,
         suite["client"] = route["client"] \o Morceau(p, t), suite["serveur"] = route["serveur"]
  PROVE  Accord(p + 1, t, q, lisible, suite)
<1>1. Ecart(p, q)
  BY DEF Accord
<1>2. q <= p /\ q \in 1 .. 11 /\ Ecart(p + 1, q)
  BY <1>1, Ecarts
<1>3. Distance(q, p + 1) \in 0 .. 3
  BY <1>2, Ecarts
<1> DEFINE d == Distance(q, p)
<1>4. d \in 0 .. 2 /\ q + d = p /\ q + d <= 11 /\ q \in 1 .. 11 /\ Distance(q, p + 1) = d + 1
  <2>1. Distance(q, p + 1) = p + 1 - q /\ d = p - q
    BY <1>2 DEF Distance
  <2> QED BY <1>2, <1>3, <2>1
<1>5. Distance(p, q) = 0 /\ Distance(p + 1, q) = 0
  BY <1>2 DEF Distance
<1> HIDE DEF d
<1>6. Dispose(q, t, d, lisible["client"], route["client"])
  BY Zenon DEF Accord, d
<1>7. Dispose(q, t, d + 1, lisible["client"], route["client"] \o Morceau(q + d, t))
  BY <1>4, <1>6, DisposeEnvoie, Zenon
<1>8. Dispose(q, t, Distance(q, p + 1), lisible["client"], suite["client"])
  BY <1>4, <1>7, Zenon
<1>9. Dispose(p + 1, t, Distance(p + 1, q), lisible["serveur"], suite["serveur"])
  <2>1. Dispose(p, t, 0, lisible["serveur"], route["serveur"])
    BY <1>5, Zenon DEF Accord
  <2> QED BY <1>5, <2>1, DisposeVide, Zenon
<1> QED BY <1>2, <1>8, <1>9, Zenon DEF Accord

\* The first unit can be read whole, and what is left begins with the next.
Recu(m, l, reste) ==
  /\ Len(m) <= Len(l) /\ SubSeq(l, 1, Len(m)) = m
  /\ reste = SubSeq(l, Len(m) + 1, Len(l))

LEMMA ClientLit ==
  ASSUME NEW p \in 1 .. 9, NEW t \in Int, NEW q, NEW lisible, NEW route, NEW suite,
         Accord(p, t, q, lisible, route), lisible["client"] # <<>>,
         suite["client"] = SubSeq(lisible["client"], Len(Morceau(q, t)) + 1,
                                  Len(lisible["client"])),
         suite["serveur"] = lisible["serveur"]
  PROVE  /\ q \in 1 .. 9 /\ Recu(Morceau(q, t), lisible["client"], suite["client"])
         /\ Accord(p, t, q + 1, suite, route)
<1>1. Ecart(p, q)
  BY DEF Accord
<1> DEFINE d == Distance(q, p)
           l == lisible["client"]
<1>2. q \in 1 .. 11 /\ d \in 0 .. 3 /\ q + d <= 12
  BY <1>1, Ecarts
<1>3. Dispose(q, t, d, l, route["client"])
  BY Zenon DEF Accord
<1> HIDE DEF d, l
<1>4. /\ d # 0 /\ Len(Morceau(q, t)) <= Len(l) /\ SubSeq(l, 1, Len(Morceau(q, t))) = Morceau(q, t)
      /\ Dispose(q + 1, t, d - 1, SubSeq(l, Len(Morceau(q, t)) + 1, Len(l)), route["client"])
  BY <1>2, <1>3, DisposeLit, Zenon DEF l
<1>5. q < p
  <2>1. d # 0
    BY <1>4, Zenon
  <2> QED BY <1>2, <2>1 DEF d, Distance
<1>6. Ecart(p, q + 1) /\ q \in 1 .. 9
  <2>1. Ecart(p, q + 1) /\ q \in DuServeur
    BY <1>1, <1>5, Ecarts, Zenon
  <2> QED BY <2>1 DEF DuServeur
<1>7. Distance(q + 1, p) = d - 1 /\ Distance(p, q) = 0 /\ Distance(p, q + 1) = 0
  BY <1>2, <1>5 DEF d, Distance
<1>8. Dispose(q + 1, t, Distance(q + 1, p), suite["client"], route["client"])
  BY <1>4, <1>7, Zenon DEF l
<1>9. Dispose(p, t, Distance(p, q + 1), suite["serveur"], route["serveur"])
  BY <1>7, Zenon DEF Accord
<1> QED BY <1>4, <1>6, <1>8, <1>9, Zenon DEF Accord, Recu, l

LEMMA ServeurLit ==
  ASSUME NEW p \in 1 .. 9, NEW t \in Int, NEW q, NEW lisible, NEW route, NEW suite,
         Accord(p, t, q, lisible, route), lisible["serveur"] # <<>>,
         suite["serveur"] = SubSeq(lisible["serveur"], Len(Morceau(p, t)) + 1,
                                   Len(lisible["serveur"])),
         suite["client"] = lisible["client"]
  PROVE  /\ Recu(Morceau(p, t), lisible["serveur"], suite["serveur"])
         /\ Accord(p + 1, t, q, suite, route)
<1>1. Ecart(p, q)
  BY DEF Accord
<1> DEFINE d == Distance(p, q)
           l == lisible["serveur"]
<1>2. p \in 1 .. 11 /\ q \in 1 .. 11 /\ d \in 0 .. 3 /\ p + d <= 12
  BY <1>1, Ecarts
<1>3. Dispose(p, t, d, l, route["serveur"])
  BY Zenon DEF Accord
<1> HIDE DEF d, l
<1>4. /\ d # 0 /\ Len(Morceau(p, t)) <= Len(l) /\ SubSeq(l, 1, Len(Morceau(p, t))) = Morceau(p, t)
      /\ Dispose(p + 1, t, d - 1, SubSeq(l, Len(Morceau(p, t)) + 1, Len(l)), route["serveur"])
  BY <1>2, <1>3, DisposeLit, Zenon DEF l
<1>5. p < q
  <2>1. d # 0
    BY <1>4, Zenon
  <2> QED BY <1>2, <2>1 DEF d, Distance
<1>6. Ecart(p + 1, q)
  <2>1. p # 10
    OBVIOUS
  <2> QED BY <1>1, <1>5, <2>1, Ecarts, Zenon
<1>7. Distance(p + 1, q) = d - 1 /\ Distance(q, p) = 0 /\ Distance(q, p + 1) = 0
  BY <1>2, <1>5 DEF d, Distance
<1>8. Dispose(p + 1, t, Distance(p + 1, q), suite["serveur"], route["serveur"])
  BY <1>4, <1>7, Zenon DEF l
<1>9. Dispose(q, t, Distance(q, p + 1), suite["client"], route["client"])
  BY <1>7, Zenon DEF Accord
<1> QED BY <1>4, <1>6, <1>8, <1>9, Zenon DEF Accord, Recu, l

\* After the choice the server is at the start of the next round.
LEMMA TourSuivant ==
  ASSUME NEW t \in Int, NEW q, NEW lisible, NEW route, Accord(10, t, q, lisible, route)
  PROVE  Accord(1, t + 1, q - 9, lisible, route)
<1>1. q \in {10, 11}
  BY DEF Accord, Ecart, DuServeur
<1>2. Ecart(1, q - 9)
  BY <1>1 DEF Ecart, ParClient, DuClient
<1> DEFINE d == Distance(10, q)
<1>3. /\ d \in 0 .. 1 /\ Distance(1, q - 9) = d
      /\ Distance(q, 10) = 0 /\ Distance(q - 9, 1) = 0
  BY <1>1 DEF Distance
<1>4. Dispose(10, t, d, lisible["serveur"], route["serveur"])
  BY Zenon DEF Accord
<1> HIDE DEF d
<1>5. PICK e \in 0 .. d : /\ lisible["serveur"] = Flot(10, t, e)
                          /\ route["serveur"] = Flot(10 + e, t, d - e)
  BY <1>4 DEF Dispose
<1>6. /\ e \in 0 .. 3 /\ d - e \in 0 .. 3 /\ 1 \in 1 .. 2 /\ 1 + e \in 1 .. 2
      /\ 1 + 9 = 10 /\ 1 + e + 9 = 10 + e
  BY <1>3
<1>7. Flot(10, t, e) = Flot(1, t + 1, e) /\ Flot(10 + e, t, d - e) = Flot(1 + e, t + 1, d - e)
  BY <1>6, FlotTour
<1>8. Dispose(1, t + 1, d, lisible["serveur"], route["serveur"])
  BY <1>5, <1>7 DEF Dispose
<1>9. Dispose(q - 9, t + 1, 0, lisible["client"], route["client"])
  <2>1. Dispose(q, t, 0, lisible["client"], route["client"])
    BY <1>3, Zenon DEF Accord
  <2>2. lisible["client"] = <<>> /\ route["client"] = <<>>
    BY <2>1, DisposeVide
  <2> QED BY <2>2, DisposeVide
<1> QED BY <1>2, <1>3, <1>8, <1>9, Zenon DEF Accord

-----------------------------------------------------------------------------
(***************************************************************************)
(* The steps.                                                              *)
(***************************************************************************)

\* The unit at the place of each end.
LEMMA UniteServeur ==
  ASSUME TypeFlux
  PROVE  Octets(Nom[pas["serveur"]], tour["serveur"], Taille[pas["serveur"]])
           = Morceau(pas["serveur"], tour["serveur"])
BY DEF TypeFlux, Bouts, Morceau

LEMMA UniteClient ==
  ASSUME TypeFlux, PosClient \in 1 .. 11
  PROVE  /\ Octets(Nom[pas["client"]], tour["client"], Taille[pas["client"]])
              = Morceau(PosClient, tour["serveur"])
         /\ pas["client"] \in DuClient <=> PosClient \in ParClient
         /\ tour["client"] - tour["serveur"] \in {0, 1}
<1> DEFINE a == pas["client"]
           k == tour["client"] - tour["serveur"]
<1>1. a \in 1 .. 9 /\ k \in Int /\ tour["client"] \in Int /\ tour["serveur"] \in Int
  BY DEF TypeFlux, Bouts
<1>2. PosClient = a + 9 * k
  BY DEF PosClient
<1> HIDE DEF a, k
<1>3. k = 0 \/ k = 1
  BY <1>1, <1>2
<1>4. CASE k = 0
  <2>1. PosClient = a /\ tour["client"] = tour["serveur"]
    BY <1>1, <1>2, <1>4 DEF k
  <2> QED BY <1>1, <1>4, <2>1 DEF Morceau, ParClient, DuClient, a, k
<1>5. CASE k = 1
  <2>1. PosClient = a + 9 /\ tour["client"] = tour["serveur"] + 1 /\ a \in {1, 2}
    BY <1>1, <1>2, <1>5 DEF k
  <2> QED BY <1>1, <1>5, <2>1 DEF Morceau, ParClient, DuClient, a, k
<1> QED BY <1>3, <1>4, <1>5

LEMMA AvancerClient ==
  ASSUME TypeFlux, Avancer("client")
  PROVE  /\ pas' \in [Bouts -> 1 .. 9] /\ tour' \in [Bouts -> Nat \ {0}]
         /\ pas'["serveur"] = pas["serveur"] /\ tour'["serveur"] = tour["serveur"]
         /\ PosClient' = PosClient + 1
<1>1. Len(Appels("client")) = 9
  BY LesAppels DEF Bouts
<1>2. /\ "serveur" \in Bouts /\ "client" \in Bouts /\ "serveur" # "client"
      /\ pas["client"] \in 1 .. 9 /\ tour["client"] \in Int
      /\ pas["serveur"] \in 1 .. 9 /\ tour["serveur"] \in Int
  BY DEF TypeFlux, Bouts
<1>3. CASE pas["client"] < 9
  <2>1. pas' = [pas EXCEPT !["client"] = pas["client"] + 1] /\ tour' = tour
    BY <1>1, <1>3 DEF Avancer
  <2>2. pas'["serveur"] = pas["serveur"] /\ pas'["client"] = pas["client"] + 1
    BY <1>2, <2>1 DEF TypeFlux
  <2>3. pas' \in [Bouts -> 1 .. 9] /\ tour' \in [Bouts -> Nat \ {0}]
    BY <1>2, <1>3, <2>1 DEF TypeFlux
  <2> QED BY <1>2, <2>1, <2>2, <2>3 DEF PosClient
<1>4. CASE ~(pas["client"] < 9)
  <2>1. pas' = [pas EXCEPT !["client"] = 1] /\ tour' = [tour EXCEPT !["client"] = tour["client"] + 1]
    BY <1>1, <1>4 DEF Avancer
  <2>2. /\ pas'["serveur"] = pas["serveur"] /\ pas'["client"] = 1 /\ pas["client"] = 9
        /\ tour'["serveur"] = tour["serveur"] /\ tour'["client"] = tour["client"] + 1
    BY <1>2, <1>4, <2>1 DEF TypeFlux
  <2>3. pas' \in [Bouts -> 1 .. 9] /\ tour' \in [Bouts -> Nat \ {0}]
    BY <1>2, <1>4, <2>1 DEF TypeFlux
  <2> QED BY <1>2, <2>2, <2>3 DEF PosClient
<1> QED BY <1>3, <1>4

LEMMA AvancerServeur ==
  ASSUME TypeFlux, Avancer("serveur")
  PROVE  /\ pas' \in [Bouts -> 1 .. 9] /\ tour' \in [Bouts -> Nat \ {0}]
         /\ \/ /\ pas'["serveur"] = pas["serveur"] + 1 /\ tour'["serveur"] = tour["serveur"]
               /\ PosClient' = PosClient
            \/ /\ pas["serveur"] = 9 /\ pas'["serveur"] = 1
               /\ tour'["serveur"] = tour["serveur"] + 1 /\ PosClient' = PosClient - 9
<1>1. Len(Appels("serveur")) = 9
  BY LesAppels DEF Bouts
<1>2. /\ "serveur" \in Bouts /\ "client" \in Bouts /\ "serveur" # "client"
      /\ pas["serveur"] \in 1 .. 9 /\ tour["serveur"] \in Int
      /\ pas["client"] \in 1 .. 9 /\ tour["client"] \in Int
  BY DEF TypeFlux, Bouts
<1>3. CASE pas["serveur"] < 9
  <2>1. pas' = [pas EXCEPT !["serveur"] = pas["serveur"] + 1] /\ tour' = tour
    BY <1>1, <1>3 DEF Avancer
  <2>2. pas'["client"] = pas["client"] /\ pas'["serveur"] = pas["serveur"] + 1
    BY <1>2, <2>1 DEF TypeFlux
  <2>3. pas' \in [Bouts -> 1 .. 9] /\ tour' \in [Bouts -> Nat \ {0}]
    BY <1>2, <1>3, <2>1 DEF TypeFlux
  <2> QED BY <1>2, <2>1, <2>2, <2>3 DEF PosClient
<1>4. CASE ~(pas["serveur"] < 9)
  <2>1. pas' = [pas EXCEPT !["serveur"] = 1] /\ tour' = [tour EXCEPT !["serveur"] = tour["serveur"] + 1]
    BY <1>1, <1>4 DEF Avancer
  <2>2. /\ pas'["client"] = pas["client"] /\ pas'["serveur"] = 1 /\ pas["serveur"] = 9
        /\ tour'["client"] = tour["client"] /\ tour'["serveur"] = tour["serveur"] + 1
    BY <1>2, <1>4, <2>1 DEF TypeFlux
  <2>3. pas' \in [Bouts -> 1 .. 9] /\ tour' \in [Bouts -> Nat \ {0}]
    BY <1>2, <1>4, <2>1 DEF TypeFlux
  <2> QED BY <1>2, <2>2, <2>3 DEF PosClient
<1> QED BY <1>3, <1>4

\* A step of the server that keeps the two ends together.
LEMMA EnsembleServeur ==
  ASSUME TypeFlux, Avancer("serveur"),
         Accord(pas["serveur"] + 1, tour["serveur"], PosClient, tampon', transit')
  PROVE  Ensemble'
<1>1. CASE /\ pas'["serveur"] = pas["serveur"] + 1 /\ tour'["serveur"] = tour["serveur"]
           /\ PosClient' = PosClient
  BY <1>1 DEF Ensemble
<1>2. CASE /\ pas["serveur"] = 9 /\ pas'["serveur"] = 1
           /\ tour'["serveur"] = tour["serveur"] + 1 /\ PosClient' = PosClient - 9
  <2>1. pas["serveur"] + 1 = 10 /\ tour["serveur"] \in Int
    BY <1>2 DEF TypeFlux, Bouts
  <2>2. Accord(10, tour["serveur"], PosClient, tampon', transit')
    BY <2>1, Zenon
  <2>3. Accord(1, tour["serveur"] + 1, PosClient - 9, tampon', transit')
    BY <2>1, <2>2, TourSuivant, Zenon
  <2> QED BY <1>2, <2>3 DEF Ensemble
<1> QED BY <1>1, <1>2, AvancerServeur

\* The call at the place of an end.
LEMMA AppelCourant ==
  ASSUME TypeFlux, NEW b \in Bouts
  PROVE  /\ pas[b] \in 1 .. 9
         /\ Courant(b).fonction = Sens(b, pas[b])
         /\ Courant(b).unite = Nom[pas[b]]
         /\ Courant(b).longueur = Taille[pas[b]]
<1>1. pas[b] \in 1 .. 9
  BY DEF TypeFlux
<1>2. Courant(b) = Appel(Sens(b, pas[b]), Nom[pas[b]], Taille[pas[b]])
  BY <1>1, LesAppels DEF Courant
<1> QED BY <1>1, <1>2 DEF Appel

\* The units of an end are those of its place in the round.
Morc(b) ==
  IF b = "serveur" THEN Morceau(pas["serveur"], tour["serveur"])
                   ELSE Morceau(PosClient, tour["serveur"])

LEMMA UniteCourante ==
  ASSUME FInv, NEW b \in Bouts
  PROVE  /\ Octets(Courant(b).unite, tour[b], Courant(b).longueur) = Morc(b)
         /\ Morc(b) \in Seq(LesOctets) /\ Len(Morc(b)) = Courant(b).longueur
         /\ Len(Morc(b)) \in Nat \ {0}
         /\ Entiere(Morc(b)) /\ Morc(b) # <<>> /\ Morc(b)[1].unite = Courant(b).unite
<1> DEFINE u == Nom[pas[b]]
           t == tour[b]
           n == Taille[pas[b]]
<1>1. TypeFlux /\ PosClient \in 1 .. 11
  BY DEF FInv, Ensemble, Accord, Ecart
<1>2. pas[b] \in 1 .. 9 /\ Courant(b).unite = u /\ Courant(b).longueur = n
  BY <1>1, AppelCourant
<1>3. u \in Noms /\ t \in Int /\ n \in Nat \ {0}
  <2>1. \A i \in 1 .. 9 : Nom[i] \in Noms
    BY DEF Nom, Noms
  <2>2. tour[b] \in Int
    BY <1>1 DEF TypeFlux
  <2> QED BY <1>2, <2>1, <2>2, TaillesPositives, Zenon
<1>4. Octets(u, t, n) = Morc(b)
  <2>1. CASE b = "serveur"
    <3>1. Morc(b) = Morceau(pas["serveur"], tour["serveur"])
      BY <2>1 DEF Morc
    <3> QED BY <1>1, <2>1, <3>1, UniteServeur, Zenon
  <2>2. CASE b = "client"
    <3>1. Morc(b) = Morceau(PosClient, tour["serveur"])
      BY <2>2 DEF Morc
    <3> QED BY <1>1, <2>2, <3>1, UniteClient, Zenon
  <2> QED BY <2>1, <2>2 DEF Bouts
<1> HIDE DEF u, t, n
<1>5. /\ Octets(u, t, n) \in Seq(LesOctets) /\ Len(Octets(u, t, n)) = n
      /\ \A r \in 1 .. n : Octets(u, t, n)[r] = Octet(u, t, r, n)
  BY <1>3, OctetsType
<1>6. Octets(u, t, n)[1] = Octet(u, t, 1, n) /\ Octets(u, t, n) # <<>>
  BY <1>3, <1>5
<1>7. Octet(u, t, 1, n).unite = u /\ Octet(u, t, 1, n).tour = t /\ Octet(u, t, 1, n).de = n
  BY DEF Octet
<1>8. Entiere(Octets(u, t, n))
  BY <1>6, <1>7, Zenon DEF Entiere
<1>9. Octets(Courant(b).unite, tour[b], Courant(b).longueur) = Morc(b)
  BY <1>2, <1>4, Zenon DEF t
<1>10. Len(Morc(b)) = Courant(b).longueur /\ Len(Morc(b)) \in Nat \ {0}
  BY <1>2, <1>3, <1>4, <1>5, Zenon
<1> QED BY <1>2, <1>4, <1>5, <1>6, <1>7, <1>8, <1>9, <1>10, Zenon

LEMMA ResteArret ==
  ASSUME TypeFlux, Arret, NEW b \in Bouts, tour[b] <= MaxManches, Avancer(b)
  PROVE  Arret'
<1>1. MaxManches \in Int
  BY FluxAssumption
<1>2. CASE b = "client"
  BY <1>2, AvancerClient DEF Arret
<1>3. CASE b = "serveur"
  <2>1. tour["serveur"] \in Int
    BY DEF TypeFlux, Bouts
  <2> QED BY <1>1, <1>3, <2>1, AvancerServeur DEF Arret
<1> QED BY <1>2, <1>3 DEF Bouts

LEMMA EnvoyerFInv ==
  ASSUME FInv, NEW b \in Bouts, envoyer_donnees(b)
  PROVE  FInv'
<1> DEFINE o == Autre(b)
           m == Morc(b)
<1>1. TypeFlux /\ Ensemble /\ Lues /\ Arret
  BY DEF FInv
<1>2. m \in Seq(LesOctets) /\ transit' = [transit EXCEPT ![o] = @ \o m]
  BY UniteCourante DEF envoyer_donnees
<1>3. Avancer(b) /\ tampon' = tampon /\ lu' = lu /\ Sens(b, pas[b]) = "send"
  BY <1>1, AppelCourant DEF envoyer_donnees
<1>4. o \in Bouts /\ o # b /\ \A c \in Bouts : c = b \/ c = o
  BY DEF Autre, Bouts
<1> HIDE DEF m, o
<1>5. transit'[o] = transit[o] \o m /\ transit'[b] = transit[b]
  BY <1>1, <1>2, <1>4 DEF TypeFlux
<1>6. TypeFlux'
  <2>1. transit' \in [Bouts -> Seq(LesOctets)]
    <3>1. transit[o] \in Seq(LesOctets)
      BY <1>1, <1>4 DEF TypeFlux
    <3>2. transit[o] \o m \in Seq(LesOctets)
      BY <1>2, <3>1
    <3> QED BY <1>1, <1>2, <1>4, <3>2 DEF TypeFlux
  <2>2. pas' \in [Bouts -> 1 .. 9] /\ tour' \in [Bouts -> Nat \ {0}]
    BY <1>1, <1>3, AvancerClient, AvancerServeur, Zenon DEF Bouts
  <2> QED BY <1>1, <1>3, <2>1, <2>2 DEF TypeFlux
<1>7. Lues' /\ Arret'
  <2>1. Lues'
    BY <1>1, <1>3 DEF Lues
  <2> QED BY <1>1, <1>3, <2>1, ResteArret DEF envoyer_donnees
<1> DEFINE p == pas["serveur"]
           t == tour["serveur"]
<1>8. p \in 1 .. 9 /\ t \in Int /\ Accord(p, t, PosClient, tampon, transit)
  BY <1>1 DEF TypeFlux, Bouts, Ensemble
<1>9. CASE b = "client"
  <2>1. o = "serveur" /\ m = Morceau(PosClient, t)
    BY <1>9 DEF o, m, Autre, Morc
  <2>2. PosClient \in ParClient
    <3>1. pas["client"] \in DuClient
      BY <1>3, <1>9 DEF Sens
    <3>2. PosClient \in 1 .. 11
      BY <1>8 DEF Accord, Ecart
    <3> QED BY <1>1, <3>1, <3>2, UniteClient
  <2>3. Accord(p, t, PosClient + 1, tampon, transit')
    <3>1. /\ transit'["serveur"] = transit["serveur"] \o Morceau(PosClient, t)
          /\ transit'["client"] = transit["client"]
      BY <1>5, <1>9, <2>1, Zenon
    <3> HIDE DEF p, t
    <3> QED BY <1>8, <2>2, <3>1, ClientEnvoie, Zenon
  <2> QED BY <1>1, <1>3, <1>6, <1>7, <1>9, <2>3, AvancerClient DEF Ensemble, FInv
<1>10. CASE b = "serveur"
  <2>1. o = "client" /\ m = Morceau(p, t) /\ p \in DuServeur
    BY <1>3, <1>10 DEF o, m, Autre, Morc, Sens
  <2>2. Accord(p + 1, t, PosClient, tampon, transit')
    <3>1. /\ transit'["client"] = transit["client"] \o Morceau(p, t)
          /\ transit'["serveur"] = transit["serveur"]
      BY <1>5, <1>10, <2>1, Zenon
    <3> HIDE DEF p, t
    <3> QED BY <1>8, <2>1, <3>1, ServeurEnvoie, Zenon
  <2>3. Ensemble'
    BY <1>1, <1>3, <1>10, <2>2, EnsembleServeur
  <2> QED BY <1>6, <1>7, <2>3 DEF FInv
<1> QED BY <1>9, <1>10 DEF Bouts

LEMMA ArriverFInv ==
  ASSUME FInv, ~Coupures, NEW b \in Bouts, Arriver(b)
  PROVE  FInv'
<1>1. TypeFlux /\ Ensemble /\ Lues /\ Arret
  BY DEF FInv
<1>2. PICK n \in 1 .. Len(transit[b]) :
        /\ Coupures \/ transit[b][n].rang = transit[b][n].de
        /\ tampon' = [tampon EXCEPT ![b] = @ \o SubSeq(transit[b], 1, n)]
        /\ transit' = [transit EXCEPT ![b] = SubSeq(@, n + 1, Len(@))]
  BY DEF Arriver
<1> DEFINE l == tampon[b] \o SubSeq(transit[b], 1, n)
           r == SubSeq(transit[b], n + 1, Len(transit[b]))
<1>3. pas' = pas /\ tour' = tour /\ lu' = lu
  BY DEF Arriver
<1>4. l \in Seq(LesOctets) /\ r \in Seq(LesOctets)
  <2>1. tampon[b] \in Seq(LesOctets) /\ transit[b] \in Seq(LesOctets)
    BY <1>1 DEF TypeFlux
  <2>2. SubSeq(transit[b], 1, n) \in Seq(LesOctets)
    BY <2>1
  <2> QED BY <2>1, <2>2
<1>5. tampon' = [tampon EXCEPT ![b] = l] /\ transit' = [transit EXCEPT ![b] = r]
  BY <1>2
<1>6. transit[b][n].rang = transit[b][n].de
  BY <1>2
<1> HIDE DEF l, r
<1>7. TypeFlux' /\ Lues' /\ Arret'
  BY <1>1, <1>3, <1>4, <1>5 DEF TypeFlux, Lues, Arret
<1>8. /\ tampon'[b] = l /\ transit'[b] = r
      /\ \A c \in Bouts : c # b => tampon'[c] = tampon[c] /\ transit'[c] = transit[c]
  BY <1>1, <1>5 DEF TypeFlux
<1> DEFINE p == pas["serveur"]
           q == PosClient
           t == tour["serveur"]
<1>9. Accord(p, t, q, tampon, transit) /\ t \in Int
  BY <1>1 DEF Ensemble, TypeFlux, Bouts
<1> HIDE DEF p, q, t
<1>10. /\ p \in 1 .. 11 /\ q \in 1 .. 11
       /\ Distance(p, q) \in 0 .. 3 /\ Distance(q, p) \in 0 .. 3
       /\ p + Distance(p, q) <= 12 /\ q + Distance(q, p) <= 12
  BY <1>9, Ecarts DEF Accord
<1>11. ASSUME NEW x \in 1 .. 11, NEW d \in 0 .. 3, x + d <= 12,
              Dispose(x, t, d, tampon[b], transit[b])
       PROVE  Dispose(x, t, d, tampon'[b], transit'[b])
  BY <1>6, <1>8, <1>9, <1>11, DisposeArrive, Zenon DEF l, r
<1>12. /\ Dispose(p, t, Distance(p, q), tampon'["serveur"], transit'["serveur"])
       /\ Dispose(q, t, Distance(q, p), tampon'["client"], transit'["client"])
  <2>1. /\ Dispose(p, t, Distance(p, q), tampon["serveur"], transit["serveur"])
        /\ Dispose(q, t, Distance(q, p), tampon["client"], transit["client"])
    BY <1>9, Zenon DEF Accord
  <2>2. "client" \in Bouts /\ "serveur" \in Bouts /\ "client" # "serveur"
    BY DEF Bouts
  <2>3. CASE b = "serveur"
    BY <1>8, <1>10, <1>11, <2>1, <2>2, <2>3, Zenon
  <2>4. CASE b = "client"
    BY <1>8, <1>10, <1>11, <2>1, <2>2, <2>4, Zenon
  <2> QED BY <2>3, <2>4 DEF Bouts
<1>13. Accord(p, t, q, tampon', transit')
  BY <1>9, <1>12, Zenon DEF Accord
<1>14. Ensemble'
  BY <1>3, <1>13 DEF Ensemble, PosClient, p, q, t
<1> QED BY <1>7, <1>14 DEF FInv

LEMMA RecevoirFInv ==
  ASSUME FInv, NEW b \in Bouts, recevoir_donnees(b)
  PROVE  FInv'
<1>1. TypeFlux /\ Ensemble /\ Lues /\ Arret
  BY DEF FInv
<1> DEFINE m == Morc(b)
           l == tampon[b]
           k == IF Len(l) < Courant(b).longueur THEN Len(l) ELSE Courant(b).longueur
           r == SubSeq(l, Len(m) + 1, Len(l))
           p == pas["serveur"]
           q == PosClient
           t == tour["serveur"]
<1>2. /\ Avancer(b) /\ transit' = transit /\ k > 0
      /\ lu' = [lu EXCEPT ![b] = [unite |-> Courant(b).unite, octets |-> SubSeq(l, 1, k)]]
      /\ tampon' = [tampon EXCEPT ![b] = SubSeq(l, k + 1, Len(l))]
  BY DEF recevoir_donnees
<1>3. /\ m \in Seq(LesOctets) /\ Len(m) = Courant(b).longueur /\ Len(m) \in Nat \ {0}
      /\ Entiere(m) /\ m # <<>> /\ m[1].unite = Courant(b).unite
  BY UniteCourante
<1>4. l \in Seq(LesOctets) /\ l # <<>> /\ Len(l) \in Nat
  <2>1. l \in Seq(LesOctets)
    BY <1>1 DEF TypeFlux
  <2> QED BY <1>2, <1>3, <2>1
<1>5. p \in 1 .. 9 /\ t \in Int /\ Accord(p, t, q, tampon, transit)
  BY <1>1 DEF TypeFlux, Bouts, Ensemble
<1> DEFINE suite == [tampon EXCEPT ![b] = r]
<1>6. /\ suite[b] = r /\ \A c \in Bouts : c # b => suite[c] = tampon[c]
  BY <1>1 DEF TypeFlux
<1> HIDE DEF m, l, k, r, p, q, t, suite
<1>7. "client" \in Bouts /\ "serveur" \in Bouts /\ "client" # "serveur"
  BY DEF Bouts
<1>8. /\ Recu(m, l, r)
      /\ b = "client" => Accord(p, t, q + 1, suite, transit)
      /\ b = "serveur" => Accord(p + 1, t, q, suite, transit)
  <2>1. CASE b = "client"
    <3>1. /\ tampon["client"] # <<>> /\ suite["serveur"] = tampon["serveur"]
          /\ m = Morceau(q, t)
      BY <1>4, <1>6, <1>7, <2>1 DEF l, m, Morc, q, t
    <3>2. suite["client"] = SubSeq(tampon["client"], Len(Morceau(q, t)) + 1, Len(tampon["client"]))
      BY <1>6, <2>1, <3>1, Zenon DEF r, l
    <3>3. /\ Recu(Morceau(q, t), tampon["client"], suite["client"])
          /\ Accord(p, t, q + 1, suite, transit)
      BY <1>5, <3>1, <3>2, ClientLit, Zenon
    <3> QED BY <1>6, <1>7, <2>1, <3>1, <3>3, Zenon DEF l
  <2>2. CASE b = "serveur"
    <3>1. /\ tampon["serveur"] # <<>> /\ suite["client"] = tampon["client"]
          /\ m = Morceau(p, t)
      BY <1>4, <1>6, <1>7, <2>2 DEF l, m, Morc, p, t
    <3>2. suite["serveur"] = SubSeq(tampon["serveur"], Len(Morceau(p, t)) + 1, Len(tampon["serveur"]))
      BY <1>6, <2>2, <3>1, Zenon DEF r, l
    <3>3. /\ Recu(Morceau(p, t), tampon["serveur"], suite["serveur"])
          /\ Accord(p + 1, t, q, suite, transit)
      BY <1>5, <3>1, <3>2, ServeurLit, Zenon
    <3> QED BY <1>6, <1>7, <2>2, <3>1, <3>3, Zenon DEF l
  <2> QED BY <2>1, <2>2 DEF Bouts
<1>9. k = Len(m)
  <2>1. Len(m) <= Len(l)
    BY <1>8 DEF Recu
  <2> QED BY <1>3, <1>4, <2>1 DEF k
<1>10. tampon' = suite /\ SubSeq(l, 1, k) = m
  BY <1>2, <1>8, <1>9, Zenon DEF Recu, suite, r
<1>11. TypeFlux'
  <2>1. r \in Seq(LesOctets)
    BY <1>3, <1>4 DEF r
  <2>2. tampon' \in [Bouts -> Seq(LesOctets)]
    BY <1>1, <1>10, <2>1 DEF TypeFlux, suite
  <2>3. pas' \in [Bouts -> 1 .. 9] /\ tour' \in [Bouts -> Nat \ {0}]
    BY <1>1, <1>2, AvancerClient, AvancerServeur, Zenon DEF Bouts
  <2>4. lu' = [c \in Bouts |-> lu'[c]]
    BY <1>1, <1>2 DEF TypeFlux
  <2> QED BY <1>1, <1>2, <2>2, <2>3, <2>4 DEF TypeFlux
<1>12. Lues'
  <2>1. lu' = [lu EXCEPT ![b] = [unite |-> Courant(b).unite, octets |-> m]]
    BY <1>2, <1>10
  <2>2. lu'[b].unite = Courant(b).unite /\ lu'[b].octets = m
    BY <1>1, <2>1 DEF TypeFlux
  <2>3. \A c \in Bouts : c # b => lu'[c] = lu[c]
    BY <1>1, <2>1 DEF TypeFlux
  <2> QED BY <1>1, <1>3, <2>2, <2>3, Zenon DEF Lues
<1>13. Ensemble'
  <2>1. CASE b = "client"
    <3>1. Accord(p, t, q + 1, tampon', transit')
      BY <1>2, <1>8, <1>10, <2>1
    <3> QED BY <1>1, <1>2, <2>1, <3>1, AvancerClient DEF Ensemble, p, q, t
  <2>2. CASE b = "serveur"
    <3>1. Accord(p + 1, t, q, tampon', transit')
      BY <1>2, <1>8, <1>10, <2>2
    <3> QED BY <1>1, <1>2, <2>2, <3>1, EnsembleServeur DEF p, q, t
  <2> QED BY <2>1, <2>2 DEF Bouts
<1>14. Arret'
  BY <1>1, <1>2, ResteArret DEF recevoir_donnees
<1> QED BY <1>11, <1>12, <1>13, <1>14 DEF FInv

LEMMA InitFInv == Init => FInv
<1> SUFFICES ASSUME Init PROVE FInv
  OBVIOUS
<1>1. TypeFlux
  <2>1. <<>> \in Seq(LesOctets)
    OBVIOUS
  <2>2. /\ pas = [b \in Bouts |-> 1] /\ tour = [b \in Bouts |-> 1]
        /\ transit = [b \in Bouts |-> <<>>] /\ tampon = [b \in Bouts |-> <<>>]
        /\ lu = [b \in Bouts |-> [unite |-> "", octets |-> <<>>]]
    BY DEF Init
  <2>3. 1 \in 1 .. 9 /\ 1 \in Nat \ {0}
    OBVIOUS
  <2>4. /\ pas \in [Bouts -> 1 .. 9] /\ tour \in [Bouts -> Nat \ {0}]
    BY <2>2, <2>3
  <2>5. transit \in [Bouts -> Seq(LesOctets)] /\ tampon \in [Bouts -> Seq(LesOctets)]
    BY <2>1, <2>2, Zenon
  <2>6. lu = [b \in Bouts |-> lu[b]]
    BY <2>2, Zenon
  <2> QED BY <2>4, <2>5, <2>6 DEF TypeFlux
<1>2. Lues
  <2>1. \A b \in Bouts : lu[b].octets = <<>>
    BY DEF Init
  <2> QED BY <2>1, Zenon DEF Lues
<1>3. PosClient = 1 /\ pas["serveur"] = 1 /\ tour["serveur"] = 1
  <2>1. \A b \in Bouts : pas[b] = 1 /\ tour[b] = 1
    BY DEF Init
  <2>2. /\ pas["client"] = 1 /\ pas["serveur"] = 1
        /\ tour["client"] = 1 /\ tour["serveur"] = 1
    BY <2>1, Zenon DEF Bouts
  <2> QED BY <2>2 DEF PosClient
<1>4. /\ tampon["serveur"] = <<>> /\ transit["serveur"] = <<>>
      /\ tampon["client"] = <<>> /\ transit["client"] = <<>>
  <2>1. \A b \in Bouts : tampon[b] = <<>> /\ transit[b] = <<>>
    BY Zenon DEF Init
  <2> QED BY <2>1, Zenon DEF Bouts
<1>5. Ecart(1, 1) /\ Distance(1, 1) = 0
  BY DEF Ecart, Distance
<1>6. /\ Dispose(1, 1, 0, tampon["serveur"], transit["serveur"])
      /\ Dispose(1, 1, 0, tampon["client"], transit["client"])
  BY <1>4, DisposeVide
<1>7. Accord(1, 1, 1, tampon, transit)
  BY <1>5, <1>6 DEF Accord
<1> QED BY <1>1, <1>2, <1>3, <1>7 DEF FInv, Ensemble, Arret

LEMMA EtapeFInv ==
  ASSUME ~Coupures, FInv, [Next]_vars
  PROVE  FInv'
<1>1. CASE UNCHANGED vars
  <2>1. UNCHANGED <<pas, tour, transit, tampon, lu>>
    BY <1>1 DEF vars
  <2> QED BY <2>1 DEF FInv, TypeFlux, Ensemble, Lues, Arret, PosClient
<1>2. CASE Next
  <2>1. CASE \E b \in Bouts : envoyer_donnees(b) \/ Arriver(b) \/ recevoir_donnees(b)
    BY <2>1, EnvoyerFInv, ArriverFInv, RecevoirFInv
  <2>2. CASE Termine
    BY <1>1, <2>2 DEF Termine
  <2> QED BY <1>2, <2>1, <2>2 DEF Next
<1> QED BY <1>1, <1>2

\* The streams are empty when the server has left the last round.
LEMMA FinFInv ==
  ASSUME FInv
  PROVE  UniteExacte
<1> DEFINE p == pas["serveur"]
           q == PosClient
           t == tour["serveur"]
<1>1. TypeFlux /\ Lues /\ Accord(p, t, q, tampon, transit)
  BY DEF FInv, Ensemble
<1>2. Ecart(p, q) /\ q \in 1 .. 11
  BY <1>1 DEF Accord, Ecart
<1>3. tour["client"] - tour["serveur"] \in {0, 1}
  BY <1>1, <1>2, UniteClient
<1>4. ASSUME tour["serveur"] > MaxManches
      PROVE  tampon["client"] = <<>> /\ transit["client"] = <<>>
  <2>1. p = 1
    BY <1>4 DEF FInv, Arret
  <2>2. Distance(q, p) = 0
    BY <1>2, <2>1 DEF Distance
  <2>3. Dispose(q, t, 0, tampon["client"], transit["client"])
    BY <1>1, <2>2, Zenon DEF Accord
  <2> QED BY <2>3, DisposeVide
<1> QED BY <1>1, <1>3, <1>4 DEF UniteExacte, Lues

-----------------------------------------------------------------------------
(***************************************************************************)
(* The theorem.                                                            *)
(***************************************************************************)

\* serveur.c and client.c agree on the length and the order of everything they
\* exchange, so that joined deliveries never shift the bytes: each recv() takes
\* exactly the unit it is meant for, the client is never more than one round
\* ahead, and nothing is left when the server has played its last round; for
\* any size of an int, any number of shapes and any number of rounds, as long
\* as no send() arrives in parts.
THEOREM UniteExacteProuvee == ~Coupures => (Spec => []UniteExacte)
<1> SUFFICES ASSUME ~Coupures PROVE Spec => []UniteExacte
  OBVIOUS
<1>1. Init => FInv
  BY InitFInv
<1>2. FInv /\ [Next]_vars => FInv'
  BY EtapeFInv
<1>3. FInv => UniteExacte
  BY FinFInv
<1> QED BY <1>1, <1>2, <1>3, PTL DEF Spec

-----------------------------------------------------------------------------
(***************************************************************************)
(* The refinement: the units of a stream are those of its first bytes.     *)
(***************************************************************************)
LEMMA Rangs ==
  ASSUME NEW a \in Int, NEW b \in Int, NEW c \in Int, a < b, b < c
  PROVE  /\ Cardinality({}) = 0 /\ Cardinality({a}) = 1 /\ Cardinality({a, b}) = 2
         /\ Cardinality({a, b, c}) = 3
<1>1. IsFiniteSet({a}) /\ Cardinality({a}) = 1 /\ Cardinality({}) = 0
  BY FS_Singleton, FS_EmptySet
<1>2. {a, b} = {a} \cup {b} /\ b \notin {a}
  OBVIOUS
<1>3. IsFiniteSet({a, b}) /\ Cardinality({a, b}) = 2
  <2>1. /\ IsFiniteSet({a} \cup {b})
        /\ Cardinality({a} \cup {b})
             = IF b \in {a} THEN Cardinality({a}) ELSE Cardinality({a}) + 1
    BY <1>1, FS_AddElement, Zenon
  <2> QED BY <1>1, <1>2, <2>1
<1>4. {a, b, c} = {a, b} \cup {c} /\ c \notin {a, b}
  OBVIOUS
<1> QED BY <1>1, <1>3, <1>4, FS_AddElement

\* The units of a stream with none, one, two or three first bytes.
LEMMA ZeroDebut ==
  ASSUME NEW s, Debuts(s) = {}
  PROVE  UnitesDe(s) = <<>>
<1>1. Cardinality(Debuts(s)) = 0
  BY FS_EmptySet
<1> QED BY <1>1 DEF UnitesDe

LEMMA UnDebut ==
  ASSUME NEW s, NEW a \in Int, Debuts(s) = {a}
  PROVE  UnitesDe(s) = <<UniteEn(s, a)>>
<1>1. Cardinality(Debuts(s)) = 1
  BY FS_Singleton
<1>2. {j \in Debuts(s) : j < a} = {}
  OBVIOUS
<1>3. Cardinality({j \in Debuts(s) : j < a}) = 1 - 1
  BY <1>2, FS_EmptySet
<1>4. Debut(s, 1) = a
  BY <1>3, Zenon DEF Debut
<1> HIDE DEF Debut, Debuts, UniteEn
<1> QED BY <1>1, <1>4 DEF UnitesDe

LEMMA TroisDebuts ==
  ASSUME NEW s, NEW a \in Int, NEW b \in Int, NEW c \in Int, a < b, b < c,
         Debuts(s) \in {{a, b}, {a, b, c}}
  PROVE  /\ Debuts(s) = {a, b} => UnitesDe(s) = <<UniteEn(s, a), UniteEn(s, b)>>
         /\ Debuts(s) = {a, b, c}
              => UnitesDe(s) = <<UniteEn(s, a), UniteEn(s, b), UniteEn(s, c)>>
<1> DEFINE D == Debuts(s)
           Avant(i) == {j \in D : j < i}
<1>1. /\ Cardinality({}) = 0 /\ Cardinality({a}) = 1 /\ Cardinality({a, b}) = 2
      /\ Cardinality({a, b, c}) = 3
  BY Rangs
<1>2. Avant(a) = {} /\ Avant(b) = {a} /\ (D = {a, b, c} => Avant(c) = {a, b})
  BY DEF Debuts
<1>3. /\ Cardinality(Avant(a)) = 0 /\ Cardinality(Avant(b)) = 1
      /\ D = {a, b, c} => Cardinality(Avant(c)) = 2
  BY <1>1, <1>2
<1> HIDE DEF Avant
<1>4. \A n : Debut(s, n) = CHOOSE i \in D : Cardinality(Avant(i)) = n - 1
  BY Zenon DEF Debut, Avant
<1>5. Debut(s, 1) = a /\ Debut(s, 2) = b /\ (D = {a, b, c} => Debut(s, 3) = c)
  BY <1>3, <1>4
<1>6. UnitesDe(s) = [n \in 1 .. Cardinality(D) |-> UniteEn(s, Debut(s, n))]
  BY DEF UnitesDe
<1> HIDE DEF D
<1>7. CASE D = {a, b}
  <2>1. {a, b} # {a, b, c}
    OBVIOUS
  <2>2. UnitesDe(s) = [n \in 1 .. 2 |-> UniteEn(s, Debut(s, n))]
    BY <1>1, <1>6, <1>7
  <2>3. UnitesDe(s) = <<UniteEn(s, Debut(s, 1)), UniteEn(s, Debut(s, 2))>>
    BY <2>2
  <2> QED BY <1>5, <1>7, <2>1, <2>3, Zenon DEF D
<1>8. CASE D = {a, b, c}
  <2>1. {a, b} # {a, b, c}
    OBVIOUS
  <2>2. UnitesDe(s) = [n \in 1 .. 3 |-> UniteEn(s, Debut(s, n))]
    BY <1>1, <1>6, <1>8
  <2>3. UnitesDe(s) = <<UniteEn(s, Debut(s, 1)), UniteEn(s, Debut(s, 2)), UniteEn(s, Debut(s, 3))>>
    BY <2>2
  <2> QED BY <1>5, <1>8, <2>1, <2>3, Zenon DEF D
<1> QED BY <1>7, <1>8 DEF D

\* The first bytes of a unit that another stream follows.
LEMMA DebutsJoint ==
  ASSUME NEW m \in Seq(LesOctets), NEW s \in Seq(LesOctets), m # <<>>,
         \A r \in 1 .. Len(m) : m[r].rang = r
  PROVE  /\ Debuts(m) = {1}
         /\ Debuts(m \o s) = {1} \cup {Len(m) + i : i \in Debuts(s)}
         /\ UniteEn(m \o s, 1) = UniteEn(m, 1)
         /\ \A i \in Debuts(s) : UniteEn(m \o s, Len(m) + i) = UniteEn(s, i)
<1>1. /\ Len(m) \in Nat /\ Len(s) \in Nat /\ Len(m) >= 1
      /\ Len(m \o s) = Len(m) + Len(s)
      /\ \A i \in 1 .. Len(m) : (m \o s)[i] = m[i]
      /\ \A i \in 1 .. Len(s) : (m \o s)[Len(m) + i] = s[i]
  OBVIOUS
<1> DEFINE f == m \o s
           D == Debuts(s)
<1>2. D \subseteq 1 .. Len(s)
  BY DEF Debuts
<1>3. Debuts(m) = {1}
  BY <1>1 DEF Debuts
<1> HIDE DEF f
<1>4. ASSUME NEW i \in 1 .. Len(m) + Len(s), f[i].rang = 1
      PROVE  i \in {1} \cup {Len(m) + j : j \in D}
  <2>1. CASE i <= Len(m)
    BY <1>1, <1>4, <2>1 DEF f
  <2>2. CASE i > Len(m)
    <3>1. i - Len(m) \in 1 .. Len(s) /\ i = Len(m) + (i - Len(m))
      BY <1>1, <2>2
    <3>2. i - Len(m) \in D
      BY <1>1, <1>4, <3>1 DEF f, Debuts
    <3> QED BY <3>1, <3>2
  <2> QED BY <1>1, <2>1, <2>2
<1>5. ASSUME NEW j \in D
      PROVE  Len(m) + j \in 1 .. Len(m) + Len(s) /\ f[Len(m) + j] = s[j] /\ s[j].rang = 1
  BY <1>1, <1>2 DEF f, Debuts
<1>6. 1 \in 1 .. Len(m) + Len(s) /\ f[1] = m[1] /\ m[1].rang = 1
  BY <1>1 DEF f
<1>7. Debuts(f) = {i \in 1 .. Len(m) + Len(s) : f[i].rang = 1}
  BY <1>1 DEF Debuts, f
<1>8. Debuts(f) = {1} \cup {Len(m) + j : j \in D}
  <2> HIDE DEF D
  <2> QED BY <1>4, <1>5, <1>6, <1>7
<1>9. \A i \in D : UniteEn(f, Len(m) + i) = UniteEn(s, i)
  BY <1>5 DEF UniteEn
<1> QED BY <1>3, <1>6, <1>8, <1>9 DEF f, UniteEn

\* The unit at position p, and the d units from p on, three at most.
Unite(p, t) == UniteEn(Morceau(p, t), 1)
Liste(p, t, d) ==
  CASE d = 0 -> <<>>
    [] d = 1 -> <<Unite(p, t)>>
    [] d = 2 -> <<Unite(p, t), Unite(p + 1, t)>>
    [] OTHER -> <<Unite(p, t), Unite(p + 1, t), Unite(p + 2, t)>>

LEMMA MorceauUn ==
  ASSUME NEW p \in 1 .. 18, NEW t \in Int
  PROVE  /\ Morceau(p, t) \in Seq(LesOctets) /\ Morceau(p, t) # <<>>
         /\ Len(Morceau(p, t)) \in Nat \ {0}
         /\ \A r \in 1 .. Len(Morceau(p, t)) : Morceau(p, t)[r].rang = r
<1>1. /\ Morceau(p, t) \in Seq(LesOctets) /\ Len(Morceau(p, t)) \in Nat \ {0}
      /\ \A r \in 1 .. Len(Morceau(p, t)) : Morceau(p, t)[r].rang = r
  BY MorceauType
<1>2. Morceau(p, t) # <<>>
  BY <1>1
<1> QED BY <1>1, <1>2

\* The units of the streams that the connection carries.
LEMMA UnitesFlot ==
  ASSUME NEW p \in 1 .. 12, NEW t \in Int, NEW d \in 0 .. 3
  PROVE  UnitesDe(Flot(p, t, d)) = Liste(p, t, d)
<1> DEFINE a == Morceau(p, t)
           b == Morceau(p + 1, t)
           c == Morceau(p + 2, t)
<1>1. p \in 1 .. 18 /\ p + 1 \in 1 .. 18 /\ p + 2 \in 1 .. 18
  OBVIOUS
<1>2. /\ a \in Seq(LesOctets) /\ a # <<>> /\ \A r \in 1 .. Len(a) : a[r].rang = r
      /\ b \in Seq(LesOctets) /\ b # <<>> /\ \A r \in 1 .. Len(b) : b[r].rang = r
      /\ c \in Seq(LesOctets) /\ c # <<>> /\ \A r \in 1 .. Len(c) : c[r].rang = r
  BY <1>1, MorceauUn, Zenon
<1>3. /\ Unite(p, t) = UniteEn(a, 1) /\ Unite(p + 1, t) = UniteEn(b, 1)
      /\ Unite(p + 2, t) = UniteEn(c, 1)
  BY Zenon DEF Unite
<1>4. Len(a) \in Nat \ {0} /\ Len(b) \in Nat \ {0}
  BY <1>1, MorceauUn, Zenon
<1> HIDE DEF a, b, c
<1>5. CASE d = 0
  <2>1. Flot(p, t, d) = <<>> /\ Liste(p, t, d) = <<>>
    BY <1>5 DEF Flot, Liste
  <2>2. Debuts(<<>>) = {}
    BY DEF Debuts
  <2> QED BY <2>1, <2>2, ZeroDebut
<1>6. CASE d = 1
  <2>1. Flot(p, t, d) = a /\ Liste(p, t, d) = <<Unite(p, t)>>
    BY <1>6 DEF Flot, Liste, a
  <2>2. Debuts(a) = {1}
    BY <1>2, DebutsJoint, Zenon
  <2> QED BY <1>3, <2>1, <2>2, UnDebut
<1>7. CASE d = 2
  <2>1. Flot(p, t, d) = a \o b /\ Liste(p, t, d) = <<Unite(p, t), Unite(p + 1, t)>>
    BY <1>7 DEF Flot, Liste, a, b
  <2>2. Debuts(b) = {1}
    BY <1>2, DebutsJoint, Zenon
  <2>3. /\ Debuts(a \o b) = {1} \cup {Len(a) + i : i \in {1}}
        /\ UniteEn(a \o b, 1) = UniteEn(a, 1)
        /\ UniteEn(a \o b, Len(a) + 1) = UniteEn(b, 1)
    <3>1. /\ Debuts(a \o b) = {1} \cup {Len(a) + i : i \in Debuts(b)}
          /\ UniteEn(a \o b, 1) = UniteEn(a, 1)
          /\ \A i \in Debuts(b) : UniteEn(a \o b, Len(a) + i) = UniteEn(b, i)
      BY <1>2, DebutsJoint, Zenon
    <3>2. 1 \in Debuts(b)
      BY <2>2
    <3> QED BY <2>2, <3>1, <3>2
  <2>4. Debuts(a \o b) = {1, Len(a) + 1}
    BY <2>3
  <2>5. UnitesDe(a \o b) = <<UniteEn(a \o b, 1), UniteEn(a \o b, Len(a) + 1)>>
    <3>1. /\ 1 \in Int /\ Len(a) + 1 \in Int /\ Len(a) + 2 \in Int
          /\ 1 < Len(a) + 1 /\ Len(a) + 1 < Len(a) + 2
      BY <1>4
    <3> QED BY <2>4, <3>1, TroisDebuts
  <2> QED BY <1>3, <2>1, <2>3, <2>5, Zenon
<1>8. CASE d = 3
  <2>1. /\ Flot(p, t, d) = a \o (b \o c)
        /\ Liste(p, t, d) = <<Unite(p, t), Unite(p + 1, t), Unite(p + 2, t)>>
    BY <1>8 DEF Flot, Liste, a, b, c
  <2>2. Debuts(c) = {1}
    BY <1>2, DebutsJoint, Zenon
  <2>3. /\ Debuts(b \o c) = {1} \cup {Len(b) + i : i \in {1}}
        /\ UniteEn(b \o c, 1) = UniteEn(b, 1)
        /\ UniteEn(b \o c, Len(b) + 1) = UniteEn(c, 1)
    <3>1. /\ Debuts(b \o c) = {1} \cup {Len(b) + i : i \in Debuts(c)}
          /\ UniteEn(b \o c, 1) = UniteEn(b, 1)
          /\ \A i \in Debuts(c) : UniteEn(b \o c, Len(b) + i) = UniteEn(c, i)
      BY <1>2, DebutsJoint, Zenon
    <3>2. 1 \in Debuts(c)
      BY <2>2
    <3> QED BY <2>2, <3>1, <3>2
  <2>4. Debuts(b \o c) = {1, Len(b) + 1}
    BY <2>3
  <2>5. b \o c \in Seq(LesOctets)
    BY <1>2
  <2> DEFINE f == a \o (b \o c)
  <2>6. /\ Debuts(f) = {1} \cup {Len(a) + i : i \in {1, Len(b) + 1}}
        /\ UniteEn(f, 1) = UniteEn(a, 1)
        /\ UniteEn(f, Len(a) + 1) = UniteEn(b, 1)
        /\ UniteEn(f, Len(a) + (Len(b) + 1)) = UniteEn(c, 1)
    <3> DEFINE g == b \o c
    <3>1. g \in Seq(LesOctets) /\ f = a \o g /\ Debuts(g) = {1, Len(b) + 1}
      BY <2>4, <2>5, Zenon
    <3>2. UniteEn(g, 1) = UniteEn(b, 1) /\ UniteEn(g, Len(b) + 1) = UniteEn(c, 1)
      BY <2>3, Zenon
    <3> HIDE DEF g, f
    <3>3. /\ Debuts(a \o g) = {1} \cup {Len(a) + i : i \in Debuts(g)}
          /\ UniteEn(a \o g, 1) = UniteEn(a, 1)
          /\ \A i \in Debuts(g) : UniteEn(a \o g, Len(a) + i) = UniteEn(g, i)
      BY <1>2, <3>1, DebutsJoint, Zenon
    <3>4. 1 \in Debuts(g) /\ Len(b) + 1 \in Debuts(g)
      BY <3>1
    <3>5. /\ UniteEn(f, Len(a) + 1) = UniteEn(g, 1)
          /\ UniteEn(f, Len(a) + (Len(b) + 1)) = UniteEn(g, Len(b) + 1)
      BY <3>1, <3>3, <3>4, Zenon
    <3>6. Debuts(f) = {1} \cup {Len(a) + i : i \in {1, Len(b) + 1}}
      BY <3>1, <3>3
    <3> QED BY <3>1, <3>2, <3>3, <3>5, <3>6, Zenon
  <2> HIDE DEF f
  <2>7. Debuts(f) = {1, Len(a) + 1, Len(a) + (Len(b) + 1)}
    BY <2>6
  <2>8. UnitesDe(f) = <<UniteEn(f, 1), UniteEn(f, Len(a) + 1), UniteEn(f, Len(a) + (Len(b) + 1))>>
    <3>1. /\ 1 \in Int /\ Len(a) + 1 \in Int /\ Len(a) + (Len(b) + 1) \in Int
          /\ 1 < Len(a) + 1 /\ Len(a) + 1 < Len(a) + (Len(b) + 1)
      BY <1>4
    <3> QED BY <2>7, <3>1, TroisDebuts
  <2> QED BY <1>3, <2>1, <2>6, <2>8, Zenon DEF f
<1> QED BY <1>5, <1>6, <1>7, <1>8

\* A list of units grows at its end and is read at its beginning.
LEMMA ListeSuite ==
  ASSUME NEW p \in 1 .. 12, NEW t \in Int
  PROVE  /\ \A d \in 0 .. 2 : Liste(p, t, d + 1) = Append(Liste(p, t, d), Unite(p + d, t))
         /\ \A d \in 1 .. 3 : /\ Liste(p, t, d) # <<>> /\ Head(Liste(p, t, d)) = Unite(p, t)
                              /\ Tail(Liste(p, t, d)) = Liste(p + 1, t, d - 1)
<1> DEFINE a == Unite(p, t)
           b == Unite(p + 1, t)
           c == Unite(p + 2, t)
<1>1. /\ Liste(p, t, 0) = <<>> /\ Liste(p, t, 1) = <<a>> /\ Liste(p, t, 2) = <<a, b>>
      /\ Liste(p, t, 3) = <<a, b, c>>
  BY DEF Liste
<1>2. p + 1 + 1 = p + 2 /\ p + 0 = p
  OBVIOUS
<1>3. /\ Liste(p + 1, t, 0) = <<>> /\ Liste(p + 1, t, 1) = <<b>> /\ Liste(p + 1, t, 2) = <<b, c>>
  BY <1>2 DEF Liste
<1>4. Unite(p + 0, t) = a
  BY <1>2
<1> HIDE DEF a, b, c
<1>5. /\ <<a>> = Append(<<>>, a) /\ <<a, b>> = Append(<<a>>, b) /\ <<a, b, c>> = Append(<<a, b>>, c)
      /\ <<a>> # <<>> /\ <<a, b>> # <<>> /\ <<a, b, c>> # <<>>
      /\ Head(<<a>>) = a /\ Head(<<a, b>>) = a /\ Head(<<a, b, c>>) = a
      /\ Tail(<<a>>) = <<>> /\ Tail(<<a, b>>) = <<b>> /\ Tail(<<a, b, c>>) = <<b, c>>
  OBVIOUS
<1>6. ASSUME NEW d \in 0 .. 2
      PROVE  Liste(p, t, d + 1) = Append(Liste(p, t, d), Unite(p + d, t))
  <2>1. (d = 0 /\ d + 1 = 1) \/ (d = 1 /\ d + 1 = 2) \/ (d = 2 /\ d + 1 = 3)
    OBVIOUS
  <2> QED BY <1>1, <1>4, <1>5, <2>1, Zenon DEF a, b, c
<1>7. ASSUME NEW d \in 1 .. 3
      PROVE  /\ Liste(p, t, d) # <<>> /\ Head(Liste(p, t, d)) = Unite(p, t)
             /\ Tail(Liste(p, t, d)) = Liste(p + 1, t, d - 1)
  <2>1. (d = 1 /\ d - 1 = 0) \/ (d = 2 /\ d - 1 = 1) \/ (d = 3 /\ d - 1 = 2)
    OBVIOUS
  <2> QED BY <1>1, <1>3, <1>5, <2>1, Zenon DEF a
<1> QED BY <1>6, <1>7

\* The mapping, by name.
FileDe == [b \in Bouts |-> UnitesDe(tampon[b] \o transit[b])]
LuDe == [b \in Bouts |-> IF lu[b].octets = <<>> THEN <<>>
                         ELSE IF Entiere(lu[b].octets)
                         THEN <<lu[b].octets[1].unite, lu[b].octets[1].tour>>
                         ELSE <<"morceau">>]

\* The position of an end, counted from the round of the server, and the number
\* of units that are on their way to it.
Place(b) == IF b = "serveur" THEN pas["serveur"] ELSE PosClient
Reste(b) == Distance(Place(b), Place(Autre(b)))

LEMMA DisposeListe ==
  ASSUME NEW p \in 1 .. 11, NEW t \in Int, NEW d \in 0 .. 3, p + d <= 12,
         NEW lisible, NEW route, Dispose(p, t, d, lisible, route)
  PROVE  UnitesDe(lisible \o route) = Liste(p, t, d)
<1>1. PICK e \in 0 .. d : lisible = Flot(p, t, e) /\ route = Flot(p + e, t, d - e)
  BY DEF Dispose
<1> DEFINE g == d - e
<1>2. e \in 0 .. 3 /\ g \in 0 .. 3 /\ e + g <= 3 /\ p + e + g <= 12 /\ e + g = d /\ p \in 1 .. 12
  OBVIOUS
<1>3. route = Flot(p + e, t, g)
  BY <1>1
<1> HIDE DEF g
<1>4. Flot(p, t, e) \o Flot(p + e, t, g) = Flot(p, t, e + g)
  BY <1>2, FlotJoint, Zenon
<1>5. lisible \o route = Flot(p, t, d)
  BY <1>1, <1>2, <1>3, <1>4, Zenon
<1> QED BY <1>2, <1>5, UnitesFlot, Zenon

LEMMA LesPlaces ==
  ASSUME FInv, NEW b \in Bouts
  PROVE  /\ Place(b) \in 1 .. 11 /\ tour["serveur"] \in Int /\ Reste(b) \in 0 .. 3
         /\ Place(b) + Reste(b) <= 12
         /\ Dispose(Place(b), tour["serveur"], Reste(b), tampon[b], transit[b])
         /\ FileDe[b] = Liste(Place(b), tour["serveur"], Reste(b))
         /\ Morc(b) = Morceau(Place(b), tour["serveur"])
<1> DEFINE p == pas["serveur"]
           q == PosClient
           t == tour["serveur"]
<1>1. Accord(p, t, q, tampon, transit) /\ t \in Int
  BY DEF FInv, Ensemble, TypeFlux, Bouts
<1> HIDE DEF p, q, t
<1>2. /\ p \in 1 .. 11 /\ q \in 1 .. 11
      /\ Distance(p, q) \in 0 .. 3 /\ Distance(q, p) \in 0 .. 3
      /\ p + Distance(p, q) <= 12 /\ q + Distance(q, p) <= 12
  BY <1>1, Ecarts DEF Accord
<1>3. /\ Dispose(p, t, Distance(p, q), tampon["serveur"], transit["serveur"])
      /\ Dispose(q, t, Distance(q, p), tampon["client"], transit["client"])
  BY <1>1, Zenon DEF Accord
<1>4. \/ b = "serveur" /\ Place(b) = p /\ Reste(b) = Distance(p, q)
      \/ b = "client" /\ Place(b) = q /\ Reste(b) = Distance(q, p)
  BY DEF Bouts, Place, Reste, Autre, p, q
<1>5. /\ Place(b) \in 1 .. 11 /\ Reste(b) \in 0 .. 3 /\ Place(b) + Reste(b) <= 12
      /\ Dispose(Place(b), t, Reste(b), tampon[b], transit[b])
  BY <1>2, <1>3, <1>4, Zenon
<1>6. UnitesDe(tampon[b] \o transit[b]) = Liste(Place(b), t, Reste(b))
  BY <1>1, <1>5, DisposeListe
<1>7. FileDe[b] = UnitesDe(tampon[b] \o transit[b])
  BY Zenon DEF FileDe
<1>8. Morc(b) = Morceau(Place(b), t)
  BY <1>4 DEF Morc, p, q, t
<1> QED BY <1>1, <1>5, <1>6, <1>7, <1>8, Zenon DEF t

\* The unit that an end sends or receives, in the channel.
LEMMA UniteDuCanal ==
  ASSUME FInv, NEW b \in Bouts
  PROVE  /\ Unite(Place(b), tour["serveur"]) = <<Courant(b).unite, tour[b]>>
         /\ Unite(Place(b), tour["serveur"]) = <<Morc(b)[1].unite, Morc(b)[1].tour>>
         /\ Courant(b).unite \in Noms
<1> DEFINE u == Courant(b).unite
           n == Courant(b).longueur
<1>1. /\ Octets(u, tour[b], n) = Morc(b) /\ Len(Morc(b)) = n /\ Len(Morc(b)) \in Nat \ {0}
  BY UniteCourante
<1>2. Octets(u, tour[b], n)[1] = Octet(u, tour[b], 1, n)
  BY <1>1 DEF Octets
<1>3. Morc(b)[1].unite = u /\ Morc(b)[1].tour = tour[b]
  BY <1>1, <1>2 DEF Octet
<1>4. Morc(b) = Morceau(Place(b), tour["serveur"])
  BY LesPlaces
<1>5. Unite(Place(b), tour["serveur"]) = <<Morc(b)[1].unite, Morc(b)[1].tour>>
  BY <1>4, Zenon DEF Unite, UniteEn
<1>6. u \in Noms
  <2>1. \A i \in 1 .. 9 : Nom[i] \in Noms
    BY DEF Nom, Noms
  <2> QED BY <2>1, AppelCourant, Zenon DEF FInv
<1> QED BY <1>3, <1>5, <1>6, Zenon

\* A send() puts its unit at the end of the queue of the other end ...
LEMMA EnvoyerCanal ==
  ASSUME FInv, NEW b \in Bouts, envoyer_donnees(b)
  PROVE  C!Envoyer(Autre(b))
<1> DEFINE o == Autre(b)
           t == tour["serveur"]
           p == Place(o)
           d == Reste(o)
<1>1. o \in Bouts /\ o # b /\ Autre(o) = b /\ \A c \in Bouts : c = b \/ c = o
  BY DEF Autre, Bouts
<1>2. /\ p \in 1 .. 11 /\ t \in Int /\ d \in 0 .. 3 /\ FileDe[o] = Liste(p, t, d)
      /\ Dispose(p, t, d, tampon[o], transit[o])
  BY <1>1, LesPlaces
<1>3. /\ Octets(Courant(b).unite, tour[b], Courant(b).longueur) = Morceau(Place(b), t)
  BY LesPlaces, UniteCourante, Zenon
<1>4. /\ transit' = [transit EXCEPT ![o] = transit[o] \o Morceau(Place(b), t)]
      /\ tampon' = tampon /\ lu' = lu /\ tour[b] <= MaxManches
  BY <1>3 DEF envoyer_donnees
<1>5. d \in 0 .. 2 /\ p + d <= 11 /\ p + d = Place(b) /\ d + 1 \in 0 .. 3
  <2>1. Ecart(pas["serveur"], PosClient) /\ pas["serveur"] \in 1 .. 9 /\ TypeFlux
    BY DEF FInv, Ensemble, Accord, TypeFlux, Bouts
  <2>2. Sens(b, pas[b]) = "send"
    BY <2>1, AppelCourant DEF envoyer_donnees
  <2>3. CASE b = "client"
    <3>1. PosClient \in ParClient /\ PosClient \in 1 .. 10
      <4>1. pas["client"] \in DuClient
        BY <2>2, <2>3 DEF Sens
      <4>2. PosClient \in 1 .. 11
        BY <2>1 DEF Ecart
      <4>3. PosClient \in ParClient
        BY <2>1, <4>1, <4>2, UniteClient
      <4> QED BY <4>3 DEF ParClient, DuClient
    <3>2. pas["serveur"] <= PosClient /\ Ecart(pas["serveur"], PosClient + 1)
      BY <2>1, <3>1, Ecarts
    <3>3. Distance(pas["serveur"], PosClient + 1) \in 0 .. 3
      BY <3>2, Ecarts
    <3>4. p = pas["serveur"] /\ d = PosClient - p /\ Place(b) = PosClient
      BY <2>1, <2>3, <3>1, <3>2 DEF Place, Reste, Autre, Distance
    <3> QED BY <2>1, <3>1, <3>2, <3>3, <3>4 DEF Distance
  <2>4. CASE b = "serveur"
    <3>1. pas["serveur"] \in DuServeur
      BY <2>2, <2>4 DEF Sens
    <3>2. PosClient <= pas["serveur"] /\ Ecart(pas["serveur"] + 1, PosClient) /\ PosClient \in 1 .. 11
      BY <2>1, <3>1, Ecarts
    <3>3. Distance(PosClient, pas["serveur"] + 1) \in 0 .. 3
      BY <3>2, Ecarts
    <3>4. p = PosClient /\ d = pas["serveur"] - p /\ Place(b) = pas["serveur"]
      BY <2>1, <2>4, <3>2 DEF Place, Reste, Autre, Distance
    <3> QED BY <2>1, <3>2, <3>3, <3>4 DEF Distance
  <2> QED BY <2>3, <2>4 DEF Bouts
<1> DEFINE v == Unite(Place(b), t)
<1>6. v \in Noms \X (1 .. MaxManches)
  <2>1. v = <<Courant(b).unite, tour[b]>> /\ Courant(b).unite \in Noms
    BY UniteDuCanal
  <2>2. tour[b] \in 1 .. MaxManches
    BY <1>4, FluxAssumption DEF FInv, TypeFlux
  <2> QED BY <2>1, <2>2
<1>7. /\ transit'[o] = transit[o] \o Morceau(Place(b), t) /\ transit'[b] = transit[b]
  BY <1>1, <1>4 DEF FInv, TypeFlux
<1> HIDE DEF o, t, p, d, v
<1>8. Dispose(p, t, d + 1, tampon[o], transit[o] \o Morceau(p + d, t))
  BY <1>2, <1>5, DisposeEnvoie, Zenon
<1>9. UnitesDe(tampon'[o] \o transit'[o]) = Liste(p, t, d + 1)
  <2>1. p + (d + 1) <= 12
    BY <1>2, <1>5
  <2>2. UnitesDe(tampon[o] \o (transit[o] \o Morceau(p + d, t))) = Liste(p, t, d + 1)
    BY <1>2, <1>5, <1>8, <2>1, DisposeListe
  <2> QED BY <1>4, <1>5, <1>7, <2>2, Zenon
<1>10. UnitesDe(tampon'[o] \o transit'[o]) = Append(FileDe[o], v)
  <2>1. p \in 1 .. 12
    BY <1>2
  <2>2. Liste(p, t, d + 1) = Append(Liste(p, t, d), Unite(p + d, t))
    BY <1>2, <1>5, <2>1, ListeSuite, Zenon
  <2> QED BY <1>2, <1>5, <1>9, <2>2, Zenon DEF v
<1>11. UnitesDe(tampon'[b] \o transit'[b]) = FileDe[b]
  <2>1. FileDe[b] = UnitesDe(tampon[b] \o transit[b])
    BY Zenon DEF FileDe
  <2> QED BY <1>4, <1>7, <2>1, Zenon
<1>12. FileDe' = [FileDe EXCEPT ![o] = Append(FileDe[o], v)]
  <2>1. FileDe' = [c \in Bouts |-> UnitesDe(tampon'[c] \o transit'[c])]
    BY Zenon DEF FileDe
  <2>2. FileDe = [c \in Bouts |-> FileDe[c]]
    BY Zenon DEF FileDe
  <2> HIDE DEF FileDe
  <2>3. FileDe' = [c \in Bouts |-> IF c = o THEN Append(FileDe[o], v) ELSE FileDe[c]]
    <3>1. \A c \in Bouts : UnitesDe(tampon'[c] \o transit'[c])
                             = IF c = o THEN Append(FileDe[o], v) ELSE FileDe[c]
      BY <1>1, <1>10, <1>11, Zenon
    <3> QED BY <2>1, <3>1, Zenon
  <2> QED BY <1>1, <2>2, <2>3
<1>13. LuDe' = LuDe
  BY <1>4 DEF LuDe
<1> QED BY <1>6, <1>12, <1>13 DEF C!Envoyer, FileDe, LuDe, o

\* ... a recv() takes the first unit of its own ...
LEMMA RecevoirCanal ==
  ASSUME FInv, NEW b \in Bouts, recevoir_donnees(b)
  PROVE  C!Recevoir(b)
<1> DEFINE t == tour["serveur"]
           p == Place(b)
           d == Reste(b)
           m == Morc(b)
           l == tampon[b]
           k == IF Len(l) < Courant(b).longueur THEN Len(l) ELSE Courant(b).longueur
<1>1. /\ p \in 1 .. 11 /\ t \in Int /\ d \in 0 .. 3 /\ p + d <= 12
      /\ Dispose(p, t, d, l, transit[b]) /\ FileDe[b] = Liste(p, t, d) /\ m = Morceau(p, t)
  BY LesPlaces
<1>2. /\ Len(m) = Courant(b).longueur /\ Len(m) \in Nat \ {0} /\ Entiere(m) /\ m # <<>>
  BY UniteCourante
<1>3. Unite(p, t) = <<m[1].unite, m[1].tour>>
  BY UniteDuCanal
<1>4. /\ transit' = transit /\ k > 0
      /\ lu' = [lu EXCEPT ![b] = [unite |-> Courant(b).unite, octets |-> SubSeq(l, 1, k)]]
      /\ tampon' = [tampon EXCEPT ![b] = SubSeq(l, k + 1, Len(l))]
  BY DEF recevoir_donnees
<1>5. TypeFlux /\ l \in Seq(LesOctets)
  BY DEF FInv, TypeFlux
<1>6. l # <<>> /\ Len(l) \in Nat
  BY <1>2, <1>4, <1>5
<1> HIDE DEF t, p, d, m, l, k
<1>7. /\ d # 0 /\ Len(m) <= Len(l) /\ SubSeq(l, 1, Len(m)) = m
      /\ Dispose(p + 1, t, d - 1, SubSeq(l, Len(m) + 1, Len(l)), transit[b])
  BY <1>1, <1>6, DisposeLit, Zenon
<1>8. k = Len(m)
  BY <1>2, <1>6, <1>7 DEF k
<1> DEFINE r == SubSeq(l, Len(m) + 1, Len(l))
<1>9. /\ tampon' = [tampon EXCEPT ![b] = r]
      /\ lu' = [lu EXCEPT ![b] = [unite |-> Courant(b).unite, octets |-> m]]
  BY <1>4, <1>7, <1>8, Zenon
<1> HIDE DEF r
<1>10. /\ tampon'[b] = r /\ lu'[b].octets = m
       /\ \A c \in Bouts : c # b => tampon'[c] = tampon[c] /\ lu'[c] = lu[c]
  BY <1>5, <1>9 DEF TypeFlux
<1>11. /\ Liste(p, t, d) # <<>> /\ Head(Liste(p, t, d)) = Unite(p, t)
       /\ Tail(Liste(p, t, d)) = Liste(p + 1, t, d - 1)
  <2>1. p \in 1 .. 12 /\ d \in 1 .. 3
    BY <1>1, <1>7
  <2> QED BY <1>1, <2>1, ListeSuite, Zenon
<1>12. UnitesDe(r \o transit[b]) = Liste(p + 1, t, d - 1)
  <2>1. p + 1 \in 1 .. 12 /\ d - 1 \in 0 .. 3 /\ p + 1 + (d - 1) <= 12
    BY <1>1, <1>7
  <2>2. CASE p = 11
    <3>1. d - 1 = 0
      BY <1>1, <1>7, <2>2
    <3>2. r = <<>> /\ transit[b] = <<>>
      <4>1. Dispose(p + 1, t, 0, r, transit[b])
        BY <1>7, <3>1, Zenon DEF r
      <4> QED BY <4>1, DisposeVide
    <3>3. Liste(p + 1, t, d - 1) = <<>>
      BY <3>1 DEF Liste
    <3>4. Debuts(<<>> \o <<>>) = {}
      BY DEF Debuts
    <3> QED BY <3>2, <3>3, <3>4, ZeroDebut, Zenon
  <2>3. CASE p # 11
    <3>1. p + 1 \in 1 .. 11
      BY <1>1, <2>3
    <3> DEFINE a == p + 1
               g == d - 1
    <3>2. a \in 1 .. 11 /\ g \in 0 .. 3 /\ a + g <= 12
      BY <2>1, <3>1
    <3>3. Dispose(a, t, g, r, transit[b])
      BY <1>7, Zenon DEF r
    <3> HIDE DEF a, g
    <3>4. UnitesDe(r \o transit[b]) = Liste(a, t, g)
      BY <1>1, <3>2, <3>3, DisposeListe
    <3> QED BY <3>4, Zenon DEF a, g
  <2> QED BY <2>2, <2>3
<1>13. FileDe' = [FileDe EXCEPT ![b] = Tail(FileDe[b])]
  <2>1. FileDe' = [c \in Bouts |-> UnitesDe(tampon'[c] \o transit'[c])]
    BY Zenon DEF FileDe
  <2>2. FileDe = [c \in Bouts |-> FileDe[c]]
    BY Zenon DEF FileDe
  <2>3. \A c \in Bouts : FileDe[c] = UnitesDe(tampon[c] \o transit[c])
    BY Zenon DEF FileDe
  <2>4. \A c \in Bouts : UnitesDe(tampon'[c] \o transit'[c])
                           = IF c = b THEN Tail(FileDe[b]) ELSE FileDe[c]
    BY <1>1, <1>4, <1>10, <1>11, <1>12, <2>3, Zenon
  <2>5. FileDe' = [c \in Bouts |-> IF c = b THEN Tail(FileDe[b]) ELSE FileDe[c]]
    BY <2>1, <2>4, Zenon
  <2> HIDE DEF FileDe
  <2> QED BY <2>2, <2>5
<1>14. LuDe' = [LuDe EXCEPT ![b] = Head(FileDe[b])]
  <2> DEFINE Vu(x) == IF x.octets = <<>> THEN <<>>
                      ELSE IF Entiere(x.octets)
                      THEN <<x.octets[1].unite, x.octets[1].tour>>
                      ELSE <<"morceau">>
  <2>1. LuDe = [c \in Bouts |-> Vu(lu[c])] /\ LuDe' = [c \in Bouts |-> Vu(lu'[c])]
    BY Zenon DEF LuDe
  <2>2. Vu(lu'[b]) = Head(FileDe[b])
    BY <1>1, <1>2, <1>3, <1>10, <1>11, Zenon
  <2> HIDE DEF Vu
  <2>3. \A c \in Bouts : Vu(lu'[c]) = IF c = b THEN Head(FileDe[b]) ELSE Vu(lu[c])
    BY <1>10, <2>2, Zenon
  <2>4. LuDe' = [c \in Bouts |-> IF c = b THEN Head(FileDe[b]) ELSE Vu(lu[c])]
    BY <2>1, <2>3, Zenon
  <2>5. \A c \in Bouts : LuDe[c] = Vu(lu[c])
    BY <2>1, Zenon
  <2> HIDE DEF LuDe, FileDe
  <2> QED BY <2>1, <2>4, <2>5
<1>15. FileDe[b] # <<>>
  BY <1>1, <1>11, Zenon
<1> QED BY <1>13, <1>14, <1>15 DEF C!Recevoir, FileDe, LuDe

\* ... and an arrival moves the boundary between what can be read and what
\* cannot, which the channel does not have.
LEMMA ArriverCanal ==
  ASSUME FInv, NEW b \in Bouts, Arriver(b)
  PROVE  FileDe' = FileDe /\ LuDe' = LuDe
<1>1. PICK n \in 1 .. Len(transit[b]) :
        /\ tampon' = [tampon EXCEPT ![b] = @ \o SubSeq(transit[b], 1, n)]
        /\ transit' = [transit EXCEPT ![b] = SubSeq(@, n + 1, Len(@))]
  BY DEF Arriver
<1> DEFINE x == tampon[b]
           y == transit[b]
<1>2. TypeFlux /\ x \in Seq(LesOctets) /\ y \in Seq(LesOctets)
  BY DEF FInv, TypeFlux
<1>3. /\ tampon'[b] = x \o SubSeq(y, 1, n) /\ transit'[b] = SubSeq(y, n + 1, Len(y))
      /\ \A c \in Bouts : c # b => tampon'[c] = tampon[c] /\ transit'[c] = transit[c]
  BY <1>1, <1>2 DEF TypeFlux
<1>4. n \in 1 .. Len(y)
  OBVIOUS
<1> HIDE DEF x, y
<1>5. (x \o SubSeq(y, 1, n)) \o SubSeq(y, n + 1, Len(y)) = x \o y
  <2> DEFINE g == SubSeq(y, 1, n)
             h == SubSeq(y, n + 1, Len(y))
  <2>1. g \in Seq(LesOctets) /\ h \in Seq(LesOctets)
    BY <1>2, <1>4
  <2>2. g \o h = y
    BY <1>2, <1>4
  <2> HIDE DEF g, h
  <2>3. (x \o g) \o h = x \o (g \o h)
    BY <1>2, <2>1, SMT
  <2> QED BY <2>2, <2>3, Zenon DEF g, h
<1>6. \A c \in Bouts : tampon'[c] \o transit'[c] = tampon[c] \o transit[c]
  BY <1>3, <1>5, Zenon DEF x, y
<1>7. FileDe' = FileDe
  BY <1>6, Zenon DEF FileDe
<1>8. lu' = lu
  BY DEF Arriver
<1> QED BY <1>7, <1>8 DEF LuDe

LEMMA InitCanal == Init => C!Init
<1> SUFFICES ASSUME Init PROVE C!Init
  OBVIOUS
<1>1. \A b \in Bouts : tampon[b] = <<>> /\ transit[b] = <<>> /\ lu[b].octets = <<>>
  BY DEF Init
<1>2. Debuts(<<>> \o <<>>) = {}
  BY DEF Debuts
<1>3. UnitesDe(<<>> \o <<>>) = <<>>
  BY <1>2, ZeroDebut
<1>4. FileDe = [b \in Bouts |-> <<>>]
  BY <1>1, <1>3, Zenon DEF FileDe
<1>5. LuDe = [b \in Bouts |-> <<>>]
  BY <1>1, Zenon DEF LuDe
<1> QED BY <1>4, <1>5 DEF C!Init, C!Rien, FileDe, LuDe

\* The step of the channel.
EtapeCanal == \E b \in Bouts : C!Envoyer(b) \/ C!Recevoir(b)

LEMMA EtapeDuCanal ==
  ASSUME FInv, [Next]_vars
  PROVE  [EtapeCanal]_<<FileDe, LuDe>>
<1>1. CASE UNCHANGED vars
  <2>1. tampon' = tampon /\ transit' = transit /\ lu' = lu
    BY <1>1 DEF vars
  <2> QED BY <2>1 DEF FileDe, LuDe
<1>2. ASSUME NEW b \in Bouts, envoyer_donnees(b)
      PROVE  EtapeCanal
  <2>1. Autre(b) \in Bouts
    BY DEF Autre, Bouts
  <2> QED BY <1>2, <2>1, EnvoyerCanal DEF EtapeCanal
<1>3. ASSUME NEW b \in Bouts, recevoir_donnees(b)
      PROVE  EtapeCanal
  BY <1>3, RecevoirCanal DEF EtapeCanal
<1>4. ASSUME NEW b \in Bouts, Arriver(b)
      PROVE  UNCHANGED <<FileDe, LuDe>>
  BY <1>4, ArriverCanal
<1>5. CASE Next
  BY <1>1, <1>2, <1>3, <1>4, <1>5 DEF Next, Termine
<1> QED BY <1>1, <1>5

\* The bytes of lib/jeu.c:18-26 implement the queue of units that the rest of
\* the project uses: although sends are joined on their way and a recv() takes
\* what there is, every send() adds its unit, every recv() takes the first one,
\* whole, and an arrival changes nothing, as long as no send() arrives in parts;
\* for any size of an int, any number of shapes and any number of rounds.
THEOREM CanalProuve == ~Coupures => (Spec => ImplementeCanal)
<1> SUFFICES ASSUME ~Coupures PROVE Spec => ImplementeCanal
  OBVIOUS
<1>1. Init => FInv
  BY InitFInv
<1>2. FInv /\ [Next]_vars => FInv'
  BY EtapeFInv
<1>3. Init => C!Init
  BY InitCanal
<1>4. FInv /\ [Next]_vars => [EtapeCanal]_<<FileDe, LuDe>>
  BY EtapeDuCanal
<1> QED BY <1>1, <1>2, <1>3, <1>4, PTL
        DEF Spec, ImplementeCanal, C!Spec, EtapeCanal, FileDe, LuDe
=============================================================================
