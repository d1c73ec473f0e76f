-------------------------- MODULE MatriceBtnPreuves --------------------------
(***************************************************************************)
(* Proofs about the driver of the button matrix (MatriceBtn): what a scan  *)
(* finds and how long a wait lasts, for a matrix of any size, for all      *)
(* timeouts, and for a player who presses and releases whatever he wants   *)
(* between any two readings.                                               *)
(***************************************************************************)
EXTENDS MatriceBtn, TLAPS

-----------------------------------------------------------------------------
(***************************************************************************)
(* The numbers of the buttons.                                             *)
(***************************************************************************)

LEMMA CoteNaturel == Cote \in Nat /\ Cote >= 1
BY MatriceAssumption

\* Division by the side of the matrix undoes l * Cote + r.
LEMMA Division ==
  ASSUME NEW l \in Nat, NEW r \in Nat, NEW c \in Nat \ {0}, r < c
  PROVE  /\ (l * c + r) \div c = l
         /\ (l * c + r) % c = r
<1>1. ASSUME NEW n \in Nat
      PROVE  /\ n \div c \in Nat /\ n % c \in 0 .. c - 1
             /\ n = c * (n \div c) + (n % c)
  OBVIOUS
<1>2. ASSUME NEW a \in Nat, NEW b \in Nat, NEW x \in 0 .. c - 1, NEW y \in 0 .. c - 1,
             c * a + x = c * b + y, a >= b + 1
      PROVE  FALSE
  <2>1. PICK k \in Nat : a = b + 1 + k
    <3>1. a - (b + 1) \in Nat /\ a = b + 1 + (a - (b + 1))
      BY <1>2
    <3> QED
      BY <3>1
  <2>2. c * k \in Nat /\ c * a = c * b + c + c * k
    BY <2>1
  <2>3. c * b \in Nat
    OBVIOUS
  <2> QED
    BY <1>2, <2>2, <2>3
<1>3. ASSUME NEW n \in Nat, n = l * c + r
      PROVE  n \div c = l /\ n % c = r
  <2>1. /\ n \div c \in Nat /\ n % c \in 0 .. c - 1
        /\ c * (n \div c) + (n % c) = c * l + r
    BY <1>1, <1>3
  <2>2. ~(n \div c >= l + 1) /\ ~(l >= n \div c + 1)
    BY <1>2, <2>1
  <2>3. n \div c = l
    BY <2>1, <2>2
  <2> QED
    BY <2>1, <2>3
<1>4. l * c + r \in Nat
  OBVIOUS
<1> QED
  BY <1>3, <1>4

\* The number that the scan gives to the cell of row l and pin COLn is one of
\* 1 .. Cote * Cote, and matrice_btn_obtenir_position finds that cell again
\* (my_matrice_btn.c:65-68, 86-97).
LEMMA NumeroPosition ==
  ASSUME NEW l \in Lignes, NEW n \in 1 .. Cote
  PROVE  /\ Numero(l, n) \in 1 .. Cote * Cote
         /\ Position(Numero(l, n)) = <<l, ColonneDe(n)>>
<1> DEFINE r == Cote - n
<1>1. l \in Nat /\ l <= Cote - 1 /\ r \in Nat /\ r < Cote
  BY CoteNaturel DEF Lignes
<1>2. Numero(l, n) = l * Cote + r + 1 /\ l * Cote \in Nat
  BY <1>1, CoteNaturel DEF Numero
<1>3. l * Cote + Cote <= Cote * Cote
  <2>1. PICK k \in Nat : Cote = l + 1 + k
    <3>1. Cote - (l + 1) \in Nat /\ Cote = l + 1 + (Cote - (l + 1))
      BY <1>1, CoteNaturel
    <3> QED
      BY <3>1
  <2>2. k * Cote \in Nat /\ (l + 1 + k) * Cote = l * Cote + Cote + k * Cote
    BY <1>1, CoteNaturel
  <2> QED
    BY <1>2, <2>1, <2>2, CoteNaturel
<1>4. Numero(l, n) \in 1 .. Cote * Cote
  BY <1>1, <1>2, <1>3, CoteNaturel
<1>5. /\ (Numero(l, n) - 1) \div Cote = l
      /\ (Numero(l, n) - 1) % Cote = r
  <2>1. Numero(l, n) - 1 = l * Cote + r
    BY <1>1, <1>2
  <2> QED
    BY <1>1, <2>1, Division, MatriceAssumption
<1>6. ~(Numero(l, n) <= 0 \/ Numero(l, n) > Cote * Cote)
  BY <1>4, CoteNaturel
<1> QED
  BY <1>4, <1>5, <1>6 DEF Position, ColonneDe

-----------------------------------------------------------------------------
(***************************************************************************)
(* The inductive invariant.                                                *)
(***************************************************************************)
EnScan == pcB \in {"ligne", "colonne"}
EnAppel == pcB \in {"ligne", "colonne", "fin", "pause"}

TypeBtn ==
  /\ enfonces \subseteq Touches
  /\ pcB \in {"hors", "repos", "ligne", "colonne", "fin", "pause"}
  /\ delai \in Int /\ ecoule \in Int
  /\ ligne \in Lignes /\ col \in 1 .. Cote /\ bouton \in 0 .. Cote * Cote
  /\ balayages \in Nat

\* What is held now was held at some moment; what was held all the time is held.
Observes == tenus \subseteq enfonces /\ enfonces \subseteq vus

\* During a scan nothing has been found, and in the reading of a row it is the
\* only one that is LOW.
Rangee ==
  /\ EnScan => bouton = 0
  /\ pcB = "colonne" => basses = {ligne}

\* The scan has not passed the cell t.
PasPassee(t) ==
  \/ ligne < t[1]
  \/ ligne = t[1] /\ (pcB = "ligne" \/ col <= Cote - t[2])

\* A button that is the only one and held all the time is not behind the scan;
\* when the scan is over it was found.
Seul(t) == tenus = {t} /\ vus = {t}
Recherche ==
  \A t \in Touches : Seul(t) => /\ EnScan => PasPassee(t)
                                /\ pcB = "fin" => bouton # 0

\* The time that a wait has counted is that of its scans.
Attente == EnAppel /\ delai > 0 => ecoule = (balayages - 1) * PasMs /\ ecoule < delai

BInv == TypeBtn /\ Observes /\ Rangee /\ BoutonReel /\ Recherche /\ Attente /\ AttenteBornee

LEMMA InitBouton == InitBtn => BInv
<1> SUFFICES ASSUME InitBtn PROVE BInv
  OBVIOUS
<1>1. Cote * Cote \in Nat
  BY CoteNaturel
<1> QED
  BY <1>1, CoteNaturel
  DEF InitBtn, BInv, TypeBtn, Lignes, Observes, Rangee, EnScan, BoutonReel, Recherche,
      Seul, Attente, EnAppel, AttenteBornee, PasMs

\* Outside a scan: the pins are configured or released, nothing is being read.
LEMMA PasConfiguration ==
  ASSUME BInv, matrice_btn_init \/ matrice_btn_cleanup
  PROVE  BInv'
BY DEF BInv, matrice_btn_init, matrice_btn_cleanup, appelVars, scanVars, TypeBtn, Lignes,
       Observes, Rangee, EnScan, BoutonReel, Recherche, Seul, PasPassee, Attente, EnAppel,
       AttenteBornee

\* A scan begins in front of every cell.
LEMMA PasDebutScan ==
  ASSUME BInv, NEW n \in Nat, NEW d \in Int, DebutScan(n, d), d > 0 => n >= 1,
         UNCHANGED enfonces, delai' = d, ecoule' \in Int,
         d > 0 => ecoule' = (n - 1) * PasMs /\ ecoule' < d
  PROVE  BInv'
<1> USE DEF BInv, DebutScan
<1>1. /\ pcB' = "ligne" /\ ligne' = 0 /\ col' = 1 /\ bouton' = 0
      /\ vus' = enfonces /\ tenus' = enfonces
      /\ balayages' = (IF d > 0 THEN n ELSE 0)
  OBVIOUS
<1>2. 0 \in Lignes /\ 1 \in 1 .. Cote /\ 0 \in 0 .. Cote * Cote
  BY CoteNaturel DEF Lignes
<1>3. TypeBtn'
  BY <1>1, <1>2 DEF TypeBtn, Touches, Lignes
<1>4. Observes' /\ Rangee' /\ BoutonReel'
  BY <1>1 DEF Observes, Rangee, BoutonReel, EnScan
<1>5. Recherche'
  <2>1. \A t \in Touches : t[1] \in Nat
    BY DEF Touches, Lignes
  <2> QED
    BY <1>1, <2>1 DEF Recherche, EnScan, PasPassee
<1>6. Attente' /\ AttenteBornee'
  BY <1>1 DEF Attente, EnAppel, AttenteBornee, PasMs
<1> QED
  BY <1>3, <1>4, <1>5, <1>6

LEMMA PasAppeler ==
  ASSUME BInv, NEW f, NEW d \in Int, Appeler(f, d)
  PROVE  BInv'
<1>1. /\ DebutScan(1, d) /\ UNCHANGED enfonces /\ delai' = d /\ ecoule' = 0
  BY DEF Appeler
<1>2. d > 0 => ecoule' = (1 - 1) * PasMs /\ ecoule' < d
  BY <1>1 DEF PasMs
<1> QED
  BY <1>1, <1>2, PasDebutScan

\* The next row: its cells are all in front of the scan.
LEMMA PasActiverLigne ==
  ASSUME BInv, ActiverLigne
  PROVE  BInv'
<1> USE DEF BInv, ActiverLigne, appelVars
<1>1. TypeBtn' /\ Observes' /\ Rangee' /\ BoutonReel' /\ Attente' /\ AttenteBornee'
  BY CoteNaturel DEF TypeBtn, Observes, Rangee, BoutonReel, EnScan, Attente, EnAppel,
                     AttenteBornee
<1>2. Recherche'
  <2>1. \A t \in Touches : t[2] \in 0 .. Cote - 1
    BY DEF Touches, Lignes
  <2>2. \A t \in Touches : 1 <= Cote - t[2]
    BY <2>1, CoteNaturel
  <2> QED
    BY <2>2 DEF Recherche, Seul, EnScan, PasPassee
<1> QED
  BY <1>1, <1>2

\* A pin that reads LOW is that of a button that is held in the current row.
LEMMA LectureBasse ==
  ASSUME BInv, pcB = "colonne", PeutLireLow(col)
  PROVE  <<ligne, ColonneDe(col)>> \in enfonces
<1>1. PICK t \in enfonces : t[2] = ColonneDe(col) /\ t[1] \in basses
  BY DEF PeutLireLow, Relie
<1>2. basses = {ligne} /\ t \in Touches
  BY DEF BInv, Rangee, TypeBtn
<1>3. t = <<t[1], t[2]>>
  BY <1>2 DEF Touches
<1> QED
  BY <1>1, <1>2, <1>3

\* A pin that reads HIGH is not that of a button that is held alone.
LEMMA LectureHaute ==
  ASSUME BInv, pcB = "colonne", PeutLireHigh(col), NEW t \in Touches, Seul(t)
  PROVE  ~(ligne = t[1] /\ col = Cote - t[2])
<1> SUFFICES ASSUME ligne = t[1], col = Cote - t[2]
             PROVE  FALSE
  OBVIOUS
<1>1. enfonces = {t} /\ basses = {ligne}
  BY DEF BInv, Observes, Seul, Rangee
<1>2. t[2] = ColonneDe(col)
  <2>1. t[2] \in 0 .. Cote - 1
    BY DEF Touches, Lignes
  <2> QED
    BY <2>1, CoteNaturel DEF ColonneDe
<1>3. Relie(col, TRUE) /\ ~Relie(col, FALSE)
  BY <1>1, <1>2 DEF Relie
<1> QED
  BY <1>3 DEF PeutLireHigh

\* A reading of a column (my_matrice_btn.c:46-72).
LEMMA PasLireColonne ==
  ASSUME BInv, LireColonne
  PROVE  BInv'
<1>1. /\ pcB = "colonne"
      /\ UNCHANGED <<enfonces, basses, appelVars, retour, vus, tenus, balayages>>
  BY DEF LireColonne
<1>2. TypeBtn /\ Observes /\ Rangee /\ Recherche /\ Attente /\ AttenteBornee
  BY DEF BInv
<1>3. ligne \in Nat /\ col \in Nat /\ bouton = 0
  BY <1>1, <1>2, CoteNaturel DEF TypeBtn, Lignes, Rangee, EnScan
<1>4. \A t \in Touches : t[1] \in 0 .. Cote - 1 /\ t[2] \in 0 .. Cote - 1
  BY DEF Touches, Lignes
<1>5. ASSUME NEW t \in Touches, Seul(t)
      PROVE  ligne < t[1] \/ (ligne = t[1] /\ col <= Cote - t[2])
  BY <1>1, <1>2, <1>5 DEF Recherche, EnScan, PasPassee
<1>6. CASE /\ PeutLireLow(col)
           /\ bouton' = Numero(ligne, col)
           /\ pcB' = "fin"
           /\ UNCHANGED <<ligne, col>>
  <2>1. <<ligne, ColonneDe(col)>> \in enfonces
    BY <1>1, <1>6, LectureBasse
  <2>2. /\ bouton' \in 1 .. Cote * Cote
        /\ Position(bouton') = <<ligne, ColonneDe(col)>>
    BY <1>2, <1>6, NumeroPosition DEF TypeBtn
  <2>3. Cote * Cote \in Nat
    BY CoteNaturel
  <2>4. TypeBtn' /\ Rangee' /\ Recherche'
    BY <1>1, <1>2, <1>6, <2>2, <2>3
    DEF TypeBtn, appelVars, Rangee, EnScan, Recherche, Seul
  <2>5. Observes' /\ BoutonReel'
    BY <1>1, <1>2, <2>1, <2>2 DEF Observes, BoutonReel
  <2>6. Attente' /\ AttenteBornee'
    BY <1>1, <1>2, <1>6 DEF Attente, EnAppel, AttenteBornee, appelVars
  <2> QED
    BY <2>4, <2>5, <2>6 DEF BInv
<1>7. CASE /\ PeutLireHigh(col)
           /\ col < Cote
           /\ col' = col + 1
           /\ UNCHANGED <<pcB, ligne, bouton>>
  <2>1. TypeBtn' /\ Rangee' /\ Observes' /\ BoutonReel' /\ Attente' /\ AttenteBornee'
    BY <1>1, <1>2, <1>7, CoteNaturel
    DEF TypeBtn, appelVars, Rangee, EnScan, Observes, BoutonReel, Attente, EnAppel,
        AttenteBornee
  <2>2. ASSUME NEW t \in Touches, Seul(t)
        PROVE  ligne < t[1] \/ (ligne = t[1] /\ col + 1 <= Cote - t[2])
    <3>1. ~(ligne = t[1] /\ col = Cote - t[2])
      BY <1>1, <1>7, <2>2, LectureHaute
    <3> QED
      BY <1>3, <1>4, <1>5, <2>2, <3>1, CoteNaturel
  <2>3. Recherche'
    BY <1>1, <1>7, <2>2 DEF Recherche, Seul, EnScan, PasPassee
  <2> QED
    BY <2>1, <2>3 DEF BInv
<1>8. CASE /\ PeutLireHigh(col)
           /\ col = Cote
           /\ pcB' = IF DerniereLigne THEN "fin" ELSE "ligne"
           /\ ligne' = IF DerniereLigne THEN ligne ELSE ligne + 1
           /\ UNCHANGED <<col, bouton>>
  <2>1. ASSUME NEW t \in Touches, Seul(t)
        PROVE  ligne < t[1] /\ ~DerniereLigne
    <3>1. ~(ligne = t[1] /\ col = Cote - t[2])
      BY <1>1, <1>8, <2>1, LectureHaute
    <3>2. ligne < t[1]
      BY <1>3, <1>4, <1>5, <1>8, <2>1, <3>1, CoteNaturel
    <3> QED
      BY <1>3, <1>4, <3>2, CoteNaturel DEF DerniereLigne
  <2>2. ligne' \in Lignes
    BY <1>2, <1>8, CoteNaturel DEF TypeBtn, Lignes, DerniereLigne
  <2>3. TypeBtn' /\ Rangee' /\ Observes' /\ BoutonReel' /\ Attente' /\ AttenteBornee'
    BY <1>1, <1>2, <1>3, <1>8, <2>2
    DEF TypeBtn, appelVars, Rangee, EnScan, Observes, BoutonReel, Attente, EnAppel,
        AttenteBornee
  <2>4. ASSUME NEW t \in Touches, Seul(t)
        PROVE  pcB' = "ligne" /\ (ligne' < t[1] \/ ligne' = t[1])
    BY <1>3, <1>4, <1>8, <2>1, <2>4
  <2>5. Recherche'
    BY <1>1, <2>4 DEF Recherche, Seul, EnScan, PasPassee
  <2> QED
    BY <2>3, <2>5 DEF BInv
<1> QED
  BY <1>6, <1>7, <1>8 DEF LireColonne

\* matrice_btn_lire returns.
LEMMA PasFinScan ==
  ASSUME BInv, FinScan
  PROVE  BInv'
<1>1. /\ pcB = "fin" /\ pcB' \in {"repos", "pause"}
      /\ UNCHANGED <<enfonces, appelVars, scanVars, vus, tenus, balayages>>
  BY DEF FinScan, appelVars
<1> QED
  BY <1>1 DEF BInv, appelVars, scanVars, TypeBtn, Observes, Rangee, EnScan, BoutonReel,
              Recherche, Seul, Attente, EnAppel, AttenteBornee

\* The sleep between two scans, and the timeout (my_matrice_btn.c:102-119).
LEMMA PasPause ==
  ASSUME BInv, Pause
  PROVE  BInv'
<1>1. /\ pcB = "pause" /\ UNCHANGED <<enfonces, delai>> /\ ecoule' = EcouleApres
  BY DEF Pause
<1>2. TypeBtn /\ Observes /\ Attente /\ AttenteBornee
  BY DEF BInv
<1>3. /\ delai \in Int /\ balayages \in Nat /\ ecoule \in Int /\ ecoule' \in Int
      /\ delai > 0 => ecoule' = (balayages + 1 - 1) * PasMs
  BY <1>1, <1>2 DEF TypeBtn, Attente, EnAppel, EcouleApres, PasMs
<1>4. CASE /\ ecoule' < delai \/ delai <= 0
           /\ DebutScan(balayages + 1, delai)
  <2>1. balayages + 1 \in Nat /\ balayages + 1 >= 1
    BY <1>3
  <2>2. delai > 0 => ecoule' < delai
    BY <1>3, <1>4
  <2> QED
    BY <1>1, <1>3, <1>4, <2>1, <2>2, PasDebutScan
<1>5. CASE /\ pcB' = "repos"
           /\ UNCHANGED <<scanVars, vus, tenus, balayages>>
  BY <1>1, <1>2, <1>3, <1>5
  DEF BInv, scanVars, TypeBtn, Observes, Rangee, EnScan, BoutonReel, Recherche, Seul,
      Attente, EnAppel, AttenteBornee
<1> QED
  BY <1>4, <1>5 DEF Pause

\* The player can make a button more than one or less than held all the time,
\* and never the other way round.
LEMMA PasJoueur ==
  ASSUME BInv, NEW b \in Touches, Joueur(b)
  PROVE  BInv'
<1>1. /\ enfonces' \subseteq Touches
      /\ vus' = vus \cup enfonces' /\ tenus' = tenus \cap enfonces'
      /\ UNCHANGED <<basses, pcB, appelVars, scanVars, retour, balayages>>
  BY DEF Joueur, BInv, TypeBtn
<1>2. Observes' /\ TypeBtn' /\ Rangee' /\ Attente' /\ AttenteBornee'
  BY <1>1 DEF BInv, Observes, TypeBtn, Rangee, EnScan, Attente, EnAppel, AttenteBornee,
              appelVars, scanVars
<1>3. BoutonReel'
  BY <1>1 DEF BInv, BoutonReel, scanVars
<1>4. \A t \in Touches : Seul(t)' => Seul(t)
  <2> SUFFICES ASSUME NEW t \in Touches, tenus' = {t}, vus' = {t}
               PROVE  tenus = {t} /\ vus = {t}
    BY DEF Seul
  <2>1. vus \subseteq {t} /\ t \in tenus
    BY <1>1
  <2>2. tenus \subseteq vus
    BY DEF BInv, Observes
  <2> QED
    BY <2>1, <2>2
<1>5. Recherche'
  BY <1>1, <1>4 DEF BInv, Recherche, EnScan, PasPassee, scanVars
<1> QED
  BY <1>2, <1>3, <1>5 DEF BInv

LEMMA PasBouton == BInv /\ [NextBtn]_varsBtn => BInv'
<1> SUFFICES ASSUME BInv, [NextBtn]_varsBtn
             PROVE  BInv'
  OBVIOUS
<1>1. CASE UNCHANGED varsBtn
  BY <1>1 DEF varsBtn, appelVars, scanVars, BInv, TypeBtn, Observes, Rangee, EnScan,
              BoutonReel, Recherche, Seul, PasPassee, Attente, EnAppel, AttenteBornee
<1>2. CASE Appeler("lire", 0)
  BY <1>2, PasAppeler
<1>3. CASE \E f \in {"appui", "relache"}, d \in Delais : Appeler(f, d)
  BY <1>3, PasAppeler, MatriceAssumption
<1> QED
  BY <1>1, <1>2, <1>3, PasConfiguration, PasActiverLigne, PasLireColonne, PasFinScan,
     PasPause, PasJoueur DEF NextBtn, Pilote

LEMMA InvariantBouton == SpecBtn => []BInv
BY InitBouton, PasBouton, PTL DEF SpecBtn

-----------------------------------------------------------------------------
(***************************************************************************)
(* The theorems.                                                           *)
(***************************************************************************)

\* A number that a scan returns is that of a button that was held during this
\* scan, in a matrix of any size (my_matrice_btn.c:46-72, 86-97).
THEOREM BoutonReelProuve == SpecBtn => []BoutonReel
<1>1. BInv => BoutonReel
  BY DEF BInv
<1> QED
  BY <1>1, InvariantBouton, PTL

\* A button held alone is found by the scan, and where nothing is held nothing
\* is found (my_matrice_btn.c:46-72).
THEOREM BoutonSeulTrouveProuve == SpecBtn => []BoutonSeulTrouve
<1>1. BInv => BoutonSeulTrouve
  BY DEF BInv, BoutonReel, Recherche, Seul, BoutonSeulTrouve
<1> QED
  BY <1>1, InvariantBouton, PTL

\* A wait is over after the scans that fit into its timeout, for every value of
\* timeout_ms (my_matrice_btn.c:102-119, 139-155).
THEOREM AttenteBorneeProuve == SpecBtn => []AttenteBornee
<1>1. BInv => AttenteBornee
  BY DEF BInv
<1> QED
  BY <1>1, InvariantBouton, PTL

=============================================================================
