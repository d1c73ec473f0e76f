----------------------------- MODULE MatriceBtn -----------------------------
(***************************************************************************)
(* The driver of the button matrix (lib/my_matrice_btn.c): the scan, row   *)
(* after row, and the functions that wait for a press or for a release.    *)
(* The player presses and releases between any two readings of a pin.      *)
(*                                                                         *)
(* A button is its row and its column, both from 0 and from the left.  It  *)
(* connects the pin of its row with the pin of its column.                 *)
(***************************************************************************)
EXTENDS Integers

CONSTANTS
  Cote,    \* 4: rows and columns
  Delais   \* the values of timeout_ms; a wait without timeout has 0

ASSUME MatriceAssumption == Cote \in Nat \ {0} /\ Delais \subseteq Int

VARIABLES
  enfonces,   \* the buttons that are held down
  basses,     \* the rows whose pin is LOW
  pcB,        \* "hors": not configured; "repos": no call; else inside a call
  appel,      \* the call: "lire", "appui" or "relache"
  delai, ecoule,       \* timeout_ms and temps_ecoule
  ligne, col, bouton,  \* of the scan; col = n is the reading of COLn
  retour,     \* what the last call returned
  vus, tenus, \* auxiliary: held at some moment of the scan, held during all of it
  balayages   \* auxiliary: the scans of the current wait, if it has a timeout

scanVars == <<ligne, col, bouton>>
appelVars == <<appel, delai, ecoule>>
varsBtn == <<enfonces, basses, pcB, appelVars, scanVars, retour, vus, tenus, balayages>>

Lignes == 0 .. Cote - 1
Touches == Lignes \X Lignes
PasMs == 10   \* pas_ms

\* COL1 is wired to the column on the right.
ColonneDe(n) == Cote - n

\* Through a button that is held, a LOW row pulls its column down; a HIGH row
\* holds it up.  With both, the level is undecided.
Relie(n, niveauBas) ==
  \E t \in enfonces : t[2] = ColonneDe(n) /\ (t[1] \in basses <=> niveauBas)
PeutLireLow(n) == Relie(n, TRUE)
PeutLireHigh(n) == Relie(n, FALSE) \/ ~Relie(n, TRUE)

\* Mutant: the columns numbered in the order of the pins.
NumeroDirect(l, n) == l * Cote + n
\* The value given to bouton for row l when COLn is LOW.
Numero(l, n) == l * Cote + Cote + 1 - n

\* matrice_btn_obtenir_position; <<-1, -1>> for a number that is no button.
Position(b) ==
  IF b <= 0 \/ b > Cote * Cote THEN <<-1, -1>> ELSE <<(b - 1) \div Cote, (b - 1) % Cote>>

InitBtn ==
  /\ enfonces = {} /\ basses = {}
  /\ pcB = "hors"
  /\ appel = "lire" /\ delai = 0 /\ ecoule = 0
  /\ ligne = 0 /\ col = 1 /\ bouton = 0
  /\ retour = 0
  /\ vus = {} /\ tenus = {} /\ balayages = 0

-----------------------------------------------------------------------------
matrice_btn_init ==
  /\ pcB = "hors"
  /\ pcB' = "repos"
  /\ basses' = Lignes
  /\ UNCHANGED <<enfonces, appelVars, scanVars, retour, vus, tenus, balayages>>

matrice_btn_cleanup ==
  /\ pcB = "repos"
  /\ pcB' = "hors"
  /\ basses' = {}
  /\ UNCHANGED <<enfonces, appelVars, scanVars, retour, vus, tenus, balayages>>

\* matrice_btn_lire begins, for the n-th time in a call with timeout d.
DebutScan(n, d) ==
  /\ pcB' = "ligne"
  /\ ligne' = 0 /\ col' = 1 /\ bouton' = 0
  /\ vus' = enfonces /\ tenus' = enfonces
  /\ balayages' = IF d > 0 THEN n ELSE 0

\* One of the five functions is called; those that wait differ in timeout_ms.
Appeler(f, d) ==
  /\ pcB = "repos"
  /\ appel' = f /\ delai' = d /\ ecoule' = 0
  /\ DebutScan(1, d)
  /\ UNCHANGED <<enfonces, basses, retour>>

\* Every row HIGH, then the current one LOW.
ActiverLigne ==
  /\ pcB = "ligne"
  /\ basses' = {ligne}
  /\ col' = 1
  /\ pcB' = "colonne"
  /\ UNCHANGED <<enfonces, appelVars, ligne, bouton, retour, vus, tenus, balayages>>

\* Mutant: for (ligne = 0; ligne < 3; ...).
DerniereLigneOubliee == ligne = Cote - 2
DerniereLigne == ligne = Cote - 1

\* digitalRead(COLn): LOW ends the scan, HIGH goes on to the next column, the
\* next row or the end.
LireColonne ==
  /\ pcB = "colonne"
  /\ \/ /\ PeutLireLow(col)
        /\ bouton' = Numero(ligne, col)
        /\ pcB' = "fin"
        /\ UNCHANGED <<ligne, col>>
     \/ /\ PeutLireHigh(col)
        /\ col < Cote
        /\ col' = col + 1
        /\ UNCHANGED <<pcB, ligne, bouton>>
     \/ /\ PeutLireHigh(col)
        /\ col = Cote
        /\ pcB' = IF DerniereLigne THEN "fin" ELSE "ligne"
        /\ ligne' = IF DerniereLigne THEN ligne ELSE ligne + 1
        /\ UNCHANGED <<col, bouton>>
  /\ UNCHANGED <<enfonces, basses, appelVars, retour, vus, tenus, balayages>>

\* matrice_btn_lire returns: every row HIGH.  A wait that has not found what it
\* waits for sleeps pas_ms.
FinScan ==
  /\ pcB = "fin"
  /\ basses' = {}
  /\ \/ /\ appel = "lire" \/ (appel = "appui" /\ bouton # 0)
        /\ retour' = bouton /\ pcB' = "repos" /\ UNCHANGED ecoule
     \/ /\ appel = "relache" /\ bouton = 0
        /\ retour' = 1 /\ pcB' = "repos" /\ UNCHANGED ecoule
     \/ /\ (appel = "appui" /\ bouton = 0) \/ (appel = "relache" /\ bouton # 0)
        /\ pcB' = "pause"
        /\ UNCHANGED <<retour, ecoule>>
  /\ UNCHANGED <<enfonces, appel, delai, scanVars, vus, tenus, balayages>>

\* Mutant: temps_ecoule is not increased.
EcouleFige == ecoule
\* temps_ecoule += pas_ms; without a timeout the sum is never looked at.
EcouleApres == IF delai > 0 THEN ecoule + PasMs ELSE ecoule

\* The sleep is over: another scan, or the timeout.
Pause ==
  /\ pcB = "pause"
  /\ ecoule' = EcouleApres
  /\ \/ /\ ecoule' < delai \/ delai <= 0
        /\ DebutScan(balayages + 1, delai)
        /\ UNCHANGED retour
     \/ /\ ecoule' >= delai /\ delai > 0
        /\ retour' = 0
        /\ pcB' = "repos"
        /\ UNCHANGED <<scanVars, vus, tenus, balayages>>
  /\ UNCHANGED <<enfonces, basses, appel, delai>>

-----------------------------------------------------------------------------
\* The player presses or releases one button.
Joueur(t) ==
  /\ enfonces' = IF t \in enfonces THEN enfonces \ {t} ELSE enfonces \cup {t}
  /\ vus' = vus \cup enfonces'
  /\ tenus' = tenus \cap enfonces'
  /\ UNCHANGED <<basses, pcB, appelVars, scanVars, retour, balayages>>

Pilote == ActiverLigne \/ LireColonne \/ FinScan \/ Pause

NextBtn ==
  \/ matrice_btn_init \/ matrice_btn_cleanup
  \/ Appeler("lire", 0)
  \/ \E f \in {"appui", "relache"}, d \in Delais : Appeler(f, d)
  \/ Pilote
  \/ \E t \in Touches : Joueur(t)

SpecBtn == InitBtn /\ [][NextBtn]_varsBtn

-----------------------------------------------------------------------------
(***************************************************************************)
(* Properties.                                                             *)
(***************************************************************************)

\* A number returned by a scan is that of a button which was held at some
\* moment of that scan, and matrice_btn_obtenir_position finds its row and its
\* column from the left, the numbering in which the grid counts its cells
\* (my_matrice_btn.c:65-68 and 86-97, jeu.c:374); never a button nobody touched.
BoutonReel == pcB = "fin" /\ bouton # 0 => Position(bouton) \in vus

\* A button that is held alone during a whole scan is found, in whatever row
\* and column it is, and by this scan; a scan during which nothing was held
\* finds nothing (my_matrice_btn.c:46-72).
BoutonSeulTrouve ==
  pcB = "fin" =>
    /\ \A t \in Touches : tenus = {t} /\ vus = {t} => Position(bouton) = t
    /\ vus = {} => bouton = 0

\* A wait with a timeout is over after as many scans as there are steps of
\* pas_ms in it, whatever the player holds or presses
\* (my_matrice_btn.c:102-119 and 139-155).
AttenteBornee == delai > 0 => (balayages - 1) * PasMs < delai

=============================================================================
