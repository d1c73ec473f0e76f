------------------------------- MODULE Grille -------------------------------
(***************************************************************************)
(* The draw of a round and the display of the grid: the shuffle of the     *)
(* shapes (the same code in afficher_grille, lib/jeu.c, and in             *)
(* envoyer_grille_et_forme, serveur.c) and the double loop that fills the  *)
(* cells and remembers where the shape to look for went.                   *)
(***************************************************************************)
EXTENDS Formes, Sequences

CONSTANT Cote   \* the grid has Cote rows and Cote columns, 4 in the code

ASSUME CoteAssumption == Cote \in Nat \ {0} /\ NbFormes = Cote * Cote

VARIABLES
  pcG,       \* "melange": shuffling; "affichage": filling the cells; "fini"
  forme,     \* the shape to look for
  indices,   \* the order of the shapes
  i, j,      \* the loop variables: i of the shuffle, then row i and column j
  k,         \* the next cell, indices[k++]
  position,  \* position_forme
  recue,     \* the order is the argument of afficher_grille_predefinie
  choix      \* auxiliary: the values rand() % (i + 1) returned, in order

vars == <<pcG, forme, indices, i, j, k, position, recue, choix>>

Phases == {"melange", "affichage", "fini"}

-----------------------------------------------------------------------------
Identite == [n \in Formes |-> n]

\* afficher_grille shuffles, then displays; afficher_grille_predefinie only
\* displays an order that came off the network.
Init ==
  /\ forme \in Formes
  /\ \/ /\ recue = FALSE
        /\ pcG = "melange"
        /\ indices = Identite
        /\ i = NbFormes - 1
     \/ /\ recue = TRUE
        /\ pcG = "affichage"
        /\ indices \in [Formes -> Formes]
        /\ i = 0
  /\ j = 0
  /\ k = 0
  /\ position = -1
  /\ choix = <<>>

\* Mutant: the exchange without its temporary variable.
EchangeSansTemp(f, a, b) == [f EXCEPT ![a] = f[b]]

Echange(f, a, b) == [f EXCEPT ![a] = f[b], ![b] = f[a]]

\* Mutants: rand() % 16, over the whole array; rand() % i.
TiragesPartout == Formes
TiragesSansDernier == 0 .. i - 1
\* The values of rand() % (i + 1).
Tirages == 0 .. i

\* One turn of the Fisher-Yates loop.
Melanger ==
  /\ pcG = "melange"
  /\ i > 0
  /\ \E r \in Tirages : indices' = Echange(indices, i, r) /\ choix' = Append(choix, r)
  /\ i' = i - 1
  /\ UNCHANGED <<pcG, forme, j, k, position, recue>>

FinMelange ==
  /\ pcG = "melange"
  /\ i = 0
  /\ pcG' = "affichage"
  /\ i' = 0 /\ j' = 0 /\ k' = 0
  /\ UNCHANGED <<forme, indices, position, recue, choix>>

\* Mutants: the number of the cell counted from 0, or counted after k++.
PositionSansUn == IF indices[k] = forme THEN i * Cote + j ELSE position
PositionApres == IF indices[k] = forme THEN i * Cote + j + 2 ELSE position

\* The position after the cell of row i and column j has been filled.
PositionVue == IF indices[k] = forme THEN i * Cote + j + 1 ELSE position

\* Mutant: the column is not set back to 0 for the next row.
ColonneSansRetour == IF j < Cote - 1 THEN j + 1 ELSE j
ColonneSuivante == IF j < Cote - 1 THEN j + 1 ELSE 0

\* The body of the double loop, with the step of its two counters.
AfficherCellule ==
  /\ pcG = "affichage"
  /\ i < Cote
  /\ position' = PositionVue
  /\ k' = k + 1
  /\ j' = ColonneSuivante
  /\ i' = IF j < Cote - 1 THEN i ELSE i + 1
  /\ UNCHANGED <<pcG, forme, indices, recue, choix>>

FinAffichage ==
  /\ pcG = "affichage"
  /\ i = Cote
  /\ pcG' = "fini"
  /\ UNCHANGED <<forme, indices, i, j, k, position, recue, choix>>

Next == Melanger \/ FinMelange \/ AfficherCellule \/ FinAffichage

Spec == Init /\ [][Next]_vars

-----------------------------------------------------------------------------
(***************************************************************************)
(* Properties.                                                             *)
(***************************************************************************)
TypesGrille ==
  /\ pcG \in Phases
  /\ forme \in Formes
  /\ indices \in [Formes -> Formes]
  /\ i \in 0 .. NbFormes /\ j \in 0 .. NbFormes
  /\ k \in 0 .. NbFormes
  /\ position \in -1 .. NbFormes
  /\ recue \in BOOLEAN
  /\ choix \in Seq(Formes)

\* Types, and the access of the double loop (jeu.c:365-377): indices[k++] never
\* reads past the array and the two counters agree with k.
TypeOK ==
  /\ TypesGrille
  /\ pcG = "affichage" => k = i * Cote + j /\ (i < Cote => k < NbFormes)

\* At every moment of the shuffle (jeu.c:354-360, serveur.c:210-216) the array
\* holds each shape exactly once: no shape is lost or shown twice.
ToujoursPermutation == ~recue => EstPermutation(indices)

\* Both functions return the number of a cell that shows the shape, -1 only
\* when none does, and when the order is a permutation the player who presses
\* that button, and no other, is right (rep == position_correcte).
PositionExacte ==
  pcG = "fini" =>
    /\ position = PositionForme(forme, indices)
    /\ EstPermutation(indices) =>
         \A rep \in 1 .. NbFormes : rep = position <=> indices[rep - 1] = forme

\* The values rand() % (i + 1) returned, read back from the shuffled array:
\* Rejoue[n] is the array after the n first turns that lead to f, and turn n
\* (with i = NbFormes - n) must have taken the value f[i] from where it was.
Lieu(f, v) == CHOOSE n \in Formes : f[n] = v
Rejoue(f) ==
  LET g[n \in 0 .. NbFormes - 1] ==
        IF n = 0 THEN Identite
        ELSE Echange(g[n - 1], NbFormes - n, Lieu(g[n - 1], f[NbFormes - n]))
  IN  g
ChoixRetrouves(f) ==
  [n \in 1 .. NbFormes - 1 |-> Lieu(Rejoue(f)[n - 1], f[NbFormes - n])]

\* Fairness of the draw: the sequences of random values and the orders of the
\* shapes correspond one to one, so no order is favoured and none is impossible
\* (jeu.c:354-360, serveur.c:210-216).  A shuffled array comes from one sequence
\* only; and at every turn each shape that has no place yet is the one that some
\* value puts into place i, so every order comes from a sequence.
TirageEquitable ==
  /\ ~recue /\ pcG # "melange" => choix = ChoixRetrouves(indices)
  /\ pcG = "melange" /\ i > 0 =>
       \A l \in 0 .. i : \E r \in Tirages : Echange(indices, i, r)[i] = indices[l]

=============================================================================
