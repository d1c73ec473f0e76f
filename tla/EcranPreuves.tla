---------------------------- MODULE EcranPreuves ----------------------------
(***************************************************************************)
(* Proofs about module Ecran: for any grid that the sixteen shapes of      *)
(* formes.c fill, on a terminal of any size, for any order of the shapes   *)
(* that is drawn or received.                                              *)
(***************************************************************************)
EXTENDS Ecran, GrillePreuves

(***************************************************************************)
(* The inductive invariant: that of the draw (IInv of GrillePreuves), and  *)
(* what both screens, the one ncurses holds and the one the player sees,   *)
(* hold outside of the grid, on its lines and in the cells that the double *)
(* loop has filled.                                                        *)
(***************************************************************************)
\* The offset of a point of the terminal, and whether it is one of the grid.
Ligne(p) == p[1] - origine[1]
Colonne(p) == p[2] - origine[2]
Dedans(y, x) == y \in 0 .. grid_height - 1 /\ x \in 0 .. grid_width - 1

HorsGrille(ecran) ==
  \A p \in Points(taille) : ~Dedans(Ligne(p), Colonne(p)) => ecran[p] = " "
TraitsEntiers(ecran) ==
  \A p \in Points(taille) :
    Dedans(Ligne(p), Colonne(p)) /\ SurTrait(Ligne(p), Colonne(p))
      => ecran[p] = Trait(Ligne(p), Colonne(p))
SansMarque(ecran) == \A p \in Points(taille) : ecran[p] # "x"

\* What is visible of the cell is the picture of these bytes.
Image(ecran, row, col, octets) ==
  \A p \in Points(taille) :
    <<Ligne(p), Colonne(p)>> \in DansCellule(row, col) =>
      ecran[p] = convertir_forme(octets, Ligne(p) - Cellule(row, col)[1],
                                 Colonne(p) - Cellule(row, col)[2])

TypeEcran ==
  /\ taille \in Tailles
  /\ origine \in Int \X Int
  /\ virtuel = [p \in Points(taille) |-> virtuel[p]]
  /\ physique = [p \in Points(taille) |-> physique[p]]

Centree ==
  etat # "shell" =>
    origine = <<Moitie(taille[1] - grid_height), Moitie(taille[2] - grid_width)>>

Pret ==
  /\ etat = "pret" => HorsGrille(virtuel) /\ SansMarque(virtuel)
  /\ etat # "manche" => SansMarque(physique)

Lignes ==
  etat = "manche" =>
    /\ HorsGrille(virtuel) /\ TraitsEntiers(virtuel)
    /\ HorsGrille(physique) /\ TraitsEntiers(physique)

\* The cells before row i, and those of row i before column j.
Images ==
  etat = "manche" =>
    /\ leds = Octets(forme)
    /\ pcG = "affichage" =>
         \A r, c \in 0 .. Cote - 1 :
           r < i \/ (r = i /\ c < j) => Image(virtuel, r, c, Octets(indices[r * Cote + c]))
    /\ pcG = "fini" =>
         \A r, c \in 0 .. Cote - 1 : Image(physique, r, c, Octets(indices[r * Cote + c]))

EInv ==
  /\ IInv
  /\ TypeEcran
  /\ Centree
  /\ Pret
  /\ Lignes
  /\ Images

-----------------------------------------------------------------------------
(***************************************************************************)
(* The geometry of the grid.                                               *)
(***************************************************************************)

LEMMA MoitieType ==
  ASSUME NEW n \in Int
  PROVE  Moitie(n) \in Int
BY DEF Moitie

\* A cell, one coordinate at a time.
LEMMA DansCelluleEn ==
  ASSUME NEW row \in Int, NEW col \in Int, NEW y \in Int, NEW x \in Int
  PROVE  <<y, x>> \in DansCellule(row, col) <=>
           /\ 9 * row + 1 <= y /\ y <= 9 * row + 8
           /\ 9 * col + 1 <= x /\ x <= 9 * col + 8
BY DEF DansCellule, Cellule, CELL_HEIGHT, CELL_WIDTH

\* The points of the lines and of the cells (my_ncurses.c:38-140): a cell lies
\* in the grid and on no line of it.
LEMMA CelluleSansTrait ==
  ASSUME NEW row \in 0 .. Cote - 1, NEW col \in 0 .. Cote - 1, NEW y \in Int, NEW x \in Int,
         <<y, x>> \in DansCellule(row, col)
  PROVE  Dedans(y, x) /\ ~SurTrait(y, x)
<1> USE CoteAssumption
<1>1. /\ 9 * row + 1 <= y /\ y <= 9 * row + 8
      /\ 9 * col + 1 <= x /\ x <= 9 * col + 8
  BY DansCelluleEn
<1>2. y % 9 # 0 /\ x % 9 # 0
  BY <1>1
<1> QED BY <1>1, <1>2 DEF Dedans, SurTrait, grid_height, grid_width, CELL_HEIGHT, CELL_WIDTH

\* A point of the grid that is on no line of it is in a cell.
LEMMA SansTraitEnCellule ==
  ASSUME NEW y \in Int, NEW x \in Int, Dedans(y, x), ~SurTrait(y, x)
  PROVE  \E row, col \in 0 .. Cote - 1 : <<y, x>> \in DansCellule(row, col)
<1> USE CoteAssumption
<1> DEFINE r == y \div 9
           c == x \div 9
<1>1. /\ y >= 0 /\ y <= 9 * Cote /\ y % 9 # 0
      /\ x >= 0 /\ x <= 9 * Cote /\ x % 9 # 0
  BY DEF Dedans, SurTrait, grid_height, grid_width, CELL_HEIGHT, CELL_WIDTH
<1>2. r \in 0 .. Cote - 1 /\ c \in 0 .. Cote - 1
  BY <1>1
<1>3. /\ 9 * r + 1 <= y /\ y <= 9 * r + 8
      /\ 9 * c + 1 <= x /\ x <= 9 * c + 8
  BY <1>1
<1> HIDE DEF r, c
<1>4. <<y, x>> \in DansCellule(r, c)
  BY <1>2, <1>3, DansCelluleEn
<1> QED BY <1>2, <1>4

\* Two cells have no point in common.
LEMMA CellulesDisjointes ==
  ASSUME NEW row \in Int, NEW col \in Int, NEW r \in Int, NEW c \in Int,
         NEW y \in Int, NEW x \in Int,
         <<y, x>> \in DansCellule(row, col), <<y, x>> \in DansCellule(r, c)
  PROVE  row = r /\ col = c
<1>1. /\ 9 * row + 1 <= y /\ y <= 9 * row + 8
      /\ 9 * col + 1 <= x /\ x <= 9 * col + 8
      /\ 9 * r + 1 <= y /\ y <= 9 * r + 8
      /\ 9 * c + 1 <= x /\ x <= 9 * c + 8
  BY DansCelluleEn
<1> QED BY <1>1

\* No line of the grid is a mark of a shape.
LEMMA TraitSansMarque ==
  ASSUME NEW y \in Int, NEW x \in Int
  PROVE  Trait(y, x) # "x"
<1>1. Coin(y, x) # "x"
  BY DEF Coin
<1> QED BY <1>1 DEF Trait

\* The lines of the grid are points of it.
LEMMA TraitsEn ==
  ASSUME NEW y \in Int, NEW x \in Int
  PROVE  <<y, x>> \in Traits <=> Dedans(y, x) /\ SurTrait(y, x)
BY DEF Traits, Dedans

\* The coordinates of a point.
LEMMA PointEn ==
  ASSUME TypeEcran, NEW p \in Points(taille)
  PROVE  /\ p = <<p[1], p[2]>> /\ p[1] \in Int /\ p[2] \in Int
         /\ Ligne(p) \in Int /\ Colonne(p) \in Int
         /\ origine[1] \in Int /\ origine[2] \in Int
BY EcranAssumption DEF TypeEcran, Points, Ligne, Colonne

-----------------------------------------------------------------------------
(***************************************************************************)
(* The invariant, step by step.                                            *)
(***************************************************************************)

\* Where no round is shown the order is the first one, and holds shape 0 first.
LEMMA RangDepart ==
  /\ Identite \in [Formes -> Formes] /\ EstPermutation(Identite) /\ 0 \in Formes
  /\ \A n \in Formes : Identite[n] = n
BY NbFormesAssumption DEF Identite, EstPermutation, Formes

LEMMA InitEInv == InitEcran => EInv
<1> SUFFICES ASSUME InitEcran PROVE EInv
  OBVIOUS
<1> USE NbFormesAssumption, CoteAssumption
<1>1. IInv
  <2>1. TypesGrille
    <3>1. recue \in BOOLEAN
      BY Zenon DEF InitEcran
    <3>2. choix \in Seq(Formes)
      BY DEF InitEcran
    <3>3. Cote <= NbFormes
      OBVIOUS
    <3>4. /\ pcG \in Phases /\ forme \in Formes /\ indices \in [Formes -> Formes]
          /\ i \in 0 .. NbFormes /\ j \in 0 .. NbFormes /\ k \in 0 .. NbFormes
          /\ position \in -1 .. NbFormes
      BY <3>3, RangDepart DEF InitEcran, Phases
    <3> QED BY <3>1, <3>2, <3>4 DEF TypesGrille
  <2>2. ToujoursPermutation
    BY RangDepart DEF InitEcran, ToujoursPermutation
  <2>3. Compteurs
    BY DEF InitEcran, Compteurs
  <2>4. k \in 0 .. NbFormes /\ VueJusque(k)
    BY RangDepart DEF InitEcran, VueJusque, Formes
  <2> QED BY <2>1, <2>2, <2>3, <2>4 DEF IInv
<1>2. TypeEcran
  BY DEF InitEcran, TypeEcran
<1>3. Centree /\ Pret /\ Lignes /\ Images
  BY DEF InitEcran, Centree, Pret, Lignes, Images, SansMarque
<1> QED BY <1>1, <1>2, <1>3 DEF EInv

\* init_ncurses (my_ncurses.c:13-32): the screen is blank, whatever the
\* terminal shows.
LEMMA DemarrerEInv == EInv /\ initialiser_peripheriques => EInv'
<1> SUFFICES ASSUME EInv, initialiser_peripheriques PROVE EInv'
  OBVIOUS
<1>1. /\ etat' = "pret" /\ taille' = taille /\ physique' = physique
      /\ virtuel' = [p \in Points(taille) |-> " "]
      /\ origine' = <<Moitie(taille[1] - grid_height), Moitie(taille[2] - grid_width)>>
      /\ UNCHANGED vars
  BY DEF initialiser_peripheriques, init_ncurses, grilleVars
<1>2. IInv'
  BY <1>1, EtapeInv DEF EInv
<1>3. TypeEcran'
  <2>1. taille[1] \in Int /\ taille[2] \in Int
    BY EcranAssumption DEF EInv, TypeEcran
  <2>2. grid_height \in Int /\ grid_width \in Int
    BY CoteAssumption DEF grid_height, grid_width, CELL_HEIGHT, CELL_WIDTH
  <2>3. origine' \in Int \X Int
    <3>1. Moitie(taille[1] - grid_height) \in Int /\ Moitie(taille[2] - grid_width) \in Int
      BY <2>1, <2>2, MoitieType
    <3> QED BY <1>1, <3>1
  <2> QED BY <1>1, <2>3 DEF EInv, TypeEcran
<1>4. Centree'
  BY <1>1 DEF Centree
<1>5. Pret'
  BY <1>1 DEF EInv, Pret, HorsGrille, SansMarque, initialiser_peripheriques
<1>6. Lignes' /\ Images'
  BY <1>1 DEF Lignes, Images
<1> QED BY <1>2, <1>3, <1>4, <1>5, <1>6 DEF EInv

\* The draw begins again: what Grille's Init says, of the next state.
LEMMA TirageIInv == NouveauTirage => IInv'
<1> SUFFICES ASSUME NouveauTirage PROVE IInv'
  OBVIOUS
<1> USE NbFormesAssumption, CoteAssumption
<1>1. TypesGrille'
  <2>1. recue' \in BOOLEAN
    BY Zenon DEF NouveauTirage
  <2>2. choix' \in Seq(Formes)
    BY DEF NouveauTirage
  <2>3. /\ pcG' \in Phases /\ forme' \in Formes /\ indices' \in [Formes -> Formes]
        /\ i' \in 0 .. NbFormes /\ j' \in 0 .. NbFormes /\ k' \in 0 .. NbFormes
        /\ position' \in -1 .. NbFormes
    BY RangDepart DEF NouveauTirage, Phases
  <2> QED BY <2>1, <2>2, <2>3 DEF TypesGrille
<1>2. ToujoursPermutation'
  BY RangDepart DEF NouveauTirage, ToujoursPermutation
<1>3. Compteurs'
  BY DEF NouveauTirage, Compteurs
<1>4. (k \in 0 .. NbFormes /\ VueJusque(k))'
  BY DEF NouveauTirage, VueJusque, Formes
<1> QED BY <1>1, <1>2, <1>3, <1>4 DEF IInv

\* draw_grid (my_ncurses.c:38-104) draws every line, and nothing beside them.
LEMMA TracerEInv == EInv /\ AfficherTirage => EInv'
<1> SUFFICES ASSUME EInv, AfficherTirage PROVE EInv'
  OBVIOUS
<1>1. /\ etat = "pret" /\ etat' = "manche" /\ taille' = taille /\ origine' = origine
      /\ leds' = Octets(forme')
      /\ virtuel' = Peindre(virtuel, origine, Traits, Trait)
      /\ physique' = virtuel'
  BY DEF AfficherTirage, draw_grid
<1>2. TypeEcran
  BY DEF EInv
<1>3. DOMAIN virtuel = Points(taille)
  BY <1>2 DEF TypeEcran
<1>4. /\ virtuel' = [p \in Points(taille) |-> virtuel'[p]]
      /\ \A p \in Points(taille) :
           virtuel'[p] = IF <<Ligne(p), Colonne(p)>> \in Traits
                         THEN Trait(Ligne(p), Colonne(p)) ELSE virtuel[p]
  BY <1>1, <1>3 DEF Peindre, Ligne, Colonne
<1>5. IInv'
  BY TirageIInv DEF AfficherTirage
<1>6. TypeEcran'
  BY <1>1, <1>2, <1>4 DEF TypeEcran
<1>7. Centree'
  BY <1>1 DEF EInv, Centree
<1>8. Pret'
  BY <1>1 DEF Pret
<1>9. ASSUME NEW p \in Points(taille)
      PROVE  /\ ~Dedans(Ligne(p), Colonne(p)) => virtuel'[p] = " "
             /\ Dedans(Ligne(p), Colonne(p)) /\ SurTrait(Ligne(p), Colonne(p))
                  => virtuel'[p] = Trait(Ligne(p), Colonne(p))
  <2>1. Ligne(p) \in Int /\ Colonne(p) \in Int
    BY <1>2, PointEn
  <2>2. <<Ligne(p), Colonne(p)>> \in Traits <=>
          Dedans(Ligne(p), Colonne(p)) /\ SurTrait(Ligne(p), Colonne(p))
    BY <2>1, TraitsEn
  <2>3. ~Dedans(Ligne(p), Colonne(p)) => virtuel[p] = " "
    BY <1>1 DEF EInv, Pret, HorsGrille
  <2> QED BY <1>4, <2>2, <2>3
<1>10. Lignes'
  BY <1>1, <1>9 DEF Lignes, HorsGrille, TraitsEntiers, Ligne, Colonne
<1>11. Images'
  <2>1. pcG' = "melange" \/ (pcG' = "affichage" /\ i' = 0 /\ j' = 0)
    BY DEF AfficherTirage, NouveauTirage
  <2> QED BY <1>1, <2>1, CoteAssumption DEF Images
<1> QED BY <1>5, <1>6, <1>7, <1>8, <1>10, <1>11 DEF EInv

\* The shuffle, which shows nothing (jeu.c:354-360).
LEMMA MelangerEInv == EInv /\ MelangerFormes => EInv'
<1> SUFFICES ASSUME EInv, MelangerFormes PROVE EInv'
  OBVIOUS
<1>1. UNCHANGED ecranVars /\ forme' = forme
  BY DEF MelangerFormes, Melanger, FinMelange
<1>2. UNCHANGED <<etat, taille, origine, virtuel, physique, leds>>
  BY <1>1 DEF ecranVars
<1>3. IInv'
  BY EtapeInv DEF EInv, MelangerFormes, Next
<1>4. TypeEcran' /\ Centree' /\ Pret' /\ Lignes'
  BY <1>2 DEF EInv, TypeEcran, Centree, Pret, Lignes, HorsGrille, TraitsEntiers, SansMarque,
     Ligne, Colonne
<1>5. Images'
  <2>1. pcG' = "melange" \/ (pcG' = "affichage" /\ i' = 0 /\ j' = 0)
    BY DEF MelangerFormes, Melanger, FinMelange
  <2>2. leds' = Octets(forme')
    BY <1>1, <1>2 DEF EInv, Images, MelangerFormes, Octets
  <2> QED BY <2>1, <2>2, CoteAssumption DEF Images
<1> QED BY <1>3, <1>4, <1>5 DEF EInv

\* display_pattern (my_ncurses.c:106-122) writes into its cell, and only there.
LEMMA RemplirEInv == EInv /\ RemplirCellule => EInv'
<1> SUFFICES ASSUME EInv, RemplirCellule PROVE EInv'
  OBVIOUS
<1> USE CoteAssumption
<1> DEFINE octets == Octets(indices[k])
<1>1. /\ i \in 0 .. Cote - 1 /\ j \in 0 .. Cote - 1 /\ k = i * Cote + j
      /\ pcG = "affichage" /\ etat = "manche"
  BY DEF EInv, IInv, Compteurs, RemplirCellule, AfficherCellule
<1>2. /\ taille' = taille /\ origine' = origine /\ physique' = physique
      /\ etat' = etat /\ leds' = leds /\ forme' = forme /\ indices' = indices /\ pcG' = pcG
  BY DEF RemplirCellule, display_pattern, AfficherCellule
<1>3. TypeEcran
  BY DEF EInv
<1>4. DOMAIN virtuel = Points(taille)
  BY <1>3 DEF TypeEcran
<1>5. /\ virtuel' = [p \in Points(taille) |-> virtuel'[p]]
      /\ \A p \in Points(taille) :
           virtuel'[p] = IF <<Ligne(p), Colonne(p)>> \in DansCellule(i, j)
                         THEN convertir_forme(octets, Ligne(p) - Cellule(i, j)[1],
                                              Colonne(p) - Cellule(i, j)[2])
                         ELSE virtuel[p]
  BY <1>1, <1>4 DEF RemplirCellule, display_pattern, DansGrille, Peindre, Ligne, Colonne
<1> HIDE DEF octets
<1>6. IInv'
  BY EtapeInv DEF EInv, RemplirCellule, Next
<1>7. TypeEcran'
  BY <1>2, <1>3, <1>5 DEF TypeEcran
<1>8. Centree' /\ Pret'
  BY <1>1, <1>2 DEF EInv, Centree, Pret
<1>9. ASSUME NEW p \in Points(taille),
             ~Dedans(Ligne(p), Colonne(p)) \/ SurTrait(Ligne(p), Colonne(p))
      PROVE  virtuel'[p] = virtuel[p]
  <2>1. Ligne(p) \in Int /\ Colonne(p) \in Int
    BY <1>3, PointEn
  <2>2. <<Ligne(p), Colonne(p)>> \notin DansCellule(i, j)
    BY <1>1, <1>9, <2>1, CelluleSansTrait
  <2> QED BY <1>5, <2>2
<1>10. Lignes'
  <2>1. HorsGrille(virtuel) /\ TraitsEntiers(virtuel)
    BY <1>1 DEF EInv, Lignes
  <2>2. HorsGrille(virtuel)' /\ TraitsEntiers(virtuel)'
    BY <1>2, <1>9, <2>1 DEF HorsGrille, TraitsEntiers, Ligne, Colonne
  <2>3. HorsGrille(physique)' /\ TraitsEntiers(physique)'
    BY <1>1, <1>2 DEF EInv, Lignes, HorsGrille, TraitsEntiers, Ligne, Colonne
  <2> QED BY <2>2, <2>3 DEF Lignes
<1>11. ASSUME NEW r \in 0 .. Cote - 1, NEW c \in 0 .. Cote - 1, r < i' \/ (r = i' /\ c < j')
       PROVE  Image(virtuel, r, c, Octets(indices[r * Cote + c]))'
  <2>1. r < i \/ (r = i /\ c < j) \/ (r = i /\ c = j)
    BY <1>1, <1>11 DEF RemplirCellule, AfficherCellule, ColonneSuivante
  <2>2. CASE r = i /\ c = j
    <3>1. Octets(indices[r * Cote + c]) = octets
      BY <1>1, <2>2 DEF octets
    <3> QED BY <1>2, <1>5, <2>2, <3>1 DEF Image, Ligne, Colonne, Octets
  <2>3. CASE ~(r = i /\ c = j)
    <3>1. Image(virtuel, r, c, Octets(indices[r * Cote + c]))
      BY <1>1, <2>1, <2>3 DEF EInv, Images
    <3>2. ASSUME NEW p \in Points(taille), <<Ligne(p), Colonne(p)>> \in DansCellule(r, c)
          PROVE  virtuel'[p] = virtuel[p]
      <4>1. Ligne(p) \in Int /\ Colonne(p) \in Int
        BY <1>3, PointEn
      <4>2. <<Ligne(p), Colonne(p)>> \notin DansCellule(i, j)
        BY <1>1, <2>3, <3>2, <4>1, CellulesDisjointes
      <4> QED BY <1>5, <4>2
    <3> QED BY <1>2, <3>1, <3>2 DEF Image, Ligne, Colonne, Octets
  <2> QED BY <2>2, <2>3
<1>12. Images'
  <2>1. leds' = Octets(forme')
    BY <1>1, <1>2 DEF EInv, Images, Octets
  <2> QED BY <1>1, <1>2, <1>11, <2>1 DEF Images
<1> QED BY <1>6, <1>7, <1>8, <1>10, <1>12 DEF EInv

\* refresh_display after the double loop (jeu.c:379, 410): what the player sees
\* is what was written.
LEMMA MontrerEInv == EInv /\ MontrerGrille => EInv'
<1> SUFFICES ASSUME EInv, MontrerGrille PROVE EInv'
  OBVIOUS
<1> USE CoteAssumption
<1>1. /\ taille' = taille /\ origine' = origine /\ virtuel' = virtuel /\ physique' = virtuel
      /\ etat = "manche" /\ etat' = etat /\ leds' = leds
      /\ forme' = forme /\ indices' = indices
      /\ pcG = "affichage" /\ pcG' = "fini" /\ i = Cote
  BY DEF MontrerGrille, refresh_display, FinAffichage
<1>2. IInv'
  BY EtapeInv DEF EInv, MontrerGrille, Next
<1>3. TypeEcran' /\ Centree' /\ Pret'
  BY <1>1 DEF EInv, TypeEcran, Centree, Pret
<1>4. Lignes'
  BY <1>1 DEF EInv, Lignes, HorsGrille, TraitsEntiers, Ligne, Colonne
<1>5. ASSUME NEW r \in 0 .. Cote - 1, NEW c \in 0 .. Cote - 1
      PROVE  Image(physique, r, c, Octets(indices[r * Cote + c]))'
  <2>1. Image(virtuel, r, c, Octets(indices[r * Cote + c]))
    BY <1>1 DEF EInv, Images
  <2> QED BY <1>1, <2>1 DEF Image, Ligne, Colonne, Octets
<1>6. leds' = Octets(forme')
  BY <1>1 DEF EInv, Images, Octets
<1>7. Images'
  BY <1>1, <1>5, <1>6 DEF Images
<1> QED BY <1>2, <1>3, <1>4, <1>7 DEF EInv

\* The loops of clear_cell (jeu.c:75-81, client.c:197-203) reach every cell, so
\* only the lines and blanks are left.
LEMMA EffacerEInv == EInv /\ EffacerAffichage => EInv'
<1> SUFFICES ASSUME EInv, EffacerAffichage PROVE EInv'
  OBVIOUS
<1> USE CoteAssumption, NbFormesAssumption
<1> DEFINE cellules == UNION {DansCellule(c[1], c[2]) : c \in Effacees}
<1>1. /\ etat = "manche" /\ etat' = "pret" /\ taille' = taille /\ origine' = origine
      /\ physique' = virtuel'
  BY DEF EffacerAffichage, clear_cells
<1>2. TypeEcran
  BY DEF EInv
<1>3. DOMAIN virtuel = Points(taille)
  BY <1>2 DEF TypeEcran
<1>4. /\ virtuel' = [p \in Points(taille) |-> virtuel'[p]]
      /\ \A p \in Points(taille) :
           virtuel'[p] = IF <<Ligne(p), Colonne(p)>> \in cellules THEN " " ELSE virtuel[p]
  BY <1>3 DEF EffacerAffichage, clear_cells, Peindre, Ligne, Colonne
<1>5. \A r, c \in 0 .. Cote - 1 : DansCellule(r, c) \subseteq cellules
  <2> SUFFICES ASSUME NEW r \in 0 .. Cote - 1, NEW c \in 0 .. Cote - 1
               PROVE  DansCellule(r, c) \in {DansCellule(e[1], e[2]) : e \in Effacees}
    BY Zenon
  <2>1. <<r, c>> \in Effacees /\ <<r, c>>[1] = r /\ <<r, c>>[2] = c
    BY DEF Effacees
  <2> QED BY <2>1, Zenon
<1> HIDE DEF cellules
<1>6. ASSUME NEW p \in Points(taille)
      PROVE  /\ virtuel'[p] # "x"
             /\ ~Dedans(Ligne(p), Colonne(p)) => virtuel'[p] = " "
  <2>1. Ligne(p) \in Int /\ Colonne(p) \in Int
    BY <1>2, PointEn
  <2>2. CASE ~Dedans(Ligne(p), Colonne(p))
    <3>1. virtuel[p] = " "
      BY <1>1, <2>2 DEF EInv, Lignes, HorsGrille
    <3> QED BY <1>4, <3>1
  <2>3. CASE Dedans(Ligne(p), Colonne(p)) /\ SurTrait(Ligne(p), Colonne(p))
    <3>1. virtuel[p] = Trait(Ligne(p), Colonne(p))
      BY <1>1, <2>3 DEF EInv, Lignes, TraitsEntiers
    <3>2. virtuel[p] # "x"
      BY <2>1, <3>1, TraitSansMarque
    <3> QED BY <1>4, <2>3, <3>2
  <2>4. CASE Dedans(Ligne(p), Colonne(p)) /\ ~SurTrait(Ligne(p), Colonne(p))
    <3>1. <<Ligne(p), Colonne(p)>> \in cellules
      BY <1>5, <2>1, <2>4, SansTraitEnCellule
    <3> QED BY <1>4, <2>4, <3>1
  <2> QED BY <2>2, <2>3, <2>4
<1>7. IInv'
  <2>1. pcG' = "fini" /\ k' = NbFormes /\ i' = i /\ j' = j
    BY DEF EffacerAffichage, EInv, IInv, Compteurs
  <2>2. recue' = TRUE /\ forme' = 0 /\ indices' = Identite /\ position' = 1 /\ choix' = <<>>
    BY DEF EffacerAffichage
  <2>3. TypesGrille'
    <3>1. recue' \in BOOLEAN
      BY <2>2, Zenon
    <3>2. choix' \in Seq(Formes)
      BY <2>2
    <3>3. i' \in 0 .. NbFormes /\ j' \in 0 .. NbFormes
      BY <2>1 DEF EInv, IInv, TypesGrille
    <3>4. /\ pcG' \in Phases /\ forme' \in Formes /\ indices' \in [Formes -> Formes]
          /\ k' \in 0 .. NbFormes /\ position' \in -1 .. NbFormes
      BY <2>1, <2>2, RangDepart DEF Phases
    <3> QED BY <3>1, <3>2, <3>3, <3>4 DEF TypesGrille
  <2>4. ToujoursPermutation' /\ Compteurs'
    BY <2>1, <2>2, RangDepart DEF ToujoursPermutation, Compteurs
  <2>5. (k \in 0 .. NbFormes /\ VueJusque(k))'
    BY <2>1, <2>2, RangDepart DEF VueJusque, Formes
  <2> QED BY <2>3, <2>4, <2>5 DEF IInv
<1>8. TypeEcran'
  BY <1>1, <1>2, <1>4 DEF TypeEcran
<1>9. Centree'
  BY <1>1 DEF EInv, Centree
<1>10. Pret'
  BY <1>1, <1>6 DEF Pret, HorsGrille, SansMarque, Ligne, Colonne
<1>11. Lignes' /\ Images'
  BY <1>1 DEF Lignes, Images
<1> QED BY <1>7, <1>8, <1>9, <1>10, <1>11 DEF EInv

\* endwin (my_ncurses.c:34-36).
LEMMA QuitterEInv == EInv /\ cleanup_ncurses => EInv'
<1> SUFFICES ASSUME EInv, cleanup_ncurses PROVE EInv'
  OBVIOUS
<1>1. /\ etat' = "shell" /\ taille' = taille /\ origine' = <<0, 0>>
      /\ physique' = [p \in Points(taille) |-> "?"] /\ virtuel' = physique'
      /\ UNCHANGED vars
  BY DEF cleanup_ncurses, grilleVars
<1>2. IInv'
  BY <1>1, EtapeInv DEF EInv
<1>3. TypeEcran'
  BY <1>1 DEF EInv, TypeEcran
<1>4. Centree' /\ Lignes' /\ Images'
  BY <1>1 DEF Centree, Lignes, Images
<1>5. Pret'
  BY <1>1 DEF Pret, SansMarque
<1> QED BY <1>2, <1>3, <1>4, <1>5 DEF EInv

LEMMA EtapeEInv == EInv /\ [NextEcran]_<<grilleVars, ecranVars>> => EInv'
<1> SUFFICES ASSUME EInv, [NextEcran]_<<grilleVars, ecranVars>> PROVE EInv'
  OBVIOUS
<1>1. CASE NextEcran
  BY <1>1, DemarrerEInv, TracerEInv, MelangerEInv, RemplirEInv, MontrerEInv, EffacerEInv,
     QuitterEInv DEF NextEcran
<1>2. CASE UNCHANGED <<grilleVars, ecranVars>>
  <2>1. UNCHANGED vars /\ UNCHANGED <<etat, taille, origine, virtuel, physique, leds>>
    BY <1>2 DEF grilleVars, ecranVars
  <2>2. IInv'
    BY <2>1, EtapeInv DEF EInv
  <2>3. TypeEcran' /\ Centree' /\ Pret' /\ Lignes'
    BY <2>1 DEF EInv, TypeEcran, Centree, Pret, Lignes, HorsGrille, TraitsEntiers, SansMarque,
       Ligne, Colonne
  <2>4. Images'
    BY <2>1 DEF EInv, Images, Image, Octets, Ligne, Colonne, vars
  <2> QED BY <2>2, <2>3, <2>4 DEF EInv
<1> QED BY <1>1, <1>2

(* The invariant holds in every state of the display.                      *)
LEMMA InvariantEcran == SpecEcran => []EInv
BY InitEInv, EtapeEInv, PTL DEF SpecEcran

-----------------------------------------------------------------------------
(* Whatever is written into the cells or cleared, the lines of the grid    *)
(* stay whole and nothing is drawn outside of it, on a terminal of any     *)
(* size, also one the grid does not fit in (my_ncurses.c:106-140).         *)
THEOREM GrilleIntacteProuvee == SpecEcran => []GrilleIntacte
<1>1. EInv => GrilleIntacte
  BY DEF EInv, Lignes, GrilleIntacte, HorsGrille, TraitsEntiers, Dedans, Ligne, Colonne
<1> QED BY <1>1, InvariantEcran, PTL

(* Between two rounds no mark of a shape is left on either screen, so the  *)
(* player of the next round never sees a cell of the last one              *)
(* (jeu.c:75-81, client.c:197-203).                                        *)
THEOREM RienNeResteProuve == SpecEcran => []RienNeReste
<1>1. EInv => RienNeReste
  BY DEF EInv, Pret, SansMarque, RienNeReste
<1> QED BY <1>1, InvariantEcran, PTL

-----------------------------------------------------------------------------
(***************************************************************************)
(* The picture on the LED matrix is found in one cell.                     *)
(***************************************************************************)

\* A byte is known by its eight bits.
LEMMA OctetParBits ==
  ASSUME NEW a \in 0 .. 255, NEW b \in 0 .. 255,
         \A x \in 0 .. 7 : BitDe(a, x) = 1 <=> BitDe(b, x) = 1
  PROVE  a = b
<1>1. /\ 2^0 = 1 /\ 2^1 = 2 /\ 2^2 = 4 /\ 2^3 = 8
      /\ 2^4 = 16 /\ 2^5 = 32 /\ 2^6 = 64 /\ 2^7 = 128
  OBVIOUS
<1> QED BY SMTT(60), <1>1 DEF BitDe

\* The table of formes.c holds sixteen times eight bytes.
LEMMA TableDesFormes == \A n \in 1 .. 16 : formes[n] \in [1 .. 8 -> 0 .. 255]
<1> DEFINE Ligne8 == [1 .. 8 -> 0 .. 255]
<1>1. formes[1] \in Ligne8
  BY SMTT(30) DEF formes
<1>2. formes[2] \in Ligne8
  BY SMTT(30) DEF formes
<1>3. formes[3] \in Ligne8
  BY SMTT(30) DEF formes
<1>4. formes[4] \in Ligne8
  BY SMTT(30) DEF formes
<1>5. formes[5] \in Ligne8
  BY SMTT(30) DEF formes
<1>6. formes[6] \in Ligne8
  BY SMTT(30) DEF formes
<1>7. formes[7] \in Ligne8
  BY SMTT(30) DEF formes
<1>8. formes[8] \in Ligne8
  BY SMTT(30) DEF formes
<1>9. formes[9] \in Ligne8
  BY SMTT(30) DEF formes
<1>10. formes[10] \in Ligne8
  BY SMTT(30) DEF formes
<1>11. formes[11] \in Ligne8
  BY SMTT(30) DEF formes
<1>12. formes[12] \in Ligne8
  BY SMTT(30) DEF formes
<1>13. formes[13] \in Ligne8
  BY SMTT(30) DEF formes
<1>14. formes[14] \in Ligne8
  BY SMTT(30) DEF formes
<1>15. formes[15] \in Ligne8
  BY SMTT(30) DEF formes
<1>16. formes[16] \in Ligne8
  BY SMTT(30) DEF formes
<1> HIDE DEF Ligne8
<1>17. \A n \in 1 .. 16 : formes[n] \in Ligne8
  BY <1>1, <1>2, <1>3, <1>4, <1>5, <1>6, <1>7, <1>8, <1>9, <1>10, <1>11, <1>12,
     <1>13, <1>14, <1>15, <1>16
<1> QED BY <1>17 DEF Ligne8

\* Shapes whose bits agree are the same shape (formes.c, FormesDistinctes).
LEMMA FormeParBits ==
  ASSUME NEW a \in Formes, NEW b \in Formes,
         \A y \in 0 .. 7, x \in 0 .. 7 :
           BitDe(Octets(a)[y + 1], x) = 1 <=> BitDe(Octets(b)[y + 1], x) = 1
  PROVE  a = b
<1> DEFINE m == Premiere + a + 1
           n == Premiere + b + 1
<1>1. m \in 1 .. 16 /\ n \in 1 .. 16
  BY EcranAssumption, NbFormesAssumption DEF Formes
<1>2. /\ Octets(a) = formes[m] /\ Octets(b) = formes[n]
  BY DEF Octets
<1>3. formes[m] \in [1 .. 8 -> 0 .. 255] /\ formes[n] \in [1 .. 8 -> 0 .. 255]
  BY <1>1, TableDesFormes
<1> HIDE DEF m, n
<1>4. ASSUME NEW l \in 1 .. 8 PROVE formes[m][l] = formes[n][l]
  <2>1. l - 1 \in 0 .. 7 /\ (l - 1) + 1 = l
    OBVIOUS
  <2>2. \A x \in 0 .. 7 : BitDe(formes[m][l], x) = 1 <=> BitDe(formes[n][l], x) = 1
    BY <1>2, <2>1
  <2>3. formes[m][l] \in 0 .. 255 /\ formes[n][l] \in 0 .. 255
    BY <1>3
  <2> QED BY <2>2, <2>3, OctetParBits
<1>5. formes[m] = formes[n]
  <2> DEFINE f == formes[m]
             g == formes[n]
  <2>1. /\ f \in [1 .. 8 -> 0 .. 255] /\ g \in [1 .. 8 -> 0 .. 255]
        /\ \A l \in 1 .. 8 : f[l] = g[l]
    BY <1>3, <1>4, Zenon
  <2> HIDE DEF f, g
  <2>2. f = g
    BY <2>1
  <2> QED BY <2>2 DEF f, g
<1>6. m = n
  BY <1>1, <1>5, FormesDistinctes
<1> QED BY <1>6, EcranAssumption, NbFormesAssumption DEF m, n, Formes

\* The point p of the terminal is that of row y and column x of a cell.
Place(p, row, col, y, x) ==
  /\ p = A(Cellule(row, col)[1] + y, Cellule(row, col)[2] + x)
  /\ <<Ligne(p), Colonne(p)>> \in DansCellule(row, col)
  /\ Ligne(p) - Cellule(row, col)[1] = y
  /\ Colonne(p) - Cellule(row, col)[2] = x

\* On a terminal that is large enough every point of every cell is on it.
LEMMA ToutVisible ==
  ASSUME EInv, etat = "manche", AssezGrand,
         NEW row \in 0 .. Cote - 1, NEW col \in 0 .. Cote - 1,
         NEW y \in 0 .. 7, NEW x \in 0 .. 7
  PROVE  \E p \in Points(taille) : Place(p, row, col, y, x)
<1> SUFFICES ASSUME NEW p, p = A(Cellule(row, col)[1] + y, Cellule(row, col)[2] + x)
             PROVE  /\ p \in Points(taille)
                    /\ <<Ligne(p), Colonne(p)>> \in DansCellule(row, col)
                    /\ Ligne(p) - Cellule(row, col)[1] = y
                    /\ Colonne(p) - Cellule(row, col)[2] = x
  BY Zenon DEF Place
<1> USE CoteAssumption
<1> DEFINE h == taille[1]
           w == taille[2]
           oy == origine[1]
           ox == origine[2]
           dy == 9 * row + 1 + y
           dx == 9 * col + 1 + x
<1>1. h \in Nat /\ w \in Nat /\ oy \in Int /\ ox \in Int
  BY EcranAssumption DEF EInv, TypeEcran
<1>2. h >= 9 * Cote + 1 /\ w >= 9 * Cote + 1
  BY DEF AssezGrand, grid_height, grid_width, CELL_HEIGHT, CELL_WIDTH
<1>3. oy = (h - (9 * Cote + 1)) \div 2 /\ ox = (w - (9 * Cote + 1)) \div 2
  <2>1. grid_height = 9 * Cote + 1 /\ grid_width = 9 * Cote + 1
    BY DEF grid_height, grid_width, CELL_HEIGHT, CELL_WIDTH
  <2>2. oy = Moitie(h - grid_height) /\ ox = Moitie(w - grid_width)
    BY DEF EInv, Centree
  <2> HIDE DEF h, w, oy, ox
  <2> QED BY <1>1, <1>2, <2>1, <2>2 DEF Moitie
<1>4. /\ dy \in Int /\ dx \in Int /\ dy >= 1 /\ dx >= 1 /\ dy <= 9 * Cote /\ dx <= 9 * Cote
  OBVIOUS
<1>5. oy + dy \in 0 .. h - 1 /\ ox + dx \in 0 .. w - 1
  <2> HIDE DEF h, w, oy, ox, dy, dx
  <2> QED BY <1>1, <1>2, <1>3, <1>4
<1>6. Cellule(row, col)[1] + y = dy /\ Cellule(row, col)[2] + x = dx
  BY DEF Cellule, CELL_HEIGHT, CELL_WIDTH
<1>7. p = <<oy + dy, ox + dx>>
  BY <1>6 DEF A
<1>8. Ligne(p) = dy /\ Colonne(p) = dx
  <2> HIDE DEF dy, dx
  <2>1. p[1] = oy + dy /\ p[2] = ox + dx
    BY <1>7
  <2> QED BY <1>1, <1>4, <2>1 DEF Ligne, Colonne
<1>9. p \in Points(taille)
  BY <1>5, <1>7 DEF Points
<1>10. <<dy, dx>> \in DansCellule(row, col)
  BY DansCelluleEn
<1>11. /\ Ligne(p) - Cellule(row, col)[1] = y
       /\ Colonne(p) - Cellule(row, col)[2] = x
  <2>1. Cellule(row, col)[1] = 9 * row + 1 /\ Cellule(row, col)[2] = 9 * col + 1
    BY DEF Cellule, CELL_HEIGHT, CELL_WIDTH
  <2>2. Ligne(p) = 9 * row + 1 + y /\ Colonne(p) = 9 * col + 1 + x
    BY <1>8
  <2> QED BY <2>1, <2>2
<1> QED BY <1>8, <1>9, <1>10, <1>11, Zenon

(* On a terminal that is large enough the player finds the picture of the  *)
(* LED matrix in the cell whose number the display returned, and in no     *)
(* other: no two shapes of the table look the same (jeu.c:414-423,         *)
(* formes.c), whatever the size of the grid and the shuffle.               *)
THEOREM ImageUniqueProuvee == SpecEcran => []ImageUnique
<1>1. EInv => ImageUnique
  <2> SUFFICES ASSUME EInv, etat = "manche", pcG = "fini", AssezGrand, EstPermutation(indices),
                      NEW row \in 0 .. Cote - 1, NEW col \in 0 .. Cote - 1
               PROVE  Montre(row, col, leds) <=> position = row * Cote + col + 1
    BY DEF ImageUnique, Montree
  <2> DEFINE n == row * Cote + col
             c == Cellule(row, col)
             P(y, x) == A(c[1] + y, c[2] + x)
  <2>1. n \in Formes /\ indices[n] \in Formes /\ forme \in Formes
    BY CelluleDansTableau DEF EInv, IInv, TypesGrille
  <2>2. position = n + 1 <=> indices[n] = forme
    <3>1. PositionExacte
      BY PositionParInv DEF EInv
    <3>2. n + 1 \in 1 .. NbFormes /\ (n + 1) - 1 = n
      <4> HIDE DEF n
      <4> QED BY <2>1, NbFormesAssumption DEF Formes
    <3> HIDE DEF n
    <3> QED BY <3>1, <3>2 DEF PositionExacte
  <2>3. leds = Octets(forme) /\ Image(physique, row, col, Octets(indices[n]))
    BY DEF EInv, Images
  <2>4. ASSUME NEW y \in 0 .. 7, NEW x \in 0 .. 7
        PROVE  /\ Visible(c[1] + y, c[2] + x)
               /\ physique[P(y, x)] = "x" <=> BitDe(Octets(indices[n])[y + 1], x) = 1
    <3>1. PICK q \in Points(taille) : Place(q, row, col, y, x)
      BY ToutVisible
    <3>2. Visible(Cellule(row, col)[1] + y, Cellule(row, col)[2] + x)
      BY <3>1 DEF Visible, Place
    <3>3. physique[q] = convertir_forme(Octets(indices[n]), y, x)
      BY <2>3, <3>1, Zenon DEF Image, Place
    <3>4. physique[q] = "x" <=> BitDe(Octets(indices[n])[y + 1], x) = 1
      BY <3>3 DEF convertir_forme
    <3> QED BY <3>1, <3>2, <3>4, Zenon DEF Place
  <2>5. Montre(row, col, leds) <=>
          \A y \in 0 .. 7, x \in 0 .. 7 :
            BitDe(Octets(indices[n])[y + 1], x) = 1 <=> BitDe(Octets(forme)[y + 1], x) = 1
    <3>1. Montre(row, col, leds) <=>
            \A y \in 0 .. 7, x \in 0 .. 7 :
              /\ Visible(c[1] + y, c[2] + x)
              /\ physique[P(y, x)] = "x" <=> BitDe(leds[y + 1], x) = 1
      BY Zenon DEF Montre, BitDe
    <3> QED BY <2>3, <2>4, <3>1, Zenon
  <2>6. Montre(row, col, leds) <=> indices[n] = forme
    <3>1. ASSUME Montre(row, col, leds) PROVE indices[n] = forme
      <4>1. \A y \in 0 .. 7, x \in 0 .. 7 :
              BitDe(Octets(indices[n])[y + 1], x) = 1 <=> BitDe(Octets(forme)[y + 1], x) = 1
        BY <2>5, <3>1, Zenon
      <4> HIDE DEF n
      <4> QED BY <2>1, <4>1, FormeParBits, Zenon
    <3>2. ASSUME indices[n] = forme PROVE Montre(row, col, leds)
      BY <2>5, <3>2, Zenon
    <3> QED BY <3>1, <3>2
  <2> QED BY <2>2, <2>6, Zenon
<1> QED BY <1>1, InvariantEcran, PTL

=============================================================================
