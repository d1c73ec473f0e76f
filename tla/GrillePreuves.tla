--------------------------- MODULE GrillePreuves ---------------------------
(***************************************************************************)
(* Proofs about module Grille, for a grid of any size.                     *)
(***************************************************************************)
EXTENDS Grille, TLAPS

(***************************************************************************)
(* The inductive invariant.  Besides the properties it says where the      *)
(* counters are, and what is known of position_forme after k cells: it is  *)
(* the last cell seen with the shape, or -1 when there was none.           *)
(***************************************************************************)
VueJusque(n) ==
  \/ /\ position = -1
     /\ \A l \in Formes : l < n => indices[l] # forme
  \/ /\ position \in 1 .. n
     /\ indices[position - 1] = forme
     /\ \A l \in Formes : l < n /\ l > position - 1 => indices[l] # forme

Compteurs ==
  /\ pcG = "melange" =>
       recue = FALSE /\ i \in 0 .. NbFormes - 1 /\ j = 0 /\ k = 0 /\ position = -1
  /\ pcG = "affichage" =>
       i \in 0 .. Cote /\ j \in 0 .. Cote - 1 /\ (i = Cote => j = 0) /\ k = i * Cote + j
  /\ pcG = "fini" => k = NbFormes

IInv ==
  /\ TypesGrille
  /\ ToujoursPermutation
  /\ Compteurs
  /\ k \in 0 .. NbFormes
  /\ VueJusque(k)

-----------------------------------------------------------------------------
(* Exchanging two cells keeps a permutation a permutation (indices[i] and *)
(* indices[j] in the shuffle).                                             *)
LEMMA EchangePermutation ==
  ASSUME NEW f, EstPermutation(f), NEW a \in Formes, NEW b \in Formes
  PROVE  EstPermutation(Echange(f, a, b))
<1> DEFINE g == Echange(f, a, b)
<1>1. /\ g \in [Formes -> Formes]
      /\ \A n \in Formes : g[n] = IF n = b THEN f[a] ELSE IF n = a THEN f[b] ELSE f[n]
  BY DEF EstPermutation, Echange
<1> HIDE DEF g
<1>2. ASSUME NEW v \in Formes PROVE \E n \in Formes : g[n] = v
  <2>1. PICK n \in Formes : f[n] = v
    BY DEF EstPermutation
  <2>2. CASE n = a
    BY <1>1, <2>1, <2>2
  <2>3. CASE n = b
    BY <1>1, <2>1, <2>3
  <2>4. CASE n # a /\ n # b
    BY <1>1, <2>1, <2>4
  <2> QED BY <2>2, <2>3, <2>4
<1>3. ASSUME NEW n \in Formes, NEW l \in Formes, g[n] = g[l] PROVE n = l
  BY <1>1, <1>3 DEF EstPermutation
<1>4. EstPermutation(g)
  BY <1>1, <1>2, <1>3 DEF EstPermutation
<1> QED BY <1>4 DEF g

(* The cell in row a and column b is a cell of the array.                  *)
LEMMA CelluleDansTableau ==
  ASSUME NEW a \in 0 .. Cote - 1, NEW b \in 0 .. Cote - 1
  PROVE  /\ a * Cote + b \in Formes
         /\ b = Cote - 1 => a * Cote + b + 1 = (a + 1) * Cote + 0
<1>1. Cote \in Nat /\ a \in Nat /\ b \in Nat /\ a + 1 <= Cote /\ b + 1 <= Cote
  BY CoteAssumption
<1>2. (a + 1) * Cote <= Cote * Cote
  BY <1>1
<1>3. (a + 1) * Cote = a * Cote + Cote
  BY <1>1
<1>4. a * Cote \in Nat
  BY <1>1
<1> QED BY <1>1, <1>2, <1>3, <1>4, CoteAssumption, NbFormesAssumption DEF Formes

(* The last cell with the shape is unique: it is what the CHOOSE of        *)
(* PositionForme returns.                                                  *)
LEMMA DerniereCaseUnique ==
  ASSUME NEW f \in [Formes -> Formes], NEW v, NEW n \in Formes, DerniereCase(v, f, n)
  PROVE  PositionForme(v, f) = 1 + n
<1>1. \A l \in Formes : DerniereCase(v, f, l) => l = n
  BY NbFormesAssumption DEF DerniereCase, Formes
<1>2. (CHOOSE l \in Formes : DerniereCase(v, f, l)) = n
  BY <1>1
<1>3. \E l \in Formes : f[l] = v
  BY DEF DerniereCase
<1> QED BY <1>2, <1>3 DEF PositionForme

-----------------------------------------------------------------------------
\* The invariant holds before the shuffle (jeu.c:347-350).
LEMMA InitInv == Init => IInv
<1> SUFFICES ASSUME Init PROVE IInv
  OBVIOUS
<1>1. Identite \in [Formes -> Formes] /\ EstPermutation(Identite)
  BY DEF Identite, EstPermutation
<1>2. TypesGrille
  <2>1. recue \in BOOLEAN
    BY Zenon DEF Init
  <2>2. choix \in Seq(Formes)
    BY DEF Init
  <2>3. /\ pcG \in Phases /\ forme \in Formes /\ indices \in [Formes -> Formes]
        /\ i \in 0 .. NbFormes /\ j \in 0 .. NbFormes /\ k \in 0 .. NbFormes
        /\ position \in -1 .. NbFormes
    BY <1>1, NbFormesAssumption, CoteAssumption DEF Init, Phases
  <2> QED BY <2>1, <2>2, <2>3 DEF TypesGrille
<1>3. ToujoursPermutation
  BY <1>1 DEF Init, ToujoursPermutation
<1>4. Compteurs
  BY NbFormesAssumption, CoteAssumption DEF Init, Compteurs
<1>5. k \in 0 .. NbFormes /\ VueJusque(k)
  BY NbFormesAssumption DEF Init, VueJusque, Formes
<1> QED BY <1>2, <1>3, <1>4, <1>5 DEF IInv

\* One exchange of the shuffle preserves it (jeu.c:354-360).
LEMMA MelangerInv == IInv /\ Melanger => IInv'
<1> SUFFICES ASSUME IInv, Melanger PROVE IInv'
  OBVIOUS
<1> USE NbFormesAssumption
<1>1. PICK r \in 0 .. i : indices' = Echange(indices, i, r) /\ choix' = Append(choix, r)
  BY DEF Melanger, Tirages
<1>2. r \in Formes /\ i \in Formes /\ recue = FALSE
  BY DEF IInv, Compteurs, Melanger, TypesGrille, Formes
<1>3. EstPermutation(indices')
  BY <1>1, <1>2, EchangePermutation DEF IInv, ToujoursPermutation
<1>4. TypesGrille'
  <2>1. choix' \in Seq(Formes)
    BY <1>1, <1>2 DEF IInv, TypesGrille
  <2>2. i' \in 0 .. NbFormes
    BY DEF IInv, TypesGrille, Melanger
  <2> QED BY <1>3, <2>1, <2>2 DEF IInv, TypesGrille, Melanger, EstPermutation
<1>5. ToujoursPermutation'
  BY <1>3 DEF ToujoursPermutation
<1>6. Compteurs'
  BY DEF IInv, Compteurs, Melanger
<1>7. (k \in 0 .. NbFormes /\ VueJusque(k))'
  BY DEF IInv, Compteurs, Melanger, VueJusque, Formes
<1> QED BY <1>4, <1>5, <1>6, <1>7 DEF IInv

\* The display of one cell preserves it (jeu.c:365-377).
LEMMA AfficherInv == IInv /\ AfficherCellule => IInv'
<1> SUFFICES ASSUME IInv, AfficherCellule PROVE IInv'
  OBVIOUS
<1> USE NbFormesAssumption, CoteAssumption
<1>1. i \in 0 .. Cote - 1 /\ j \in 0 .. Cote - 1 /\ k = i * Cote + j
  BY DEF IInv, Compteurs, AfficherCellule
<1>2. k \in Formes /\ (j = Cote - 1 => k + 1 = (i + 1) * Cote + 0)
  BY <1>1, CelluleDansTableau
<1>3. position' = (IF indices[k] = forme THEN k + 1 ELSE position) /\ k' = k + 1
  BY <1>1 DEF AfficherCellule, PositionVue
<1>4. TypesGrille'
  <2>1. i' \in 0 .. NbFormes /\ j' \in 0 .. NbFormes
    <3>1. Cote <= NbFormes
      BY CoteAssumption
    <3> QED BY <1>1, <3>1 DEF AfficherCellule, ColonneSuivante
  <2>2. k' \in 0 .. NbFormes /\ position' \in -1 .. NbFormes
    BY <1>2, <1>3 DEF IInv, TypesGrille, Formes
  <2> QED BY <2>1, <2>2 DEF IInv, TypesGrille, AfficherCellule
<1>5. ToujoursPermutation'
  BY DEF IInv, ToujoursPermutation, AfficherCellule
<1>6. Compteurs'
  <2>1. CASE j < Cote - 1
    <3>1. i' = i /\ j' = j + 1
      BY <2>1 DEF AfficherCellule, ColonneSuivante
    <3>2. k' = i' * Cote + j'
      BY <1>1, <1>3, <3>1
    <3> QED BY <1>1, <2>1, <3>1, <3>2 DEF Compteurs, AfficherCellule, IInv
  <2>2. CASE j = Cote - 1
    <3>1. i' = i + 1 /\ j' = 0
      BY <1>1, <2>2 DEF AfficherCellule, ColonneSuivante
    <3>2. k' = i' * Cote + j'
      BY <1>2, <1>3, <2>2, <3>1
    <3> QED BY <1>1, <3>1, <3>2 DEF Compteurs, AfficherCellule, IInv
  <2> QED BY <1>1, <2>1, <2>2
<1>7. (k \in 0 .. NbFormes)'
  BY <1>2, <1>3 DEF Formes
<1>8. VueJusque(k)'
  <2>1. forme' = forme /\ indices' = indices
    BY DEF AfficherCellule
  <2>2. CASE indices[k] = forme
    BY <1>2, <1>3, <2>1, <2>2 DEF VueJusque, Formes
  <2>3. CASE indices[k] # forme
    BY <1>2, <1>3, <2>1, <2>3 DEF IInv, VueJusque, Formes
  <2> QED BY <2>2, <2>3
<1> QED BY <1>4, <1>5, <1>6, <1>7, <1>8 DEF IInv

\* Every step, stuttering included, preserves it.
LEMMA EtapeInv == IInv /\ [Next]_vars => IInv'
<1> SUFFICES ASSUME IInv, [Next]_vars PROVE IInv'
  OBVIOUS
<1>1. CASE Melanger
  BY <1>1, MelangerInv
<1>2. CASE FinMelange
  <2> USE NbFormesAssumption, CoteAssumption DEF FinMelange
  <2>1. TypesGrille' /\ ToujoursPermutation'
    BY <1>2 DEF IInv, TypesGrille, Phases, ToujoursPermutation
  <2>2. Compteurs'
    BY <1>2 DEF IInv, Compteurs
  <2>3. (k \in 0 .. NbFormes /\ VueJusque(k))'
    BY <1>2 DEF IInv, Compteurs, VueJusque, Formes
  <2> QED BY <2>1, <2>2, <2>3 DEF IInv
<1>3. CASE AfficherCellule
  BY <1>3, AfficherInv
<1>4. CASE FinAffichage
  <2> USE NbFormesAssumption, CoteAssumption DEF FinAffichage
  <2>1. TypesGrille' /\ ToujoursPermutation'
    BY <1>4 DEF IInv, TypesGrille, Phases, ToujoursPermutation
  <2>2. Compteurs'
    BY <1>4 DEF IInv, Compteurs
  <2>3. (k \in 0 .. NbFormes /\ VueJusque(k))'
    BY <1>4 DEF IInv, VueJusque
  <2> QED BY <2>1, <2>2, <2>3 DEF IInv
<1>5. CASE UNCHANGED vars
  BY <1>5 DEF IInv, TypesGrille, ToujoursPermutation, Compteurs, VueJusque, vars
<1> QED BY <1>1, <1>2, <1>3, <1>4, <1>5 DEF Next

(* The invariant holds in every state of the draw and of the display.      *)
LEMMA InvariantGrille == Spec => []IInv
<1> QED BY InitInv, EtapeInv, PTL DEF Spec

-----------------------------------------------------------------------------
(* Types: the loops of jeu.c:335-412 never leave their ranges.             *)
THEOREM TypeGrille == Spec => []TypeOK
<1>1. IInv => TypeOK
  <2>1. ASSUME IInv, pcG = "affichage"
        PROVE  k = i * Cote + j /\ (i < Cote => k < NbFormes)
    <3>1. i \in 0 .. Cote /\ j \in 0 .. Cote - 1 /\ k = i * Cote + j
      BY <2>1 DEF IInv, Compteurs
    <3>2. ASSUME i < Cote PROVE k \in Formes
      BY <3>1, <3>2, CelluleDansTableau, CoteAssumption
    <3> QED BY <3>1, <3>2, NbFormesAssumption DEF Formes
  <2> QED BY <2>1 DEF IInv, TypeOK
<1> QED BY <1>1, InvariantGrille, PTL

(* The shuffle of jeu.c:354-360 and serveur.c:210-216 never loses and never *)
(* repeats a shape, whatever the random values.                             *)
THEOREM PermutationGrille == Spec => []ToujoursPermutation
<1>1. IInv => ToujoursPermutation
  BY DEF IInv
<1> QED BY <1>1, InvariantGrille, PTL

(* The invariant gives what the two functions return (jeu.c:363-412): the   *)
(* last cell with the shape is the value of PositionForme, and the only one *)
(* of a permutation.                                                        *)
LEMMA PositionParInv == IInv => PositionExacte
<1> SUFFICES ASSUME IInv, pcG = "fini"
             PROVE  /\ position = PositionForme(forme, indices)
                    /\ EstPermutation(indices) =>
                         \A rep \in 1 .. NbFormes :
                           rep = position <=> indices[rep - 1] = forme
  BY DEF PositionExacte
<1> USE NbFormesAssumption
<1>1. VueJusque(NbFormes) /\ indices \in [Formes -> Formes] /\ forme \in Formes
  BY DEF IInv, Compteurs, TypesGrille
<1>2. CASE \E l \in Formes : indices[l] = forme
  <2>1. /\ position \in 1 .. NbFormes
        /\ indices[position - 1] = forme
        /\ \A l \in Formes : l > position - 1 => indices[l] # forme
    BY <1>1, <1>2 DEF VueJusque, Formes
  <2>2. position - 1 \in Formes /\ DerniereCase(forme, indices, position - 1)
    BY <2>1 DEF DerniereCase, Formes
  <2>3. position = PositionForme(forme, indices)
    BY <1>1, <2>1, <2>2, DerniereCaseUnique
  <2>4. ASSUME EstPermutation(indices), NEW rep \in 1 .. NbFormes
        PROVE  rep = position <=> indices[rep - 1] = forme
    <3>1. rep - 1 \in Formes
      BY DEF Formes
    <3>2. indices[rep - 1] = forme => rep - 1 = position - 1
      BY <2>1, <2>2, <2>4, <3>1 DEF EstPermutation
    <3> QED BY <2>1, <3>2
  <2> QED BY <2>3, <2>4
<1>3. CASE \A l \in Formes : indices[l] # forme
  <2>1. position = -1
    <3>1. ASSUME position # -1 PROVE FALSE
      <4>1. position \in 1 .. NbFormes /\ indices[position - 1] = forme
        BY <1>1, <3>1 DEF VueJusque
      <4>2. position - 1 \in Formes
        BY <4>1 DEF Formes
      <4> QED BY <1>3, <4>1, <4>2
    <3> QED BY <3>1
  <2>2. position = PositionForme(forme, indices)
    BY <1>3, <2>1 DEF PositionForme
  <2>3. ~EstPermutation(indices)
    BY <1>1, <1>3 DEF EstPermutation
  <2> QED BY <2>2, <2>3
<1> QED BY <1>2, <1>3

(* The position that afficher_grille and afficher_grille_predefinie return *)
(* is that of the shape, and with a permutation it is the only right       *)
(* button, for a grid of any size and for any order received.              *)
THEOREM PositionGrille == Spec => []PositionExacte
BY PositionParInv, InvariantGrille, PTL

=============================================================================
