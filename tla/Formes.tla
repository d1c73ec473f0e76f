------------------------------- MODULE Formes -------------------------------
(***************************************************************************)
(* The shapes of the game, as far as the rules need them: formes.c holds   *)
(* 16 shapes, a shape is named by its index, and a draw is a shape to look *)
(* for and the order in which all the shapes fill the grid.                *)
(***************************************************************************)
EXTENDS Integers

CONSTANT NbFormes   \* the 16 of formes[16][8], rand() % 16 and indices[16]

ASSUME NbFormesAssumption == NbFormes \in Nat \ {0}

Formes == 0 .. NbFormes - 1

\* Every shape is in exactly one cell of the grid.
EstPermutation(f) ==
  /\ f \in [Formes -> Formes]
  /\ \A v \in Formes : \E k \in Formes : f[k] = v
  /\ \A k, l \in Formes : f[k] = f[l] => k = l

Ordres == {f \in [Formes -> Formes] : EstPermutation(f)}

\* What afficher_grille_predefinie returns: the number (from 1) of the last
\* cell that holds the shape, -1 when no cell does.  The array comes off the
\* network and need not be a permutation.
DerniereCase(forme, indices, k) ==
  /\ indices[k] = forme
  /\ \A l \in Formes : l > k => indices[l] # forme

PositionForme(forme, indices) ==
  IF \E k \in Formes : indices[k] = forme
  THEN 1 + (CHOOSE k \in Formes : DerniereCase(forme, indices, k))
  ELSE -1

=============================================================================
