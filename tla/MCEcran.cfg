\* The triangles that point left and right, the circle and the diamond.
CONSTANTS
  NbFormes = 4
  Cote = 2
  Premiere = 6
  Tailles <- MCTailles
SPECIFICATION SpecEcran
INVARIANTS TypeOK ToujoursPermutation PositionExacte TirageEquitable
INVARIANTS GrilleIntacte ImageUnique RienNeReste
