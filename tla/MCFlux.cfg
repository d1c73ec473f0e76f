CONSTANTS
  SIZEOF_INT = 4
  NbFormes = 16
  Coupures = FALSE
  MaxManches = 5
SPECIFICATION Spec
INVARIANTS UniteExacte
PROPERTY ImplementeCanal
