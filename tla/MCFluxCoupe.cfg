CONSTANTS
  SIZEOF_INT = 4
  NbFormes = 16
  Coupures = TRUE
  MaxManches = 1
SPECIFICATION Spec
INVARIANT OrdreRecu
