\* The I2C bus may fail when the program starts.
CONSTANTS
  COLS = 2
  MAX_LCDS = 2
  Textes <- MCTextes
  Commandes = {13}
  MaxInits = 1
  MaxMortsLcd = 0
SPECIFICATION SpecLcd
INVARIANT AppelsValides
