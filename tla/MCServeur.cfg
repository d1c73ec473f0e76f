\* Three peers for three slots: losses, any confirmations and choices, and a
\* newcomer that is given the descriptor number the slot of a lost one still holds.
CONSTANTS
  Clients = {a, b, c}
  Descripteurs = {4, 5, 6}
  MAX_CLIENTS = 3
  NbFormes = 1
  Messages <- MCMessages
  MaxFlux = 1
SPECIFICATION SpecOuvert
INVARIANTS DescripteursSains JamaisBloque RejoueurGarde
SYMMETRY Symetrie
CHECK_DEADLOCK FALSE
