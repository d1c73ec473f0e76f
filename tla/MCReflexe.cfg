\* Three players for two places, two rounds, one client killed.
CONSTANTS
  Clients = {a, b, c}
  Descripteurs = {4, 5, 6}
  MAX_CLIENTS = 2
  NbFormes = 1
  Durees = {30}
  Residus = {49}
  MaxParties = 2
  MaxPannes = 1
SPECIFICATION Spec
INVARIANTS TypeServeur LectureAlignee Barriere
PROPERTY PersonneChassee
SYMMETRY Symetrie
