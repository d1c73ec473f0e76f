CONSTANTS
  Clients = {a, b}
  Descripteurs = {4, 5}
  MAX_CLIENTS = 2
  NbFormes = 1
  Durees = {30}
  Residus = {0, 49}
  MaxParties = 1
  MaxPannes = 1
SPECIFICATION Spec
INVARIANT ServeurSurvit
