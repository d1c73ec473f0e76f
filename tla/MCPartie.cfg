\* Two players, two rounds, two shapes, right and wrong answers, in time and
\* too late, one client killed.
CONSTANTS
  Clients = {a, b}
  Descripteurs = {4, 5}
  MAX_CLIENTS = 2
  NbFormes = 2
  Durees = {30, 101}
  Residus = {49}
  MaxParties = 2
  MaxPannes = 1
SPECIFICATION SpecEquitable
INVARIANTS BilanExact MemeTirage ResultatsCoherents MessageTient
PROPERTIES AttenteFinie MancheFinie ImplementeManches
