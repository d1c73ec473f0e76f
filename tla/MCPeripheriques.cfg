\* LCD: texts of one to four characters on two columns, a process killed once
\* between any two strobes.  Seven segments: five calls.  LEDs: a process killed
\* once between any two edges.  Buttons: waits without a timeout and with one of
\* two turns of the loop.
CONSTANTS
  COLS = 2
  MAX_LCDS = 2
  Textes <- MCTextes
  Commandes = {13}
  MaxInits = 2
  MaxMortsLcd = 1
  Nombres <- MCNombres
  ChiffresEcrits = {0, 5, 10}
  MaxAppels7 = 5
  LIGNES = 2
  Motifs <- MCMotifs
  MaxMortsLed = 1
  Cote = 2
  Delais = {0, 15}
SPECIFICATION Spec
INVARIANTS AccordLcd EcranFidele DeuxLignes
INVARIANTS NombreLisible PuceAJour
INVARIANTS TrameEntiere MotifAffiche
INVARIANTS BoutonReel BoutonSeulTrouve AttenteBornee
PROPERTY PuceEndormie
