\* The limits of the code (100 tenths, one second) with two turns of a loop to
\* the tenth; the wall clock is set back or forward by half a second or by two,
\* once.
CONSTANTS
  NbFormes = 2
  Cadence = 2
  Limite = 100
  Latences <- MCLatences
  Sauts <- MCSauts
  MaxSauts = 1
SPECIFICATION Spec
INVARIANTS TypeOK ContactTenu PeripheriquesPrets ChronoSincere VerdictJuste
PROPERTY PartieFinie
