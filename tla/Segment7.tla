------------------------------ MODULE Segment7 ------------------------------
(***************************************************************************)
(* lib/my_7_segment.c: four digits behind an HT16K33 on the I2C bus.  A    *)
(* function of the driver is one action; maj_affichage writes the whole    *)
(* buffer to the chip, so what the chip shows after a call is the buffer   *)
(* at the last call of maj_affichage in it.  The chip keeps its state when *)
(* the process ends or is killed, and the next one finds it so.            *)
(*                                                                         *)
(* A cell of display_buffer is a set of segments: the letters of the digit *)
(* and "." for the decimal point; in cell 2, ":" for the colon.            *)
(***************************************************************************)
EXTENDS Integers, Sequences, FiniteSets

CONSTANTS
  Nombres,    \* the arguments of segment7_afficher_nombre
  ChiffresEcrits,   \* the digits given to segment7_ecrire_chiffre
  MaxAppels7   \* bound: the calls of the processes that follow each other

ASSUME Segment7Assumption ==
  /\ Nombres \subseteq Int /\ ChiffresEcrits \subseteq Int /\ MaxAppels7 \in Nat

VARIABLES
  i2c_fd,          \* -1, or open
  display_buffer,  \* the cells of the process
  ram, osc, allume, niveau,  \* the chip: its cells, oscillator, display, dimming
  appels,          \* for the bound
  demande,         \* auxiliary: <<n>> when the number n was asked for last
  points           \* auxiliary: the positions whose point is asked for

vars7 == <<i2c_fd, display_buffer, ram, osc, allume, niveau, appels, demande, points>>
demandes == <<demande, points>>
puce7 == <<ram, osc, allume, niveau>>

MAX_DIGITS == 4
Cases == 0 .. 7
POSITION_MAP == [p \in 0 .. 3 |-> <<0, 1, 3, 4>>[p + 1]]
Ferme == -1
Ouvert == 3

DIGIT_SEGMENTS ==
  [n \in 0 .. 9 |->
    << {"a", "b", "c", "d", "e", "f"}, {"b", "c"}, {"a", "b", "d", "e", "g"},
       {"a", "b", "c", "d", "g"}, {"b", "c", "f", "g"}, {"a", "c", "d", "f", "g"},
       {"a", "c", "d", "e", "f", "g"}, {"a", "b", "c"},
       {"a", "b", "c", "d", "e", "f", "g"}, {"a", "b", "c", "d", "f", "g"} >>[n + 1]]
MOINS == {"g"}

Eteint == [i \in Cases |-> {}]

\* A process that has not called segment7_init, and the chip after power-up.
Init7 ==
  /\ i2c_fd = Ferme /\ display_buffer = Eteint
  /\ ram = Eteint /\ osc = FALSE /\ allume = FALSE /\ niveau = 15
  /\ appels = 0 /\ demande = <<>> /\ points = {}

-----------------------------------------------------------------------------
(***************************************************************************)
(* Internal functions.                                                     *)
(***************************************************************************)

\* The chip's cells once maj_affichage has sent the buffer buf.
maj_affichage(buf) == IF i2c_fd = Ferme THEN ram ELSE buf

\* The buffer after segment7_ecrire_chiffre.
AvecChiffre(buf, p, v) ==
  IF p \in 0 .. MAX_DIGITS - 1 /\ v \in 0 .. 9
  THEN [buf EXCEPT ![POSITION_MAP[p]] = DIGIT_SEGMENTS[v] \cup (@ \cap {"."})]
  ELSE buf

Basculer(S, e, actif) == IF actif THEN S \cup {e} ELSE S \ {e}

\* Mutant: the first position is not used for the sign.
SigneSansPremier(n, p) == n < 0 /\ p > 0
\* There is room for the sign at position p.
SignePlace(n, p) == n < 0 /\ p >= 0

Abs(n) == IF n < 0 THEN -n ELSE n

\* A turn of the loop of segment7_afficher_nombre: what is left of the number,
\* the buffer and the position, which goes from the right to the left.
Tour(g) ==
  IF g.reste > 0 /\ g.pos >= 0
  THEN [reste |-> g.reste \div 10, buf |-> AvecChiffre(g.buf, g.pos, g.reste % 10),
        pos |-> g.pos - 1]
  ELSE g
\* The loop, which has no more than MAX_DIGITS turns.
Boucle(n) == Tour(Tour(Tour(Tour([reste |-> Abs(n), buf |-> Eteint, pos |-> MAX_DIGITS - 1]))))

\* The buffer that segment7_afficher_nombre leaves.
BufferNombre(n) ==
  LET b == Boucle(n)
  IN  CASE n = 0 -> AvecChiffre(Eteint, MAX_DIGITS - 1, 0)
        [] SignePlace(n, b.pos) -> [b.buf EXCEPT ![POSITION_MAP[b.pos]] = MOINS]
        [] OTHER -> b.buf

-----------------------------------------------------------------------------
(***************************************************************************)
(* Public functions.                                                       *)
(***************************************************************************)
Appel7 == appels < MaxAppels7 /\ appels' = appels + 1

\* Mutant: the display is not cleared when it starts.
RamAuDemarrage == ram
\* segment7_effacer at the end of segment7_init.
RamApresInit == Eteint

\* The bus fails, or the chip is woken up, lit, set to full brightness and
\* cleared.  No program calls it twice without segment7_cleanup.
segment7_init ==
  /\ i2c_fd = Ferme /\ Appel7
  /\ \/ UNCHANGED <<i2c_fd, display_buffer, puce7, demandes>>
     \/ /\ i2c_fd' = Ouvert
        /\ osc' = TRUE /\ allume' = TRUE /\ niveau' = 15
        /\ display_buffer' = Eteint
        /\ ram' = RamApresInit
        /\ demande' = <<>> /\ points' = {}

Borne7(n) == IF n > 15 THEN 15 ELSE IF n < 0 THEN 0 ELSE n

segment7_luminosite(n) ==
  /\ Appel7
  /\ niveau' = IF i2c_fd = Ferme THEN niveau ELSE Borne7(n)
  /\ UNCHANGED <<i2c_fd, display_buffer, ram, osc, allume, demandes>>

\* The buffer becomes buf and is shown.
Montrer(buf) ==
  /\ Appel7
  /\ display_buffer' = buf
  /\ ram' = maj_affichage(buf)
  /\ UNCHANGED <<i2c_fd, osc, allume, niveau>>

segment7_effacer == Montrer(Eteint) /\ demande' = <<>> /\ points' = {}

segment7_ecrire_chiffre(p, v) ==
  /\ p \in 0 .. MAX_DIGITS - 1 /\ v \in 0 .. 9
  /\ Montrer(AvecChiffre(display_buffer, p, v))
  /\ demande' = <<>> /\ UNCHANGED points

\* The tests of the bounds of ecrire_chiffre and decimal: nothing is done.
HorsLimites(p, v) ==
  /\ ~(p \in 0 .. MAX_DIGITS - 1 /\ v \in 0 .. 9)
  /\ Appel7
  /\ UNCHANGED <<i2c_fd, display_buffer, puce7, demandes>>

segment7_decimal(p, actif) ==
  /\ Montrer([display_buffer EXCEPT ![POSITION_MAP[p]] = Basculer(@, ".", actif)])
  /\ points' = Basculer(points, p, actif) /\ UNCHANGED demande

segment7_deuxpoints(actif) ==
  /\ Montrer([display_buffer EXCEPT ![2] = Basculer(@, ":", actif)])
  /\ UNCHANGED demandes

segment7_afficher_nombre(n) == Montrer(BufferNombre(n)) /\ demande' = <<n>> /\ points' = {}

\* Mutant: the descriptor is closed first, and nothing more reaches the chip.
FermetureTropTot == UNCHANGED <<ram, osc, allume>>
\* The display is cleared, then the chip is put to sleep and switched off.
Sommeil == ram' = maj_affichage(Eteint)
           /\ osc' = (osc /\ i2c_fd = Ferme) /\ allume' = (allume /\ i2c_fd = Ferme)

segment7_cleanup ==
  /\ Appel7
  /\ Sommeil
  /\ display_buffer' = Eteint
  /\ i2c_fd' = Ferme
  /\ demande' = <<>> /\ points' = {}
  /\ UNCHANGED niveau

\* The process is killed and the chip stays as it is; another process follows.
Tuer7 ==
  /\ i2c_fd = Ouvert
  /\ i2c_fd' = Ferme /\ display_buffer' = Eteint
  /\ demande' = <<>> /\ points' = {}
  /\ UNCHANGED <<puce7, appels>>

Fin7 == appels = MaxAppels7 /\ UNCHANGED vars7

Next7 ==
  \/ Fin7 \/ Tuer7
  \/ segment7_init \/ segment7_effacer \/ segment7_cleanup
  \/ \E n \in {-1, 3, 16} : segment7_luminosite(n)
  \/ \E p \in -1 .. MAX_DIGITS, v \in ChiffresEcrits : segment7_ecrire_chiffre(p, v) \/ HorsLimites(p, v)
  \/ \E p \in 0 .. MAX_DIGITS - 1, b \in BOOLEAN : segment7_decimal(p, b)
  \/ \E b \in BOOLEAN : segment7_deuxpoints(b)
  \/ \E n \in Nombres : segment7_afficher_nombre(n)

Spec7 == Init7 /\ [][Next7]_vars7

-----------------------------------------------------------------------------
(***************************************************************************)
(* Properties.                                                             *)
(***************************************************************************)
\* What a person reads at position p of the display: a digit, the sign, blank.
Signe(p) == ram[POSITION_MAP[p]] \ {"."}
ChiffreLu(p) == CHOOSE v \in 0 .. 9 : DIGIT_SEGMENTS[v] = Signe(p)
EstChiffre(p) == \E v \in 0 .. 9 : DIGIT_SEGMENTS[v] = Signe(p)

\* The number a person reads: leading blanks, a sign, then digits only.
LuComme(n) ==
  \E p \in 0 .. MAX_DIGITS - 1 :
    /\ \A q \in 0 .. MAX_DIGITS - 1 :
         /\ q >= p => EstChiffre(q)
         /\ q = p - 1 /\ n < 0 => Signe(q) = MOINS
         /\ q < p - (IF n < 0 THEN 1 ELSE 0) => Signe(q) = {}
    /\ n < 0 => p > 0
    /\ LET D(q) == IF q >= p THEN ChiffreLu(q) ELSE 0
       IN  Abs(n) = 1000 * D(0) + 100 * D(1) + 10 * D(2) + D(3)
    /\ p < MAX_DIGITS - 1 => ChiffreLu(p) # 0

\* The numbers that fit, and the last four digits of another.
Affichables == -999 .. 9999
QuatreDerniers(n) ==
  \A p \in 0 .. 3 : EstChiffre(p) /\ ChiffreLu(p) = (Abs(n) \div 10^(3 - p)) % 10

\* What segment7_afficher_nombre was asked to show is what is read on the four
\* digits, from -999 to 9999, also after points and colons were set or cleared
\* (my_7_segment.c:114-117, 153-180); a larger number shows its last four
\* digits, and one below -999 loses its sign.
NombreLisible ==
  i2c_fd = Ouvert /\ demande # <<>> =>
    LET n == demande[1]
    IN  IF n \in Affichables THEN LuComme(n) ELSE QuatreDerniers(n)

\* The chip shows the buffer after every call, whatever another process had
\* left on it before segment7_init, is awake and has a brightness it can hold
\* (my_7_segment.c:64-92); a point that was set stays while the digit beside it
\* is written again, and goes with the next number (my_7_segment.c:114-117, 155).
PuceAJour ==
  i2c_fd = Ouvert =>
    /\ ram = display_buffer /\ osc /\ allume /\ niveau \in 0 .. 15
    /\ {p \in 0 .. MAX_DIGITS - 1 : "." \in ram[POSITION_MAP[p]]} = points

\* A program that ends by segment7_cleanup (a call, other than a kill) leaves
\* the chip dark and asleep (my_7_segment.c:185-200).
PuceEndormie ==
  [][i2c_fd = Ouvert /\ i2c_fd' = Ferme /\ appels' # appels
       => ram' = Eteint /\ ~osc' /\ ~allume']_vars7
=============================================================================
