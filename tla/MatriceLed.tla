----------------------------- MODULE MatriceLed -----------------------------
(***************************************************************************)
(* lib/my_matrice_led.c: the LED matrix behind a MAX7219, driven bit by    *)
(* bit.  A function of the driver is an action that gives the commands it  *)
(* sends, in order; Selectionner, Horloge and Charger then move the three  *)
(* pins, and the process may die between any two of these steps.  The chip *)
(* (its shift register and its registers) outlives the process.            *)
(*                                                                         *)
(* A line of LEDs is a byte; the delays are left out.                      *)
(***************************************************************************)
EXTENDS Integers, Sequences

CONSTANTS
  LIGNES,    \* the lines of the matrix, 8 in the code
  Motifs,    \* the patterns that are shown
  MaxMortsLed   \* bound: processes that are killed

ASSUME MatriceLedAssumption ==
  /\ LIGNES \in 1 .. 8 /\ MaxMortsLed \in Nat
  /\ Motifs \subseteq [0 .. LIGNES - 1 -> 0 .. 255]

VARIABLES
  etatLed,       \* "hors": no process; "actif"; "propre": cleaned up
  commandes,  \* the commands the current call has left: <<adresse, donnee>>
  bits,       \* the bits of the first of them that are sent, -1 before GPIO7 falls
  charge,     \* the level of GPIO7, the LOAD pin
  decalage,   \* the shift register, 16 bits
  registre,   \* the registers of the chip
  voulu,      \* auxiliary: the pattern the calls ask for
  mortsLed       \* for the bound

varsLed == <<etatLed, commandes, bits, charge, decalage, registre, voulu, mortsLed>>
puceLed == <<charge, decalage, registre>>

REG_DIGIT0 == 1
REG_DECODE_MODE == 9
REG_INTENSITY == 10
REG_SCAN_LIMIT == 11
REG_SHUTDOWN == 12
REG_DISPLAY_TEST == 15

Noir == [i \in 0 .. LIGNES - 1 |-> 0]
ReposLed == commandes = <<>>

\* The chip as after power-up.
InitLed ==
  /\ etatLed = "hors" /\ commandes = <<>> /\ bits = -1
  /\ charge = 0 /\ decalage = 0
  /\ registre = [r \in 0 .. 15 |-> 0]
  /\ voulu = Noir /\ mortsLed = 0

-----------------------------------------------------------------------------
(***************************************************************************)
(* matrice_led_envoyer_cmd and bit_write, pin by pin.                      *)
(***************************************************************************)

\* The word of a command, and its n-th bit on the wire.
Mot(c) == (c[1] % 256) * 256 + (c[2] % 256)
\* Mutant: the lowest bit first.
BitFaible(c, n) == (Mot(c) \div 2^n) % 2
BitFort(c, n) == (Mot(c) \div 2^(15 - n)) % 2

\* digitalWrite(GPIO7, LOW)
Selectionner ==
  /\ ~ReposLed /\ bits = -1
  /\ charge' = 0 /\ bits' = 0
  /\ UNCHANGED <<etatLed, commandes, decalage, registre, voulu, mortsLed>>

\* A rising edge of SCLK: the bit on MOSI enters, the oldest one leaves.
Horloge ==
  /\ ~ReposLed /\ bits \in 0 .. 15
  /\ decalage' = (2 * decalage + BitFort(Head(commandes), bits)) % 65536
  /\ bits' = bits + 1
  /\ UNCHANGED <<etatLed, commandes, charge, registre, voulu, mortsLed>>

\* digitalWrite(GPIO7, HIGH): the chip takes the word, of whose address only
\* four bits count; register 0 does nothing.
Charger ==
  /\ ~ReposLed /\ bits = 16
  /\ charge' = 1
  /\ registre' = [registre EXCEPT ![(decalage \div 256) % 16] = decalage % 256]
  /\ commandes' = Tail(commandes)
  /\ bits' = -1
  /\ UNCHANGED <<etatLed, decalage, voulu, mortsLed>>

-----------------------------------------------------------------------------
(***************************************************************************)
(* The functions of the driver.                                            *)
(***************************************************************************)
matrice_led_ecrire_ligne(i, octet) == IF i < 8 THEN <<<<REG_DIGIT0 + i, octet>>>> ELSE <<>>

\* Mutant: the last line is forgotten.
MotifEcourte(m) == [i \in 1 .. LIGNES - 1 |-> <<REG_DIGIT0 + i - 1, m[i - 1]>>]
\* matrice_led_afficher_motif: matrice_led_ecrire_ligne for each line.
LignesDe(m) == [i \in 1 .. LIGNES |-> matrice_led_ecrire_ligne(i - 1, m[i - 1])[1]]

\* The commands of the current call.
AppelLed(e, cs) ==
  /\ ReposLed
  /\ commandes' = cs
  /\ etatLed' = e
  /\ UNCHANGED <<bits, puceLed, mortsLed>>

matrice_led_init ==
  /\ etatLed \in {"hors", "propre"}
  /\ AppelLed("actif", << <<REG_SHUTDOWN, 1>>, <<REG_DECODE_MODE, 0>>,
                       <<REG_SCAN_LIMIT, LIGNES - 1>>, <<REG_INTENSITY, 15>>,
                       <<REG_DISPLAY_TEST, 0>> >> \o LignesDe(Noir))
  /\ voulu' = Noir

matrice_led_afficher_motif ==
  /\ etatLed = "actif"
  /\ \E m \in Motifs \cup {Noir} : AppelLed("actif", LignesDe(m)) /\ voulu' = m

\* matrice_led_ecrire_ligne by itself; a line below the matrix is ignored.
EcrireLigne ==
  /\ etatLed = "actif"
  /\ \E i \in (0 .. LIGNES - 1) \cup {8}, m \in Motifs :
       /\ AppelLed("actif", matrice_led_ecrire_ligne(i, m[0]))
       /\ voulu' = IF i = 8 THEN voulu ELSE [voulu EXCEPT ![i] = m[0]]

BorneLed(n) == IF n > 15 THEN 15 ELSE n

matrice_led_luminosite ==
  /\ etatLed = "actif"
  /\ \E n \in {3, 16} : AppelLed("actif", <<<<REG_INTENSITY, BorneLed(n)>>>>)
  /\ UNCHANGED voulu

\* matrice_led_effacer, then the shutdown register.
ExtinctionLed == LignesDe(Noir) \o <<<<REG_SHUTDOWN, 0>>>>

matrice_led_cleanup ==
  /\ etatLed = "actif"
  /\ AppelLed("propre", ExtinctionLed)
  /\ voulu' = Noir

\* The process is killed; the pins and the chip stay as they are.
TuerLed ==
  /\ etatLed # "hors" /\ mortsLed < MaxMortsLed
  /\ etatLed' = "hors" /\ commandes' = <<>> /\ bits' = -1
  /\ voulu' = Noir
  /\ mortsLed' = mortsLed + 1
  /\ UNCHANGED puceLed

NextLed ==
  \/ matrice_led_init \/ matrice_led_afficher_motif \/ EcrireLigne
  \/ matrice_led_luminosite \/ matrice_led_cleanup
  \/ Selectionner \/ Horloge \/ Charger \/ TuerLed

SpecLed == InitLed /\ [][NextLed]_varsLed

-----------------------------------------------------------------------------
(***************************************************************************)
(* Properties.                                                             *)
(***************************************************************************)
\* When GPIO7 rises the shift register holds the command that was meant and
\* nothing else (my_matrice_led.c:11-19, 43-49), also when a process that died
\* in the middle of a command left some bits of it there.
TrameEntiere ==
  ~ReposLed /\ bits = 16 => charge = 0 /\ decalage = Mot(Head(commandes))

\* What the game looks for is what the matrix shows: after each call the lines
\* are those of the pattern asked for, and the chip is in the mode in which
\* they are seen as they are, whatever was there before matrice_led_init; after
\* matrice_led_cleanup the lines are dark and the chip is shut down.
MotifAffiche ==
  etatLed # "hors" /\ ReposLed =>
    /\ \A i \in 0 .. LIGNES - 1 : registre[REG_DIGIT0 + i] = voulu[i]
    /\ registre[REG_SHUTDOWN] = (IF etatLed = "actif" THEN 1 ELSE 0)
    /\ registre[REG_DISPLAY_TEST] = 0 /\ registre[REG_DECODE_MODE] = 0
    /\ registre[REG_SCAN_LIMIT] = LIGNES - 1 /\ registre[REG_INTENSITY] <= 15
=============================================================================
