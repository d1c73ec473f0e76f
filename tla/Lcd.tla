-------------------------------- MODULE Lcd --------------------------------
(***************************************************************************)
(* lib/my_lcd.c: the LCD of two lines, driven through four data lines.  A  *)
(* function of the driver is an action that does all its assignments and   *)
(* gives the strobes it makes, in order; Strobe then makes them one at a   *)
(* time, and the process may die between any two.  The controller is       *)
(* module HD44780 and outlives the process.                                *)
(*                                                                         *)
(* The callers are those of jeu.c, client.c and test/lcd.c: text is        *)
(* written only after lcd_effacer or lcd_position, from a cell of the      *)
(* display on.  A byte of text is its code, 0 to 7 being the characters of *)
(* lcd_def_caractere; the delays and the pin modes are left out.           *)
(***************************************************************************)
EXTENDS HD44780, Sequences, FiniteSetsExt

CONSTANTS
  COLS,       \* lcd->cols, 16 in the code
  MAX_LCDS,   \* #define MAX_LCDS, 8 in the code
  Textes,     \* the strings that are written, of at most COLS + 2 characters
  Commandes,  \* the arguments of lcd_commande
  MaxInits,   \* bound: calls of lcd_init in the life of a process
  MaxMortsLcd    \* bound: processes that are killed

ASSUME LcdAssumption ==
  /\ COLS \in 1 .. 40 /\ MAX_LCDS \in Nat \ {0}
  /\ Textes \subseteq Seq(0 .. 255) /\ Commandes \subseteq 0 .. 255
  /\ \A t \in Textes : Len(t) \in 1 .. COLS + 2
  /\ MaxInits \in Nat /\ MaxMortsLcd \in Nat

VARIABLES
  etatLcd,        \* "hors": no process; "actif"; "propre": cleaned up; "indefini"
  lcdHandle,
  lcds,        \* lcds[]: NULL or the cursor [cx, cy] of a display
  lcdControl,  \* the bits of lcdControl, as a set
  bus,         \* the strobes that the current call has left to make
  hd,          \* the controller
  inits, mortsLcd,  \* for the bounds
  place,       \* auxiliary: the cursor has been placed by the caller
  ecran,       \* auxiliary: what the calls so far ask to show, cell by cell
  message      \* auxiliary: the two lines of the last message, or Neant

varsLcd == <<etatLcd, lcdHandle, lcds, lcdControl, bus, hd, inits, mortsLcd, place, ecran, message>>
pilote == <<lcdHandle, lcds, lcdControl>>

ROWS == 2
rowOff == [y \in 0 .. 3 |-> <<0, 64, 20, 84>>[y + 1]]
NULL == [cx |-> Aucun, cy |-> Aucun]
Neant == <<>>
Handles == 0 .. MAX_LCDS - 1
Cellules == 0 .. ROWS * COLS - 1
Blanc == [i \in Cellules |-> ESPACE]

\* The structure that the functions of the driver dereference.
Valide == lcdHandle \in Handles /\ lcds[lcdHandle] # NULL
Curseur == lcds[lcdHandle]
Adresse(cur) == rowOff[cur.cy] + cur.cx
ReposLcd == bus = <<>>

InitLcd ==
  /\ etatLcd = "hors"
  /\ lcdHandle = -1 /\ lcds = [h \in Handles |-> NULL] /\ lcdControl = {}
  /\ bus = <<>>
  /\ hd = Allumage
  /\ inits = 0 /\ mortsLcd = 0
  /\ place = FALSE /\ ecran = Blanc /\ message = Neant

-----------------------------------------------------------------------------
(***************************************************************************)
(* The bytes and their nibbles.                                            *)
(***************************************************************************)
put4Command(q) == <<[rs |-> 0, q |-> q]>>
sendDataCmd(rs, b) == <<[rs |-> rs, q |-> b \div 16], [rs |-> rs, q |-> b % 16]>>
putCommand(b) == sendDataCmd(0, b)

\* Mutant: the screen is not cleared, the cursor only goes home.
EffacementOublie == putCommand(2) \o putCommand(2)
\* LCD_CLEAR, LCD_HOME
Effacement == putCommand(1) \o putCommand(2)

\* LCD_CTRL with the bits of lcdControl.
Controle(bits) == putCommand(8 + SumSet(bits))
Regler(bits, b, actif) == IF actif THEN bits \cup {b} ELSE bits \ {b}

\* Mutant: the driver goes to the next line and does not tell the controller.
SansAdresse(cur) == <<>>

\* The cursor after a character.
Avance(cur) ==
  IF cur.cx + 1 = COLS
  THEN [cx |-> 0, cy |-> IF cur.cy + 1 = ROWS THEN 0 ELSE cur.cy + 1]
  ELSE [cur EXCEPT !.cx = @ + 1]

\* The command that follows a character which ended a line.
Retour(cur) == IF cur.cx = 0 THEN putCommand(128 + Adresse(cur)) ELSE <<>>

\* lcd_chaine from a cursor: the strobes and the cursor after them.
Chaine(cur, t) ==
  LET f[n \in 0 .. Len(t)] ==
        IF n = 0 THEN [cur |-> cur, bus |-> <<>>]
        ELSE LET c == Avance(f[n - 1].cur)
             IN  [cur |-> c, bus |-> f[n - 1].bus \o sendDataCmd(1, t[n]) \o Retour(c)]
  IN  f[Len(t)]

-----------------------------------------------------------------------------
(***************************************************************************)
(* What a reader of the calls expects to see.                              *)
(***************************************************************************)
Rang(cur) == cur.cy * COLS + cur.cx

\* The text t written from cell p on, going on at the start after the end.
Ecrit(e, p, t) ==
  [i \in Cellules |->
     LET K == {k \in 1 .. Len(t) : (p + k - 1) % (ROWS * COLS) = i}
     IN  IF K = {} THEN e[i] ELSE t[Max(K)]]

\* The cells as the controller shows them.
Montre == [i \in Cellules |-> hd.dd[rowOff[i \div COLS] + (i % COLS)]]

\* The first COLS characters of t on a line of their own.
LigneDe(t) == [x \in 0 .. COLS - 1 |-> IF x < Len(t) THEN t[x + 1] ELSE ESPACE]

-----------------------------------------------------------------------------
(***************************************************************************)
(* lcd_init.                                                               *)
(***************************************************************************)

\* Mutant: eight bits are set twice only.
DemarrageCourt == put4Command(3) \o put4Command(3) \o put4Command(2)
\* Eight bits three times, then four bits.
Demarrage == put4Command(3) \o put4Command(3) \o put4Command(3) \o put4Command(2)

\* Setting up the pins may make a falling edge of the strobe, with the data
\* lines pulled up.
Parasites == {<<>>, put4Command(15)}

\* The slot that the search leaves in lcdHandle.
Emplacement ==
  LET libres == {h \in Handles : lcds[h] = NULL}
  IN  IF libres = {} THEN lcdHandle ELSE Min(libres)

\* The I2C bus fails, malloc fails (the handle has then been chosen), or the
\* display is set up; the shift at the end moves the controller's cursor.
lcd_init ==
  /\ etatLcd \in {"hors", "actif", "propre"} /\ ReposLcd
  /\ inits < MaxInits
  /\ etatLcd' = "actif"
  /\ inits' = inits + 1
  /\ \/ UNCHANGED <<pilote, bus, place, ecran, message>>
     \/ lcdHandle' = Emplacement /\ UNCHANGED <<lcds, lcdControl, bus, place, ecran, message>>
     \/ /\ lcdHandle' = Emplacement
        /\ lcds' = [lcds EXCEPT ![Emplacement] = [cx |-> 0, cy |-> 0]]
        /\ lcdControl' = (lcdControl \cup {4}) \ {1, 2}
        /\ \E p \in Parasites :
             bus' = p \o Demarrage \o putCommand(40)
                    \o Controle(lcdControl \cup {4})
                    \o Controle((lcdControl \cup {4}) \ {2})
                    \o Controle((lcdControl \cup {4}) \ {1, 2})
                    \o Effacement \o putCommand(6) \o putCommand(20)
        /\ place' = FALSE /\ ecran' = Blanc /\ message' = Neant
  /\ UNCHANGED <<hd, mortsLcd>>

-----------------------------------------------------------------------------
(***************************************************************************)
(* The other functions.                                                    *)
(***************************************************************************)

\* A call of the driver through a good handle.
AppelLcd == etatLcd = "actif" /\ ReposLcd /\ Valide /\ UNCHANGED <<lcdHandle, hd, inits, mortsLcd>>

Deplacer(cur) == lcds' = [lcds EXCEPT ![lcdHandle] = cur]
Origine == [cx |-> 0, cy |-> 0]

lcd_origine ==
  /\ AppelLcd
  /\ bus' = putCommand(2)
  /\ Deplacer(Origine) /\ place' = TRUE
  /\ UNCHANGED <<etatLcd, lcdControl, ecran, message>>

lcd_effacer ==
  /\ AppelLcd
  /\ bus' = Effacement
  /\ Deplacer(Origine) /\ place' = TRUE
  /\ ecran' = Blanc /\ message' = Neant
  /\ UNCHANGED <<etatLcd, lcdControl>>

\* lcd_affichage (4), lcd_curseur (2), lcd_curseur_clignote (1)
Regler_bit(b) ==
  /\ AppelLcd
  /\ \E actif \in BOOLEAN : lcdControl' = Regler(lcdControl, b, actif)
  /\ bus' = Controle(lcdControl')
  /\ UNCHANGED <<etatLcd, lcds, place, ecran, message>>

lcd_commande ==
  /\ AppelLcd
  /\ \E b \in Commandes : bus' = putCommand(b)
  /\ place' = FALSE
  /\ UNCHANGED <<etatLcd, lcds, lcdControl, ecran, message>>

\* A position outside the display is ignored; x = cols and y = rows are not.
DansEcran(x, y) == x \in 0 .. COLS /\ y \in 0 .. ROWS
\* The cursor after lcd_position, and its command.
Placement(x, y) == IF DansEcran(x, y) THEN [cx |-> x, cy |-> y] ELSE Curseur
CommandePlacement(x, y) ==
  IF DansEcran(x, y) THEN putCommand(128 + rowOff[y] + x) ELSE <<>>

lcd_position(x, y) ==
  /\ AppelLcd
  /\ bus' = CommandePlacement(x, y)
  /\ Deplacer(Placement(x, y))
  /\ place' = (place \/ DansEcran(x, y))
  /\ message' = Neant
  /\ UNCHANGED <<etatLcd, lcdControl, ecran>>

\* The pattern goes to the CGRAM, where the address counter stays.
lcd_def_caractere ==
  /\ AppelLcd
  /\ bus' = putCommand(64) \o [i \in 1 .. 16 |-> [rs |-> 1, q |-> 10]]
  /\ place' = FALSE
  /\ UNCHANGED <<etatLcd, lcds, lcdControl, ecran, message>>

\* lcd_caractere, lcd_chaine and lcd_printf
lcd_chaine(t) ==
  /\ AppelLcd
  /\ place
  /\ LET s == Chaine(Curseur, t) IN bus' = s.bus /\ Deplacer(s.cur)
  /\ ecran' = Ecrit(ecran, Rang(Curseur), t)
  /\ message' = Neant
  /\ UNCHANGED <<etatLcd, lcdControl, place>>

\* Every caller passes column 0.
lcd_ecrire(x, y, t) ==
  /\ AppelLcd
  /\ LET s == Chaine(Placement(x, y), t)
     IN  bus' = CommandePlacement(x, y) \o s.bus /\ Deplacer(s.cur)
  /\ place' = TRUE
  /\ ecran' = Ecrit(ecran, Rang(Placement(x, y)), t)
  /\ message' = Neant
  /\ UNCHANGED <<etatLcd, lcdControl>>

\* lcd_effacer and an lcd_ecrire on each line: every message of the game, none
\* of which is longer than COLS + 1 and COLS.
Afficher_message(t, u) ==
  /\ AppelLcd
  /\ Len(t) <= COLS + 1 /\ Len(u) <= COLS
  /\ LET s == Chaine(Placement(0, 0), t)
         v == Chaine(Placement(0, 1), u)
     IN  /\ bus' = Effacement \o CommandePlacement(0, 0) \o s.bus
                   \o CommandePlacement(0, 1) \o v.bus
         /\ Deplacer(v.cur)
  /\ place' = TRUE
  /\ ecran' = Ecrit(Ecrit(Blanc, 0, t), COLS, u)
  /\ message' = <<t, u>>
  /\ UNCHANGED <<etatLcd, lcdControl>>

\* lcd_effacer, lcd_affichage(FALSE)
ExtinctionLcd == Effacement \o Controle(lcdControl \ {4})

\* Its callers have called lcd_effacer before, so the handle is good here.
lcd_cleanup ==
  /\ AppelLcd
  /\ bus' = ExtinctionLcd
  /\ lcdControl' = lcdControl \ {4}
  /\ lcds' = [lcds EXCEPT ![lcdHandle] = NULL]
  /\ etatLcd' = "propre"
  /\ place' = FALSE /\ ecran' = Blanc /\ message' = Neant

-----------------------------------------------------------------------------
Strobe ==
  /\ ~ReposLcd
  /\ hd' = Impulsion(hd, Head(bus).rs, Head(bus).q)
  /\ bus' = Tail(bus)
  /\ UNCHANGED <<etatLcd, pilote, inits, mortsLcd, place, ecran, message>>

\* jeu.c:133 ignores the result of lcd_init and the next call dereferences
\* lcds[-1] or NULL: anything may follow.  wiringPi ends the process itself when
\* it cannot open the bus, unless WIRINGPI_CODES asks it for a result; malloc
\* (my_lcd.c:318) may fail in either case.
AppelPerdu ==
  /\ etatLcd = "actif" /\ ReposLcd /\ ~Valide
  /\ etatLcd' = "indefini"
  /\ UNCHANGED <<pilote, bus, hd, inits, mortsLcd, place, ecran, message>>

\* The memory of a process ends with it.
Sortir ==
  /\ etatLcd' = "hors"
  /\ lcdHandle' = -1 /\ lcds' = [h \in Handles |-> NULL] /\ lcdControl' = {}
  /\ bus' = <<>>
  /\ inits' = 0
  /\ place' = FALSE /\ ecran' = Blanc /\ message' = Neant
  /\ UNCHANGED hd

Finir == etatLcd \in {"propre", "indefini"} /\ ReposLcd /\ Sortir /\ UNCHANGED mortsLcd
TuerLcd == etatLcd # "hors" /\ mortsLcd < MaxMortsLcd /\ Sortir /\ mortsLcd' = mortsLcd + 1

NextLcd ==
  \/ lcd_init \/ lcd_origine \/ lcd_effacer \/ lcd_commande \/ lcd_def_caractere
  \/ \E b \in {1, 2, 4} : Regler_bit(b)
  \/ \E x \in -1 .. COLS - 1, y \in -1 .. ROWS - 1 : lcd_position(x, y)
  \/ \E t \in Textes : lcd_chaine(t)
  \/ \E y \in 0 .. ROWS - 1, t \in Textes : lcd_ecrire(0, y, t)
  \/ \E t, u \in Textes : Afficher_message(t, u)
  \/ lcd_cleanup \/ Strobe \/ AppelPerdu \/ Finir \/ TuerLcd

SpecLcd == InitLcd /\ [][NextLcd]_varsLcd

-----------------------------------------------------------------------------
(***************************************************************************)
(* Properties.                                                             *)
(***************************************************************************)
\* A display is in use: lcd_init has succeeded in this process and its last
\* call has returned.
EnService == etatLcd = "actif" /\ ReposLcd /\ Valide
\* lcd_cleanup has returned.
Propre == etatLcd = "propre" /\ ReposLcd

\* After lcd_init the two ends agree on the nibbles, whatever a process that
\* was killed between two strobes left in the controller (my_lcd.c:352-363):
\* four bits, no half byte, two lines.  Once the caller has placed the cursor,
\* they also agree on it: cx and cy are where the controller will write, over
\* the end of a line and of the screen (my_lcd.c:242-248) and after any text;
\* lcd_init alone, whose last command moves only the controller's cursor
\* (my_lcd.c:372), does not give this.
AccordLcd ==
  /\ EnService \/ Propre => hd.dl = 4 /\ hd.haut = Aucun /\ hd.lignes
  /\ EnService /\ place => hd.ram = "DD" /\ hd.ac = Adresse(Curseur)

\* The screen shows what the calls say, also after a process was killed in the
\* middle of a byte and another one took over; after lcd_cleanup nothing is left
\* on it and it is off (my_lcd.c:397-401).
EcranFidele ==
  /\ EnService => Montre = ecran
  /\ Propre => Montre = Blanc /\ ~hd.allume

\* A message of the game is readable (client.c:69-266, jeu.c:43-305): the first
\* line shows its first COLS characters and the second line the second text
\* alone, although a text of COLS + 1 characters ("Cherchez la forme",
\* "Mauvaise reponse!") runs over into the second line.
DeuxLignes ==
  EnService /\ message # Neant =>
    \A x \in 0 .. COLS - 1 :
      Montre[x] = LigneDe(message[1])[x] /\ Montre[COLS + x] = LigneDe(message[2])[x]

-----------------------------------------------------------------------------
(***************************************************************************)
(* What the code says and does not do.                                     *)
(***************************************************************************)

\* "Erreur d'initialisation des peripheriques" (jeu.c:37, client.c:46): a
\* program whose devices could not be started says so and ends; no function of
\* the LCD is called through a handle that lcd_init did not set up.
AppelsValides == etatLcd # "indefini"

=============================================================================
