------------------------------- MODULE Ecran -------------------------------
(***************************************************************************)
(* What the player sees: the grid on the terminal (lib/my_ncurses.c), the  *)
(* conversion of a shape to characters (convertir_forme, lib/jeu.c) and    *)
(* the shapes themselves (formes.c), driven by the display loop of Grille, *)
(* next to the LED matrix, which shows the same bytes.                     *)
(*                                                                         *)
(* The terminal is any of Tailles and never changes its size: ncurses only *)
(* takes a new size in getch(), which no program here calls.  mvaddch      *)
(* outside of it draws nothing; what is drawn is seen after refresh().     *)
(***************************************************************************)
EXTENDS Grille

CONSTANTS
  Tailles,    \* the terminals: pairs <<lines, columns>>
  Premiere    \* the place of the first shape in the table, 0 in the code

ASSUME EcranAssumption ==
  /\ Tailles \subseteq (Nat \ {0}) \X (Nat \ {0})
  /\ Premiere \in Nat /\ Premiere + NbFormes <= 16

VARIABLES
  etat,       \* "shell"; "pret": ncurses is on, no round is shown; "manche"
  taille,     \* screen_height, screen_width
  origine,    \* start_y, start_x
  virtuel,    \* stdscr, the screen ncurses holds
  physique,   \* the screen the player sees
  leds        \* the bytes on the LED matrix

grilleVars == vars
ecranVars == <<etat, taille, origine, virtuel, physique, leds>>

CELL_WIDTH == 8
CELL_HEIGHT == 8

\* A character is the name of a line of the grid, "x" for a mark of a shape, a
\* space, or "?" for what was on the terminal before the program.

\* The LED matrix when it is dark.
Eteintes == [l \in 1 .. 8 |-> 0]

formes ==
  << <<\b11111111, \b10000001, \b10000001, \b10000001, \b10000001, \b10000001, \b10000001, \b11111111>>,
     <<\b00000000, \b00000000, \b00111100, \b00100100, \b00100100, \b00111100, \b00000000, \b00000000>>,
     <<\b00111100, \b00100100, \b00100100, \b00100100, \b00100100, \b00100100, \b00100100, \b00111100>>,
     <<\b00000000, \b00000000, \b11111111, \b10000001, \b10000001, \b11111111, \b00000000, \b00000000>>,
     <<\b00000000, \b00000000, \b00011000, \b00111100, \b01111110, \b11111111, \b00000000, \b00000000>>,
     <<\b00000000, \b00000000, \b11111111, \b01111110, \b00111100, \b00011000, \b00000000, \b00000000>>,
     <<\b00100000, \b00110000, \b00111000, \b00111100, \b00111100, \b00111000, \b00110000, \b00100000>>,
     <<\b00000100, \b00001100, \b00011100, \b00111100, \b00111100, \b00011100, \b00001100, \b00000100>>,
     <<\b00111100, \b01000010, \b10000001, \b10000001, \b10000001, \b10000001, \b01000010, \b00111100>>,
     <<\b00011000, \b00100100, \b01000010, \b10000001, \b10000001, \b01000010, \b00100100, \b00011000>>,
     <<\b10000000, \b01000000, \b00100000, \b00010000, \b00001000, \b00000100, \b00000010, \b00000001>>,
     <<\b00000001, \b00000010, \b00000100, \b00001000, \b00010000, \b00100000, \b01000000, \b10000000>>,
     <<\b10000001, \b01000010, \b00100100, \b00011000, \b00011000, \b00100100, \b01000010, \b10000001>>,
     <<\b00000000, \b00000000, \b00000000, \b11111111, \b11111111, \b00000000, \b00000000, \b00000000>>,
     <<\b00011000, \b00011000, \b00011000, \b00011000, \b00011000, \b00011000, \b00011000, \b00011000>>,
     <<\b00011000, \b00011000, \b00011000, \b11111111, \b11111111, \b00011000, \b00011000, \b00011000>> >>

\* No two shapes of the table are the same.
ASSUME FormesDistinctes == \A a, b \in 1 .. 16 : formes[a] = formes[b] => a = b

\* The bytes of a shape; the code counts from 0.
Octets(n) == formes[Premiere + n + 1]

\* Mutant: 1 << j, the picture in a mirror.
BitMiroir(octet, c) == (octet \div 2^c) % 2
\* forme[i] & (1 << (7 - j))
BitDe(octet, c) == (octet \div 2^(7 - c)) % 2
convertir_forme(octets, y, x) == IF BitDe(octets[y + 1], x) = 1 THEN "x" ELSE " "

-----------------------------------------------------------------------------
(***************************************************************************)
(* lib/my_ncurses.c.                                                       *)
(***************************************************************************)

\* The points of the terminal.
Points(t) == (0 .. t[1] - 1) \X (0 .. t[2] - 1)

grid_height == (CELL_HEIGHT + 1) * Cote + 1
grid_width == (CELL_WIDTH + 1) * Cote + 1

\* Division of C, which goes towards zero.
Moitie(n) == IF n >= 0 THEN n \div 2 ELSE -((-n) \div 2)

\* mvaddch for the offsets of a set, with a character for each: an offset that
\* is off the screen is left out.
Peindre(ecran, o, offsets, Car(_, _)) ==
  [p \in DOMAIN ecran |->
     LET y == p[1] - o[1]
         x == p[2] - o[2]
     IN  IF <<y, x>> \in offsets THEN Car(y, x) ELSE ecran[p]]

\* initscr, the centring of the grid and clear(); no refresh.
init_ncurses ==
  /\ origine' = <<Moitie(taille[1] - grid_height), Moitie(taille[2] - grid_width)>>
  /\ virtuel' = [p \in Points(taille) |-> " "]
  /\ UNCHANGED <<taille, physique>>

\* The character of the grid at an offset, on a line of it.
Coin(y, x) ==
  LET rang(a, n) == IF a = 0 THEN 1 ELSE IF a = n - 1 THEN 3 ELSE 2
  IN  << <<"ULCORNER", "TTEE", "URCORNER">>,
         <<"LTEE",     "PLUS", "RTEE">>,
         <<"LLCORNER", "BTEE", "LRCORNER">> >>[rang(y, grid_height)][rang(x, grid_width)]
SurTrait(y, x) == y % (CELL_HEIGHT + 1) = 0 \/ x % (CELL_WIDTH + 1) = 0
Trait(y, x) ==
  CASE y % (CELL_HEIGHT + 1) # 0 -> "VLINE"
    [] x % (CELL_WIDTH + 1) # 0 -> "HLINE"
    [] OTHER -> Coin(y, x)
Traits == {d \in (0 .. grid_height - 1) \X (0 .. grid_width - 1) : SurTrait(d[1], d[2])}

\* With its refresh().
draw_grid ==
  /\ virtuel' = Peindre(virtuel, origine, Traits, Trait)
  /\ physique' = virtuel'
  /\ UNCHANGED <<taille, origine>>

\* Mutant: cell_start without the line of the border.
CelluleSansBord(row, col) == <<row * (CELL_HEIGHT + 1), col * (CELL_WIDTH + 1)>>
\* The offset of the first character of a cell.
Cellule(row, col) == <<row * (CELL_HEIGHT + 1) + 1, col * (CELL_WIDTH + 1) + 1>>
DansCellule(row, col) ==
  LET c == Cellule(row, col)
  IN  (c[1] .. c[1] + CELL_HEIGHT - 1) \X (c[2] .. c[2] + CELL_WIDTH - 1)
DansGrille(row, col) == row \in 0 .. Cote - 1 /\ col \in 0 .. Cote - 1

display_pattern(row, col, octets) ==
  LET c == Cellule(row, col)
      Car(y, x) == convertir_forme(octets, y - c[1], x - c[2])
  IN  /\ virtuel' = IF DansGrille(row, col)
                    THEN Peindre(virtuel, origine, DansCellule(row, col), Car) ELSE virtuel
      /\ UNCHANGED <<taille, origine, physique>>

\* The cells on which the loops call clear_cell.
\* Mutant: the loops stop one short.
EffaceesSaufDernieres == (0 .. Cote - 2) \X (0 .. Cote - 2)
Effacees == (0 .. Cote - 1) \X (0 .. Cote - 1)

\* clear_cell for each of them, then refresh_display.
clear_cells ==
  LET Espace(y, x) == " "
  IN  /\ virtuel' = Peindre(virtuel, origine,
                            UNION {DansCellule(c[1], c[2]) : c \in Effacees}, Espace)
      /\ physique' = virtuel'
      /\ UNCHANGED <<taille, origine>>

refresh_display == physique' = virtuel /\ UNCHANGED <<taille, origine, virtuel>>

-----------------------------------------------------------------------------
(***************************************************************************)
(* The program.                                                            *)
(***************************************************************************)
InitEcran ==
  /\ etat = "shell"
  /\ taille \in Tailles
  /\ origine = <<0, 0>>
  /\ physique = [p \in Points(taille) |-> "?"]
  /\ virtuel = physique
  /\ leds = Eteintes
  /\ pcG = "fini" /\ recue = TRUE /\ forme = 0 /\ indices = Identite
  /\ i = Cote /\ j = 0 /\ k = NbFormes /\ position = 1 /\ choix = <<>>

initialiser_peripheriques ==
  /\ etat = "shell"
  /\ init_ncurses
  /\ etat' = "pret"
  /\ leds' = Eteintes
  /\ UNCHANGED grilleVars

\* Grille begins again: Init for the primed variables.
NouveauTirage ==
  /\ forme' \in Formes
  /\ \/ recue' = FALSE /\ pcG' = "melange" /\ indices' = Identite /\ i' = NbFormes - 1
     \/ recue' = TRUE /\ pcG' = "affichage" /\ indices' \in [Formes -> Formes] /\ i' = 0
  /\ j' = 0 /\ k' = 0 /\ position' = -1 /\ choix' = <<>>

\* The LED matrix shows the shape, then afficher_grille (in the local game) or
\* afficher_grille_predefinie (in a client) begins.
AfficherTirage ==
  /\ etat = "pret"
  /\ NouveauTirage
  /\ leds' = Octets(forme')
  /\ draw_grid
  /\ etat' = "manche"

\* The shuffle shows nothing.
MelangerFormes ==
  /\ etat = "manche"
  /\ Melanger \/ FinMelange
  /\ UNCHANGED ecranVars

RemplirCellule ==
  /\ etat = "manche"
  /\ AfficherCellule
  /\ display_pattern(i, j, Octets(indices[k]))
  /\ UNCHANGED <<etat, leds>>

MontrerGrille ==
  /\ etat = "manche"
  /\ FinAffichage
  /\ refresh_display
  /\ UNCHANGED <<etat, leds>>

\* After the round the LEDs and every cell are cleared; the variables of the
\* display have ended with their function.
EffacerAffichage ==
  /\ etat = "manche" /\ pcG = "fini"
  /\ leds' = Eteintes
  /\ clear_cells
  /\ etat' = "pret"
  /\ recue' = TRUE /\ forme' = 0 /\ indices' = Identite /\ position' = 1 /\ choix' = <<>>
  /\ UNCHANGED <<pcG, i, j, k>>

\* endwin() gives the terminal back, with the shell's own screen.
cleanup_ncurses ==
  /\ etat = "pret"
  /\ physique' = [p \in Points(taille) |-> "?"]
  /\ virtuel' = physique' /\ origine' = <<0, 0>>
  /\ leds' = Eteintes
  /\ etat' = "shell"
  /\ UNCHANGED <<taille, grilleVars>>

NextEcran ==
  \/ initialiser_peripheriques \/ AfficherTirage \/ MelangerFormes
  \/ RemplirCellule \/ MontrerGrille \/ EffacerAffichage \/ cleanup_ncurses

SpecEcran == InitEcran /\ [][NextEcran]_<<grilleVars, ecranVars>>

-----------------------------------------------------------------------------
(***************************************************************************)
(* Properties.                                                             *)
(***************************************************************************)
\* The point of the terminal at an offset of the grid.
A(y, x) == <<origine[1] + y, origine[2] + x>>
Visible(y, x) == A(y, x) \in Points(taille)
Montree == etat = "manche" /\ pcG = "fini"

\* The cell, as the player sees it, shows this picture and all of it.
Montre(row, col, octets) ==
  \A y \in 0 .. 7, x \in 0 .. 7 :
    LET c == Cellule(row, col)
    IN  /\ Visible(c[1] + y, c[2] + x)
        /\ physique[A(c[1] + y, c[2] + x)] = "x"
             <=> (octets[y + 1] \div 2^(7 - x)) % 2 = 1

AssezGrand == taille[1] >= grid_height /\ taille[2] >= grid_width

\* Whatever is written into the cells or cleared, also when part of the grid is
\* off the screen: the lines of the grid stay whole and nothing is ever drawn
\* outside of it (my_ncurses.c:106-140).
GrilleIntacte ==
  etat = "manche" =>
    \A p \in Points(taille) :
      LET y == p[1] - origine[1]
          x == p[2] - origine[2]
          dedans == y \in 0 .. grid_height - 1 /\ x \in 0 .. grid_width - 1
      IN  /\ ~dedans => physique[p] = " " /\ virtuel[p] = " "
          /\ dedans /\ SurTrait(y, x) =>
               physique[p] = Trait(y, x) /\ virtuel[p] = Trait(y, x)

\* On a terminal that is large enough the player finds the picture of the LED
\* matrix in the cell whose number the display returned, and in no other: the
\* bytes are read in the same direction on both and no two shapes look the same
\* (jeu.c:414-423, formes.c).
ImageUnique ==
  Montree /\ AssezGrand /\ EstPermutation(indices) =>
    \A row, col \in 0 .. Cote - 1 :
      Montre(row, col, leds) <=> position = row * Cote + col + 1

\* Between two rounds no mark of a shape is left on the screen (jeu.c:75-81,
\* client.c:197-203).
RienNeReste == etat = "pret" => "x" \notin {virtuel[p] : p \in Points(taille)}
                             /\ "x" \notin {physique[p] : p \in Points(taille)}

=============================================================================
