------------------------------ MODULE HD44780 ------------------------------
(***************************************************************************)
(* The controller of the LCD as lib/my_lcd.c drives it through four data   *)
(* lines: not part of the repository, from its use there.  A falling edge  *)
(* of the strobe gives it a nibble; in four-bit mode two nibbles make a    *)
(* byte, in eight-bit mode one does (its low half is not wired).  It keeps *)
(* its state when the program that drives it dies.                         *)
(*                                                                         *)
(* State hd: dl, the width of the interface; haut, the first nibble of a   *)
(* byte or Aucun; lignes, TRUE in two-line mode; ram, what the address     *)
(* counter ac points into; dd, the characters; allume, whether they show.  *)
(***************************************************************************)
EXTENDS Integers

Aucun == -1
ESPACE == 32
Adresses == (0 .. 39) \cup (64 .. 103)

\* Bit 2^n of b.
Bit(b, n) == (b \div 2^n) % 2 = 1

Vide == [a \in Adresses |-> ESPACE]

\* The controller after power-up.
Allumage == [dl |-> 8, haut |-> Aucun, lignes |-> FALSE, ram |-> "DD", ac |-> 0,
             dd |-> Vide, allume |-> FALSE]

Suivant(a) == CASE a = 39 -> 64 [] a = 103 -> 0 [] OTHER -> (a + 1) % 128
Precedent(a) == CASE a = 64 -> 39 [] a = 0 -> 103 [] OTHER -> a - 1

Commande(hd, b) ==
  CASE b >= 128 -> [hd EXCEPT !.ram = "DD", !.ac = b - 128]
    [] b \in 64 .. 127 -> [hd EXCEPT !.ram = "CG", !.ac = b - 64]
    [] b \in 32 .. 63 -> [hd EXCEPT !.dl = IF Bit(b, 4) THEN 8 ELSE 4, !.lignes = Bit(b, 3)]
    [] b \in 16 .. 23 -> [hd EXCEPT !.ac = IF Bit(b, 2) THEN Suivant(@) ELSE Precedent(@)]
    [] b \in 8 .. 15 -> [hd EXCEPT !.allume = Bit(b, 2)]
    [] b \in 2 .. 3 -> [hd EXCEPT !.ram = "DD", !.ac = 0]
    [] b = 1 -> [hd EXCEPT !.ram = "DD", !.ac = 0, !.dd = Vide]
    [] OTHER -> hd

Donnee(hd, b) ==
  [hd EXCEPT !.dd = IF hd.ram = "DD" /\ hd.ac \in Adresses THEN [@ EXCEPT ![hd.ac] = b] ELSE @,
             !.ac = IF hd.ram = "DD" THEN Suivant(@) ELSE (@ + 1) % 64]

\* A nibble q with the register line rs.
Impulsion(hd, rs, q) ==
  LET Octet(h, b) == IF rs = 1 THEN Donnee(h, b) ELSE Commande(h, b)
  IN  CASE hd.dl = 8 -> Octet(hd, 16 * q)
        [] hd.dl = 4 /\ hd.haut = Aucun -> [hd EXCEPT !.haut = q]
        [] OTHER -> Octet([hd EXCEPT !.haut = Aucun], 16 * hd.haut + q)
=============================================================================
