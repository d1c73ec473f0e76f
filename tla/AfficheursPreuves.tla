------------------------- MODULE AfficheursPreuves -------------------------
(***************************************************************************)
(* What the two displays of the game show, for every number of lines,      *)
(* every set of patterns and numbers and any sequence of calls and kills:  *)
(* the LED matrix (MatriceLed) and the four digits (Segment7).             *)
(***************************************************************************)
EXTENDS MatriceLed, Segment7, TLAPS

-----------------------------------------------------------------------------
(***************************************************************************)
(* Division by powers of two.                                              *)
(***************************************************************************)
LEMMA Division ==
  ASSUME NEW m \in Nat, NEW q \in Nat \ {0}
  PROVE  m \div q \in Nat /\ m = q * (m \div q) + (m % q) /\ m % q \in 0 .. q - 1
OBVIOUS

LEMMA Encadre ==
  ASSUME NEW q \in Nat \ {0}, NEW x \in Int, q * x > -q, q * x < 2 * q
  PROVE  x \in {0, 1}
<1>1. ASSUME x <= -1 PROVE FALSE
  <2>1. q * x <= q * (-1)
    BY <1>1
  <2> QED BY <2>1
<1>2. ASSUME x >= 2 PROVE FALSE
  <2>1. q * x >= q * 2
    BY <1>2
  <2> QED BY <2>1
<1> QED BY <1>1, <1>2

\* The bits of m from some place up are those from the next place up, doubled,
\* and the bit at that place.
LEMMA BitSuivant ==
  ASSUME NEW m \in Nat, NEW q \in Nat \ {0}
  PROVE  m \div q = 2 * (m \div (2 * q)) + ((m \div q) % 2)
<1> DEFINE a == m \div (2 * q)
           b == m \div q
           r == m % (2 * q)
           s == m % q
<1>1. 2 * q \in Nat \ {0}
  OBVIOUS
<1>2. a \in Nat /\ m = (2 * q) * a + r /\ r \in 0 .. 2 * q - 1
  BY <1>1, Division
<1>3. b \in Nat /\ m = q * b + s /\ s \in 0 .. q - 1
  BY Division
<1> HIDE DEF a, b, r, s
<1>4. q * (b - 2 * a) = q * b - (2 * q) * a
  BY <1>2, <1>3
<1>5. q * (b - 2 * a) > -q /\ q * (b - 2 * a) < 2 * q
  BY <1>2, <1>3, <1>4
<1>6. b - 2 * a \in {0, 1}
  BY <1>2, <1>3, <1>5, Encadre
<1>7. b = 2 * a + (b % 2)
  BY <1>2, <1>3, <1>6
<1> QED BY <1>7 DEF a, b

\* The number of words of 16 bits.
Plein == 65536

\* d ends in a, which is less than p; p divides half of Plein.
Finit(d, p, a) == \E h \in Int : d = h * p + a
Divise(p) == \E k \in Int : (2 * p) * k = Plein

\* A register of 16 bits that ends in a and takes in the bit b ends in 2a + b.
LEMMA Glissement ==
  ASSUME NEW d \in Int, NEW p \in Int, NEW a \in Int, NEW b \in Int,
         Divise(p), Finit(d, p, a)
  PROVE  Finit((2 * d + b) % Plein, 2 * p, 2 * a + b)
<1>1. PICK k \in Int : (2 * p) * k = Plein
  BY DEF Divise
<1>2. PICK h \in Int : d = h * p + a
  BY DEF Finit
<1> DEFINE x == 2 * d + b
           z == x \div Plein
<1>3. x \in Int
  OBVIOUS
<1>4. z \in Int /\ x % Plein = x - ((2 * p) * k) * z
  BY <1>1, <1>3 DEF Plein
<1> HIDE DEF z
<1>5. (h - k * z) * (2 * p) = 2 * (h * p) - ((2 * p) * k) * z
  BY <1>4
<1>6. x % Plein = (h - k * z) * (2 * p) + (2 * a + b)
  BY <1>2, <1>4, <1>5
<1> DEFINE y == x % Plein
           g == h - k * z
<1>7. g \in Int /\ y = g * (2 * p) + (2 * a + b)
  BY <1>4, <1>6
<1> HIDE DEF y, g
<1>8. Finit(y, 2 * p, 2 * a + b)
  BY <1>7 DEF Finit
<1> QED BY <1>8 DEF y

\* 2^n, for the provers.
Poids == <<1, 2, 4, 8, 16, 32, 64, 128, 256, 512, 1024, 2048, 4096, 8192, 16384, 32768, 65536>>

LEMMA PuissancesDeDeux ==
  ASSUME NEW n \in 0 .. 16
  PROVE  2^n = Poids[n + 1]
<1>1. CASE n = 0
  <2>1. 2^n = 1
    BY <1>1, 2^0 = 1
  <2>2. Poids[n + 1] = 1
    BY <1>1 DEF Poids
  <2> QED BY <2>1, <2>2
<1>2. CASE n = 1
  <2>1. 2^n = 2
    BY <1>2, 2^1 = 2
  <2>2. Poids[n + 1] = 2
    BY <1>2 DEF Poids
  <2> QED BY <2>1, <2>2
<1>3. CASE n = 2
  <2>1. 2^n = 4
    BY <1>3, 2^2 = 4
  <2>2. Poids[n + 1] = 4
    BY <1>3 DEF Poids
  <2> QED BY <2>1, <2>2
<1>4. CASE n = 3
  <2>1. 2^n = 8
    BY <1>4, 2^3 = 8
  <2>2. Poids[n + 1] = 8
    BY <1>4 DEF Poids
  <2> QED BY <2>1, <2>2
<1>5. CASE n = 4
  <2>1. 2^n = 16
    BY <1>5, 2^4 = 16
  <2>2. Poids[n + 1] = 16
    BY <1>5 DEF Poids
  <2> QED BY <2>1, <2>2
<1>6. CASE n = 5
  <2>1. 2^n = 32
    BY <1>6, 2^5 = 32
  <2>2. Poids[n + 1] = 32
    BY <1>6 DEF Poids
  <2> QED BY <2>1, <2>2
<1>7. CASE n = 6
  <2>1. 2^n = 64
    BY <1>7, 2^6 = 64
  <2>2. Poids[n + 1] = 64
    BY <1>7 DEF Poids
  <2> QED BY <2>1, <2>2
<1>8. CASE n = 7
  <2>1. 2^n = 128
    BY <1>8, 2^7 = 128
  <2>2. Poids[n + 1] = 128
    BY <1>8 DEF Poids
  <2> QED BY <2>1, <2>2
<1>9. CASE n = 8
  <2>1. 2^n = 256
    BY <1>9, 2^8 = 256
  <2>2. Poids[n + 1] = 256
    BY <1>9 DEF Poids
  <2> QED BY <2>1, <2>2
<1>10. CASE n = 9
  <2>1. 2^n = 512
    BY <1>10, 2^9 = 512
  <2>2. Poids[n + 1] = 512
    BY <1>10 DEF Poids
  <2> QED BY <2>1, <2>2
<1>11. CASE n = 10
  <2>1. 2^n = 1024
    BY <1>11, 2^10 = 1024
  <2>2. Poids[n + 1] = 1024
    BY <1>11 DEF Poids
  <2> QED BY <2>1, <2>2
<1>12. CASE n = 11
  <2>1. 2^n = 2048
    BY <1>12, 2^11 = 2048
  <2>2. Poids[n + 1] = 2048
    BY <1>12 DEF Poids
  <2> QED BY <2>1, <2>2
<1>13. CASE n = 12
  <2>1. 2^n = 4096
    BY <1>13, 2^12 = 4096
  <2>2. Poids[n + 1] = 4096
    BY <1>13 DEF Poids
  <2> QED BY <2>1, <2>2
<1>14. CASE n = 13
  <2>1. 2^n = 8192
    BY <1>14, 2^13 = 8192
  <2>2. Poids[n + 1] = 8192
    BY <1>14 DEF Poids
  <2> QED BY <2>1, <2>2
<1>15. CASE n = 14
  <2>1. 2^n = 16384
    BY <1>15, 2^14 = 16384
  <2>2. Poids[n + 1] = 16384
    BY <1>15 DEF Poids
  <2> QED BY <2>1, <2>2
<1>16. CASE n = 15
  <2>1. 2^n = 32768
    BY <1>16, 2^15 = 32768
  <2>2. Poids[n + 1] = 32768
    BY <1>16 DEF Poids
  <2> QED BY <2>1, <2>2
<1>17. CASE n = 16
  <2>1. 2^n = 65536
    BY <1>17, 2^16 = 65536
  <2>2. Poids[n + 1] = 65536
    BY <1>17 DEF Poids
  <2> QED BY <2>1, <2>2
<1> QED BY <1>1, <1>2, <1>3, <1>4, <1>5, <1>6, <1>7, <1>8, <1>9, <1>10, <1>11, <1>12, <1>13, <1>14, <1>15, <1>16, <1>17

LEMMA Puissances ==
  ASSUME NEW n \in 0 .. 15
  PROVE  /\ 2^n \in Nat \ {0} /\ 2^(15 - n) \in Nat \ {0}
         /\ 2^(n + 1) = 2 * 2^n /\ 2^(16 - n) = 2 * 2^(15 - n)
         /\ (2 * 2^n) * 2^(15 - n) = Plein
<1> DEFINE a == 2^n
           b == 2^(n + 1)
           c == 2^(15 - n)
           d == 2^(16 - n)
<1>1. a = Poids[n + 1] /\ b = Poids[n + 2] /\ c = Poids[16 - n] /\ d = Poids[17 - n]
  <2>1. /\ n \in 0 .. 16 /\ n + 1 \in 0 .. 16 /\ 15 - n \in 0 .. 16 /\ 16 - n \in 0 .. 16
        /\ (n + 1) + 1 = n + 2 /\ (15 - n) + 1 = 16 - n /\ (16 - n) + 1 = 17 - n
    OBVIOUS
  <2>2. /\ a = Poids[n + 1] /\ b = Poids[(n + 1) + 1] /\ c = Poids[(15 - n) + 1]
        /\ d = Poids[(16 - n) + 1]
    BY <2>1, PuissancesDeDeux
  <2> QED BY <2>1, <2>2
<1> HIDE DEF a, b, c, d
<1>2. a \in Nat \ {0} /\ c \in Nat \ {0} /\ b = 2 * a /\ d = 2 * c /\ (2 * a) * c = Plein
  BY <1>1 DEF Poids, Plein
<1> QED BY <1>2 DEF a, b, c, d

-----------------------------------------------------------------------------
(***************************************************************************)
(* The LED matrix.                                                         *)
(***************************************************************************)
Mots == (1 .. 15) \X (0 .. 255)

TypeAppel ==
  /\ etatLed \in {"hors", "actif", "propre"}
  /\ voulu \in [0 .. LIGNES - 1 -> 0 .. 255]
TypeCommandes == commandes \in Seq(Mots)
TypeBroches == bits \in -1 .. 16 /\ charge \in {0, 1}
TypeDecalage == decalage \in Nat /\ decalage < Plein
TypeRegistre == registre \in [0 .. 15 -> 0 .. 255]

\* While a command is sent LOAD is low and the last bits of the register are
\* the first bits of the command; the others are whatever was there.
Envoye ==
  /\ commandes = <<>> => bits = -1
  /\ bits >= 0 =>
       /\ charge = 0
       /\ Finit(decalage, 2^bits, Mot(Head(commandes)) \div 2^(16 - bits))

\* The value v is one that register a may have after a call that leaves the
\* driver in e and asks for the pattern w.
Bon(e, w, a, v) ==
  /\ \A i \in 0 .. LIGNES - 1 : a = REG_DIGIT0 + i => v = w[i]
  /\ a = REG_SHUTDOWN => v = (IF e = "actif" THEN 1 ELSE 0)
  /\ a \in {REG_DISPLAY_TEST, REG_DECODE_MODE} => v = 0
  /\ a = REG_SCAN_LIMIT => v = LIGNES - 1
  /\ a = REG_INTENSITY => v <= 15

Suivis == {REG_DIGIT0 + i : i \in 0 .. LIGNES - 1}
          \cup {REG_SHUTDOWN, REG_DISPLAY_TEST, REG_DECODE_MODE, REG_SCAN_LIMIT, REG_INTENSITY}

Annonce(cs, a) == \E n \in 1 .. Len(cs) : cs[n][1] = a

\* Every command that is left is right, and a register that none of them is
\* for has its value already.
Promesse ==
  etatLed # "hors" =>
    /\ \A n \in 1 .. Len(commandes) : Bon(etatLed, voulu, commandes[n][1], commandes[n][2])
    /\ \A a \in Suivis : Annonce(commandes, a) \/ Bon(etatLed, voulu, a, registre[a])

DInv ==
  /\ TypeAppel /\ TypeCommandes /\ TypeBroches /\ TypeDecalage /\ TypeRegistre
  /\ Envoye /\ Promesse

LEMMA MotType ==
  ASSUME NEW c \in Mots
  PROVE  c[1] \in 1 .. 15 /\ c[2] \in 0 .. 255 /\ Mot(c) = c[1] * 256 + c[2]
<1>1. c[1] \in 1 .. 15 /\ c[2] \in 0 .. 255
  BY DEF Mots
<1> QED BY <1>1 DEF Mot

LEMMA MotBorne ==
  ASSUME NEW c \in Mots
  PROVE  Mot(c) \in Nat /\ Mot(c) < Plein
<1> DEFINE a == c[1]
           b == c[2]
<1>1. a \in 1 .. 15 /\ b \in 0 .. 255 /\ Mot(c) = a * 256 + b
  BY MotType
<1> HIDE DEF a, b
<1>2. a \in Int /\ b \in Int /\ 1 <= a /\ a <= 15 /\ 0 <= b /\ b <= 255
  BY <1>1
<1> QED BY <1>1, <1>2 DEF Plein

\* The chip finds the address and the data in the word.
LEMMA MotDecoupe ==
  ASSUME NEW c \in Mots
  PROVE  (Mot(c) \div 256) % 16 = c[1] /\ Mot(c) % 256 = c[2]
<1> DEFINE a == c[1]
           b == c[2]
           m == Mot(c)
<1>1. a \in 1 .. 15 /\ b \in 0 .. 255 /\ m = a * 256 + b
  BY MotType
<1> HIDE DEF a, b, m
<1>2. m \div 256 = a /\ m % 256 = b
  BY <1>1
<1>3. a % 16 = a
  BY <1>1
<1> QED BY <1>2, <1>3 DEF a, b, m

LEMMA NoirType == Noir \in [0 .. LIGNES - 1 -> 0 .. 255] /\ \A i \in 0 .. LIGNES - 1 : Noir[i] = 0
BY MatriceLedAssumption DEF Noir

\* The commands of a whole pattern, one for each line.
LEMMA LignesType ==
  ASSUME NEW m \in [0 .. LIGNES - 1 -> 0 .. 255]
  PROVE  /\ LignesDe(m) \in Seq(Mots) /\ Len(LignesDe(m)) = LIGNES
         /\ \A n \in 1 .. LIGNES : LignesDe(m)[n] = <<REG_DIGIT0 + n - 1, m[n - 1]>>
<1>1. ASSUME NEW n \in 1 .. LIGNES
      PROVE  /\ matrice_led_ecrire_ligne(n - 1, m[n - 1])[1] = <<REG_DIGIT0 + n - 1, m[n - 1]>>
             /\ <<REG_DIGIT0 + n - 1, m[n - 1]>> \in Mots
  <2>1. n - 1 < 8 /\ n - 1 \in 0 .. LIGNES - 1 /\ REG_DIGIT0 + n - 1 \in 1 .. 15
        /\ REG_DIGIT0 + (n - 1) = REG_DIGIT0 + n - 1
    BY MatriceLedAssumption DEF REG_DIGIT0
  <2>2. m[n - 1] \in 0 .. 255
    BY <2>1
  <2>3. <<REG_DIGIT0 + n - 1, m[n - 1]>> \in Mots
    BY <2>1, <2>2 DEF Mots
  <2>4. matrice_led_ecrire_ligne(n - 1, m[n - 1]) = << <<REG_DIGIT0 + n - 1, m[n - 1]>> >>
    BY <2>1 DEF matrice_led_ecrire_ligne
  <2> QED BY <2>3, <2>4
<1>2. LIGNES \in Nat
  BY MatriceLedAssumption
<1>3. LignesDe(m) = [n \in 1 .. LIGNES |-> <<REG_DIGIT0 + n - 1, m[n - 1]>>]
  BY <1>1 DEF LignesDe
<1> QED BY <1>1, <1>2, <1>3

\* The lines of a pattern announce all the lines, and each is right.
LEMMA LignesBonnes ==
  ASSUME NEW e, NEW m \in [0 .. LIGNES - 1 -> 0 .. 255]
  PROVE  /\ \A n \in 1 .. LIGNES : Bon(e, m, LignesDe(m)[n][1], LignesDe(m)[n][2])
         /\ \A i \in 0 .. LIGNES - 1 : LignesDe(m)[i + 1][1] = REG_DIGIT0 + i
<1>1. ASSUME NEW n \in 1 .. LIGNES
      PROVE  Bon(e, m, LignesDe(m)[n][1], LignesDe(m)[n][2])
  <2>0. LignesDe(m)[n] = <<REG_DIGIT0 + n - 1, m[n - 1]>>
    BY LignesType
  <2>1. LignesDe(m)[n][1] = n /\ LignesDe(m)[n][2] = m[n - 1] /\ n \in 1 .. 8
    <3>1. n \in 1 .. 8 /\ 1 + n - 1 = n
      BY MatriceLedAssumption
    <3> QED BY <2>0, <3>1 DEF REG_DIGIT0
  <2>2. \A i \in 0 .. LIGNES - 1 : n = 1 + i => m[n - 1] = m[i]
    BY MatriceLedAssumption
  <2> QED BY <2>1, <2>2 DEF Bon, REG_DIGIT0, REG_SHUTDOWN, REG_DISPLAY_TEST, REG_DECODE_MODE,
             REG_SCAN_LIMIT, REG_INTENSITY
<1>2. ASSUME NEW i \in 0 .. LIGNES - 1 PROVE LignesDe(m)[i + 1][1] = REG_DIGIT0 + i
  <2>1. i + 1 \in 1 .. LIGNES /\ REG_DIGIT0 + (i + 1) - 1 = REG_DIGIT0 + i
    BY MatriceLedAssumption DEF REG_DIGIT0
  <2>2. LignesDe(m)[i + 1] = <<REG_DIGIT0 + (i + 1) - 1, m[(i + 1) - 1]>>
    BY <2>1, LignesType
  <2> QED BY <2>1, <2>2
<1> QED BY <1>1, <1>2

-----------------------------------------------------------------------------
LEMMA InitDInv == InitLed => DInv
<1> SUFFICES ASSUME InitLed PROVE DInv
  OBVIOUS
<1>1. TypeAppel
  BY NoirType DEF InitLed, TypeAppel
<1>2. TypeCommandes /\ TypeBroches /\ TypeDecalage
  BY DEF InitLed, TypeCommandes, TypeBroches, TypeDecalage, Plein
<1>3. TypeRegistre
  BY DEF InitLed, TypeRegistre
<1>4. Envoye
  BY DEF InitLed, Envoye
<1>5. Promesse
  BY DEF InitLed, Promesse
<1> QED BY <1>1, <1>2, <1>3, <1>4, <1>5 DEF DInv

\* The pins move, the call and its commands do not change.
LEMMA SelectionnerDInv == DInv /\ Selectionner => DInv'
<1> SUFFICES ASSUME DInv, Selectionner PROVE DInv'
  OBVIOUS
<1>1. TypeAppel'
  BY DEF DInv, TypeAppel, Selectionner
<1>2. TypeCommandes'
  BY DEF DInv, TypeCommandes, Selectionner
<1>3. TypeBroches'
  BY DEF TypeBroches, Selectionner
<1>4. TypeDecalage'
  BY DEF DInv, TypeDecalage, Selectionner
<1>5. TypeRegistre'
  BY DEF DInv, TypeRegistre, Selectionner
<1>6. Envoye'
  <2>1. commandes # <<>>
    BY DEF Selectionner, ReposLed
  <2>2. Head(commandes) \in Mots
    BY <2>1 DEF DInv, TypeCommandes
  <2> DEFINE m == Mot(Head(commandes))
  <2>3. m \in Nat /\ m < Plein
    BY <2>2, MotBorne, Zenon
  <2> HIDE DEF m
  <2>4. decalage \in Int
    BY DEF DInv, TypeDecalage
  <2>5. 2^0 = 1 /\ 2^16 = 65536 /\ 16 - 0 = 16
    OBVIOUS
  <2>6. m \div 65536 = 0
    BY <2>3 DEF Plein
  <2>7. decalage = decalage * 1 + (m \div 65536)
    BY <2>4, <2>6
  <2>8. Finit(decalage, 2^0, m \div 2^(16 - 0))
    BY <2>4, <2>5, <2>7 DEF Finit
  <2> QED BY <2>1, <2>8 DEF Envoye, Selectionner, m
<1>7. Promesse'
  BY DEF DInv, Promesse, Bon, Annonce, Selectionner
<1> QED BY <1>1, <1>2, <1>3, <1>4, <1>5, <1>6, <1>7 DEF DInv

LEMMA HorlogeDInv == DInv /\ Horloge => DInv'
<1> SUFFICES ASSUME DInv, Horloge PROVE DInv'
  OBVIOUS
<1> DEFINE m == Mot(Head(commandes))
           n == bits
           p == 2^n
           q == 2^(15 - n)
           b == (m \div q) % 2
<1>1. commandes # <<>>
  BY DEF Horloge, ReposLed
<1>2. Head(commandes) \in Mots
  BY <1>1 DEF DInv, TypeCommandes
<1>3. m \in Nat
  BY <1>2, MotBorne, Zenon
<1>4. n \in 0 .. 15 /\ charge = 0
  BY DEF DInv, Envoye, Horloge
<1>5. /\ p \in Nat \ {0} /\ q \in Nat \ {0} /\ 2^(n + 1) = 2 * p /\ 2^(16 - n) = 2 * q
      /\ (2 * p) * q = Plein
  BY <1>4, Puissances, Zenon
<1>6. Finit(decalage, p, m \div (2 * q))
  <2>1. Finit(decalage, p, m \div 2^(16 - n))
    BY <1>4 DEF DInv, Envoye
  <2> HIDE DEF m, n, q, p
  <2> QED BY <1>5, <2>1
<1>7. decalage' = (2 * decalage + b) % Plein
  BY DEF Horloge, BitFort, Plein
<1> HIDE DEF p, q, m, n
<1>8. m \div q = 2 * (m \div (2 * q)) + b
  BY <1>3, <1>5, BitSuivant, Zenon
<1>9. m \div (2 * q) \in Int /\ m \div q \in Int
  <2>1. 2 * q \in Nat \ {0}
    BY <1>5
  <2>2. m \div (2 * q) \in Nat /\ m \div q \in Nat
    BY <1>3, <1>5, <2>1, Division, Zenon
  <2> QED BY <2>2
<1>10. b \in {0, 1}
  BY <1>9
<1>11. decalage \in Int
  BY DEF DInv, TypeDecalage
<1> HIDE DEF b
<1>12. Finit(decalage', 2 * p, m \div q)
  <2> DEFINE a == m \div (2 * q)
  <2>1. a \in Int /\ b \in Int /\ p \in Int /\ q \in Int
    BY <1>5, <1>9, <1>10
  <2>2. Finit(decalage, p, a)
    BY <1>6
  <2> HIDE DEF a
  <2>3. Divise(p)
    BY <1>5, <2>1, Zenon DEF Divise
  <2>4. Finit((2 * decalage + b) % Plein, 2 * p, 2 * a + b)
    BY <1>11, <2>1, <2>2, <2>3, Glissement, Zenon
  <2>5. m \div q = 2 * a + b
    BY <1>8 DEF a
  <2> QED BY <1>7, <2>4, <2>5, Zenon
<1>13. TypeDecalage'
  <2>1. (2 * decalage + b) % Plein \in Nat /\ (2 * decalage + b) % Plein < Plein
    BY <1>10, <1>11 DEF Plein
  <2> QED BY <1>7, <2>1 DEF TypeDecalage
<1>14. TypeAppel'
  BY DEF DInv, TypeAppel, Horloge
<1>15. TypeCommandes'
  BY DEF DInv, TypeCommandes, Horloge
<1>16. TypeBroches'
  BY <1>4 DEF TypeBroches, Horloge, n
<1>17. TypeRegistre'
  <2>1. TypeRegistre
    BY DEF DInv
  <2>2. registre' = registre
    BY SMT DEF Horloge
  <2> QED BY <2>1, <2>2 DEF TypeRegistre
<1>18. Envoye'
  <2>1. bits' = n + 1 /\ commandes' = commandes /\ charge' = 0
    BY <1>4 DEF Horloge, n
  <2>2. 16 - (n + 1) = 15 - n
    BY <1>4
  <2>3. Finit(decalage', 2^(n + 1), m \div 2^(16 - (n + 1)))
    BY <1>5, <1>12, <2>2, Zenon DEF q
  <2> QED BY <1>1, <2>1, <2>3 DEF Envoye, m
<1>19. Promesse'
  BY DEF DInv, Promesse, Bon, Annonce, Horloge
<1> QED BY <1>13, <1>14, <1>15, <1>16, <1>17, <1>18, <1>19 DEF DInv

\* After the sixteenth bit the register holds the command and nothing else.
LEMMA Complet ==
  ASSUME DInv, ~ReposLed, bits = 16
  PROVE  charge = 0 /\ Head(commandes) \in Mots /\ decalage = Mot(Head(commandes))
<1> DEFINE m == Mot(Head(commandes))
<1>1. Head(commandes) \in Mots
  BY DEF DInv, TypeCommandes, ReposLed
<1>2. m \in Nat /\ m < Plein
  BY <1>1, MotBorne, Zenon
<1>3. charge = 0 /\ Finit(decalage, 2^16, m \div 2^(16 - 16))
  BY DEF DInv, Envoye
<1> HIDE DEF m
<1>4. 2^16 = 65536 /\ 2^0 = 1 /\ 16 - 16 = 0
  OBVIOUS
<1>5. Finit(decalage, Plein, m)
  <2>1. m \div 1 = m
    BY <1>2
  <2> QED BY <1>3, <1>4, <2>1 DEF Plein
<1>6. PICK h \in Int : decalage = h * Plein + m
  BY <1>5 DEF Finit
<1>7. decalage \in Nat /\ decalage < Plein
  BY DEF DInv, TypeDecalage
<1>8. h = 0
  BY <1>2, <1>6, <1>7 DEF Plein
<1>9. decalage = m
  BY <1>2, <1>6, <1>8 DEF Plein
<1> QED BY <1>1, <1>3, <1>9 DEF m

LEMMA ChargerDInv == DInv /\ Charger => DInv'
<1> SUFFICES ASSUME DInv, Charger PROVE DInv'
  OBVIOUS
<1> DEFINE c == Head(commandes)
<1>1. commandes # <<>> /\ c \in Mots /\ decalage = Mot(c)
  BY Complet DEF Charger, ReposLed
<1>2. c[1] \in 1 .. 15 /\ c[2] \in 0 .. 255
  BY <1>1, MotType
<1>3. registre' = [registre EXCEPT ![c[1]] = c[2]]
  <2>1. (Mot(c) \div 256) % 16 = c[1] /\ Mot(c) % 256 = c[2]
    BY <1>1, MotDecoupe, Zenon
  <2>2. registre' = [registre EXCEPT ![(decalage \div 256) % 16] = decalage % 256]
    BY DEF Charger
  <2> HIDE DEF c
  <2> QED BY <1>1, <2>1, <2>2, Zenon
<1>4. /\ commandes' = Tail(commandes) /\ bits' = -1 /\ charge' = 1
      /\ UNCHANGED <<etatLed, decalage, voulu>>
  BY DEF Charger
<1>5. TypeAppel'
  BY <1>4 DEF DInv, TypeAppel
<1>6. commandes \in Seq(Mots)
  BY DEF DInv, TypeCommandes
<1>7. TypeCommandes'
  BY <1>1, <1>4, <1>6 DEF TypeCommandes
<1>8. TypeBroches'
  BY <1>4 DEF TypeBroches
<1>9. TypeDecalage'
  BY <1>4 DEF DInv, TypeDecalage
<1>10. registre \in [0 .. 15 -> 0 .. 255]
  BY DEF DInv, TypeRegistre
<1>11. TypeRegistre'
  BY <1>2, <1>3, <1>10 DEF TypeRegistre
<1>12. Envoye'
  BY <1>4 DEF Envoye
<1>13. Promesse'
  <2> DEFINE B(a, v) == Bon(etatLed, voulu, a, v)
  <2> SUFFICES ASSUME etatLed # "hors"
               PROVE  /\ \A n \in 1 .. Len(commandes') : B(commandes'[n][1], commandes'[n][2])
                      /\ \A a \in Suivis : Annonce(commandes', a) \/ B(a, registre'[a])
    BY <1>4 DEF Promesse, Suivis, Annonce
  <2>1. /\ \A n \in 1 .. Len(commandes) : B(commandes[n][1], commandes[n][2])
        /\ \A a \in Suivis : Annonce(commandes, a) \/ B(a, registre[a])
    BY DEF DInv, Promesse
  <2> HIDE DEF B
  <2>2. /\ Len(commandes) \in Nat /\ Len(commandes) >= 1 /\ c = commandes[1]
        /\ Len(Tail(commandes)) = Len(commandes) - 1
        /\ \A n \in 1 .. Len(commandes) - 1 : Tail(commandes)[n] = commandes[n + 1]
    BY <1>1, <1>6
  <2>3. ASSUME NEW n \in 1 .. Len(commandes')
        PROVE  B(commandes'[n][1], commandes'[n][2])
    <3>1. n + 1 \in 1 .. Len(commandes) /\ commandes'[n] = commandes[n + 1]
      BY <1>4, <2>2
    <3> QED BY <2>1, <3>1
  <2>4. ASSUME NEW a \in Suivis
        PROVE  Annonce(commandes', a) \/ B(a, registre'[a])
    <3>1. CASE a = c[1]
      <4>1. registre'[a] = c[2]
        BY <1>2, <1>3, <1>10, <3>1
      <4>2. B(c[1], c[2])
        BY <2>1, <2>2
      <4> QED BY <3>1, <4>1, <4>2
    <3>2. CASE a # c[1] /\ Annonce(commandes, a)
      <4>1. PICK n \in 1 .. Len(commandes) : commandes[n][1] = a
        BY <3>2 DEF Annonce
      <4>2. n # 1
        BY <2>2, <3>2, <4>1
      <4>3. n - 1 \in 1 .. Len(commandes') /\ commandes'[n - 1] = commandes[n]
        BY <1>4, <2>2, <4>2
      <4> QED BY <4>1, <4>3 DEF Annonce
    <3>3. CASE a # c[1] /\ ~Annonce(commandes, a)
      <4>1. B(a, registre[a])
        BY <2>1, <3>3
      <4>2. a \in 0 .. 15
        BY MatriceLedAssumption DEF Suivis, REG_DIGIT0, REG_SHUTDOWN, REG_DISPLAY_TEST,
           REG_DECODE_MODE, REG_SCAN_LIMIT, REG_INTENSITY
      <4>3. registre'[a] = registre[a]
        BY <1>2, <1>3, <1>10, <3>3, <4>2
      <4> QED BY <4>1, <4>3
    <3> QED BY <3>1, <3>2, <3>3
  <2> QED BY <2>3, <2>4
<1> QED BY <1>5, <1>7, <1>8, <1>9, <1>11, <1>12, <1>13 DEF DInv

Fixes == {REG_SHUTDOWN, REG_DISPLAY_TEST, REG_DECODE_MODE, REG_SCAN_LIMIT, REG_INTENSITY}

\* The other registers do not depend on the pattern.
LEMMA FixesLibres ==
  ASSUME NEW a \in Fixes, NEW e, NEW w, NEW x, NEW v, Bon(e, w, a, v)
  PROVE  Bon(e, x, a, v)
<1>1. a \in Int /\ a > 8
  BY DEF Fixes, REG_SHUTDOWN, REG_DISPLAY_TEST, REG_DECODE_MODE, REG_SCAN_LIMIT, REG_INTENSITY
<1>2. \A i \in 0 .. LIGNES - 1 : a # REG_DIGIT0 + i
  BY <1>1, MatriceLedAssumption DEF REG_DIGIT0
<1> QED BY <1>2 DEF Bon

\* A call whose commands are right and complete keeps the invariant.
LEMMA AppelDInv ==
  ASSUME DInv, NEW e \in {"actif", "propre"}, NEW cs \in Seq(Mots),
         NEW w \in [0 .. LIGNES - 1 -> 0 .. 255], AppelLed(e, cs), voulu' = w,
         \A n \in 1 .. Len(cs) : Bon(e, w, cs[n][1], cs[n][2]),
         \A a \in Suivis : Annonce(cs, a) \/ Bon(e, w, a, registre[a])
  PROVE  DInv'
<1>1. /\ commandes' = cs /\ etatLed' = e /\ commandes = <<>>
      /\ UNCHANGED <<bits, charge, decalage, registre>>
  BY DEF AppelLed, ReposLed, puceLed
<1>2. TypeAppel'
  BY <1>1 DEF TypeAppel
<1>3. TypeCommandes'
  BY <1>1 DEF TypeCommandes
<1>4. TypeBroches'
  BY <1>1 DEF DInv, TypeBroches
<1>5. TypeDecalage'
  BY <1>1 DEF DInv, TypeDecalage
<1>6. TypeRegistre'
  BY <1>1 DEF DInv, TypeRegistre
<1>7. Envoye'
  BY <1>1 DEF DInv, Envoye
<1>8. Promesse'
  BY <1>1 DEF Promesse, Annonce, Suivis
<1> QED BY <1>2, <1>3, <1>4, <1>5, <1>6, <1>7, <1>8 DEF DInv

\* Between two calls of a process the registers are right.
LEMMA EntreAppels ==
  ASSUME DInv, ReposLed, etatLed = "actif"
  PROVE  \A a \in Suivis : Bon("actif", voulu, a, registre[a])
<1>1. ~ \E n \in 1 .. Len(commandes) : TRUE
  BY DEF ReposLed
<1>2. \A a \in Suivis : ~Annonce(commandes, a)
  BY <1>1 DEF Annonce
<1> QED BY <1>2 DEF DInv, Promesse

LEMMA SuivisFixes ==
  /\ Fixes \subseteq Suivis
  /\ \A a \in Suivis : a \in Fixes \/ \E i \in 0 .. LIGNES - 1 : a = REG_DIGIT0 + i
BY DEF Suivis, Fixes

\* The lines of a pattern, after or before other commands.
LEMMA LignesAnnoncees ==
  ASSUME NEW m \in [0 .. LIGNES - 1 -> 0 .. 255], NEW i \in 0 .. LIGNES - 1
  PROVE  Annonce(LignesDe(m), REG_DIGIT0 + i)
<1>1. i + 1 \in 1 .. LIGNES
  BY MatriceLedAssumption
<1> QED BY <1>1, LignesType, LignesBonnes DEF Annonce

LEMMA JointDInv ==
  ASSUME NEW s \in Seq(Mots), NEW t \in Seq(Mots), NEW e, NEW w,
         \A n \in 1 .. Len(s) : Bon(e, w, s[n][1], s[n][2]),
         \A n \in 1 .. Len(t) : Bon(e, w, t[n][1], t[n][2])
  PROVE  /\ s \o t \in Seq(Mots)
         /\ \A n \in 1 .. Len(s \o t) : Bon(e, w, (s \o t)[n][1], (s \o t)[n][2])
         /\ \A a : Annonce(s, a) \/ Annonce(t, a) => Annonce(s \o t, a)
<1>1. /\ s \o t \in Seq(Mots) /\ Len(s) \in Nat /\ Len(t) \in Nat
      /\ Len(s \o t) = Len(s) + Len(t)
      /\ \A n \in 1 .. Len(s) : (s \o t)[n] = s[n]
      /\ \A n \in 1 .. Len(t) : (s \o t)[Len(s) + n] = t[n]
  OBVIOUS
<1>2. ASSUME NEW n \in 1 .. Len(s \o t)
      PROVE  Bon(e, w, (s \o t)[n][1], (s \o t)[n][2])
  <2>1. CASE n \in 1 .. Len(s)
    BY <1>1, <2>1
  <2>2. CASE n \notin 1 .. Len(s)
    <3>1. n - Len(s) \in 1 .. Len(t) /\ Len(s) + (n - Len(s)) = n
      BY <1>1, <2>2
    <3>2. (s \o t)[n] = t[n - Len(s)]
      BY <1>1, <3>1
    <3> QED BY <3>1, <3>2
  <2> QED BY <2>1, <2>2
<1>3. ASSUME NEW a, Annonce(s, a) PROVE Annonce(s \o t, a)
  <2>1. PICK n \in 1 .. Len(s) : s[n][1] = a
    BY <1>3 DEF Annonce
  <2>2. n \in 1 .. Len(s \o t) /\ (s \o t)[n] = s[n]
    BY <1>1
  <2> QED BY <2>1, <2>2 DEF Annonce
<1>4. ASSUME NEW a, Annonce(t, a) PROVE Annonce(s \o t, a)
  <2>1. PICK n \in 1 .. Len(t) : t[n][1] = a
    BY <1>4 DEF Annonce
  <2>2. Len(s) + n \in 1 .. Len(s \o t) /\ (s \o t)[Len(s) + n] = t[n]
    BY <1>1
  <2> QED BY <2>1, <2>2 DEF Annonce
<1> QED BY <1>1, <1>2, <1>3, <1>4

-----------------------------------------------------------------------------
Mise == << <<REG_SHUTDOWN, 1>>, <<REG_DECODE_MODE, 0>>, <<REG_SCAN_LIMIT, LIGNES - 1>>,
           <<REG_INTENSITY, 15>>, <<REG_DISPLAY_TEST, 0>> >>

LEMMA MiseBonne ==
  ASSUME NEW w
  PROVE  /\ Mise \in Seq(Mots)
         /\ \A n \in 1 .. Len(Mise) : Bon("actif", w, Mise[n][1], Mise[n][2])
         /\ \A a \in Fixes : Annonce(Mise, a)
<1> USE DEF REG_SHUTDOWN, REG_DISPLAY_TEST, REG_DECODE_MODE, REG_SCAN_LIMIT, REG_INTENSITY
<1>1. /\ <<12, 1>> \in Mots /\ <<9, 0>> \in Mots /\ <<11, LIGNES - 1>> \in Mots
      /\ <<10, 15>> \in Mots /\ <<15, 0>> \in Mots
  <2>1. LIGNES - 1 \in 0 .. 255
    BY MatriceLedAssumption
  <2> QED BY <2>1 DEF Mots
<1>2. Mise \in Seq(Mots) /\ Len(Mise) = 5
  BY <1>1 DEF Mise
<1>3. /\ Mise[1] = <<12, 1>> /\ Mise[2] = <<9, 0>> /\ Mise[3] = <<11, LIGNES - 1>>
      /\ Mise[4] = <<10, 15>> /\ Mise[5] = <<15, 0>>
  BY DEF Mise
<1>4. \A i \in 0 .. LIGNES - 1 : REG_DIGIT0 + i < 9 /\ REG_DIGIT0 + i \in Int
  BY MatriceLedAssumption DEF REG_DIGIT0
<1>5. /\ Bon("actif", w, 12, 1) /\ Bon("actif", w, 9, 0) /\ Bon("actif", w, 11, LIGNES - 1)
      /\ Bon("actif", w, 10, 15) /\ Bon("actif", w, 15, 0)
  BY <1>4 DEF Bon
<1>6. ASSUME NEW n \in 1 .. 5 PROVE Bon("actif", w, Mise[n][1], Mise[n][2])
  <2>1. n = 1 \/ n = 2 \/ n = 3 \/ n = 4 \/ n = 5
    OBVIOUS
  <2> QED BY <1>3, <1>5, <2>1
<1>7. ASSUME NEW a \in Fixes PROVE Annonce(Mise, a)
  <2>1. a = 12 \/ a = 9 \/ a = 11 \/ a = 10 \/ a = 15
    BY DEF Fixes
  <2> QED BY <1>2, <1>3, <2>1 DEF Annonce
<1> QED BY <1>2, <1>6, <1>7

LEMMA InitDInvAppel == DInv /\ matrice_led_init => DInv'
<1> SUFFICES ASSUME DInv, matrice_led_init PROVE DInv'
  OBVIOUS
<1> DEFINE cs == Mise \o LignesDe(Noir)
<1>1. AppelLed("actif", cs) /\ voulu' = Noir
  BY DEF matrice_led_init, Mise
<1>2. /\ LignesDe(Noir) \in Seq(Mots) /\ Len(LignesDe(Noir)) = LIGNES
      /\ \A n \in 1 .. LIGNES : Bon("actif", Noir, LignesDe(Noir)[n][1], LignesDe(Noir)[n][2])
  BY NoirType, LignesType, LignesBonnes
<1>3. /\ cs \in Seq(Mots)
      /\ \A n \in 1 .. Len(cs) : Bon("actif", Noir, cs[n][1], cs[n][2])
      /\ \A a : Annonce(Mise, a) \/ Annonce(LignesDe(Noir), a) => Annonce(cs, a)
  BY ZenonT(60), <1>2, MiseBonne, JointDInv
<1>4. \A a \in Suivis : Annonce(cs, a)
  BY <1>3, NoirType, MiseBonne, LignesAnnoncees, SuivisFixes
<1> HIDE DEF cs
<1> QED BY <1>1, <1>3, <1>4, NoirType, AppelDInv

LEMMA MotifDInv == DInv /\ matrice_led_afficher_motif => DInv'
<1> SUFFICES ASSUME DInv, matrice_led_afficher_motif PROVE DInv'
  OBVIOUS
<1>1. PICK m \in Motifs \cup {Noir} : AppelLed("actif", LignesDe(m)) /\ voulu' = m
  BY DEF matrice_led_afficher_motif
<1>2. m \in [0 .. LIGNES - 1 -> 0 .. 255]
  BY NoirType, MatriceLedAssumption
<1>3. /\ LignesDe(m) \in Seq(Mots) /\ Len(LignesDe(m)) = LIGNES
      /\ \A n \in 1 .. LIGNES : Bon("actif", m, LignesDe(m)[n][1], LignesDe(m)[n][2])
  BY <1>2, LignesType, LignesBonnes
<1>4. \A a \in Suivis : Bon("actif", voulu, a, registre[a])
  BY <1>1, EntreAppels DEF matrice_led_afficher_motif, AppelLed
<1>5. ASSUME NEW a \in Suivis PROVE Annonce(LignesDe(m), a) \/ Bon("actif", m, a, registre[a])
  <2>1. CASE a \in Fixes
    BY <1>4, <2>1, FixesLibres
  <2>2. CASE \E i \in 0 .. LIGNES - 1 : a = REG_DIGIT0 + i
    BY <1>2, <2>2, LignesAnnoncees
  <2> QED BY <2>1, <2>2, SuivisFixes
<1> DEFINE cs == LignesDe(m)
<1>6. /\ cs \in Seq(Mots) /\ AppelLed("actif", cs)
      /\ \A n \in 1 .. Len(cs) : Bon("actif", m, cs[n][1], cs[n][2])
      /\ \A a \in Suivis : Annonce(cs, a) \/ Bon("actif", m, a, registre[a])
  BY <1>1, <1>3, <1>5
<1> HIDE DEF cs
<1> QED BY <1>1, <1>2, <1>6, AppelDInv

LEMMA CleanupDInv == DInv /\ matrice_led_cleanup => DInv'
<1> SUFFICES ASSUME DInv, matrice_led_cleanup PROVE DInv'
  OBVIOUS
<1> DEFINE fin == << <<REG_SHUTDOWN, 0>> >>
           cs == LignesDe(Noir) \o fin
<1>1. AppelLed("propre", cs) /\ voulu' = Noir /\ etatLed = "actif" /\ ReposLed
  BY DEF matrice_led_cleanup, ExtinctionLed, AppelLed
<1>2. /\ LignesDe(Noir) \in Seq(Mots) /\ Len(LignesDe(Noir)) = LIGNES
      /\ \A n \in 1 .. LIGNES : Bon("propre", Noir, LignesDe(Noir)[n][1], LignesDe(Noir)[n][2])
  BY NoirType, LignesType, LignesBonnes
<1>3. /\ fin \in Seq(Mots) /\ Len(fin) = 1 /\ fin[1] = <<REG_SHUTDOWN, 0>>
      /\ Bon("propre", Noir, REG_SHUTDOWN, 0)
  <2>1. <<REG_SHUTDOWN, 0>> \in Mots
    BY DEF REG_SHUTDOWN, Mots
  <2>2. \A i \in 0 .. LIGNES - 1 : REG_DIGIT0 + i < 9 /\ REG_DIGIT0 + i \in Int
    BY MatriceLedAssumption DEF REG_DIGIT0
  <2>3. Bon("propre", Noir, REG_SHUTDOWN, 0)
    BY <2>2 DEF Bon, REG_SHUTDOWN, REG_DISPLAY_TEST, REG_DECODE_MODE, REG_SCAN_LIMIT, REG_INTENSITY
  <2> QED BY <2>1, <2>3
<1>4. /\ \A n \in 1 .. Len(fin) : Bon("propre", Noir, fin[n][1], fin[n][2])
      /\ Annonce(fin, REG_SHUTDOWN)
  BY <1>3 DEF Annonce
<1> HIDE DEF fin
<1>5. /\ cs \in Seq(Mots)
      /\ \A n \in 1 .. Len(cs) : Bon("propre", Noir, cs[n][1], cs[n][2])
      /\ \A a : Annonce(LignesDe(Noir), a) \/ Annonce(fin, a) => Annonce(cs, a)
  BY <1>2, <1>3, <1>4, JointDInv
<1>6. ASSUME NEW a \in Suivis PROVE Annonce(cs, a) \/ Bon("propre", Noir, a, registre[a])
  <2>1. CASE a = REG_SHUTDOWN
    BY <1>4, <1>5, <2>1
  <2>2. CASE a \in Fixes /\ a # REG_SHUTDOWN
    <3>1. Bon("actif", voulu, a, registre[a])
      BY <1>1, EntreAppels
    <3>2. Bon("actif", Noir, a, registre[a])
      BY <2>2, <3>1, FixesLibres
    <3> QED BY <2>2, <3>2 DEF Bon
  <2>3. CASE \E i \in 0 .. LIGNES - 1 : a = REG_DIGIT0 + i
    BY <1>5, <2>3, NoirType, LignesAnnoncees
  <2> QED BY <2>1, <2>2, <2>3, SuivisFixes
<1> HIDE DEF cs
<1> QED BY <1>1, <1>5, <1>6, NoirType, AppelDInv

\* A call of a single command for register r.
LEMMA SeuleDInv ==
  ASSUME DInv, etatLed = "actif", NEW r \in 1 .. 15, NEW v \in 0 .. 255,
         NEW w \in [0 .. LIGNES - 1 -> 0 .. 255], AppelLed("actif", << <<r, v>> >>), voulu' = w,
         Bon("actif", w, r, v),
         \A a \in Suivis : a # r => Bon("actif", w, a, registre[a])
  PROVE  DInv'
<1> DEFINE cs == << <<r, v>> >>
<1>1. <<r, v>> \in Mots
  BY DEF Mots
<1>2. cs \in Seq(Mots) /\ Len(cs) = 1 /\ cs[1] = <<r, v>> /\ AppelLed("actif", cs)
  BY <1>1
<1> HIDE DEF cs
<1>3. \A n \in 1 .. Len(cs) : Bon("actif", w, cs[n][1], cs[n][2])
  BY <1>2
<1>4. \A a \in Suivis : Annonce(cs, a) \/ Bon("actif", w, a, registre[a])
  BY <1>2 DEF Annonce
<1> QED BY <1>2, <1>3, <1>4, AppelDInv

LEMMA LigneDInv == DInv /\ EcrireLigne => DInv'
<1> SUFFICES ASSUME DInv, EcrireLigne PROVE DInv'
  OBVIOUS
<1>1. PICK i \in (0 .. LIGNES - 1) \cup {8}, m \in Motifs :
        /\ AppelLed("actif", matrice_led_ecrire_ligne(i, m[0]))
        /\ voulu' = IF i = 8 THEN voulu ELSE [voulu EXCEPT ![i] = m[0]]
  BY DEF EcrireLigne
<1>2. etatLed = "actif" /\ ReposLed
  BY <1>1 DEF EcrireLigne, AppelLed
<1>3. \A a \in Suivis : Bon("actif", voulu, a, registre[a])
  BY <1>2, EntreAppels
<1>4. voulu \in [0 .. LIGNES - 1 -> 0 .. 255]
  BY DEF DInv, TypeAppel
<1>5. CASE i = 8
  <2>1. AppelLed("actif", <<>>) /\ voulu' = voulu
    BY <1>1, <1>5 DEF matrice_led_ecrire_ligne
  <2> DEFINE cs == <<>>
  <2>2. cs \in Seq(Mots) /\ Len(cs) = 0
    OBVIOUS
  <2>3. AppelLed("actif", cs)
    BY <2>1
  <2> HIDE DEF cs
  <2>4. \A n \in 1 .. Len(cs) : Bon("actif", voulu, cs[n][1], cs[n][2])
    BY <2>2
  <2> QED BY <1>3, <1>4, <2>1, <2>2, <2>3, <2>4, AppelDInv
<1>6. CASE i # 8
  <2>1. i \in 0 .. LIGNES - 1 /\ i < 8 /\ 0 \in 0 .. LIGNES - 1 /\ REG_DIGIT0 + i \in 1 .. 15
    <3>1. i \in 0 .. LIGNES - 1
      BY <1>6
    <3> QED BY <3>1, MatriceLedAssumption DEF REG_DIGIT0
  <2>2. m[0] \in 0 .. 255
    <3>1. m \in [0 .. LIGNES - 1 -> 0 .. 255]
      BY MatriceLedAssumption
    <3> QED BY <2>1, <3>1
  <2>3. AppelLed("actif", << <<REG_DIGIT0 + i, m[0]>> >>)
    BY <1>1, <2>1 DEF matrice_led_ecrire_ligne
  <2> DEFINE w == [voulu EXCEPT ![i] = m[0]]
  <2>4. /\ voulu' = w /\ w \in [0 .. LIGNES - 1 -> 0 .. 255] /\ w[i] = m[0]
        /\ \A j \in 0 .. LIGNES - 1 : j # i => w[j] = voulu[j]
    BY <1>1, <1>4, <1>6, <2>1, <2>2
  <2> HIDE DEF w
  <2>5. Bon("actif", w, REG_DIGIT0 + i, m[0])
    <3>1. \A j \in 0 .. LIGNES - 1 : REG_DIGIT0 + i = REG_DIGIT0 + j => j = i
      BY <2>1, MatriceLedAssumption DEF REG_DIGIT0
    <3>2. REG_DIGIT0 + i \in 1 .. 8
      BY <2>1 DEF REG_DIGIT0
    <3> QED BY <2>4, <3>1, <3>2 DEF Bon, REG_SHUTDOWN, REG_DISPLAY_TEST, REG_DECODE_MODE,
               REG_SCAN_LIMIT, REG_INTENSITY
  <2>6. ASSUME NEW a \in Suivis, a # REG_DIGIT0 + i
        PROVE  Bon("actif", w, a, registre[a])
    <3>1. Bon("actif", voulu, a, registre[a])
      BY <1>3
    <3>2. \A j \in 0 .. LIGNES - 1 : a = REG_DIGIT0 + j => w[j] = voulu[j]
      BY <2>4, <2>6
    <3> QED BY <3>1, <3>2 DEF Bon
  <2> QED BY <1>2, <2>1, <2>2, <2>3, <2>4, <2>5, <2>6, SeuleDInv
<1> QED BY <1>5, <1>6

LEMMA LuminositeDInv == DInv /\ matrice_led_luminosite => DInv'
<1> SUFFICES ASSUME DInv, matrice_led_luminosite PROVE DInv'
  OBVIOUS
<1>1. PICK n \in {3, 16} : AppelLed("actif", << <<REG_INTENSITY, BorneLed(n)>> >>)
  BY DEF matrice_led_luminosite
<1>2. BorneLed(n) \in 0 .. 15
  BY DEF BorneLed
<1>3. etatLed = "actif" /\ ReposLed /\ voulu' = voulu
  BY <1>1 DEF matrice_led_luminosite, AppelLed
<1>4. \A a \in Suivis : Bon("actif", voulu, a, registre[a])
  BY <1>3, EntreAppels
<1>5. voulu \in [0 .. LIGNES - 1 -> 0 .. 255]
  BY DEF DInv, TypeAppel
<1> DEFINE v == BorneLed(n)
<1>6. v \in 0 .. 255 /\ v <= 15 /\ REG_INTENSITY \in 1 .. 15
  BY <1>2 DEF REG_INTENSITY
<1> HIDE DEF v
<1>7. Bon("actif", voulu, REG_INTENSITY, v)
  <2>1. \A i \in 0 .. LIGNES - 1 : REG_DIGIT0 + i < 9 /\ REG_DIGIT0 + i \in Int
    BY MatriceLedAssumption DEF REG_DIGIT0
  <2> QED BY <1>6, <2>1 DEF Bon, REG_SHUTDOWN, REG_DISPLAY_TEST, REG_DECODE_MODE,
             REG_SCAN_LIMIT, REG_INTENSITY
<1>8. AppelLed("actif", << <<REG_INTENSITY, v>> >>)
  BY <1>1 DEF v
<1> QED BY <1>3, <1>4, <1>5, <1>6, <1>7, <1>8, SeuleDInv

LEMMA TuerDInv == DInv /\ TuerLed => DInv'
<1> SUFFICES ASSUME DInv, TuerLed PROVE DInv'
  OBVIOUS
<1>1. /\ etatLed' = "hors" /\ commandes' = <<>> /\ bits' = -1 /\ voulu' = Noir
      /\ UNCHANGED <<charge, decalage, registre>>
  BY DEF TuerLed, puceLed
<1>2. TypeAppel'
  BY <1>1, NoirType DEF TypeAppel
<1>3. TypeCommandes'
  BY <1>1 DEF TypeCommandes
<1>4. TypeBroches'
  BY <1>1 DEF DInv, TypeBroches
<1>5. TypeDecalage'
  BY <1>1 DEF DInv, TypeDecalage
<1>6. TypeRegistre'
  BY <1>1 DEF DInv, TypeRegistre
<1>7. Envoye' /\ Promesse'
  BY <1>1 DEF Envoye, Promesse
<1> QED BY <1>2, <1>3, <1>4, <1>5, <1>6, <1>7 DEF DInv

LEMMA EtapeDInv == DInv /\ [NextLed]_varsLed => DInv'
<1> SUFFICES ASSUME DInv, [NextLed]_varsLed PROVE DInv'
  OBVIOUS
<1>1. CASE UNCHANGED varsLed
  <2>1. UNCHANGED <<etatLed, commandes, bits, charge, decalage, registre, voulu>>
    BY <1>1 DEF varsLed
  <2>2. TypeAppel'
    BY <2>1 DEF DInv, TypeAppel
  <2>3. TypeCommandes'
    BY <2>1 DEF DInv, TypeCommandes
  <2>4. TypeBroches'
    BY <2>1 DEF DInv, TypeBroches
  <2>5. TypeDecalage'
    BY <2>1 DEF DInv, TypeDecalage
  <2>6. TypeRegistre'
    BY <2>1 DEF DInv, TypeRegistre
  <2>7. Envoye'
    BY <2>1 DEF DInv, Envoye
  <2>8. Promesse'
    BY <2>1 DEF DInv, Promesse, Annonce, Suivis
  <2> QED BY <2>2, <2>3, <2>4, <2>5, <2>6, <2>7, <2>8 DEF DInv
<1> QED BY <1>1, InitDInvAppel, MotifDInv, LigneDInv, LuminositeDInv, CleanupDInv,
           SelectionnerDInv, HorlogeDInv, ChargerDInv, TuerDInv DEF NextLed

LEMMA InvariantLed == SpecLed => []DInv
BY InitDInv, EtapeDInv, PTL DEF SpecLed

(* Every word the chip takes over is exactly the command that was meant,   *)
(* for any matrix and any pattern, also after a process was killed between *)
(* two edges of the clock and left part of a word in the register          *)
(* (my_matrice_led.c:11-19, 43-49).                                        *)
THEOREM TrameEntiereProuvee == SpecLed => []TrameEntiere
<1>1. DInv => TrameEntiere
  BY Complet DEF TrameEntiere
<1> QED BY <1>1, InvariantLed, PTL

(* After every call the matrix shows the pattern asked for, in the mode in *)
(* which it is seen as it is, whatever an earlier process left in the chip *)
(* (my_matrice_led.c:24-38, 54-98).                                        *)
THEOREM MotifAfficheProuve == SpecLed => []MotifAffiche
<1>1. DInv => MotifAffiche
  <2> SUFFICES ASSUME DInv, etatLed # "hors", ReposLed
               PROVE  /\ \A i \in 0 .. LIGNES - 1 : registre[REG_DIGIT0 + i] = voulu[i]
                      /\ registre[REG_SHUTDOWN] = (IF etatLed = "actif" THEN 1 ELSE 0)
                      /\ registre[REG_DISPLAY_TEST] = 0 /\ registre[REG_DECODE_MODE] = 0
                      /\ registre[REG_SCAN_LIMIT] = LIGNES - 1 /\ registre[REG_INTENSITY] <= 15
    BY DEF MotifAffiche
  <2>1. ~ \E n \in 1 .. Len(commandes) : TRUE
    BY DEF ReposLed
  <2>2. \A a \in Suivis : Bon(etatLed, voulu, a, registre[a])
    BY <2>1 DEF DInv, Promesse, Annonce
  <2>3. Fixes \subseteq Suivis /\ \A i \in 0 .. LIGNES - 1 : REG_DIGIT0 + i \in Suivis
    BY DEF Fixes, Suivis
  <2>4. \A i \in 0 .. LIGNES - 1 : registre[REG_DIGIT0 + i] = voulu[i]
    BY <2>2, <2>3 DEF Bon
  <2>5. \A a \in Fixes : Bon(etatLed, voulu, a, registre[a])
    BY <2>2, <2>3
  <2> QED BY <2>4, <2>5 DEF Bon, Fixes
<1> QED BY <1>1, InvariantLed, PTL

-----------------------------------------------------------------------------
(***************************************************************************)
(* The four digits.                                                        *)
(***************************************************************************)
Lettres == {"a", "b", "c", "d", "e", "f", "g"}
Segments == Lettres \cup {".", ":"}
Positions == 0 .. 3
SansPoint == [Cases -> SUBSET Lettres]

LEMMA Places ==
  /\ POSITION_MAP[0] = 0 /\ POSITION_MAP[1] = 1 /\ POSITION_MAP[2] = 3 /\ POSITION_MAP[3] = 4
  /\ \A p \in Positions : POSITION_MAP[p] \in Cases /\ POSITION_MAP[p] # 2
  /\ \A p, q \in Positions : POSITION_MAP[p] = POSITION_MAP[q] => p = q
<1>1. /\ POSITION_MAP[0] = 0 /\ POSITION_MAP[1] = 1 /\ POSITION_MAP[2] = 3 /\ POSITION_MAP[3] = 4
  BY DEF POSITION_MAP
<1>2. \A p \in Positions : p = 0 \/ p = 1 \/ p = 2 \/ p = 3
  BY DEF Positions
<1> QED BY <1>1, <1>2 DEF Cases

\* The segments of the digits.
LEMMA Chiffres ==
  /\ DIGIT_SEGMENTS[0] = {"a", "b", "c", "d", "e", "f"} /\ DIGIT_SEGMENTS[1] = {"b", "c"}
  /\ DIGIT_SEGMENTS[2] = {"a", "b", "d", "e", "g"} /\ DIGIT_SEGMENTS[3] = {"a", "b", "c", "d", "g"}
  /\ DIGIT_SEGMENTS[4] = {"b", "c", "f", "g"} /\ DIGIT_SEGMENTS[5] = {"a", "c", "d", "f", "g"}
  /\ DIGIT_SEGMENTS[6] = {"a", "c", "d", "e", "f", "g"} /\ DIGIT_SEGMENTS[7] = {"a", "b", "c"}
  /\ DIGIT_SEGMENTS[8] = {"a", "b", "c", "d", "e", "f", "g"}
  /\ DIGIT_SEGMENTS[9] = {"a", "b", "c", "d", "f", "g"}
BY DEF DIGIT_SEGMENTS

LEMMA ChiffresLettres == \A v \in 0 .. 9 : DIGIT_SEGMENTS[v] \in SUBSET Lettres
<1> SUFFICES ASSUME NEW v \in 0 .. 9 PROVE DIGIT_SEGMENTS[v] \in SUBSET Lettres
  OBVIOUS
<1>1. v \in {0, 1, 2, 3, 4, 5, 6, 7, 8, 9}
  OBVIOUS
<1> QED BY <1>1, Chiffres DEF Lettres

\* No two digits look the same.
LEMMA ChiffresDistincts ==
  ASSUME NEW u \in 0 .. 9, NEW v \in 0 .. 9, DIGIT_SEGMENTS[u] = DIGIT_SEGMENTS[v]
  PROVE  u = v
<1>1. u \in {0, 1, 2, 3, 4, 5, 6, 7, 8, 9} /\ v \in {0, 1, 2, 3, 4, 5, 6, 7, 8, 9}
  OBVIOUS
<1>2. ASSUME NEW w \in {0, 1, 2, 3, 4, 5, 6, 7, 8, 9}
      PROVE  /\ "a" \in DIGIT_SEGMENTS[w] <=> w \notin {1, 4}
             /\ "b" \in DIGIT_SEGMENTS[w] <=> w \notin {5, 6}
             /\ "c" \in DIGIT_SEGMENTS[w] <=> w # 2
             /\ "d" \in DIGIT_SEGMENTS[w] <=> w \notin {1, 4, 7}
             /\ "e" \in DIGIT_SEGMENTS[w] <=> w \in {0, 2, 6, 8}
             /\ "f" \in DIGIT_SEGMENTS[w] <=> w \notin {1, 2, 3, 7}
             /\ "g" \in DIGIT_SEGMENTS[w] <=> w \notin {0, 1, 7}
  BY <1>2, Chiffres
<1> QED BY <1>1, <1>2

LEMMA LuChiffre ==
  ASSUME NEW q, NEW v \in 0 .. 9, Signe(q) = DIGIT_SEGMENTS[v]
  PROVE  EstChiffre(q) /\ ChiffreLu(q) = v
<1>1. EstChiffre(q)
  BY DEF EstChiffre
<1>2. DIGIT_SEGMENTS[ChiffreLu(q)] = Signe(q) /\ ChiffreLu(q) \in 0 .. 9
  BY <1>1 DEF EstChiffre, ChiffreLu
<1> QED BY <1>1, <1>2, ChiffresDistincts

\* A digit on a buffer without points.
LEMMA ChiffreEcrit ==
  ASSUME NEW b \in SansPoint, NEW p \in Positions, NEW v \in 0 .. 9
  PROVE  /\ AvecChiffre(b, p, v) \in SansPoint
         /\ AvecChiffre(b, p, v)[POSITION_MAP[p]] = DIGIT_SEGMENTS[v]
         /\ \A q \in Positions : q # p => AvecChiffre(b, p, v)[POSITION_MAP[q]] = b[POSITION_MAP[q]]
<1>1. POSITION_MAP[p] \in Cases
  BY Places
<1>2. b[POSITION_MAP[p]] \in SUBSET Lettres
  BY <1>1 DEF SansPoint
<1>3. b[POSITION_MAP[p]] \cap {"."} = {}
  BY <1>2 DEF Lettres
<1>4. AvecChiffre(b, p, v) = [b EXCEPT ![POSITION_MAP[p]] = DIGIT_SEGMENTS[v]]
  <2>1. DIGIT_SEGMENTS[v] \cup (b[POSITION_MAP[p]] \cap {"."}) = DIGIT_SEGMENTS[v]
    BY <1>3
  <2>2. p \in 0 .. MAX_DIGITS - 1
    BY DEF MAX_DIGITS, Positions
  <2> QED BY <2>1, <2>2 DEF AvecChiffre
<1>5. DIGIT_SEGMENTS[v] \in SUBSET Lettres
  BY ChiffresLettres
<1>6. \A q \in Positions : POSITION_MAP[q] \in Cases /\ (q # p => POSITION_MAP[q] # POSITION_MAP[p])
  BY Places
<1> QED BY <1>1, <1>4, <1>5, <1>6 DEF SansPoint

LEMMA TourAvance ==
  ASSUME NEW r \in Nat, r > 0, NEW b, NEW p \in Positions, NEW x, x = p - 1
  PROVE  Tour([reste |-> r, buf |-> b, pos |-> p])
         = [reste |-> r \div 10, buf |-> AvecChiffre(b, p, r % 10), pos |-> x]
BY DEF Tour, Positions

LEMMA TourFini ==
  ASSUME NEW r, NEW b, NEW p, r = 0 \/ p = -1
  PROVE  Tour([reste |-> r, buf |-> b, pos |-> p]) = [reste |-> r, buf |-> b, pos |-> p]
BY DEF Tour

\* The buffer b shows the k last digits of m and is blank before them.
Rang(m, q) == CASE q = 3 -> m [] q = 2 -> m \div 10 [] q = 1 -> m \div 100 [] OTHER -> m \div 1000
Ecrit7(b, m, k) ==
  /\ b \in SansPoint
  /\ \A q \in Positions :
       b[POSITION_MAP[q]] = IF q > 3 - k THEN DIGIT_SEGMENTS[Rang(m, q) % 10] ELSE {}

LEMMA Dizaines ==
  ASSUME NEW m \in Nat
  PROVE  /\ m \div 10 \in Nat /\ m \div 100 \in Nat /\ m \div 1000 \in Nat /\ m \div 10000 \in Nat
         /\ (m \div 10) \div 10 = m \div 100 /\ (m \div 100) \div 10 = m \div 1000
         /\ (m \div 1000) \div 10 = m \div 10000
         /\ m % 10 \in 0 .. 9 /\ (m \div 10) % 10 \in 0 .. 9 /\ (m \div 100) % 10 \in 0 .. 9
         /\ (m \div 1000) % 10 \in 0 .. 9
OBVIOUS

\* One more digit.
LEMMA EcritSuivant ==
  ASSUME NEW m \in Nat, NEW k \in 0 .. 3, NEW b, Ecrit7(b, m, k)
  PROVE  /\ 3 - k \in Positions /\ Rang(m, 3 - k) % 10 \in 0 .. 9
         /\ Ecrit7(AvecChiffre(b, 3 - k, Rang(m, 3 - k) % 10), m, k + 1)
<1> DEFINE p == 3 - k
           v == Rang(m, p) % 10
           c == AvecChiffre(b, p, v)
<1>1. p \in Positions
  BY DEF Positions
<1>2. Rang(m, p) \in Nat
  BY <1>1, Dizaines DEF Rang, Positions
<1>3. v \in 0 .. 9
  BY <1>2
<1>4. b \in SansPoint
  BY DEF Ecrit7
<1> HIDE DEF v
<1>5. /\ c \in SansPoint /\ c[POSITION_MAP[p]] = DIGIT_SEGMENTS[v]
      /\ \A q \in Positions : q # p => c[POSITION_MAP[q]] = b[POSITION_MAP[q]]
  BY ZenonT(60), <1>1, <1>3, <1>4, ChiffreEcrit
<1> HIDE DEF c
<1>6. ASSUME NEW q \in Positions
      PROVE  c[POSITION_MAP[q]] =
               IF q > 3 - (k + 1) THEN DIGIT_SEGMENTS[Rang(m, q) % 10] ELSE {}
  <2>1. CASE q = p
    <3>1. q > 3 - (k + 1)
      BY <2>1
    <3> QED BY <1>5, <2>1, <3>1 DEF v
  <2>2. CASE q # p
    <3>1. q > 3 - (k + 1) <=> q > 3 - k
      BY <2>2 DEF Positions
    <3>2. b[POSITION_MAP[q]] = IF q > 3 - k THEN DIGIT_SEGMENTS[Rang(m, q) % 10] ELSE {}
      BY DEF Ecrit7
    <3> QED BY <1>5, <2>2, <3>1, <3>2
  <2> QED BY <2>1, <2>2
<1>7. Ecrit7(c, m, k + 1)
  BY <1>5, <1>6 DEF Ecrit7
<1> QED BY <1>1, <1>3, <1>7 DEF c, v

\* Where the loop stops: as many digits as the number has, four at most.
LongueurDe(m, k) ==
  \/ k = 1 /\ m \div 10 = 0
  \/ k = 2 /\ m \div 10 > 0 /\ m \div 100 = 0
  \/ k = 3 /\ m \div 100 > 0 /\ m \div 1000 = 0
  \/ k = 4 /\ m \div 1000 > 0

LEMMA BoucleRend ==
  ASSUME NEW n \in Int, NEW m \in Nat, m > 0, Abs(n) = m
  PROVE  \E k \in 1 .. 4 :
           LongueurDe(m, k) /\ Boucle(n).pos = 3 - k /\ Ecrit7(Boucle(n).buf, m, k)
<1> DEFINE b1 == AvecChiffre(Eteint, 3, m % 10)
           b2 == AvecChiffre(b1, 2, (m \div 10) % 10)
           b3 == AvecChiffre(b2, 1, (m \div 100) % 10)
           b4 == AvecChiffre(b3, 0, (m \div 1000) % 10)
           E(r, b, p) == [reste |-> r, buf |-> b, pos |-> p]
<1>1. Ecrit7(Eteint, m, 0)
  <2>1. Eteint \in SansPoint
    BY DEF Eteint, SansPoint
  <2>2. \A q \in Positions : Eteint[POSITION_MAP[q]] = {} /\ ~(q > 3 - 0)
    BY Places DEF Eteint, Positions
  <2> QED BY <2>1, <2>2 DEF Ecrit7
<1>2. Rang(m, 3) = m /\ Rang(m, 2) = m \div 10 /\ Rang(m, 1) = m \div 100 /\ Rang(m, 0) = m \div 1000
  BY DEF Rang
<1>3. 3 - 0 = 3 /\ 3 - 1 = 2 /\ 3 - 2 = 1 /\ 3 - 3 = 0 /\ 3 - 4 = -1
  OBVIOUS
<1>4. Ecrit7(b1, m, 0 + 1)
  BY <1>1, <1>2, <1>3, EcritSuivant
<1>5. Ecrit7(b2, m, 1 + 1)
  <2> HIDE DEF b1
  <2> QED BY <1>2, <1>3, <1>4, EcritSuivant
<1>6. Ecrit7(b3, m, 2 + 1)
  <2> HIDE DEF b2
  <2> QED BY <1>2, <1>3, <1>5, EcritSuivant
<1>7. Ecrit7(b4, m, 3 + 1)
  <2> HIDE DEF b3
  <2> QED BY <1>2, <1>3, <1>6, EcritSuivant
<1>8. Boucle(n) = Tour(Tour(Tour(Tour(E(m, Eteint, 3)))))
  BY DEF Boucle, MAX_DIGITS
<1>9. Tour(E(m, Eteint, 3)) = E(m \div 10, b1, 2)
  <2>1. 3 \in Positions /\ 2 = 3 - 1
    BY DEF Positions
  <2> QED BY <2>1, TourAvance, Zenon
<1> HIDE DEF b1, b2, b3, b4
<1>10. m \div 10 > 0 => Tour(E(m \div 10, b1, 2)) = E(m \div 100, b2, 1)
  <2> DEFINE r == m \div 10
  <2>1. r \in Nat /\ r \div 10 = m \div 100
    BY Dizaines
  <2> HIDE DEF r
  <2>2. r > 0 => Tour(E(r, b1, 2)) = E(r \div 10, AvecChiffre(b1, 2, r % 10), 1)
    <3>1. 2 \in Positions /\ 1 = 2 - 1
      BY DEF Positions
    <3> QED BY <2>1, <3>1, TourAvance, Zenon
  <2> QED BY <2>1, <2>2 DEF r, b2
<1>11. m \div 100 > 0 => Tour(E(m \div 100, b2, 1)) = E(m \div 1000, b3, 0)
  <2> DEFINE r == m \div 100
  <2>1. r \in Nat /\ r \div 10 = m \div 1000
    BY Dizaines
  <2> HIDE DEF r
  <2>2. r > 0 => Tour(E(r, b2, 1)) = E(r \div 10, AvecChiffre(b2, 1, r % 10), 0)
    <3>1. 1 \in Positions /\ 0 = 1 - 1
      BY DEF Positions
    <3> QED BY <2>1, <3>1, TourAvance, Zenon
  <2> QED BY <2>1, <2>2 DEF r, b3
<1>12. m \div 1000 > 0 => Tour(E(m \div 1000, b3, 0)) = E(m \div 10000, b4, -1)
  <2> DEFINE r == m \div 1000
  <2>1. r \in Nat /\ r \div 10 = m \div 10000
    BY Dizaines
  <2> HIDE DEF r
  <2>2. r > 0 => Tour(E(r, b3, 0)) = E(r \div 10, AvecChiffre(b3, 0, r % 10), -1)
    <3>1. 0 \in Positions
      BY DEF Positions
    <3>2. ASSUME NEW x, x = 0 - 1
          PROVE  r > 0 => Tour(E(r, b3, 0)) = E(r \div 10, AvecChiffre(b3, 0, r % 10), x)
      BY <2>1, <3>2 DEF Tour
    <3>3. -1 = 0 - 1
      OBVIOUS
    <3> QED BY <3>2, <3>3
  <2> QED BY <2>1, <2>2 DEF r, b4
<1>13. ASSUME NEW b, NEW p PROVE Tour(E(0, b, p)) = E(0, b, p)
  BY TourFini
<1>14. CASE m \div 10 = 0
  <2>1. Boucle(n) = E(0, b1, 2)
    BY <1>8, <1>9, <1>13, <1>14
  <2> QED BY <1>3, <1>4, <1>14, <2>1 DEF LongueurDe
<1>15. CASE m \div 10 > 0 /\ m \div 100 = 0
  <2>1. Boucle(n) = E(0, b2, 1)
    BY <1>8, <1>9, <1>10, <1>13, <1>15
  <2> QED BY <1>3, <1>5, <1>15, <2>1 DEF LongueurDe
<1>16. CASE m \div 100 > 0 /\ m \div 1000 = 0
  <2>1. m \div 10 > 0
    BY <1>16
  <2>2. Boucle(n) = E(0, b3, 0)
    BY <1>8, <1>9, <1>10, <1>11, <1>13, <1>16, <2>1
  <2> QED BY <1>3, <1>6, <1>16, <2>2 DEF LongueurDe
<1>17. CASE m \div 1000 > 0
  <2>1. m \div 10 > 0 /\ m \div 100 > 0
    BY <1>17
  <2>2. Boucle(n) = E(m \div 10000, b4, -1)
    BY <1>8, <1>9, <1>10, <1>11, <1>12, <1>17, <2>1
  <2> QED BY <1>3, <1>7, <1>17, <2>2 DEF LongueurDe
<1>18. \/ m \div 10 = 0 \/ (m \div 10 > 0 /\ m \div 100 = 0)
       \/ (m \div 100 > 0 /\ m \div 1000 = 0) \/ m \div 1000 > 0
  OBVIOUS
<1> QED BY <1>14, <1>15, <1>16, <1>17, <1>18

\* What segment7_afficher_nombre leaves: the last digits of the number, before
\* them its sign when there is room, and blanks.
Rendu(b, n, k) ==
  /\ b \in SansPoint
  /\ \A q \in Positions :
       b[POSITION_MAP[q]] =
         IF q > 3 - k THEN DIGIT_SEGMENTS[Rang(Abs(n), q) % 10]
         ELSE IF n < 0 /\ q = 3 - k THEN MOINS ELSE {}

LEMMA NombreRend ==
  ASSUME NEW n \in Int
  PROVE  \E k \in 1 .. 4 : LongueurDe(Abs(n), k) /\ Rendu(BufferNombre(n), n, k)
<1> DEFINE m == Abs(n)
<1>1. m \in Nat /\ (n # 0 => m > 0) /\ (n = 0 => m = 0)
  BY DEF Abs
<1>2. CASE n = 0
  <2>1. BufferNombre(n) = AvecChiffre(Eteint, 3, 0)
    <3>1. ~SignePlace(n, Boucle(n).pos) /\ MAX_DIGITS - 1 = 3
      BY <1>2 DEF SignePlace, MAX_DIGITS
    <3> QED BY <1>2, <3>1 DEF BufferNombre
  <2>2. Eteint \in SansPoint /\ \A q \in Positions : Eteint[POSITION_MAP[q]] = {}
    BY Places DEF Eteint, SansPoint
  <2>3. 3 \in Positions /\ 0 \in 0 .. 9
    BY DEF Positions
  <2> DEFINE b == BufferNombre(n)
  <2>4. /\ b \in SansPoint /\ b[POSITION_MAP[3]] = DIGIT_SEGMENTS[0]
        /\ \A q \in Positions : q # 3 => b[POSITION_MAP[q]] = {}
    <3>1. ASSUME NEW p \in Positions, NEW v \in 0 .. 9
          PROVE  /\ AvecChiffre(Eteint, p, v) \in SansPoint
                 /\ AvecChiffre(Eteint, p, v)[POSITION_MAP[p]] = DIGIT_SEGMENTS[v]
                 /\ \A q \in Positions : q # p => AvecChiffre(Eteint, p, v)[POSITION_MAP[q]] = {}
      <4> DEFINE c == AvecChiffre(Eteint, p, v)
      <4>1. /\ c \in SansPoint /\ c[POSITION_MAP[p]] = DIGIT_SEGMENTS[v]
            /\ \A q \in Positions : q # p => c[POSITION_MAP[q]] = Eteint[POSITION_MAP[q]]
        <5>1. Eteint \in SansPoint
          BY <2>2
        <5> QED BY ZenonT(60), <5>1, ChiffreEcrit
      <4> HIDE DEF c
      <4>2. \A q \in Positions : q # p => c[POSITION_MAP[q]] = {}
        BY <2>2, <4>1
      <4> QED BY <4>1, <4>2 DEF c
    <3> HIDE DEF b
    <3> QED BY <2>1, <2>3, <3>1 DEF b
  <2> HIDE DEF b
  <2>5. m % 10 = 0 /\ m \div 10 = 0 /\ Rang(m, 3) = m
    BY <1>1, <1>2 DEF Rang
  <2>6. \A q \in Positions : (q > 3 - 1 <=> q = 3)
    BY DEF Positions
  <2>7. Rendu(b, n, 1)
    <3>1. ASSUME NEW q \in Positions
          PROVE  b[POSITION_MAP[q]] =
                   IF q > 3 - 1 THEN DIGIT_SEGMENTS[Rang(m, q) % 10]
                   ELSE IF n < 0 /\ q = 3 - 1 THEN MOINS ELSE {}
      <4>1. ~(n < 0)
        BY <1>2
      <4>2. CASE q = 3
        BY <2>4, <2>5, <2>6, <4>2
      <4>3. CASE q # 3
        BY <2>4, <2>6, <4>1, <4>3
      <4> QED BY <4>2, <4>3
    <3> QED BY <2>4, <3>1 DEF Rendu
  <2>8. LongueurDe(m, 1)
    BY <2>5 DEF LongueurDe
  <2> QED BY <2>7, <2>8 DEF b
<1>3. CASE n # 0
  <2>1. PICK k \in 1 .. 4 :
          LongueurDe(m, k) /\ Boucle(n).pos = 3 - k /\ Ecrit7(Boucle(n).buf, m, k)
    BY <1>1, <1>3, BoucleRend
  <2> DEFINE b == Boucle(n).buf
             c == BufferNombre(n)
  <2>2. /\ b \in SansPoint
        /\ \A q \in Positions :
             b[POSITION_MAP[q]] = IF q > 3 - k THEN DIGIT_SEGMENTS[Rang(m, q) % 10] ELSE {}
    BY <2>1 DEF Ecrit7
  <2>3. CASE n < 0 /\ 3 - k >= 0
    <3> DEFINE p == 3 - k
    <3>1. p \in Positions
      BY <2>3 DEF Positions
    <3>2. c = [b EXCEPT ![POSITION_MAP[p]] = MOINS]
      BY <1>3, <2>1, <2>3 DEF BufferNombre, SignePlace
    <3> HIDE DEF b, c
    <3>3. MOINS \in SUBSET Lettres
      BY DEF MOINS, Lettres
    <3>4. /\ POSITION_MAP[p] \in Cases
          /\ \A q \in Positions : POSITION_MAP[q] \in Cases
          /\ \A q \in Positions : q # p => POSITION_MAP[q] # POSITION_MAP[p]
      BY <3>1, Places
    <3>5. /\ c \in SansPoint /\ c[POSITION_MAP[p]] = MOINS
          /\ \A q \in Positions : q # p => c[POSITION_MAP[q]] = b[POSITION_MAP[q]]
      BY <2>2, <3>2, <3>3, <3>4 DEF SansPoint
    <3>6. Rendu(c, n, k)
      <4>1. ASSUME NEW q \in Positions
            PROVE  c[POSITION_MAP[q]] =
                     IF q > 3 - k THEN DIGIT_SEGMENTS[Rang(m, q) % 10]
                     ELSE IF n < 0 /\ q = 3 - k THEN MOINS ELSE {}
        <5>1. CASE q = p
          BY <2>3, <3>5, <5>1
        <5>2. CASE q # p
          BY <2>2, <3>5, <5>2
        <5> QED BY <5>1, <5>2
      <4> QED BY <3>5, <4>1 DEF Rendu
    <3> QED BY <2>1, <3>6 DEF c
  <2>4. CASE ~(n < 0 /\ 3 - k >= 0)
    <3>1. c = b
      BY <1>3, <2>1, <2>4 DEF BufferNombre, SignePlace
    <3>2. \A q \in Positions : ~(n < 0 /\ q = 3 - k)
      BY <2>4 DEF Positions
    <3>3. Rendu(c, n, k)
      <4> HIDE DEF b, c
      <4> QED BY <2>2, <3>1, <3>2 DEF Rendu
    <3> QED BY <2>1, <3>3 DEF c
  <2> QED BY <2>3, <2>4
<1> QED BY <1>2, <1>3

LEMMA Decimal ==
  ASSUME NEW m \in Nat, m < 10000
  PROVE  m = 1000 * ((m \div 1000) % 10) + 100 * ((m \div 100) % 10)
             + 10 * ((m \div 10) % 10) + (m % 10)
OBVIOUS

\* What a person reads at each position when the buffer is on the chip.
LEMMA LuPartout ==
  ASSUME NEW n \in Int, NEW b, NEW k \in 1 .. 4, Rendu(b, n, k),
         \A q \in Positions : Signe(q) = b[POSITION_MAP[q]]
  PROVE  \A q \in Positions :
           /\ q > 3 - k => EstChiffre(q) /\ ChiffreLu(q) = Rang(Abs(n), q) % 10
           /\ q = 3 - k /\ n < 0 => Signe(q) = MOINS
           /\ q < 3 - k \/ (q = 3 - k /\ ~(n < 0)) => Signe(q) = {}
<1> SUFFICES ASSUME NEW q \in Positions
             PROVE  /\ q > 3 - k => EstChiffre(q) /\ ChiffreLu(q) = Rang(Abs(n), q) % 10
                    /\ q = 3 - k /\ n < 0 => Signe(q) = MOINS
                    /\ q < 3 - k \/ (q = 3 - k /\ ~(n < 0)) => Signe(q) = {}
  OBVIOUS
<1>1. Signe(q) = IF q > 3 - k THEN DIGIT_SEGMENTS[Rang(Abs(n), q) % 10]
                 ELSE IF n < 0 /\ q = 3 - k THEN MOINS ELSE {}
  BY DEF Rendu
<1> DEFINE v == Rang(Abs(n), q) % 10
<1>2. v \in 0 .. 9
  <2>1. Abs(n) \in Nat
    BY DEF Abs
  <2>2. Rang(Abs(n), q) \in Nat
    BY <2>1, Dizaines DEF Rang
  <2> QED BY <2>2
<1> HIDE DEF v
<1>3. q > 3 - k => EstChiffre(q) /\ ChiffreLu(q) = v
  BY <1>1, <1>2, LuChiffre DEF v
<1>4. q \in Int
  BY DEF Positions
<1> QED BY <1>1, <1>3, <1>4 DEF v

\* A number of at most four digits, its sign included, is read as it is.
LEMMA Petit ==
  ASSUME NEW n \in Int, NEW b, NEW k \in 1 .. 4, Rendu(b, n, k), LongueurDe(Abs(n), k),
         \A q \in Positions : Signe(q) = b[POSITION_MAP[q]], n \in Affichables
  PROVE  LuComme(n)
<1> DEFINE m == Abs(n)
           p == 4 - k
           D(q) == IF q >= p THEN ChiffreLu(q) ELSE 0
<1>1. m \in Nat /\ m < 10000 /\ (n < 0 => m < 1000)
  BY DEF Abs, Affichables
<1>2. \A q \in Positions :
        /\ q >= p => EstChiffre(q) /\ ChiffreLu(q) = Rang(m, q) % 10
        /\ q = p - 1 /\ n < 0 => Signe(q) = MOINS
        /\ q < p - 1 \/ (q = p - 1 /\ ~(n < 0)) => Signe(q) = {}
  <2>1. \A q \in Positions :
          /\ q > 3 - k => EstChiffre(q) /\ ChiffreLu(q) = Rang(m, q) % 10
          /\ q = 3 - k /\ n < 0 => Signe(q) = MOINS
          /\ q < 3 - k \/ (q = 3 - k /\ ~(n < 0)) => Signe(q) = {}
    BY LuPartout
  <2>2. \A q \in Positions : (q > 3 - k <=> q >= p) /\ 3 - k = p - 1
    BY DEF Positions
  <2> HIDE DEF p, m
  <2> QED BY <2>1, <2>2
<1>3. p \in Positions
  BY DEF Positions
<1>4. n < 0 => p > 0
  <2>1. n < 0 => m \div 1000 = 0
    BY <1>1
  <2>2. n < 0 => k # 4
    BY <2>1 DEF LongueurDe
  <2> QED BY <2>2
<1> DEFINE d0 == (m \div 1000) % 10
           d1 == (m \div 100) % 10
           d2 == (m \div 10) % 10
           d3 == m % 10
<1>5. m = 1000 * d0 + 100 * d1 + 10 * d2 + d3
  BY <1>1, Decimal
<1>6. /\ 0 >= p => ChiffreLu(0) = d0
      /\ 1 >= p => ChiffreLu(1) = d1
      /\ 2 >= p => ChiffreLu(2) = d2
      /\ 3 >= p => ChiffreLu(3) = d3
  <2>1. /\ Rang(m, 3) = m /\ Rang(m, 2) = m \div 10 /\ Rang(m, 1) = m \div 100
        /\ Rang(m, 0) = m \div 1000
    BY DEF Rang
  <2>2. 0 \in Positions /\ 1 \in Positions /\ 2 \in Positions /\ 3 \in Positions
    BY DEF Positions
  <2> HIDE DEF p, m
  <2> QED BY <1>2, <2>1, <2>2
<1>7. (p > 0 => d0 = 0) /\ (p > 1 => d1 = 0) /\ (p > 2 => d2 = 0)
  <2>1. (k < 4 => m \div 1000 = 0) /\ (k < 3 => m \div 100 = 0) /\ (k < 2 => m \div 10 = 0)
    <3>1. LongueurDe(m, k)
      OBVIOUS
    <3> HIDE DEF m
    <3> QED BY <1>1, <3>1 DEF LongueurDe
  <2> HIDE DEF m
  <2> QED BY <1>1, <2>1
<1>8. p < 3 => ChiffreLu(p) # 0
  <2>1. CASE k = 1
    BY <2>1
  <2>2. CASE k = 2
    <3>1. m \div 10 > 0 /\ m \div 100 = 0
      BY <2>2 DEF LongueurDe
    <3>2. d2 # 0
      BY <1>1, <3>1
    <3>3. p = 2
      BY <2>2
    <3> HIDE DEF p, d2
    <3> QED BY <1>6, <3>2, <3>3
  <2>3. CASE k = 3
    <3>1. m \div 100 > 0 /\ m \div 1000 = 0
      BY <2>3 DEF LongueurDe
    <3>2. d1 # 0
      BY <1>1, <3>1
    <3>3. p = 1
      BY <2>3
    <3> HIDE DEF p, d1
    <3> QED BY <1>6, <3>2, <3>3
  <2>4. CASE k = 4
    <3>1. m \div 1000 > 0
      BY <2>4 DEF LongueurDe
    <3>2. d0 # 0
      BY <1>1, <3>1
    <3>3. p = 0
      BY <2>4
    <3> HIDE DEF p, d0
    <3> QED BY <1>6, <3>2, <3>3
  <2> QED BY <2>1, <2>2, <2>3, <2>4
<1>9. D(0) = d0 /\ D(1) = d1 /\ D(2) = d2 /\ D(3) = d3
  <2>1. p \in Int /\ p <= 3
    OBVIOUS
  <2> HIDE DEF p, d0, d1, d2, d3
  <2> QED BY <1>6, <1>7, <2>1
<1>10. Abs(n) = 1000 * D(0) + 100 * D(1) + 10 * D(2) + D(3)
  <2> HIDE DEF d0, d1, d2, d3, D
  <2> QED BY <1>5, <1>9
<1>11. \A q \in 0 .. MAX_DIGITS - 1 :
         /\ q >= p => EstChiffre(q)
         /\ q = p - 1 /\ n < 0 => Signe(q) = MOINS
         /\ q < p - (IF n < 0 THEN 1 ELSE 0) => Signe(q) = {}
  <2> SUFFICES ASSUME NEW q \in Positions
               PROVE  /\ q >= p => EstChiffre(q)
                      /\ q = p - 1 /\ n < 0 => Signe(q) = MOINS
                      /\ q < p - (IF n < 0 THEN 1 ELSE 0) => Signe(q) = {}
    BY DEF MAX_DIGITS, Positions
  <2>1. q < p - (IF n < 0 THEN 1 ELSE 0) => q < p - 1 \/ (q = p - 1 /\ ~(n < 0))
    BY DEF Positions
  <2> HIDE DEF p
  <2> QED BY <1>2, <2>1
<1>12. p \in 0 .. MAX_DIGITS - 1 /\ (p < MAX_DIGITS - 1 => ChiffreLu(p) # 0)
  BY <1>3, <1>8 DEF MAX_DIGITS
<1> HIDE DEF p
<1> QED BY <1>4, <1>10, <1>11, <1>12 DEF LuComme

\* A longer one shows its last four digits.
LEMMA Grand ==
  ASSUME NEW n \in Int, NEW b, NEW k \in 1 .. 4, Rendu(b, n, k), LongueurDe(Abs(n), k),
         \A q \in Positions : Signe(q) = b[POSITION_MAP[q]], n \notin Affichables
  PROVE  QuatreDerniers(n)
<1> DEFINE m == Abs(n)
<1>1. m \in Nat /\ m >= 1000
  BY DEF Abs, Affichables
<1>2. k = 4
  <2>1. LongueurDe(m, k)
    OBVIOUS
  <2>2. m \div 10 > 0 /\ m \div 100 > 0 /\ m \div 1000 > 0
    BY <1>1
  <2> HIDE DEF m
  <2> QED BY <2>1, <2>2 DEF LongueurDe
<1>3. \A q \in Positions : EstChiffre(q) /\ ChiffreLu(q) = Rang(m, q) % 10
  <2>1. \A q \in Positions : q > 3 - k => EstChiffre(q) /\ ChiffreLu(q) = Rang(m, q) % 10
    BY LuPartout
  <2>2. \A q \in Positions : q > 3 - k
    BY <1>2 DEF Positions
  <2> HIDE DEF m
  <2> QED BY <2>1, <2>2
<1> HIDE DEF m
<1>4. ASSUME NEW p \in 0 .. 3 PROVE Rang(m, p) = m \div 10^(3 - p)
  <2>1. CASE p = 0
    <3>1. 3 - p = 3 /\ 10^3 = 1000
      BY <2>1
    <3> QED BY <2>1, <3>1 DEF Rang
  <2>2. CASE p = 1
    <3>1. 3 - p = 2 /\ 10^2 = 100
      BY <2>2
    <3> QED BY <2>2, <3>1 DEF Rang
  <2>3. CASE p = 2
    <3>1. 3 - p = 1 /\ 10^1 = 10
      BY <2>3
    <3> QED BY <2>3, <3>1 DEF Rang
  <2>4. CASE p = 3
    <3>1. 3 - p = 0 /\ 10^0 = 1
      BY <2>4
    <3>2. m \div 1 = m
      BY <1>1
    <3> QED BY <2>4, <3>1, <3>2 DEF Rang
  <2> QED BY <2>1, <2>2, <2>3, <2>4
<1>5. 0 .. 3 = Positions
  BY DEF Positions
<1>6. ASSUME NEW p \in 0 .. 3 PROVE EstChiffre(p) /\ ChiffreLu(p) = (m \div 10^(3 - p)) % 10
  <2>1. Rang(m, p) = m \div 10^(3 - p)
    BY <1>4, Zenon
  <2>2. EstChiffre(p) /\ ChiffreLu(p) = Rang(m, p) % 10
    BY <1>3, <1>5
  <2> QED BY <2>1, <2>2, Zenon
<1> QED BY <1>6, Zenon DEF m, QuatreDerniers

-----------------------------------------------------------------------------
\* The process: its buffer, and the points that were asked for.
TypeTampon ==
  /\ i2c_fd \in {Ferme, Ouvert}
  /\ display_buffer \in [Cases -> SUBSET Segments]
Pointes == points = {p \in Positions : "." \in display_buffer[POSITION_MAP[p]]}

\* The number that was asked for is in the buffer, whatever points were set.
Demande ==
  \/ demande = <<>>
  \/ \E n \in Int :
       /\ demande = <<n>>
       /\ \A p \in Positions :
            display_buffer[POSITION_MAP[p]] \ {"."} = BufferNombre(n)[POSITION_MAP[p]]

\* The chip.
Reveil == i2c_fd = Ouvert => ram = display_buffer /\ osc /\ allume
Niveau == niveau \in 0 .. 15

SInv == TypeTampon /\ Pointes /\ Demande /\ Reveil /\ Niveau

LEMMA EteintType ==
  /\ Eteint \in [Cases -> SUBSET Segments]
  /\ {p \in Positions : "." \in Eteint[POSITION_MAP[p]]} = {}
  /\ Ferme # Ouvert
BY Places DEF Eteint, Ferme, Ouvert

LEMMA InitSInv == Init7 => SInv
<1> SUFFICES ASSUME Init7 PROVE SInv
  OBVIOUS
<1>1. i2c_fd = Ferme /\ display_buffer = Eteint /\ points = {} /\ demande = <<>> /\ niveau = 15
  BY DEF Init7
<1>2. TypeTampon
  BY <1>1, EteintType DEF TypeTampon
<1>3. Pointes
  BY <1>1, EteintType DEF Pointes
<1>4. Demande /\ Niveau
  BY <1>1 DEF Demande, Niveau
<1>5. Reveil
  BY <1>1, EteintType DEF Reveil
<1> QED BY <1>2, <1>3, <1>4, <1>5 DEF SInv

LEMMA Immobile7 ==
  ASSUME SInv, UNCHANGED <<i2c_fd, display_buffer, ram, osc, allume, niveau, demande, points>>
  PROVE  SInv'
<1>1. TypeTampon'
  BY DEF SInv, TypeTampon
<1>2. Pointes'
  BY DEF SInv, Pointes
<1>3. Demande'
  BY DEF SInv, Demande
<1>4. Reveil'
  BY DEF SInv, Reveil
<1>5. Niveau'
  BY DEF SInv, Niveau
<1> QED BY <1>1, <1>2, <1>3, <1>4, <1>5 DEF SInv

\* What Montrer does to the chip.
LEMMA MontrerReveil ==
  ASSUME SInv, NEW buf \in [Cases -> SUBSET Segments], Montrer(buf)
  PROVE  TypeTampon' /\ Reveil' /\ Niveau' /\ display_buffer' = buf
<1>1. /\ display_buffer' = buf /\ ram' = (IF i2c_fd = Ferme THEN ram ELSE buf)
      /\ UNCHANGED <<i2c_fd, osc, allume, niveau>>
  BY DEF Montrer, maj_affichage
<1>2. TypeTampon'
  BY <1>1 DEF SInv, TypeTampon
<1>3. Niveau'
  BY <1>1 DEF SInv, Niveau
<1>4. Reveil'
  <2>1. Reveil
    BY DEF SInv
  <2> QED BY <1>1, <2>1, EteintType DEF Reveil
<1> QED BY <1>1, <1>2, <1>3, <1>4

LEMMA InitialiserSInv == SInv /\ segment7_init => SInv'
<1> SUFFICES ASSUME SInv, segment7_init PROVE SInv'
  OBVIOUS
<1>1. CASE UNCHANGED <<i2c_fd, display_buffer, puce7, demandes>>
  <2>1. UNCHANGED <<i2c_fd, display_buffer, ram, osc, allume, niveau, demande, points>>
    BY <1>1 DEF puce7, demandes
  <2> QED BY <2>1, Immobile7
<1>2. CASE /\ i2c_fd' = Ouvert /\ osc' = TRUE /\ allume' = TRUE /\ niveau' = 15
           /\ display_buffer' = Eteint /\ ram' = RamApresInit
           /\ demande' = <<>> /\ points' = {}
  <2>1. TypeTampon'
    BY <1>2, EteintType DEF TypeTampon
  <2>2. Pointes'
    BY <1>2, EteintType DEF Pointes
  <2>3. Demande' /\ Niveau'
    BY <1>2 DEF Demande, Niveau
  <2>4. Reveil'
    BY <1>2 DEF Reveil, RamApresInit
  <2> QED BY <2>1, <2>2, <2>3, <2>4 DEF SInv
<1> QED BY <1>1, <1>2 DEF segment7_init

LEMMA LuminositeSInv ==
  ASSUME SInv, NEW n \in Int, segment7_luminosite(n)
  PROVE  SInv'
<1>1. /\ UNCHANGED <<i2c_fd, display_buffer, ram, osc, allume, demande, points>>
      /\ niveau' = IF i2c_fd = Ferme THEN niveau ELSE Borne7(n)
  BY DEF segment7_luminosite, demandes
<1>2. Borne7(n) \in 0 .. 15 /\ niveau \in 0 .. 15
  BY DEF Borne7, SInv, Niveau
<1>3. Niveau'
  BY <1>1, <1>2 DEF Niveau
<1>4. TypeTampon'
  BY <1>1 DEF SInv, TypeTampon
<1>5. Pointes'
  BY <1>1 DEF SInv, Pointes
<1>6. Demande'
  BY <1>1 DEF SInv, Demande
<1>7. Reveil'
  BY <1>1 DEF SInv, Reveil
<1> QED BY <1>3, <1>4, <1>5, <1>6, <1>7 DEF SInv

LEMMA EffacerSInv == SInv /\ segment7_effacer => SInv'
<1> SUFFICES ASSUME SInv, segment7_effacer PROVE SInv'
  OBVIOUS
<1>1. Montrer(Eteint) /\ demande' = <<>> /\ points' = {}
  BY DEF segment7_effacer
<1>2. TypeTampon' /\ Reveil' /\ Niveau' /\ display_buffer' = Eteint
  BY <1>1, EteintType, MontrerReveil
<1>3. Pointes' /\ Demande'
  BY <1>1, <1>2, EteintType DEF Pointes, Demande
<1> QED BY <1>2, <1>3 DEF SInv

\* The point beside a digit stays.
LEMMA ChiffreSInv ==
  ASSUME SInv, NEW p, NEW v, segment7_ecrire_chiffre(p, v)
  PROVE  SInv'
<1> DEFINE b == display_buffer
           c == AvecChiffre(b, p, v)
           x == POSITION_MAP[p]
<1>1. p \in Positions /\ v \in 0 .. 9 /\ Montrer(c) /\ demande' = <<>> /\ points' = points
  BY DEF segment7_ecrire_chiffre, Positions, MAX_DIGITS
<1>2. b \in [Cases -> SUBSET Segments]
  BY DEF SInv, TypeTampon
<1>3. c = [b EXCEPT ![x] = DIGIT_SEGMENTS[v] \cup (b[x] \cap {"."})]
  BY <1>1 DEF AvecChiffre, Positions, MAX_DIGITS
<1>4. x \in Cases
  BY <1>1, Places
<1>5. DIGIT_SEGMENTS[v] \in SUBSET Lettres
  BY <1>1, ChiffresLettres
<1> HIDE DEF b, c, x
<1>6. b[x] \in SUBSET Segments
  BY <1>2, <1>4
<1>7. DIGIT_SEGMENTS[v] \cup (b[x] \cap {"."}) \in SUBSET Segments
  BY <1>5, <1>6 DEF Segments
<1>8. c \in [Cases -> SUBSET Segments]
  BY <1>2, <1>3, <1>4, <1>7
<1>9. TypeTampon' /\ Reveil' /\ Niveau' /\ display_buffer' = c
  BY <1>1, <1>8, MontrerReveil
<1>10. "." \in c[x] <=> "." \in b[x]
  <2>1. "." \notin DIGIT_SEGMENTS[v]
    BY <1>5 DEF Lettres
  <2> QED BY <1>2, <1>3, <1>4, <2>1
<1>11. \A q \in Positions : "." \in c[POSITION_MAP[q]] <=> "." \in b[POSITION_MAP[q]]
  <2> SUFFICES ASSUME NEW q \in Positions
               PROVE  "." \in c[POSITION_MAP[q]] <=> "." \in b[POSITION_MAP[q]]
    OBVIOUS
  <2>1. POSITION_MAP[q] \in Cases
    BY Places
  <2>2. CASE POSITION_MAP[q] = x
    BY <1>10, <2>2
  <2>3. CASE POSITION_MAP[q] # x
    BY <1>2, <1>3, <2>1, <2>3
  <2> QED BY <2>2, <2>3
<1>12. Pointes'
  <2>1. points = {q \in Positions : "." \in b[POSITION_MAP[q]]}
    BY DEF SInv, Pointes, b
  <2>2. points' = {q \in Positions : "." \in c[POSITION_MAP[q]]}
    BY <1>1, <1>11, <2>1
  <2> QED BY <1>9, <2>2 DEF Pointes
<1>13. Demande'
  BY <1>1 DEF Demande
<1> QED BY <1>9, <1>12, <1>13 DEF SInv

\* A point changes nothing else, neither in the digit nor elsewhere.
LEMMA PointSInv ==
  ASSUME SInv, NEW p \in Positions, NEW actif \in BOOLEAN, segment7_decimal(p, actif)
  PROVE  SInv'
<1> DEFINE b == display_buffer
           x == POSITION_MAP[p]
           e == Basculer(b[x], ".", actif)
           c == [b EXCEPT ![x] = e]
<1>1. Montrer(c) /\ points' = Basculer(points, p, actif) /\ demande' = demande
  BY DEF segment7_decimal
<1>2. b \in [Cases -> SUBSET Segments]
  BY DEF SInv, TypeTampon
<1>3. x \in Cases /\ \A q \in Positions : POSITION_MAP[q] \in Cases /\ (q # p => POSITION_MAP[q] # x)
  BY Places
<1> HIDE DEF b, x
<1>4. b[x] \in SUBSET Segments
  BY <1>2, <1>3
<1>5. e \in SUBSET Segments /\ ("." \in e <=> actif) /\ e \ {"."} = b[x] \ {"."}
  BY <1>4 DEF Basculer, Segments
<1> HIDE DEF e
<1>6. /\ c \in [Cases -> SUBSET Segments] /\ c[x] = e
      /\ \A q \in Positions : q # p => c[POSITION_MAP[q]] = b[POSITION_MAP[q]]
  BY <1>2, <1>3, <1>5
<1> HIDE DEF c
<1>7. TypeTampon' /\ Reveil' /\ Niveau' /\ display_buffer' = c
  BY <1>1, <1>6, MontrerReveil
<1>8. Pointes'
  <2>1. points = {q \in Positions : "." \in b[POSITION_MAP[q]]}
    BY DEF SInv, Pointes, b
  <2>2. points' = {q \in Positions : "." \in c[POSITION_MAP[q]]}
    BY <1>1, <1>5, <1>6, <2>1 DEF Basculer, x
  <2> QED BY <1>7, <2>2 DEF Pointes
<1>9. ASSUME NEW q \in Positions
      PROVE  c[POSITION_MAP[q]] \ {"."} = b[POSITION_MAP[q]] \ {"."}
  <2>1. CASE q = p
    BY <1>5, <1>6, <2>1 DEF x
  <2>2. CASE q # p
    BY <1>6, <2>2
  <2> QED BY <2>1, <2>2
<1>10. Demande'
  BY <1>1, <1>7, <1>9 DEF SInv, Demande, b
<1> QED BY <1>7, <1>8, <1>10 DEF SInv

\* The colon is in a cell of its own.
LEMMA DeuxPointsSInv ==
  ASSUME SInv, NEW actif \in BOOLEAN, segment7_deuxpoints(actif)
  PROVE  SInv'
<1> DEFINE b == display_buffer
           e == Basculer(b[2], ":", actif)
           c == [b EXCEPT ![2] = e]
<1>1. Montrer(c) /\ points' = points /\ demande' = demande
  BY DEF segment7_deuxpoints, demandes
<1>2. b \in [Cases -> SUBSET Segments]
  BY DEF SInv, TypeTampon
<1>3. \A q \in Positions : POSITION_MAP[q] \in Cases /\ POSITION_MAP[q] # 2
  BY Places
<1> HIDE DEF b
<1>4. b[2] \in SUBSET Segments
  BY <1>2 DEF Cases
<1>5. e \in SUBSET Segments
  BY <1>4 DEF Basculer, Segments
<1> HIDE DEF e
<1>6. /\ c \in [Cases -> SUBSET Segments]
      /\ \A q \in Positions : c[POSITION_MAP[q]] = b[POSITION_MAP[q]]
  BY <1>2, <1>3, <1>5
<1> HIDE DEF c
<1>7. TypeTampon' /\ Reveil' /\ Niveau' /\ display_buffer' = c
  BY <1>1, <1>6, MontrerReveil
<1>8. Pointes'
  <2>1. points = {q \in Positions : "." \in b[POSITION_MAP[q]]}
    BY DEF SInv, Pointes, b
  <2>2. points' = {q \in Positions : "." \in c[POSITION_MAP[q]]}
    BY <1>1, <1>6, <2>1
  <2> QED BY <1>7, <2>2 DEF Pointes
<1>9. Demande'
  BY <1>1, <1>6, <1>7 DEF SInv, Demande, b
<1> QED BY <1>7, <1>8, <1>9 DEF SInv

LEMMA NombreSInv ==
  ASSUME SInv, NEW n \in Int, segment7_afficher_nombre(n)
  PROVE  SInv'
<1> DEFINE c == BufferNombre(n)
<1>1. Montrer(c) /\ demande' = <<n>> /\ points' = {}
  BY DEF segment7_afficher_nombre
<1>2. c \in SansPoint
  BY NombreRend DEF Rendu
<1> HIDE DEF c
<1>3. c \in [Cases -> SUBSET Segments]
  BY <1>2 DEF SansPoint, Segments
<1>4. TypeTampon' /\ Reveil' /\ Niveau' /\ display_buffer' = c
  BY <1>1, <1>3, MontrerReveil
<1>5. \A q \in Positions : "." \notin c[POSITION_MAP[q]]
  <2>1. \A q \in Positions : c[POSITION_MAP[q]] \in SUBSET Lettres
    BY <1>2, Places DEF SansPoint
  <2> QED BY <2>1 DEF Lettres
<1>6. Pointes'
  <2>1. {q \in Positions : "." \in c[POSITION_MAP[q]]} = {}
    BY <1>5
  <2> QED BY <1>1, <1>4, <2>1 DEF Pointes
<1>7. \A q \in Positions : c[POSITION_MAP[q]] \ {"."} = BufferNombre(n)[POSITION_MAP[q]]
  BY <1>5 DEF c
<1>8. Demande'
  BY <1>1, <1>4, <1>7 DEF Demande
<1> QED BY <1>4, <1>6, <1>8 DEF SInv

LEMMA FermerSInv == SInv /\ (segment7_cleanup \/ Tuer7) => SInv'
<1> SUFFICES ASSUME SInv, segment7_cleanup \/ Tuer7 PROVE SInv'
  OBVIOUS
<1>1. i2c_fd' = Ferme /\ display_buffer' = Eteint /\ demande' = <<>> /\ points' = {} /\ niveau' = niveau
  BY DEF segment7_cleanup, Tuer7, puce7
<1>2. TypeTampon'
  BY <1>1, EteintType DEF TypeTampon
<1>3. Pointes'
  BY <1>1, EteintType DEF Pointes
<1>4. Demande'
  BY <1>1 DEF Demande
<1>5. Niveau'
  BY <1>1 DEF SInv, Niveau
<1>6. Reveil'
  BY <1>1, EteintType DEF Reveil
<1> QED BY <1>2, <1>3, <1>4, <1>5, <1>6 DEF SInv

LEMMA EtapeSInv == SInv /\ [Next7]_vars7 => SInv'
<1> SUFFICES ASSUME SInv, [Next7]_vars7 PROVE SInv'
  OBVIOUS
<1>1. CASE UNCHANGED vars7 \/ Fin7
  BY <1>1, Immobile7 DEF vars7, Fin7
<1>2. CASE segment7_init \/ segment7_effacer \/ segment7_cleanup \/ Tuer7
  BY <1>2, InitialiserSInv, EffacerSInv, FermerSInv
<1>3. ASSUME NEW n \in {-1, 3, 16}, segment7_luminosite(n) PROVE SInv'
  BY <1>3, LuminositeSInv
<1>4. ASSUME NEW p, NEW v, segment7_ecrire_chiffre(p, v) PROVE SInv'
  BY <1>4, ChiffreSInv
<1>5. ASSUME NEW p, NEW v, HorsLimites(p, v) PROVE SInv'
  BY <1>5, Immobile7 DEF HorsLimites, puce7, demandes
<1>6. ASSUME NEW p \in 0 .. MAX_DIGITS - 1, NEW b \in BOOLEAN, segment7_decimal(p, b) PROVE SInv'
  <2>1. p \in Positions
    BY DEF Positions, MAX_DIGITS
  <2> QED BY <1>6, <2>1, PointSInv
<1>7. ASSUME NEW b \in BOOLEAN, segment7_deuxpoints(b) PROVE SInv'
  BY <1>7, DeuxPointsSInv
<1>8. ASSUME NEW n \in Nombres, segment7_afficher_nombre(n) PROVE SInv'
  <2>1. n \in Int
    BY Segment7Assumption
  <2> QED BY <1>8, <2>1, NombreSInv
<1> QED BY <1>1, <1>2, <1>3, <1>4, <1>5, <1>6, <1>7, <1>8 DEF Next7

LEMMA InvariantSegments == Spec7 => []SInv
BY InitSInv, EtapeSInv, PTL DEF Spec7

(* Every integer that is asked for is read on the four digits as it is     *)
(* from -999 to 9999, and by its last four digits otherwise, whatever      *)
(* points and colons are set or cleared after it (my_7_segment.c:114-117,  *)
(* 121-148, 153-180).                                                      *)
THEOREM NombreLisibleProuve == Spec7 => []NombreLisible
<1>1. SInv => NombreLisible
  <2> SUFFICES ASSUME SInv, i2c_fd = Ouvert, demande # <<>>
               PROVE  LET n == demande[1]
                      IN  IF n \in Affichables THEN LuComme(n) ELSE QuatreDerniers(n)
    BY DEF NombreLisible
  <2>1. PICK n \in Int :
          /\ demande = <<n>>
          /\ \A p \in Positions :
               display_buffer[POSITION_MAP[p]] \ {"."} = BufferNombre(n)[POSITION_MAP[p]]
    BY DEF SInv, Demande
  <2>2. demande[1] = n
    BY <2>1
  <2>3. ram = display_buffer
    BY DEF SInv, Reveil
  <2> DEFINE b == BufferNombre(n)
  <2>4. \A p \in Positions : Signe(p) = b[POSITION_MAP[p]]
    BY <2>1, <2>3 DEF Signe
  <2>5. PICK k \in 1 .. 4 : LongueurDe(Abs(n), k) /\ Rendu(b, n, k)
    BY NombreRend
  <2> HIDE DEF b
  <2>6. n \in Affichables => LuComme(n)
    BY <2>4, <2>5, Petit, Zenon
  <2>7. n \notin Affichables => QuatreDerniers(n)
    BY <2>4, <2>5, Grand, Zenon
  <2> QED BY <2>2, <2>6, <2>7, Zenon
<1> QED BY <1>1, InvariantSegments, PTL

(* The chip shows the buffer of the driver, awake and with a brightness it *)
(* can hold, and exactly the points that were asked for, whatever another  *)
(* process had left on it (my_7_segment.c:64-136).                         *)
THEOREM PuceAJourProuvee == Spec7 => []PuceAJour
<1>1. SInv => PuceAJour
  <2> SUFFICES ASSUME SInv, i2c_fd = Ouvert
               PROVE  /\ ram = display_buffer /\ osc /\ allume /\ niveau \in 0 .. 15
                      /\ {p \in 0 .. MAX_DIGITS - 1 : "." \in ram[POSITION_MAP[p]]} = points
    BY DEF PuceAJour
  <2>1. ram = display_buffer /\ osc /\ allume
    BY DEF SInv, Reveil
  <2>2. 0 .. MAX_DIGITS - 1 = Positions
    BY DEF MAX_DIGITS, Positions
  <2>3. points = {p \in Positions : "." \in ram[POSITION_MAP[p]]}
    BY <2>1 DEF SInv, Pointes
  <2>4. niveau \in 0 .. 15
    BY DEF SInv, Niveau
  <2> QED BY <2>1, <2>2, <2>3, <2>4, Zenon
<1> QED BY <1>1, InvariantSegments, PTL

(* A program that closes the display by segment7_cleanup leaves the chip   *)
(* dark and asleep (my_7_segment.c:185-200): an action property, which     *)
(* needs no invariant.                                                     *)
THEOREM PuceEndormieProuvee == Spec7 => PuceEndormie
<1>1. ASSUME [Next7]_vars7
      PROVE  [i2c_fd = Ouvert /\ i2c_fd' = Ferme /\ appels' # appels
                => ram' = Eteint /\ ~osc' /\ ~allume']_vars7
  <2> SUFFICES ASSUME Next7, i2c_fd = Ouvert, i2c_fd' = Ferme, appels' # appels
               PROVE  ram' = Eteint /\ ~osc' /\ ~allume'
    BY <1>1
  <2>1. Ferme # Ouvert
    BY EteintType
  <2>2. segment7_cleanup
    BY <2>1 DEF Next7, Fin7, Tuer7, segment7_init, segment7_effacer, segment7_luminosite,
       segment7_ecrire_chiffre, HorsLimites, segment7_decimal, segment7_deuxpoints,
       segment7_afficher_nombre, Montrer, vars7
  <2>3. /\ ram' = maj_affichage(Eteint)
        /\ osc' = (osc /\ i2c_fd = Ferme) /\ allume' = (allume /\ i2c_fd = Ferme)
    BY <2>2 DEF segment7_cleanup, Sommeil
  <2>4. ram' = Eteint
    BY <2>1, <2>3 DEF maj_affichage
  <2> QED BY <2>1, <2>3, <2>4, Zenon
<1> QED BY <1>1, PTL DEF Spec7, PuceEndormie
=============================================================================
