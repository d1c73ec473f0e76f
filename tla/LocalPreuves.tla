---------------------------- MODULE LocalPreuves ----------------------------
(***************************************************************************)
(* Proofs about the game of one player (Local): the invariants that TLC    *)
(* checks on a few shapes and a coarse clock hold for every number of      *)
(* shapes, every resolution of the clock, every limit and every number of  *)
(* corrections of the wall clock.                                          *)
(***************************************************************************)
EXTENDS Local, TLAPS

-----------------------------------------------------------------------------
(***************************************************************************)
(* Division and the conversion of a time into tenths.                      *)
(***************************************************************************)

\* The quotient of a division of naturals, by its bounds.
LEMMA Quotient ==
  ASSUME NEW a \in Nat, NEW c \in Nat \ {0}
  PROVE  /\ a \div c \in Nat
         /\ c * (a \div c) <= a
         /\ a < c * (a \div c) + c
OBVIOUS

\* A product with a positive factor keeps strict order.
LEMMA Facteur ==
  ASSUME NEW c \in Nat \ {0}, NEW q \in Nat, NEW r \in Nat, q + 1 <= r
  PROVE  c * q + c <= c * r
<1> DEFINE k == r - (q + 1)
<1>1. k \in Nat /\ r = q + 1 + k
  OBVIOUS
<1>2. c * k \in Nat
  BY <1>1
<1>3. c * r = c * q + c + c * k
  BY <1>1
<1> QED
  BY <1>2, <1>3

\* At most a tenth later: jeu.c:269 reads the clock once more than the loop.
LEMMA UnTour ==
  ASSUME NEW a \in Nat, NEW d \in Nat, NEW c \in Nat \ {0}, d <= c
  PROVE  (a + d) \div c \in a \div c .. a \div c + 1
<1> DEFINE q == a \div c
           r == (a + d) \div c
<1>1. q \in Nat /\ c * q <= a /\ a < c * q + c
  BY Quotient
<1>2. r \in Nat /\ c * r <= a + d /\ a + d < c * r + c
  BY Quotient
<1>3. c * q \in Nat /\ c * r \in Nat
  BY <1>1, <1>2
<1> HIDE DEF q, r
<1>4. ~(r + 1 <= q)
  BY <1>1, <1>2, <1>3, Facteur
<1>5. ~(q + 1 + 1 <= r)
  <2> SUFFICES ASSUME q + 1 + 1 <= r PROVE FALSE
    OBVIOUS
  <2>1. c * (q + 1) + c <= c * r
    BY <1>1, <1>2, Facteur
  <2>2. c * (q + 1) = c * q + c
    BY <1>1
  <2> QED
    BY <1>1, <1>2, <1>3, <2>1, <2>2
<1>6. r \in q .. q + 1
  BY <1>1, <1>2, <1>4, <1>5
<1> QED
  BY <1>6 DEF q, r

\* (int)(seconds * 10): a tenth for every Cadence ticks, and no fewer than none
\* when the clock only went forward.
LEMMA DixiemesType ==
  /\ \A t \in Int : Dixiemes(t) \in Int
  /\ \A t \in Nat : Dixiemes(t) = t \div Cadence /\ Dixiemes(t) \in Nat
<1>1. ASSUME NEW t \in Int, t >= 0
      PROVE  Dixiemes(t) = t \div Cadence /\ Dixiemes(t) \in Nat
  BY <1>1, Quotient, LocalAssumption DEF Dixiemes
<1>2. ASSUME NEW t \in Int, ~(t >= 0)
      PROVE  Dixiemes(t) \in Int
  <2>1. -t \in Nat
    BY <1>2
  <2>2. (-t) \div Cadence \in Nat
    BY <2>1, Quotient, LocalAssumption
  <2> QED
    BY <1>2, <2>2 DEF Dixiemes
<1> QED
  BY <1>1, <1>2

\* One turn of the chronometer moves it by at most a tenth.
LEMMA DixiemesTour ==
  ASSUME NEW t \in Nat, NEW d \in Latences
  PROVE  Dixiemes(t + d) \in Dixiemes(t) .. Dixiemes(t) + 1
<1>1. d \in Nat /\ d <= Cadence /\ Cadence \in Nat \ {0}
  BY LocalAssumption
<1>2. t + d \in Nat
  BY <1>1
<1> QED
  BY <1>1, <1>2, UnTour, DixiemesType

\* In a permutation a shape has one cell, and afficher_grille_predefinie
\* returns its number.
LEMMA PositionJuste ==
  ASSUME NEW f \in Formes, NEW o \in Ordres, NEW r \in 0 .. NbFormes
  PROVE  /\ r = PositionForme(f, o) => r # 0 /\ o[r - 1] = f
         /\ r # 0 /\ r # PositionForme(f, o) => o[r - 1] # f
<1>1. NbFormes \in Nat \ {0} /\ Formes = 0 .. NbFormes - 1
  BY NbFormesAssumption DEF Formes
<1>2. PICK k \in Formes : o[k] = f
  BY DEF Ordres, EstPermutation
<1>3. \A l \in Formes : o[l] = f => l = k
  BY <1>2 DEF Ordres, EstPermutation
<1>4. DerniereCase(f, o, k)
  BY <1>1, <1>2, <1>3 DEF DerniereCase
<1>5. \A l \in Formes : DerniereCase(f, o, l) => l = k
  BY <1>3 DEF DerniereCase
<1>6. (CHOOSE l \in Formes : DerniereCase(f, o, l)) = k
  BY <1>4, <1>5
<1>7. PositionForme(f, o) = 1 + k
  BY <1>2, <1>6 DEF PositionForme
<1> QED
  BY <1>1, <1>2, <1>3, <1>7

-----------------------------------------------------------------------------
(***************************************************************************)
(* The inductive invariant.                                                *)
(***************************************************************************)
Lieux == {"demarrage", "preparation", "contact", "partie", "chrono", "resultat",
          "menu", "choix", "nettoyage", "fini"}

\* What TypeOK says of the numbers, one by one.
Temps == IF sauts = 0 THEN Nat ELSE Int
Nombres ==
  /\ sauts \in 0 .. MaxSauts
  /\ depuis \in Temps /\ cumul \in Temps /\ repos \in Temps
  /\ affiche \in Temps /\ temps \in Temps
  /\ precedent \in Int /\ segments \in Int
Booleens == touchPret \in BOOLEAN /\ btnPret \in BOOLEAN /\ actif \in BOOLEAN
Reste ==
  /\ pcL \in Lieux
  /\ tirage = Eteint \/ (tirage.forme \in Formes /\ tirage.ordre \in Ordres)
  /\ rep \in 0 .. NbFormes
  /\ verdict \in {"", "lent", "bravo", "erreur"}

\* Which pins are configured, also where nothing reads them.
Broches ==
  /\ pcL \in {"demarrage", "fini"} => btnPret = FALSE
  /\ pcL \in {"chrono", "choix"} => btnPret = TRUE
  /\ pcL \notin {"contact", "nettoyage"} => touchPret = FALSE
  /\ pcL = "contact" => touchPret = TRUE

\* The contact that is being timed began after the last sample that saw the
\* sensor free.
Contact ==
  sauts = 0 =>
    /\ pcL = "contact" => cumul <= repos /\ (actif => depuis <= repos)
    /\ pcL = "partie" => repos >= Seconde

\* The display follows the clock; after the loop, why the loop was left.
Chrono ==
  sauts = 0 =>
    /\ pcL = "chrono" => /\ affiche = Dixiemes(depuis)
                         /\ segments = affiche
                         /\ precedent \in {Vide, affiche}
    /\ pcL \in {"resultat", "menu"} => /\ temps \in segments .. segments + 1
                                       /\ rep # 0 \/ segments >= Limite

\* There is a draw during the round, and a verdict only after it.
Tire == pcL \in {"chrono", "resultat", "menu"} =>
          tirage.forme \in Formes /\ tirage.ordre \in Ordres
Juge == IF pcL = "menu" THEN verdict = Verdict ELSE verdict = ""

LInv == Nombres /\ Booleens /\ Reste /\ Broches /\ Contact /\ Chrono /\ Tire /\ Juge

LEMMA InitLocal == Init => LInv
<1> SUFFICES ASSUME Init PROVE LInv
  OBVIOUS
<1>1. /\ depuis = 0 /\ cumul = 0 /\ repos = 0 /\ affiche = 0 /\ temps = 0
      /\ sauts = 0 /\ rep = 0 /\ precedent = Vide /\ segments = Vide
  BY DEF Init
<1>2. Nombres
  BY <1>1, LocalAssumption DEF Nombres, Temps, Vide
<1>3. rep \in 0 .. NbFormes
  BY <1>1, NbFormesAssumption
<1>4. Booleens /\ Reste /\ Broches /\ Contact /\ Chrono /\ Tire /\ Juge
  BY <1>3 DEF Init, Booleens, Reste, Lieux, Broches, Contact, Chrono, Tire, Juge
<1> QED
  BY <1>2, <1>4 DEF LInv

\* Before the round and after it: the devices are started and stopped, and the
\* numbers of the round are left as they are.
LEMMA PasAutour ==
  ASSUME LInv, Demarrer \/ Preparer \/ FinContact \/ Effacer \/ Choisir \/ Nettoyer
  PROVE  LInv'
<1> USE DEF LInv, contactVars, partieVars, matrice_btn_init, touch_init, touch_cleanup
<1>1. CASE Demarrer
  <2>1. /\ pcL = "demarrage" /\ pcL' \in {"fini", "preparation"}
        /\ UNCHANGED <<depuis, contactVars, tirage, partieVars, segments, verdict, sauts>>
    BY <1>1 DEF Demarrer
  <2>2. Nombres' /\ Reste' /\ Contact' /\ Chrono' /\ Tire' /\ Juge'
    BY <2>1 DEF Nombres, Temps, Reste, Lieux, Contact, Chrono, Tire, Juge
  <2>3. /\ touchPret' = touchPret /\ touchPret = FALSE
        /\ btnPret' = TRUE \/ btnPret' = btnPret
        /\ pcL' = "fini" => btnPret' = FALSE
    <3>1. btnPret = FALSE /\ touchPret = FALSE
      BY <2>1 DEF Broches
    <3>2. ~(1 = 0) /\ ~(0 = 1)
      OBVIOUS
    <3> QED
      BY <1>1, <3>1, <3>2, Zenon DEF Demarrer, initialiser_peripheriques
  <2>4. Booleens' /\ Broches'
    BY <2>1, <2>3 DEF Booleens, Broches
  <2> QED
    BY <2>2, <2>4
<1>2. CASE Preparer
  <2>1. /\ pcL = "preparation" /\ pcL' = "contact"
        /\ cumul' = 0 /\ depuis' = 0 /\ repos' = 0
        /\ UNCHANGED <<tirage, partieVars, segments, verdict, sauts>>
    BY <1>2 DEF Preparer
  <2>2. Nombres' /\ Contact'
    BY <2>1 DEF Nombres, Temps, Contact
  <2>3. Reste' /\ Chrono' /\ Tire' /\ Juge'
    BY <2>1 DEF Reste, Lieux, Chrono, Tire, Juge
  <2>4. Booleens' /\ Broches'
    BY <1>2 DEF Preparer, reinitialiser_capteur_touch, Booleens, Broches
  <2> QED
    BY <2>2, <2>3, <2>4
<1>3. CASE FinContact
  <2>1. /\ pcL = "contact" /\ pcL' = "partie" /\ cumul >= Seconde
        /\ UNCHANGED <<depuis, contactVars, tirage, partieVars, segments, verdict, sauts>>
    BY <1>3 DEF FinContact
  <2>2. Nombres' /\ Reste' /\ Chrono' /\ Tire' /\ Juge'
    BY <2>1 DEF Nombres, Temps, Reste, Lieux, Chrono, Tire, Juge
  <2>3. Contact'
    BY <2>1, LocalAssumption DEF Contact, Nombres, Temps, Seconde
  <2>4. Booleens' /\ Broches'
    BY <1>3 DEF FinContact, Booleens, Broches
  <2> QED
    BY <2>2, <2>3, <2>4
<1>4. CASE Effacer
  <2>1. segments' = Vide
    BY <1>4 DEF Effacer
  <2>2. segments' \in Int
    BY <2>1 DEF Vide
  <2> QED
    BY <1>4, <2>2 DEF Effacer, Nombres, Temps, Booleens, Reste, Lieux, Broches, Contact,
                      Chrono, Tire, Juge
<1>5. CASE Choisir
  BY <1>5 DEF Choisir, Nombres, Temps, Booleens, Reste, Lieux, Broches, Contact, Chrono,
              Tire, Juge
<1>6. CASE Nettoyer
  <2>1. segments' = Vide
    BY <1>6 DEF Nettoyer, nettoyer_peripheriques
  <2>2. segments' \in Int
    BY <2>1 DEF Vide
  <2> QED
    BY <1>6, <2>2 DEF Nettoyer, nettoyer_peripheriques, matrice_btn_cleanup, Nombres,
                      Temps, Booleens, Reste, Lieux, Broches, Contact, Chrono, Tire, Juge
<1> QED
  BY <1>1, <1>2, <1>3, <1>4, <1>5, <1>6

\* A sample of the sensor (jeu.c:168-204).
LEMMA PasEchantillon ==
  ASSUME LInv, Echantillon
  PROVE  LInv'
<1> USE DEF LInv, contactVars, partieVars
<1>1. PICK d \in Latences : Toucher(d) \/ Lacher(d)
  BY DEF Echantillon
<1>2. d \in Nat
  BY <1>1, LocalAssumption
<1>3. /\ pcL = "contact"
      /\ UNCHANGED <<pcL, touchPret, btnPret, tirage, partieVars, segments, verdict, sauts>>
  BY DEF Echantillon
<1>4. Booleens' /\ Reste' /\ Broches' /\ Tire' /\ Juge' /\ Chrono'
  BY <1>1, <1>3 DEF Toucher, Lacher, Booleens, Reste, Lieux, Broches, Tire, Juge, Chrono
\* What the two kinds of samples do to the times.
<1>5. \/ cumul' = depuis /\ actif /\ depuis' = cumul' + d /\ repos' = repos + d
      \/ cumul' = 0 /\ depuis' = cumul' + d /\ repos' = repos + d
      \/ cumul' = 0 /\ depuis' = 0 /\ repos' = 0
  BY <1>1, Zenon DEF Toucher, Lacher
<1>6. sauts = 0 => cumul <= repos /\ (actif => depuis <= repos)
  BY <1>3 DEF Contact
<1>7. Nombres'
  BY <1>2, <1>3, <1>5 DEF Nombres, Temps
<1>8. sauts = 0 => cumul' <= repos' /\ depuis' <= repos'
  BY <1>2, <1>5, <1>6 DEF Nombres, Temps
<1>9. Contact'
  BY <1>3, <1>8 DEF Contact
<1> QED
  BY <1>4, <1>7, <1>9

\* The round starts (jeu.c:225-245).
LEMMA PasCommencer ==
  ASSUME LInv, Commencer
  PROVE  LInv'
<1> USE DEF LInv, contactVars, partieVars
<1>1. PICK f \in Formes, o \in Ordres : tirage' = [forme |-> f, ordre |-> o]
  BY DEF Commencer
<1>2. tirage'.forme \in Formes /\ tirage'.ordre \in Ordres
  BY <1>1
<1>3. /\ pcL = "partie" /\ pcL' = "chrono"
      /\ segments' = 0 /\ depuis' = 0 /\ affiche' = 0 /\ temps' = 0
      /\ rep' = 0 /\ precedent' = Vide
      /\ UNCHANGED <<contactVars, verdict, sauts>>
  BY DEF Commencer
<1>4. Nombres' /\ rep' \in 0 .. NbFormes
  BY <1>3, NbFormesAssumption DEF Vide, Nombres, Temps
<1>5. Reste' /\ Contact' /\ Tire' /\ Juge'
  BY <1>2, <1>3, <1>4 DEF Contact, Tire, Juge, Reste, Lieux
<1>6. Booleens' /\ Broches'
  BY <1>3 DEF Commencer, matrice_btn_init, Booleens, Broches
<1>7. Dixiemes(0) = 0
  BY Quotient, LocalAssumption DEF Dixiemes
<1>8. Chrono'
  BY <1>3, <1>7 DEF Chrono
<1> QED
  BY <1>4, <1>5, <1>6, <1>8

\* One turn of the loop (jeu.c:246-268).
LEMMA PasChronometrer ==
  ASSUME LInv, Chronometrer
  PROVE  LInv'
<1> USE DEF LInv, contactVars, partieVars
<1>1. PICK d \in Latences : depuis' = depuis + d
  BY DEF Chronometrer, Lecture
<1>2. d \in Nat
  BY <1>1, LocalAssumption
<1>3. /\ pcL = "chrono" /\ rep' \in 0 .. NbFormes
      /\ affiche' = Dixiemes(depuis')
      /\ segments' = (IF affiche' # precedent THEN affiche' ELSE segments)
      /\ precedent' = affiche'
      /\ UNCHANGED <<pcL, touchPret, btnPret, contactVars, tirage, temps, verdict, sauts>>
  BY DEF Chronometrer, SegmentsApres
<1>4. depuis \in Temps /\ depuis' \in Temps
  BY <1>1, <1>2 DEF Nombres, Temps
<1>5. affiche' \in Temps /\ affiche' \in Int
  BY <1>3, <1>4, DixiemesType DEF Temps
<1>6. Nombres'
  BY <1>3, <1>4, <1>5 DEF Nombres, Temps
<1>7. Booleens' /\ Reste' /\ Broches' /\ Contact' /\ Tire' /\ Juge'
  BY <1>3 DEF Booleens, Reste, Lieux, Broches, Contact, Tire, Juge
<1>8. Chrono'
  <2> SUFFICES ASSUME sauts = 0
               PROVE  segments' = affiche'
    BY <1>3 DEF Chrono
  <2>1. affiche' \in Nat /\ affiche' # Vide
    BY <1>5 DEF Temps, Vide
  <2>2. segments = affiche /\ precedent \in {Vide, affiche}
    BY <1>3 DEF Chrono
  <2> QED
    BY <1>3, <2>1, <2>2
<1> QED
  BY <1>6, <1>7, <1>8

\* The reading after the loop (jeu.c:269-272).
LEMMA PasFinChrono ==
  ASSUME LInv, FinChrono
  PROVE  LInv'
<1> USE DEF LInv, contactVars, partieVars
<1>1. PICK d \in Latences : depuis' = depuis + d
  BY DEF FinChrono, Lecture
<1>2. d \in Nat
  BY <1>1, LocalAssumption
<1>3. /\ pcL = "chrono" /\ pcL' = "resultat"
      /\ rep # 0 \/ affiche >= Limite
      /\ temps' = Dixiemes(depuis')
      /\ UNCHANGED <<touchPret, btnPret, contactVars, tirage, rep, affiche,
                     precedent, segments, verdict, sauts>>
  BY DEF FinChrono
<1>4. depuis \in Temps /\ depuis' \in Temps
  BY <1>1, <1>2 DEF Nombres, Temps
<1>5. temps' \in Temps
  BY <1>3, <1>4, DixiemesType DEF Temps
<1>6. Nombres'
  BY <1>3, <1>4, <1>5 DEF Nombres, Temps
<1>7. Booleens' /\ Reste' /\ Broches' /\ Contact' /\ Tire' /\ Juge'
  BY <1>3 DEF Booleens, Reste, Lieux, Broches, Contact, Tire, Juge
<1>8. Chrono'
  <2> SUFFICES ASSUME sauts = 0
               PROVE  temps' \in segments .. segments + 1 /\ (rep # 0 \/ segments >= Limite)
    BY <1>3 DEF Chrono
  <2>1. segments = affiche /\ affiche = Dixiemes(depuis) /\ depuis \in Nat
    BY <1>3, <1>4 DEF Chrono, Temps
  <2> QED
    BY <1>1, <1>3, <2>1, DixiemesTour
<1> QED
  BY <1>6, <1>7, <1>8

\* The result (jeu.c:281-306).
LEMMA PasResultat ==
  ASSUME LInv, AfficherResultat
  PROVE  LInv'
<1> USE DEF LInv, contactVars, partieVars
<1>1. /\ pcL = "resultat" /\ pcL' = "menu" /\ verdict' = Verdict
      /\ UNCHANGED <<touchPret, btnPret, depuis, contactVars, tirage, partieVars,
                     segments, sauts>>
  BY DEF AfficherResultat
<1>2. Nombres' /\ Booleens' /\ Broches' /\ Contact' /\ Chrono' /\ Tire'
  BY <1>1 DEF Nombres, Temps, Booleens, Broches, Contact, Chrono, Tire
<1>3. Reste'
  BY <1>1 DEF Reste, Lieux, Verdict
<1>4. Juge'
  BY <1>1 DEF Juge, Verdict, position
<1> QED
  BY <1>2, <1>3, <1>4

\* The clock is set; from then on nothing is claimed of the times.
LEMMA PasHorloge ==
  ASSUME LInv, CorrigerHorloge
  PROVE  LInv'
<1> USE DEF LInv, contactVars, partieVars
<1>1. PICK s \in Sauts : depuis' = depuis + s
  BY DEF CorrigerHorloge
<1>2. s \in Int /\ MaxSauts \in Nat
  BY <1>1, LocalAssumption
<1>3. /\ pcL \in {"chrono", "contact"} /\ sauts < MaxSauts /\ sauts' = sauts + 1
      /\ UNCHANGED <<pcL, touchPret, btnPret, contactVars, tirage, partieVars,
                     segments, verdict>>
  BY DEF CorrigerHorloge
<1>4. Nombres' /\ sauts' # 0
  BY <1>1, <1>2, <1>3 DEF Nombres, Temps
<1>5. Booleens' /\ Reste' /\ Broches' /\ Contact' /\ Chrono' /\ Tire' /\ Juge'
  BY <1>3, <1>4 DEF Booleens, Reste, Lieux, Broches, Contact, Chrono, Tire, Juge
<1> QED
  BY <1>4, <1>5

LEMMA PasLocal == LInv /\ [Next]_vars => LInv'
<1> SUFFICES ASSUME LInv, [Next]_vars
             PROVE  LInv'
  OBVIOUS
<1>1. CASE UNCHANGED vars
  BY ZenonT(60), <1>1 DEF vars, contactVars, partieVars, LInv, Nombres, Temps, Booleens, Reste, Broches,
              Contact, Chrono, Tire, Juge, Verdict, position
<1>2. CASE Termine
  BY <1>1, <1>2 DEF Termine
<1> QED
  BY <1>1, <1>2, PasAutour, PasEchantillon, PasCommencer, PasChronometrer, PasFinChrono,
     PasResultat, PasHorloge DEF Next, Partie

\* The inductive invariant holds in every state.
LEMMA InvariantLocal == Spec => []LInv
BY InitLocal, PasLocal, PTL DEF Spec

-----------------------------------------------------------------------------
(***************************************************************************)
(* The theorems.                                                           *)
(***************************************************************************)

\* The types, and that no time is negative before the clock is set back
\* (the variables of jeu.c:150-310).
THEOREM TypesLocal == Spec => []TypeOK
<1>1. LInv => TypeOK
  BY DEF LInv, Nombres, Temps, Booleens, Reste, TypeOK
<1> QED
  BY <1>1, InvariantLocal, PTL

\* The second at the sensor is a second without a release, for every resolution
\* of the clock and every duration of a turn (jeu.c:168-204).
THEOREM ContactTenuProuve == Spec => []ContactTenu
<1>1. LInv => ContactTenu
  BY DEF LInv, Contact, ContactTenu
<1> QED
  BY <1>1, InvariantLocal, PTL

\* The pins are configured wherever they are read, through any number of rounds
\* (jeu.c:49-54, 61, 84-86, 231-234).
THEOREM PeripheriquesPretsProuve == Spec => []PeripheriquesPrets
<1>1. LInv => PeripheriquesPrets
  BY DEF LInv, Broches, PeripheriquesPrets
<1> QED
  BY <1>1, InvariantLocal, PTL

\* The display shows the last turn of the loop, and the time of the result is
\* at most a tenth later (jeu.c:246-272).
THEOREM ChronoSincereProuve == Spec => []ChronoSincere
<1>1. LInv => ChronoSincere
  BY DEF LInv, Chrono, ChronoSincere
<1> QED
  BY <1>1, InvariantLocal, PTL

\* The verdict is true for every number of shapes and every limit
\* (jeu.c:281-306).
THEOREM VerdictJusteProuve == Spec => []VerdictJuste
<1>1. LInv => VerdictJuste
  <2> SUFFICES ASSUME LInv, verdict # ""
               PROVE  VerdictJuste
    BY DEF VerdictJuste
  <2>1. /\ pcL = "menu" /\ verdict = Verdict /\ rep \in 0 .. NbFormes
        /\ tirage.forme \in Formes /\ tirage.ordre \in Ordres
    BY DEF LInv, Juge, Tire, Reste
  <2>2. /\ rep = position => rep # 0 /\ tirage.ordre[rep - 1] = tirage.forme
        /\ rep # 0 /\ rep # position => tirage.ordre[rep - 1] # tirage.forme
    BY <2>1, PositionJuste DEF position
  <2>3. sauts = 0 => /\ temps \in segments .. segments + 1 /\ segments \in Int
                     /\ rep # 0 \/ segments >= Limite
    BY <2>1 DEF LInv, Chrono, Nombres
  <2>4. Limite \in Nat
    BY LocalAssumption
  <2> QED
    BY <2>1, <2>2, <2>3, <2>4 DEF VerdictJuste, Verdict
<1> QED
  BY <1>1, InvariantLocal, PTL

=============================================================================
