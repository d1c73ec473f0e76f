------------------------------- MODULE Local -------------------------------
(***************************************************************************)
(* lancer_jeu, the game of one player (local.c, lib/jeu.c): the wait at    *)
(* the touch sensor, the round against the chronometer, the result and the *)
(* choice.  A call of touch_read, of matrice_btn_lire or of gettimeofday   *)
(* is in an action of its own; what lies between two of them is in the     *)
(* action of the first.                                                    *)
(*                                                                         *)
(* Time is counted in ticks, Cadence to the tenth of a second.  A turn of  *)
(* a loop takes any duration of Latences.  gettimeofday follows the wall   *)
(* clock, which may be corrected by Sauts while it is being read.          *)
(***************************************************************************)
EXTENDS Formes

CONSTANTS
  Cadence,    \* ticks in a tenth of a second
  Latences,   \* ticks between two readings of the clock in a loop
  Limite,     \* 100: the tenths of a second after which the round is over
  Sauts,      \* the corrections of the wall clock, in ticks
  MaxSauts    \* bound: how often it is corrected

ASSUME LocalAssumption ==
  /\ Cadence \in Nat \ {0}
  /\ Latences \subseteq 1 .. Cadence
  /\ Limite \in Nat \ {0}
  /\ Sauts \subseteq Int /\ MaxSauts \in Nat

VARIABLES
  pcL,         \* where lancer_jeu and the functions it calls are
  touchPret,   \* touch_init has been called since touch_cleanup
  btnPret,     \* matrice_btn_init has been called since matrice_btn_cleanup
  actif,       \* contact_actif
  depuis,      \* ticks since debut_contact, or since debut of the chronometer
  cumul,       \* temps_cumule, in ticks
  repos,       \* auxiliary: ticks since a sample saw the sensor free
  tirage,      \* the shape on the LED matrix and the order of the grid
  rep, affiche, precedent,  \* rep, temps_affiche, temps_precedent
  temps,       \* temps_final
  segments,    \* the number on the seven-segment display, Vide when it is off
  verdict,     \* the result on the LCD, "" when there is none
  sauts        \* for the bound

vars == <<pcL, touchPret, btnPret, actif, depuis, cumul, repos, tirage, rep,
          affiche, precedent, temps, segments, verdict, sauts>>
contactVars == <<actif, cumul, repos>>
partieVars == <<rep, affiche, precedent, temps>>

Vide == -1
Seconde == 10 * Cadence
\* (int)(seconds * 10), which goes towards zero.
Dixiemes(t) == IF t >= 0 THEN t \div Cadence ELSE -((-t) \div Cadence)
Eteint == [forme |-> Vide, ordre |-> <<>>]

Init ==
  /\ pcL = "demarrage"
  /\ touchPret = FALSE /\ btnPret = FALSE
  /\ actif = FALSE /\ depuis = 0 /\ cumul = 0 /\ repos = 0
  /\ tirage = Eteint
  /\ rep = 0 /\ affiche = 0 /\ precedent = Vide /\ temps = 0
  /\ segments = Vide
  /\ verdict = ""
  /\ sauts = 0

\* The configuration of the pins.  Of several calls in one action the last one
\* decides.
touch_init == touchPret' = TRUE
\* Mutant: the pull-up stays on.
TouchCleanupOublie == UNCHANGED touchPret
touch_cleanup == touchPret' = FALSE
matrice_btn_init == btnPret' = TRUE
matrice_btn_cleanup == btnPret' = FALSE

\* touch_cleanup, then touch_init and a reading that is thrown away.
reinitialiser_capteur_touch == touch_init

\* 0: every device but the sensor has been started; 1: wiringPi failed.
initialiser_peripheriques(res) ==
  \/ res = 0 /\ matrice_btn_init
  \/ res = 1 /\ UNCHANGED btnPret

-----------------------------------------------------------------------------
(***************************************************************************)
(* initialiser_peripheriques and attendre_contact_tactile.                 *)
(***************************************************************************)

Demarrer ==
  /\ pcL = "demarrage"
  /\ \/ initialiser_peripheriques(1) /\ pcL' = "fini"
     \/ initialiser_peripheriques(0) /\ pcL' = "preparation"
  /\ UNCHANGED <<touchPret, depuis, contactVars, tirage, partieVars, segments, verdict, sauts>>

\* The devices are stopped and started again, the sensor twice, and the loop
\* begins with nothing held.
Preparer ==
  /\ pcL = "preparation"
  /\ pcL' = "contact"
  /\ matrice_btn_init /\ reinitialiser_capteur_touch
  /\ actif' = FALSE /\ cumul' = 0
  /\ depuis' = 0 /\ repos' = 0
  /\ UNCHANGED <<tirage, partieVars, segments, verdict, sauts>>

\* A sample finds the sensor touched; the next one is d ticks later.
Toucher(d) ==
  /\ actif' = TRUE
  /\ cumul' = IF actif THEN depuis ELSE 0
  /\ depuis' = cumul' + d
  /\ repos' = repos + d

\* Mutant: a release sets the time back and leaves the contact active.
LacherSansFin(d) ==
  /\ cumul' = 0 /\ repos' = 0 /\ depuis' = depuis + d
  /\ UNCHANGED actif
\* A sample finds it free: the contact is over and its time is lost.
Lacher(d) ==
  /\ actif' = FALSE
  /\ cumul' = 0 /\ depuis' = 0 /\ repos' = 0

Echantillon ==
  /\ pcL = "contact"
  /\ cumul < Seconde
  /\ \E d \in Latences : Toucher(d) \/ Lacher(d)
  /\ UNCHANGED <<pcL, touchPret, btnPret, tirage, partieVars, segments, verdict, sauts>>

\* The sensor has been held for a second; it is switched off for the round.
FinContact ==
  /\ pcL = "contact"
  /\ cumul >= Seconde
  /\ pcL' = "partie"
  /\ touch_cleanup
  /\ UNCHANGED <<btnPret, depuis, contactVars, tirage, partieVars, segments, verdict, sauts>>

-----------------------------------------------------------------------------
(***************************************************************************)
(* jouer_partie and afficher_resultat.                                     *)
(***************************************************************************)

\* The draw is shown, the buttons are started again, the chronometer starts.
Commencer ==
  /\ pcL = "partie"
  /\ \E f \in Formes, o \in Ordres : tirage' = [forme |-> f, ordre |-> o]
  /\ segments' = 0
  /\ matrice_btn_init
  /\ depuis' = 0
  /\ rep' = 0 /\ affiche' = 0 /\ precedent' = Vide /\ temps' = 0
  /\ pcL' = "chrono"
  /\ UNCHANGED <<touchPret, contactVars, verdict, sauts>>

\* Mutants: debut is read again in each turn; debut - maintenant.
LectureRelancee(d) == d
LectureInverse(d) == depuis - d
\* The time since debut, d ticks after the reading before.
Lecture(d) == depuis + d

\* Mutant: temps_precedent is set before the comparison.
SegmentsFiges == segments
\* The display is written only when the time has changed.
SegmentsApres == IF affiche' # precedent THEN affiche' ELSE segments

\* One turn of the loop: a scan of the buttons, then the clock.
Chronometrer ==
  /\ pcL = "chrono"
  /\ rep = 0 /\ affiche < Limite
  /\ rep' \in 0 .. NbFormes
  /\ \E d \in Latences : depuis' = Lecture(d)
  /\ affiche' = Dixiemes(depuis')
  /\ segments' = SegmentsApres
  /\ precedent' = affiche'
  /\ UNCHANGED <<pcL, touchPret, btnPret, contactVars, tirage, temps, verdict, sauts>>

\* The loop is over and the clock is read once more, after its delay.
FinChrono ==
  /\ pcL = "chrono"
  /\ rep # 0 \/ affiche >= Limite
  /\ \E d \in Latences : depuis' = Lecture(d)
  /\ temps' = Dixiemes(depuis')
  /\ pcL' = "resultat"
  /\ UNCHANGED <<touchPret, btnPret, contactVars, tirage, rep, affiche,
                 precedent, segments, verdict, sauts>>

position == PositionForme(tirage.forme, tirage.ordre)

\* Mutant: the answer is compared before the time.
VerdictSansLimite ==
  IF rep = position THEN "bravo" ELSE IF temps >= Limite THEN "lent" ELSE "erreur"
Verdict ==
  IF temps >= Limite THEN "lent" ELSE IF rep = position THEN "bravo" ELSE "erreur"

AfficherResultat ==
  /\ pcL = "resultat"
  /\ verdict' = Verdict
  /\ pcL' = "menu"
  /\ UNCHANGED <<touchPret, btnPret, depuis, contactVars, tirage, partieVars, segments, sauts>>

-----------------------------------------------------------------------------
(***************************************************************************)
(* The menu and nettoyer_peripheriques.                                    *)
(***************************************************************************)

\* The displays are cleared and the buttons are started again for the menu.
Effacer ==
  /\ pcL = "menu"
  /\ verdict' = "" /\ segments' = Vide /\ tirage' = Eteint
  /\ matrice_btn_init
  /\ pcL' = "choix"
  /\ UNCHANGED <<touchPret, depuis, contactVars, partieVars, sauts>>

\* Button 1 or 2; any other reading changes nothing.
Choisir ==
  /\ pcL = "choix"
  /\ pcL' \in {"preparation", "nettoyage"}
  /\ UNCHANGED <<touchPret, btnPret, depuis, contactVars, tirage, partieVars, segments, verdict, sauts>>

nettoyer_peripheriques ==
  /\ tirage' = Eteint /\ segments' = Vide /\ verdict' = ""
  /\ touch_cleanup /\ matrice_btn_cleanup

Nettoyer ==
  /\ pcL = "nettoyage"
  /\ nettoyer_peripheriques
  /\ pcL' = "fini"
  /\ UNCHANGED <<depuis, contactVars, partieVars, sauts>>

-----------------------------------------------------------------------------
\* The wall clock is set while it measures a contact or a round.
CorrigerHorloge ==
  /\ pcL = "chrono" \/ (pcL = "contact" /\ actif)
  /\ sauts < MaxSauts
  /\ \E s \in Sauts : depuis' = depuis + s
  /\ sauts' = sauts + 1
  /\ UNCHANGED <<pcL, touchPret, btnPret, contactVars, tirage, partieVars,
                 segments, verdict>>

Termine == pcL = "fini" /\ UNCHANGED vars

-----------------------------------------------------------------------------
Partie == Commencer \/ Chronometrer \/ FinChrono \/ AfficherResultat \/ Effacer

Next ==
  \/ Demarrer \/ Preparer \/ Echantillon \/ FinContact
  \/ Partie \/ Choisir \/ Nettoyer \/ CorrigerHorloge \/ Termine

\* The program runs; nothing is assumed of the player.
Spec == Init /\ [][Next]_vars /\ WF_vars(Partie)

-----------------------------------------------------------------------------
(***************************************************************************)
(* Properties.                                                             *)
(***************************************************************************)
\* Times that were measured while the clock only ran forward are not negative.
TypeOK ==
  /\ touchPret \in BOOLEAN /\ btnPret \in BOOLEAN /\ actif \in BOOLEAN
  /\ {depuis, cumul, repos, affiche, temps} \subseteq IF sauts = 0 THEN Nat ELSE Int
  /\ {precedent, segments} \subseteq Int
  /\ tirage = Eteint \/ (tirage.forme \in Formes /\ tirage.ordre \in Ordres)
  /\ rep \in 0 .. NbFormes
  /\ verdict \in {"", "lent", "bravo", "erreur"}
  /\ sauts \in 0 .. MaxSauts

\* A round starts only after the sensor was found touched in every sample of a
\* whole second (jeu.c:168-204): the time that is counted never reaches back
\* over a sample that saw it free, also when the player lets go and touches
\* again.  A clock that is set forward makes the second shorter.
ContactTenu ==
  sauts = 0 =>
    /\ pcL = "contact" => cumul <= repos
    /\ pcL = "partie" => repos >= Seconde

\* No device is read unless it is configured, through any number of rounds of
\* cleanup and init (jeu.c:49-54, 61, 84-86, 231-234): the sensor in the wait,
\* the buttons in the round and in the menu; the sensor is off in the round;
\* and a game that ends leaves nothing on.
PeripheriquesPrets ==
  /\ pcL = "contact" => touchPret
  /\ pcL \in {"chrono", "choix"} => btnPret /\ ~touchPret
  /\ pcL = "fini" => ~touchPret /\ ~btnPret

\* The chronometer does not lie: it shows the time of the last turn of its loop
\* (although it is written only when temps_precedent differs), and the time of
\* the result, read after the loop (jeu.c:269-272), is never earlier and at
\* most a tenth later, as long as nobody sets the clock.
ChronoSincere ==
  sauts = 0 =>
    /\ pcL = "chrono" => segments = affiche
    /\ pcL = "resultat" => temps \in segments .. segments + 1

\* The player is told the truth (jeu.c:281-306): "Bravo" for the cell that shows
\* the shape, and "Erreur" never for that cell, whatever the clock does; and as
\* long as nobody sets it, "Bravo" only before the limit, and who pressed
\* nothing is told that it was too slow.
VerdictJuste ==
  /\ verdict = "bravo" => tirage.ordre[rep - 1] = tirage.forme
  /\ verdict = "erreur" /\ rep # 0 => tirage.ordre[rep - 1] # tirage.forme
  /\ sauts = 0 =>
       /\ verdict = "bravo" => segments < Limite
       /\ verdict # "" /\ rep = 0 => verdict = "lent"

\* A round always ends with the menu, whatever the player does or does not do
\* and although the clock that ends it is corrected while it runs (jeu.c:246).
PartieFinie == pcL = "partie" ~> pcL = "choix"

=============================================================================
