# Reflexe: models, checks and proofs

Reflexe is a reaction game for the Joy-Pi board. A shape appears on the LED
matrix, sixteen shapes appear in a grid on the terminal, and the player presses
the button at the place of the shape in the grid, against a chronometer of ten
seconds. `local.c` is the game of one player; `serveur.c` and `client.c` are the
game of up to ten players over TCP, in which everybody gets the same draw at the
same moment and is then told the best and the worst time.

This directory holds TLA+ models of that program, TLC configurations that check
them on small instances, and TLAPS proofs of what holds for every instance.

## 1. Inventory

| Part | Source | State | Operations | Interacts with |
|---|---|---|---|---|
| Server | `serveur.c` | `clients[]`, `clients_actifs[]`, `nb_clients` (globals); `client_pret[]`, the draw, `temps[]`, `reponses_correctes[]` (of one round) | wait for clients, wait for everybody at the sensor, send the signal, send the draw, receive answers, send results, receive choices, close | clients, by stream sockets |
| Client | `client.c` | the socket, the variables of one round | connect, confirm, receive signal and draw, play, send the answer, receive results, choose, close | server; all the devices |
| Sockets | kernel; wrappers `jeu.c:20-26` | accept queue, connections, descriptors, bytes in flight | accept, connect, send, recv, select, close | both programs |
| Draw and grid | `jeu.c:335-412`, `serveur.c:204-216`, `formes.c` | `indices[]`, the loop counters, `position_forme` | shuffle, display, position of the shape | server, client, local game |
| Local game | `local.c`, `jeu.c:28-311` | the round, the chronometer, the contact time | `lancer_jeu`, `attendre_contact_tactile`, `jouer_partie`, `afficher_resultat` | all the devices |
| Touch sensor | `my_touch.c` | one pin | init, read, cleanup | local game, client |
| Buttons | `my_matrice_btn.c` | eight pins | init, scan, waits, cleanup | local game, client |
| Seven segments | `my_7_segment.c` | `display_buffer[]`, `i2c_fd`; the HT16K33 | init, digits, number, points, colon, brightness, cleanup | local game, client |
| LED matrix | `my_matrice_led.c` | three pins; shift register and registers of the MAX7219 | init, line, pattern, intensity, cleanup | local game, client |
| LCD | `my_lcd.c` | `lcds[]`, `lcdHandle`, `lcdControl`, cursor; the HD44780 | init, position, character, string, control bits, custom character, cleanup | local game, client |
| Terminal | `my_ncurses.c`, `jeu.c:414-423`, `formes.c` | size, origin of the grid, the two screens of ncurses | init, grid, pattern in a cell, clear a cell, refresh, end | draw and grid |

What is hard in this code is in the network game. The server is one process that
blocks in `accept`, `select` and `recv`; between two of its calls any client may
connect, send, close or die, and the kernel may deliver a reset. Both ends count
on the order of untyped units on the stream, the client never looks at what
`recv` returns, descriptor numbers are used again while old slots still hold
them, slots are never given back, and `SIGPIPE` is not handled. TCP carries bytes,
not units. The displays are hard in another way: their chips keep their state
when a program is killed between two edges of a pin, and the next program has to
take over from there. `PROJECT.json` lists these hazards with their lines.

What makes each part correct:

* **Server**: no index leaves `clients[]`; a slot that is active is one live
  connection and no connection is forgotten; nobody starts before everybody has
  touched; results are those of the round; the game goes on with exactly those
  who want to; every round ends.
* **Client**: it reads what the server meant; it shows the draw of the round and
  results that agree with its own answer; it does not wait for ever.
* **Draw and grid**: the order is always a permutation, no order is favoured, the
  accesses stay in the arrays, and the position returned is the right button.
* **Local game**: the contact counts only what was held, the round ends by the
  clock, what is shown and what is announced agree, no device is read while off.
* **Buttons**: a number is that of a button that was held, counted as the cells of
  the grid are; waits with a timeout return.
* **Displays**: what a person reads is what the calls asked for, whatever an
  earlier program left in the chip: the number on the seven segments, the pattern
  of the LEDs, the two lines of the LCD, the shape in exactly one cell of the
  grid; and a program that ends leaves them dark.

## 2. Modules

```
Formes ---- Grille ------------------------- GrillePreuves
   |  |        \---- Ecran ----------------- MCEcran, EcranPreuves
   |  \---- Local -------------------------- MCLocal, LocalPreuves
Sockets
   |
Protocole (Sockets, Formes)
   |-- Serveur -- ServeurOuvert ------------ MCServeur, ServeurPreuves
   |      \
   |       Reflexe (Serveur, Client)
   |      /    \
   \-- Client   Raffinement (=> Manches) --- MCReflexe, ReflexePreuves
Flux (=> Canal) ---------------------------- MCFlux, FluxPreuves
HD44780 --- Lcd -------------\-------------- MCLcd
Segment7 --------------------- Peripheriques MCPeripheriques
MatriceLed ------------------/               (Segment7, MatriceLed) AfficheursPreuves
MatriceBtn -----------------/                MatriceBtnPreuves
```

`=>` is a refinement: the module on the left states that it implements the one on
the right (`INSTANCE ... WITH`).

| Module | Code | State and actions |
|---|---|---|
| `Sockets` | external; `jeu.c:20-26` | accept queue, one connection for each client: state, descriptor at the server, units in flight each way, whether the client has closed, resets on their way or arrived. `accept` returns the smallest free descriptor; `close` with unread data sends a reset, and so does data that reaches a closed end; a reset arrives in a step of its own. |
| `Protocole` | both programs | a unit is what one `send` puts on the stream. Its value is what the code reads; its `type` exists only for the properties, no action looks at it. |
| `Serveur` | `serveur.c` | one action for each call on a socket and each end of loop. A `for` over the clients is the set `aFaire` of slots that are left, taken in order. `pcS` names the place: `autres` is `attendre_clients`, `select`/`prets`/`signal` are `attendre_pression_touch`, `forme`/`indices` `envoyer_grille_et_forme`, `juste`/`temps` `recevoir_temps`, `bilan`/`meilleur`/`pire` `envoyer_resultats`, `choix` `recevoir_choix_rejouer`. |
| `ServeurOuvert` | - | the server among peers that connect, send anything, read or not, and close at any time. |
| `Client` | `client.c` | one action for each call on the socket; a failed `recv` leaves any value of `Residus` in the variable, as the code ignores the result. The round is one action with any answer and any duration; the two do not depend on each other, as the wall clock may be set between the end of the loop and the reading of the time (`client.c:170`, `189`). |
| `Reflexe` | - | server, clients and sockets together. |
| `Manches` | - | the abstract specification of the network game: players come, call for a round, play one common draw, answer, are shown one common result made of the answers of all those who are still there (and possibly of answers that players lost since had sent), choose; anybody may vanish at any moment. No sockets, no slots, no order among the players. |
| `Raffinement` | - | the mapping from `Reflexe` to `Manches`, by the places of the programs; a client is gone as soon as either end of its connection is closed. |
| `Flux` | `jeu.c:20-26`, the calls of `serveur.c` and `client.c` in order | one connection in bytes: bytes in transit, bytes that can be read, and for each end the call it makes next with its length. A segment brings any number of whole sends, or any number of bytes with `Coupures`. |
| `Canal` | - | the abstract connection: two queues of units, as in `Sockets`. |
| `Formes`, `Grille` | `formes.c`, `jeu.c:335-412`, `serveur.c:204-216` | the shuffle, one exchange a step, and the display loop, one cell a step; `recue` distinguishes `afficher_grille_predefinie`, whose order comes off the network and need not be a permutation. |
| `Ecran` | `my_ncurses.c`, `jeu.c:414-423`, `formes.c` | the size of the terminal, the origin of the grid, the screen ncurses holds and the one the player sees, and the bytes on the LED matrix; the actions of `Grille` for the shuffle and the display loop, each cell joined with its `display_pattern`. |
| `Local` | `jeu.c:28-333`, `my_touch.c` | samples of the sensor and of the clock, one a step; the configuration of sensor and buttons; what the displays show. `CorrigerHorloge` sets the wall clock. |
| `HD44780` | external | the controller of the LCD, in eight- and in four-bit mode, nibble by nibble. |
| `Lcd` | `my_lcd.c` | one action for each function, with all its assignments and the list of its strobes; `Strobe` makes them one by one; the process may be killed between any two, the controller stays. |
| `Segment7` | `my_7_segment.c` | one action for each function, on the buffer of the process and on the cells, oscillator and brightness of the chip. A cell is a set of segments. |
| `MatriceLed` | `my_matrice_led.c` | one action for each function, which gives the commands it sends; `Selectionner`, `Horloge` and `Charger` are the edges of the pins. |
| `MatriceBtn` | `my_matrice_btn.c` | every write of the rows and every reading of a column, with the player between any two. |
| `Peripheriques` | - | the four drivers above. They share no variable, no pin and no chip, and each property is about one of them: a behaviour of all of them is, for that property, a behaviour of one. `appareil` says which one moves. |

Modelled, though easy to miss: descriptor numbers are used again; `read_fds` is a
set of descriptors (`Signales`) that is older than the `accept` that follows
`select`, and the loop looks each active slot up in it, that of the newcomer too
(`ALire`); a refused connection
is accepted and then closed; `SIGPIPE` ends a process that sends on a reset
connection; a client killed anywhere; a client that reads outside the table of
shapes after a failed `recv` may go on or die; a level undecided between a HIGH
and a LOW row when two buttons of one column are held; a strobe that the LCD may
see while `lcd_init` sets up its pins; division of negative numbers, which goes
towards zero in C; characters off the screen, which ncurses does not draw.

Operators that begin a comment with *Mutant* are plausible mistakes in the
definition that follows them. No action uses them; they show that the property
named in `PROJECT.json` would notice.

## 3. Runs

| Run | Instance | States | What it shows |
|---|---|---|---|
| `grille` | a 2 x 2 grid of the shapes 6 to 9 of `formes.c`, all draws, all 256 orders received, terminals 19 x 19, 20 x 24 and 12 x 21 | 21 thousand | order always a permutation; no access outside; the position is the only right button; each order comes from at most one sequence of random values, and any shape that is not placed yet can take each place (`TirageEquitable`), which fails for an index drawn from all places, from too many and from one too few; lines never overwritten, nothing outside the grid; the picture of the LEDs is in the returned cell and in no other; nothing left between rounds |
| `serveur` | 3 free peers, 3 slots, 3 descriptors; confirmations and 'o', in and out of place | 1.7 million | one open connection for each active slot, also when the slot of a lost client still holds the number that a newcomer is given (`DescripteursSains`); no `recv` of the wait for the confirmations can block (`JamaisBloque`); those who stay are those who said so (`RejoueurGarde`) |
| `reflexe` | 3 clients, 2 slots, 2 rounds each, 1 killed | 1.5 million | bounds of the arrays of the server; streams stay aligned; start barrier; nobody who is there and wants to stay is cut off (`PersonneChassee`); no deadlock |
| `partie` | 2 clients, 2 rounds, 2 shapes, times 30 and 101, 1 killed, fairness | 403 thousand | the network game implements the rounds of `Manches`; the results the server sends are exactly those of the active clients (`BilanExact`); everybody plays the draw of the round; results agree with one's own time and with each other and fit into the message; nobody waits for ever at the barrier; every round ends |
| `flux` | one connection, sizes of the code, 5 rounds, sends joined but not cut | 228 | each `recv` takes exactly its unit; the bytes implement the queue of units that the other modules use |
| `local` | 2 shapes, 100 tenths, 2 ticks to the tenth, clock set once by half a second or two seconds, either way | 1.3 million | contact held; devices configured; chronometer, result and verdict agree; every round ends although the clock moves |
| `peripheriques` | LCD: 2 columns, texts of 1 to 4 characters, one with a custom character, 2 starts, 1 kill. Seven segments: 15 numbers around every change of length and sign, any 5 calls and kills. LEDs: 2 lines, 2 patterns, 1 kill. Buttons: 2 x 2, timeouts 0 and 15 ms | 4.3 million | LCD: four bits, no half byte and two lines after every start; cursor, screen and messages as the calls say. Seven segments: numbers readable from -999 to 9999; chip, points and buffer agree. LEDs: each word loaded is the one meant; the pattern is shown. All three: dark after the end. Buttons: none invented; one held alone is found; waits end after the scans of their timeout |

The bounds, and why they are enough. Two slots and three clients are the least
with which a slot is lost, a newcomer refused and another client still playing.
A descriptor number is not given again to another slot among two: the loss of the
only client ends the server, and when both slots have been given a newcomer is
refused. So `serveur` has three slots: one is lost, one plays, the third comes and
is given the number of the lost one. Two rounds are what it takes for
something of a round to be left in the next. One killed client reaches every
loss the code handles, since losses are handled one slot at a time. `NbFormes`
is 1 where the draw does not matter, and 2 where it does. `MaxFlux` bounds what a
free peer has in flight. Durations are representatives: in time and too late.
In `local` the limits are those of the code, and one correction of the clock
reaches both a round and a contact; the properties that compare times speak of
behaviours without one. In `reflexe` and `partie` an uninitialised character is
the one that lets a client go on alone, the worse of the two outcomes. The shapes
of `grille` include two that are each other's mirror image; that the sixteen
shapes of the code are all different is an assumption of `Ecran` that TLC
evaluates. Cells, lines and corners of every kind appear on a 2 x 2 grid. On the LCD, two columns are the
least with which a text ends inside, at and after the end of a line, and the
addresses of the two lines are those of the controller. One kill reaches every
state in which a half-done call can leave a chip, since the next start is the only
thing that follows it. Five calls on the seven segments are a start, three calls
that may disturb one another and the end. `flux` has few states because the two
ends wait for each other most of the time; its sizes are those of the code.

The symmetry of the clients is used in `serveur` and `reflexe`, which check
invariants and an action property that speaks of all clients alike, and no
liveness: nothing tells clients apart but their slots. `serveur` does
not look for deadlocks, as a server whose peers do nothing waits in `recv`.

Five runs refute something that a comment or a message of the code says:

| Run | What is said | What happens |
|---|---|---|
| `sigpipe` | a lost client is dropped (`serveur.c:144`, `169`) | `send` to a client that died after its confirmation raises `SIGPIPE`, which ends the server under the other players (`jeu.c:21`) |
| `refus` | "s'il y a de la place" (`serveur.c:124`) | slots are never given back, so a newcomer is refused by a server that is not full |
| `synchro` | "Erreur de synchro avec le serveur" (`client.c:116`) | after a failed `recv` the character tested is whatever was there, and a client may play alone |
| `lcdinit` | "Erreur d'initialisation des périphériques" (`jeu.c:37`, `client.c:46`) | the result of `lcd_init` is ignored (`jeu.c:133`), and the next call on the LCD goes through `lcds[-1]`, or NULL when `malloc` failed; an I2C bus that does not open ends the process inside wiringPi instead, unless `WIRINGPI_CODES` is set |
| `coupure` | "Recevoir également l'ordre des indices" (`client.c:126`) | `recv` may return a part of the 64 bytes, and its result is ignored |

Seen while modelling and not worth a run of their own, as the definition that is
mapped to the lines shows them: the worst time is over all answers
(`serveur.c:297`) although the comment of the call says "parmi les réponses
correctes" (`serveur.c:430`); "Aucune réponse correcte." (`serveur.c:304`) is also
printed when the right answers were measured at 100 or more; a full table of LCDs
leaves `lcdHandle` at its old value (`my_lcd.c:306`), which takes more starts than
any program here makes; the grid of 37 lines is cut on a terminal of 24
(`my_ncurses.c:29`); the chronometer goes back when the wall clock does
(`jeu.c:251`); `lcd_position` accepts a column and a line one past the last
(`my_lcd.c:208`), which no caller passes.

## 4. Fairness

`SpecEquitable` of `Reflexe` asks weak fairness of the server's steps and of each
client's steps. The server has no other wait than `accept`, `select` and `recv`;
`attendre_clients` leaves its wait by its delay and `select` returns when there is
something to read, so a step that stays possible is taken. A client's steps
include what its player does: hold the sensor, press a button or let the ten
seconds pass, choose. A player who walks away stops the game for all by design,
so without that assumption there is nothing to promise. No fairness is assumed of
failures, kills, resets or of the arrival of clients.

`Local` asks weak fairness of the round only, and nothing of the player: the
chronometer alone must end it; the clock is corrected at most `MaxSauts` times,
as a clock that is set back for ever ends nothing. The other specifications state
none: their properties are about what has happened so far, `AttenteBornee` by
counting scans.

## 5. Proofs

Each theorem below is of the form `Spec => []P`, where `P` is a property that a
run checks, except `PuceEndormieProuvee` and `PersonneChasseeProuvee`, which are
of action properties, and `CanalProuve` and `ManchesProuvees`, which are refinements. It holds
for all values of the constants that the named `ASSUME`s allow. These are: sizes,
limits and numbers of rounds are positive, descriptors are numbers above 0,
messages of free peers are units, times and delays are numbers, patterns are
lines of bytes, and the sixteen shapes of `formes.c` differ (`FormesDistinctes`,
which TLC evaluates on the bytes of the file). None restricts what the code does.
Two hypotheses about the surroundings are stated in the theorems that need them:
`~Coupures` (no send arrives in parts) in those of `FluxPreuves`, and
`Durees \subseteq Affichables` (measured times are not negative and below a
million seconds) in `MessageTientProuve`.
Each theorem is proved from an inductive invariant, which was checked with TLC on
the instance of the run first.

**`GrillePreuves`**, a grid of any side: types and accesses inside the array (`TypeGrille`), the order is always
a permutation (`PermutationGrille`), the position is exact (`PositionGrille`). The invariant adds to
these the relation of the counters, k = i * Cote + j, and what the loop knows so
far: `position` is that of the last cell before k with the shape, or -1. An
exchange keeps a permutation (`EchangePermutation`), the cell stays inside
(`CelluleDansTableau`), and the last cell is unique (`DerniereCaseUnique`), which
identifies the `CHOOSE` of `PositionForme`.

**`EcranPreuves`**, any grid that the sixteen shapes fill, on terminals of any
size: the lines of the grid stay whole and nothing is drawn outside it (`GrilleIntacteProuvee`), the
picture of the LEDs is in the returned cell and in no other
(`ImageUniqueProuvee`), nothing is left between rounds (`RienNeResteProuve`).
`EInv` takes over the invariant of `GrillePreuves` and adds what both screens
hold: blanks outside the grid, the lines on the lines, and in each cell that the
double loop has passed the picture of its shape. That a cell is filled without
harm to the rest is geometry: a cell meets no line (`CelluleSansTrait`), two cells
have no point in common (`CellulesDisjointes`), a point that is on no line is in a
cell (`SansTraitEnCellule`, for the clearing). That a picture identifies its shape
comes from the bits of a byte (`OctetParBits`) and from `FormesDistinctes`.

**`ServeurPreuves`**, any numbers of peers, slots, descriptors and shapes, and
whatever the peers send (`SpecOuvert`): array bounds and types
(`TypesDuServeur`), slots and connections correspond (`DescripteursDuServeur`),
the results are exact (`BilanDuServeur`), those counted as playing again are those
who are kept (`GardeDuServeur`), and the wait for the confirmations never stops in
a `recv` (`AttenteSansBlocage`). The inductive invariant is

```
TypeServeur /\ Debut /\ Connexions /\ DescripteursSains /\ BilanInv
```

`DescripteursSains` alone is not inductive: that a new descriptor is not one of an
active slot needs what the kernel keeps, a descriptor for each open connection and
no two alike, and an accept queue without repetition (`Connexions`). `BilanExact`
speaks of the end of the loop; `BilanInv` says the same of the slots already seen,
with the bound meilleur <= 100. `Debut` keeps `AccepterPremier` inside the array.
The proof sorts the actions into five kinds of step (nothing moves, an arrival, a
loss, a refusal, the end) and treats each kind once. That the loop after `select`
only reads slots that were active before the `accept` is a lemma
(`LuDejaActif`): a descriptor in `read_fds` is open, so `accept` does not return
it. `AttenteSansBlocage` rests on it, and on `Connexions`: the newcomer, the
refused and the lost are other connections than those the loop has left.

**`ReflexePreuves`**, the whole network game for any numbers of clients, slots,
rounds and kills: each end reads what the other meant
(`LectureAligneeProuvee`), nobody starts before everybody has confirmed
(`BarriereProuvee`), everybody plays the draw of the round (`MemeTirageProuve`)
and is shown results that agree with its own answer and with those of the others
(`ResultatsCoherentsProuves`), which fit into the message
(`MessageTientProuve`). A step of the server is one that `ServeurPreuves`
has treated among peers that do anything, so its invariant is carried over as it
is. `RInv` adds the conversation: a round is nine units in a fixed order,
`PosServeur(k)` and `Pos(pcC[c])` are the places of the two ends in it, and
`Accord` says that what lies between the two places, and nothing else, is in the
two streams, in order; the client may already be in the round that follows, since
its confirmation may overtake the choices of the others. Alignment is then the
head of a stream. The barrier follows since a client past the signal is past the
place of a server that still waits. For the draw and the results `Tirage(c)` and
`Resultat(c)` say that the value of the round is on its way or with the client;
`Reponse(k, c)`, `BilanChoix` and the server's `BilanInv` connect the client's own
time with what is announced. The invariant speaks of a client only while both ends
of its connection are there: after that a failed `recv` leaves anything in its
variables. For the message `TempsMesures` is added: each time that is in a client, on
its way or in `temps[]` has been measured by a client or is an initial value, the
best time is at most the value from which the server starts its search, and so is
the worst one unless a client measured it. A clock set back between the two readings
of a client can give a negative time, which the server announces as the best one
when the answer was right: this is outside the hypothesis.

The network game implements `Manches` (`ManchesProuvees`), for every value of the
constants and without a hypothesis. `RInv` says which places of the two programs go
together, hence what everybody is doing when the server goes from one loop to the
next: all have confirmed at the draw, answered at the results, chosen at the next
wait. `MancheInv` adds what is about values: a time that counts has been measured,
also that of a client which has died since it sent it; whoever sends 'n' leaves, so
that the server forgets only players who are gone; a round that is announced has
players. `RInv` says nothing of these, and the steps `Publier`, `Oublier` and
`Lancer` rest on them. A step of a client moves that client alone (`UnSeulBouge`) and is one action of
`Manches`, or none when its player does not see it; a step of the server changes the
round (`TournantServeur`: the draw, the results, the next wait) or else lets somebody
in, cuts, forgets or stops. The two counts of `Manches` are of sets that need not be
finite in advance: the players of the game are finite because each holds a slot
(`AdmisComptes`), and the answers of the dead are no more than the dead because each
is that of one slot. `BilanDesInscrites` computes the announced result from
`BilanInv` as the minimum and the maximum of `Manches`.

`PersonneChasseeProuvee` says that the server cuts off nobody who is there and
wants to stay. That a cut client has gone is `PerduEstParti`: the end of the
stream is seen only after the client's own end, and a choice other than 'o' has
been sent as 'n', since what is read there was meant as a choice. That the game
ends with nobody connected comes from `RejoueurGarde`: a count of 0 is an empty
table, hence, by `DescripteursSains`, no open connection.

**`LocalPreuves`**, any number of shapes, any resolution of the clock, any limits and
any number of corrections of the clock: types (`TypesLocal`), the contact was held
(`ContactTenuProuve`), no device is read while off (`PeripheriquesPretsProuve`),
chronometer and result agree (`ChronoSincereProuve`), so does the verdict
(`VerdictJusteProuve`). `LInv` says for each place of the program what the
chronometer shows: the tenths of the clock of the last turn, and that a turn is at
most a tenth; times are naturals until the first correction and integers after it,
which decides how the conversion to tenths rounds.

**`MatriceBtnPreuves`**, a matrix of any side and any timeouts: a number is that of a
button that was held (`BoutonReelProuve`), a button held alone is found
(`BoutonSeulTrouveProuve`), a wait makes no more scans than its timeout allows
(`AttenteBorneeProuve`). `BInv` adds that during a scan the row that is read is the
only one that is LOW, and that a button held alone all the time is not behind the
scan.

**`AfficheursPreuves`**, any number of lines of at most eight, any patterns and numbers,
any sequence of calls and kills. LED matrix: every word that is loaded is the one
that was meant (`TrameEntiereProuvee`), and after each call the matrix shows the
pattern asked for (`MotifAfficheProuve`). `DInv` says that the last bits of the
shift register are the first bits of the command, in arithmetic of 16 bits, so
that what a killed process left there has been pushed out after sixteen edges; and
of each register that it is right already or that one of the commands left sets
it, and that all of them set right values. Seven segments: the number is readable
(`NombreLisibleProuve`), the chip shows the buffer (`PuceAJourProuvee`), a program
that ends leaves it dark (`PuceEndormieProuvee`). `SInv` keeps the digits of the
buffer apart from the points, which other calls set; that the digits spell the
number is arithmetic of decimal digits, one turn of the loop at a time.

**`FluxPreuves`**, any size of an int, any number of shapes and of rounds, however many
sends arrive together: each `recv` takes exactly its unit (`UniteExacteProuvee`),
and the stream of bytes implements the queue of units on which the other modules
rest (`CanalProuve`). Both have the hypothesis `~Coupures`, that no send arrives
in parts; the run `coupure` shows that they fail without it. `LesAppels` is what
the two programs owe to each other: nine calls, the same lengths, one end sends
where the other receives. `FInv` then says that the server is at place p of the
nine and the client at place q, counted from the same round (`PosClient`), that the
one who is ahead has only sent in between (`Ecart`: at most three units), and that
what can be read and what is in transit are those units, whole, in this order
(`Dispose`). A segment that ends with a send cuts such a stream between two units
(`FlotCoupe`), so that a `recv` finds its unit whole at the front. For the
refinement the first bytes of a stream are computed (`UnitesFlot`): a send appends
its unit, a `recv` takes the head, an arrival is a stuttering step.

The runs `grille` and `peripheriques` check the same formulas while other modules
move, in compositions whose parts share no variable.

Only model-checked:

* everything about liveness (`AttenteFinie`, `MancheFinie`, `PartieFinie`), which
  the prover does not reach;
* `TirageEquitable`, which speaks of a recursive function of the whole shuffle, and
  `AccordLcd`, `EcranFidele` and `DeuxLignes` of the LCD, whose strings of strobes
  are defined by recursion: both need induction over data.

## 6. Not modelled

* **A peer that vanishes without a reset.** It blocks the server in `recv` for
  ever; there is no timeout to model.
* **Full send buffers.** A round is less than 100 bytes for each client; `send`
  never blocks and never sends a part.
* **A cut delivery in the whole game.** `Flux` shows the first wrong read and stops
  there; after it every value is wrong, and the other modules rest on whole units.
* **A button still held when the round starts** is taken for an answer at once;
  nothing in the code says otherwise.
* **Electronics**: the modes of the pins of the displays, the delays, the
  backlight, the I2C expander of the LCD, errors of the I2C bus after the start.
  In the button matrix a connection between a row and a column is one button
  (`Relie`). Three buttons held at the corners of a rectangle also connect a HIGH
  row to the LOW one through one column, and the other column of that HIGH row may
  be read LOW with it (`my_matrice_btn.c:65`): the number returned is then that of
  the fourth corner, which nobody holds. The electrical model excludes this, and
  `BoutonReel` says nothing of it.
* **Characters**: the wording of the messages (only their lengths matter, in
  `DeuxLignes` and `MessageTient`), the progress bar, the command line.
* `test/`: one interactive program for each device. They call the functions of the
  drivers in the order of a demonstration and keep no state. The calls of
  `test/lcd.c` (a text two characters longer than the line, a custom character),
  `test/7_segment.c`, `test/matrice_led.c` and `test/matrice_btn.c` are of the kinds
  the modules of these drivers allow in any order. `test/ncurses.c` draws sixteen
  patterns of its own in the sixteen cells, without a shuffle, and `test/touch.c`
  reads the pin alone: `Ecran` and `Local` follow the game's order of calls only,
  and claim nothing of these two.
* `build/` and `compileur/`: the sources and headers of wiringPi and ncurses, and an
  ARM cross compiler, are third-party and by far the largest part of the
  repository (all but some 3,400 of its lines of C). The program's own code is
  `serveur.c`, `client.c`, `local.c`, `formes.c` and `lib/`; every function there
  is modelled.
* In `Local` a turn of a loop takes at most a tenth of a second: 8 ms of scan,
  10 ms of delay and the I2C writes. `ChronoSincere` depends on it.

## 7. Plan

Done: draw and grid, sockets, server, client, the whole network game and its
abstract specification, byte streams, local game with a wall clock that moves,
buttons, the three displays, the terminal; the proofs of section 5.

Both refinements are proved. What no theorem states is listed at the end of section
5, with the reason; nothing else of the plan is left.

## 8. Running

```
tlc -config MCReflexe.cfg MCReflexe
tlapm ServeurPreuves.tla
```

`PROJECT.json` lists every run with its module and configuration, the lines of
the source that each definition models, the mutants, the hazards and the
theorems.
