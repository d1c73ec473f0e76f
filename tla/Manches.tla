------------------------------ MODULE Manches ------------------------------
(***************************************************************************)
(* What the network game promises its players, without sockets, slots or   *)
(* messages: they gather, everybody who was let in confirms, one draw is   *)
(* made for all, everybody answers, one result is made of the answers, and *)
(* each stays or leaves before the next round.  Module Raffinement shows   *)
(* that the server and its clients implement this specification.           *)
(***************************************************************************)
EXTENDS Integers, FiniteSets, FiniteSetsExt

CONSTANTS
  Joueurs,     \* the players
  MaxJoueurs,  \* how many can be in the game
  Tirages,     \* the draws: a shape and an order
  Reponses,    \* the answers: [juste : BOOLEAN, temps : Int]
  Plafond      \* the best time that is announced when nobody was right in time

VARIABLES
  manche,    \* "salon", "jeu", "resultats" or "fin"
  tirage,    \* the draw of the round, Rien outside it
  resultat,  \* the result of the round, Rien before it
  admis,     \* the players the game counts with
  etape,     \* etape[j]: "dehors", "appelle" for a round, "attend", "joue",
             \* has "repondu", "choisit" or is "parti"
  vue        \* vue[j]: what player j sees or has answered, Rien otherwise

vars == <<manche, tirage, resultat, admis, etape, vue>>

Rien == [rien |-> TRUE]
Presents == {j \in admis : etape[j] # "parti"}
Tous(E) == \A j \in Presents : etape[j] \in E

Init ==
  /\ manche = "salon" /\ tirage = Rien /\ resultat = Rien
  /\ admis = {}
  /\ etape = [j \in Joueurs |-> "dehors"]
  /\ vue = [j \in Joueurs |-> Rien]

\* Player j goes from one step to the next and sees v.
Avancer(j, de, vers, v) ==
  /\ etape[j] = de
  /\ etape' = [etape EXCEPT ![j] = vers]
  /\ vue' = [vue EXCEPT ![j] = v]
  /\ UNCHANGED <<manche, tirage, resultat, admis>>

Arriver(j) == Avancer(j, "dehors", "appelle", Rien)
Confirmer(j) == Avancer(j, "appelle", "attend", Rien)
\* A player starts only in a round, and sees its draw.
Decouvrir(j) == manche = "jeu" /\ j \in admis /\ Avancer(j, "attend", "joue", tirage)
Repondre(j) == \E r \in Reponses : Avancer(j, "joue", "repondu", r)
\* A player is shown the result of the round it has played.
Apprendre(j) == manche = "resultats" /\ Avancer(j, "repondu", "choisit", resultat)
Rester(j) == Avancer(j, "choisit", "appelle", Rien)

\* Players are let in between two rounds only.
Admettre(j) ==
  /\ manche = "salon"
  /\ j \notin admis /\ Cardinality(admis) < MaxJoueurs
  /\ admis' = admis \cup {j}
  /\ UNCHANGED <<manche, tirage, resultat, etape, vue>>

\* The round starts when everybody who is there has confirmed.
Lancer ==
  /\ manche = "salon" /\ admis # {} /\ Tous({"attend"})
  /\ manche' = "jeu"
  /\ tirage' \in Tirages
  /\ UNCHANGED <<resultat, admis, etape, vue>>

\* The result that a set of answers gives.
Bilan(R) == [meilleur |-> Min({Plafond} \cup {r.temps : r \in {x \in R : x.juste}}),
             pire |-> Max({0} \cup {r.temps : r \in R})]

\* The result is made when everybody who is there has answered.  A player who
\* has left in the round counts with any answer or with none.
Publier ==
  /\ manche = "jeu" /\ Tous({"repondu"})
  /\ manche' = "resultats"
  /\ \E A \in SUBSET Reponses :
       /\ Cardinality(A) <= Cardinality(admis \ Presents)
       /\ resultat' = Bilan({vue[j] : j \in Presents} \cup A)
  /\ UNCHANGED <<tirage, admis, etape, vue>>

\* The next round is prepared when everybody who is there has chosen.
Reprendre ==
  /\ manche = "resultats" /\ admis # {} /\ Tous({"appelle", "attend"})
  /\ manche' = "salon" /\ tirage' = Rien /\ resultat' = Rien
  /\ UNCHANGED <<admis, etape, vue>>

\* Players leave or are cut, at any moment.
Partir(P) ==
  /\ etape' = [j \in Joueurs |-> IF j \in P THEN "parti" ELSE etape[j]]
  /\ vue' = [j \in Joueurs |-> IF j \in P THEN Rien ELSE vue[j]]

Quitter == (\E P \in SUBSET Joueurs : Partir(P)) /\ UNCHANGED <<manche, tirage, resultat, admis>>

\* The game stops counting with players who have left.
Oublier ==
  /\ admis' \in SUBSET admis
  /\ Presents \subseteq admis'
  /\ UNCHANGED <<manche, tirage, resultat, etape, vue>>

\* The game is over, for everybody; it never starts again.
Arreter ==
  /\ manche' = "fin" /\ tirage' = Rien /\ resultat' = Rien
  /\ \E P \in SUBSET Joueurs : Partir(P)
  /\ admis' \in SUBSET admis

Next ==
  \/ \E j \in Joueurs :
       \/ Arriver(j) \/ Confirmer(j) \/ Decouvrir(j) \/ Repondre(j)
       \/ Apprendre(j) \/ Rester(j) \/ Admettre(j)
  \/ Lancer \/ Publier \/ Reprendre \/ Quitter \/ Oublier \/ Arreter

Spec == Init /\ [][Next]_vars
=============================================================================
