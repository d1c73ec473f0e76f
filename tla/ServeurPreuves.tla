--------------------------- MODULE ServeurPreuves ---------------------------
(***************************************************************************)
(* Proofs about the server among arbitrary peers, for any number of        *)
(* clients, of slots, of descriptors and of shapes.                        *)
(***************************************************************************)
EXTENDS ServeurOuvert, SequenceTheorems, FiniteSetTheorems, TLAPS

(***************************************************************************)
(* What the kernel keeps: a descriptor for each open connection and for no *)
(* other, all different, and an accept queue without repetition of the     *)
(* connections that wait in it.                                            *)
(***************************************************************************)
Connexions ==
  /\ \A c \in Clients : descr[c] # 0 <=> lien[c] = "ouvert"
  /\ \A c, d \in Clients : lien[c] = "ouvert" /\ lien[d] = "ouvert" /\ descr[c] = descr[d] => c = d
  /\ \A n \in 1 .. Len(file) : lien[file[n]] = "file"
  /\ \A m, n \in 1 .. Len(file) : file[m] = file[n] => m = n

\* Nobody has been accepted before the first accept() of attendre_clients.
Debut == pcS \in {"demarrage", "premier"} => nbClients = 0

(***************************************************************************)
(* What the loop of envoyer_resultats knows after the slots F.             *)
(***************************************************************************)
BilanDe(F) ==
  /\ \A k \in F : temps[k] <= pire /\ (k \in justes => meilleur <= temps[k])
  /\ meilleur <= TempsMax
  /\ meilleur = TempsMax \/ \E k \in F : k \in justes /\ temps[k] = meilleur
  /\ pire = 0 \/ \E k \in F : temps[k] = pire

BilanInv ==
  /\ pcS = "bilan" => BilanDe(actifs \ aFaire)
  /\ pcS \in {"meilleur", "pire"} => BilanDe(actifs)

IInv ==
  /\ TypeServeur
  /\ Debut
  /\ Connexions
  /\ DescripteursSains
  /\ BilanInv

-----------------------------------------------------------------------------
(***************************************************************************)
(* The calls of the sockets keep the types of the sockets.                 *)
(***************************************************************************)
\* accept() (serveur.c:25, 63, 122) keeps the types, and takes a real client out of the queue.
LEMMA TypeAccepter ==
  ASSUME TypeSockets, NEW f \in Descripteurs, Accepter(f)
  PROVE  TypeSockets' /\ Head(file) \in Clients
<1>1. Head(file) \in Clients /\ Tail(file) \in Seq(Clients)
  BY HeadTailProperties DEF TypeSockets, Accepter
<1> QED BY <1>1 DEF TypeSockets, Accepter, Liens

\* Cutting any set of connections keeps the types: close() in all its uses.
LEMMA TypeCouper ==
  ASSUME TypeSockets, NEW C, NEW R, Couper(C, R), file' \in Seq(Clients), ecoute' \in BOOLEAN
  PROVE  TypeSockets'
<1>1. lien' \in [Clients -> Liens] /\ descr' \in [Clients -> Descripteurs \cup {0}]
  BY DEF TypeSockets, Couper, Liens
<1>2. versServeur' \in [Clients -> Seq(Unites)]
  <2>1. <<>> \in Seq(Unites)
    OBVIOUS
  <2> QED BY <2>1 DEF TypeSockets, Couper
<1>3. rstClient' \in [Clients -> Resets]
  BY DEF TypeSockets, Couper, Resets
<1>4. finClient' = finClient /\ rstServeur' = rstServeur
  BY DEF Couper
<1> QED BY <1>1, <1>2, <1>3, <1>4 DEF TypeSockets

\* close(clients[k]) keeps the types (serveur.c:147, 252, 263, 347, 354).
LEMMA TypeFermer ==
  ASSUME TypeSockets, NEW c \in Clients, FermerServeur(c) \/ LireEtFermer(c)
  PROVE  TypeSockets'
<1>1. file' = file /\ ecoute' = ecoute /\ \E R : Couper({c}, R)
  BY DEF FermerServeur, LireEtFermer
<1>2. file' \in Seq(Clients) /\ ecoute' \in BOOLEAN
  BY <1>1, Zenon DEF TypeSockets
<1> QED BY <1>1, <1>2, TypeCouper

\* accept() followed by close(), when there is no slot left (serveur.c:134).
LEMMA TypeRefuser ==
  ASSUME TypeSockets, Refuser
  PROVE  TypeSockets' /\ Head(file) \in Clients
<1>1. Head(file) \in Clients /\ Tail(file) \in Seq(Clients)
  BY HeadTailProperties DEF TypeSockets, Refuser
<1>2. file' \in Seq(Clients) /\ ecoute' \in BOOLEAN
  BY <1>1, Zenon DEF TypeSockets, Refuser
<1>3. Couper({Head(file)}, NonLus({Head(file)}, 0))
  BY DEF Refuser
<1> QED BY <1>1, <1>2, <1>3, TypeCouper

\* The loop of close() at the end of main() (serveur.c:443-451).
LEMMA TypeToutFermer ==
  ASSUME TypeSockets, ToutFermer
  PROVE  TypeSockets'
<1>0. file' = <<>> /\ ecoute' = FALSE
  BY Zenon DEF ToutFermer
<1>1. file' \in Seq(Clients) /\ ecoute' \in BOOLEAN
  <2>1. <<>> \in Seq(Clients)
    OBVIOUS
  <2> QED BY <1>0, <2>1, Zenon
<1>2. \E C, R : Couper(C, R)
  BY Zenon DEF ToutFermer
<1> QED BY <1>1, <1>2, TypeCouper

\* send() to a client keeps the types (jeu.c:20).
LEMMA TypeEnvoi ==
  ASSUME TypeSockets, NEW c \in Clients, NEW m, ServeurEnvoie(c, m)
  PROVE  TypeSockets'
BY DEF TypeSockets, ServeurEnvoie, Resets

\* recv() from a client keeps the types and yields an integer (jeu.c:24).
LEMMA TypeLecture ==
  ASSUME TypeSockets, NEW c \in Clients, ServeurLit(c)
  PROVE  TypeSockets' /\ Head(versServeur[c]).val \in Int
<1>1. versServeur[c] \in Seq(Unites) /\ versServeur[c] # <<>>
  BY DEF TypeSockets, ServeurLit
<1>2. Head(versServeur[c]) \in Unites /\ Tail(versServeur[c]) \in Seq(Unites)
  BY <1>1, HeadTailProperties
<1>3. Head(versServeur[c]).val \in Int
  BY <1>2 DEF Unites
<1> QED BY <1>2, <1>3 DEF TypeSockets, ServeurLit

\* Whatever the other end of a connection does keeps the types.
LEMMA TypePair ==
  ASSUME TypeSockets, NEW c \in Clients,
         \/ ClientConnecte(c) \/ (\E m \in Unites : ClientEnvoie(c, m))
         \/ ClientLit(c) \/ ClientFerme(c) \/ ArriveeRst(c)
  PROVE  TypeSockets'
<1>1. CASE ClientConnecte(c)
  <2>1. file' \in Seq(Clients)
    BY <1>1, AppendProperties DEF ClientConnecte, TypeSockets
  <2> QED BY <1>1, <2>1 DEF ClientConnecte, TypeSockets, Liens
<1>2. CASE \E m \in Unites : ClientEnvoie(c, m)
  <2>1. PICK m \in Unites : ClientEnvoie(c, m)
    BY <1>2
  <2>2. Append(versServeur[c], m) \in Seq(Unites)
    BY AppendProperties DEF TypeSockets
  <2> QED BY <2>1, <2>2 DEF ClientEnvoie, TypeSockets, Resets
<1>3. CASE ClientLit(c)
  BY <1>3 DEF ClientLit, TypeSockets
<1>4. CASE ClientFerme(c)
  BY <1>4 DEF ClientFerme, TypeSockets, Resets
<1>5. CASE ArriveeRst(c)
  BY <1>5 DEF ArriveeRst, TypeSockets, Resets
<1> QED BY <1>1, <1>2, <1>3, <1>4, <1>5

-----------------------------------------------------------------------------
(***************************************************************************)
(* What a step of the server does to the table of clients and to the       *)
(* connections is one of five things.                                      *)
(***************************************************************************)
Calme ==
  /\ UNCHANGED <<file, lien, descr, nbClients, clients, actifs>>
  /\ aFaire' \subseteq actifs
Accueil == \E f \in Descripteurs : Accepter(f) /\ AjouterClient(f) /\ aFaire' \subseteq actifs
Perte ==
  \E k \in actifs, c \in Clients :
    /\ Titulaire(k, c)
    /\ \E R : Couper({c}, R)
    /\ actifs' = actifs \ {k}
    /\ aFaire' \subseteq actifs \ {k}
    /\ UNCHANGED <<file, nbClients, clients>>
Refus == Refuser /\ UNCHANGED <<nbClients, clients, actifs>> /\ aFaire' \subseteq actifs
Fin == ToutFermer /\ ServeurFini'

Sain == TypeServeur /\ Connexions /\ SalonSain

\* A step that moves no connection keeps table and connections in correspondence.
LEMMA CalmeSain ==
  ASSUME Sain, Calme
  PROVE  Connexions' /\ SalonSain'
<1>1. Connexions'
  BY DEF Sain, Calme, Connexions
<1>2. SalonSain'
  BY DEF Sain, Calme, SalonSain, Titulaire
<1> QED BY <1>1, <1>2

\* So does an accept() that fills a slot, even with a descriptor number used before.
LEMMA AccueilSain ==
  ASSUME Sain, Accueil, nbClients < MAX_CLIENTS
  PROVE  Connexions' /\ SalonSain'
<1> USE SocketsAssumption
<1>1. PICK f \in Descripteurs : Accepter(f) /\ AjouterClient(f) /\ aFaire' \subseteq actifs
  BY DEF Accueil
<1> DEFINE h == Head(file)
<1>2. h \in Clients /\ TypeSockets
  BY <1>1, TypeAccepter DEF Sain, TypeServeur
<1>3. /\ file \in Seq(Clients) /\ file # <<>> /\ file' = Tail(file)
      /\ lien' = [lien EXCEPT ![h] = "ouvert"]
      /\ descr' = [descr EXCEPT ![h] = f]
      /\ \A c \in Clients : descr[c] # f
  BY <1>1, <1>2 DEF Accepter, PlusPetitLibre, TypeSockets
<1>4. /\ Len(file') = Len(file) - 1 /\ Len(file) \in Nat \ {0}
      /\ \A n \in 1 .. Len(file') : n + 1 \in 1 .. Len(file) /\ file'[n] = file[n + 1]
      /\ h = file[1]
  BY <1>3
<1>5. lien[h] = "file" /\ \A n \in 1 .. Len(file') : file'[n] # h /\ file'[n] \in Clients
  <2>1. lien[h] = "file"
    BY <1>4 DEF Sain, Connexions
  <2>2. ASSUME NEW n \in 1 .. Len(file') PROVE file'[n] # h /\ file'[n] \in Clients
    <3>1. file[n + 1] = file[1] => n + 1 = 1
      BY <1>4 DEF Sain, Connexions
    <3>2. file[n + 1] \in Clients
      BY <1>3, <1>4
    <3> QED BY <1>4, <3>1, <3>2
  <2> QED BY <2>1, <2>2
<1>6. \A c \in Clients : lien'[c] = (IF c = h THEN "ouvert" ELSE lien[c])
                        /\ descr'[c] = (IF c = h THEN f ELSE descr[c])
  BY <1>2, <1>3 DEF TypeSockets
<1> HIDE DEF h
<1>7. Connexions'
  <2>1. \A c \in Clients : descr'[c] # 0 <=> lien'[c] = "ouvert"
    BY <1>6 DEF Sain, Connexions
  <2>2. \A c, d \in Clients : lien'[c] = "ouvert" /\ lien'[d] = "ouvert"
                             /\ descr'[c] = descr'[d] => c = d
    BY <1>3, <1>6 DEF Sain, Connexions
  <2>3. \A n \in 1 .. Len(file') : lien'[file'[n]] = "file"
    BY <1>4, <1>5, <1>6 DEF Sain, Connexions
  <2>4. \A m, n \in 1 .. Len(file') : file'[m] = file'[n] => m = n
    BY <1>4 DEF Sain, Connexions
  <2> QED BY <2>1, <2>2, <2>3, <2>4 DEF Connexions
<1>8. /\ nbClients \in Slots /\ nbClients \notin actifs
      /\ actifs \subseteq Slots
      /\ actifs' = actifs \cup {nbClients}
      /\ \A k \in Slots : clients'[k] = (IF k = nbClients THEN f ELSE clients[k])
  BY <1>1 DEF Sain, TypeServeur, TypeSalon, Slots, AjouterClient
<1>9. SalonSain'
  <2>1. aFaire' \subseteq actifs'
    BY <1>1, <1>8
  <2>2. \A k \in actifs : \E c \in Clients : lien[c] = "ouvert" /\ descr[c] = clients[k]
    BY DEF Sain, SalonSain, Titulaire
  <2>3. \A k \in actifs' : \E c \in Clients : lien'[c] = "ouvert" /\ descr'[c] = clients'[k]
    BY <1>2, <1>5, <1>6, <1>8, <2>2
  <2>4. \A k, l \in actifs' : clients'[k] = clients'[l] => k = l
    BY <1>3, <1>8, <2>2 DEF Sain, SalonSain
  <2>5. ASSUME NEW c \in Clients, lien'[c] = "ouvert"
        PROVE  \E k \in actifs' : lien'[c] = "ouvert" /\ descr'[c] = clients'[k]
    <3>1. CASE c = h
      BY <1>6, <1>8, <3>1
    <3>2. CASE c # h
      <4>1. PICK k \in actifs : descr[c] = clients[k]
        BY <1>6, <2>5, <3>2 DEF Sain, SalonSain, Titulaire
      <4> QED BY <1>6, <1>8, <2>5, <3>2, <4>1
    <3> QED BY <3>1, <3>2
  <2> QED BY <2>1, <2>3, <2>4, <2>5 DEF SalonSain, Titulaire
<1> QED BY <1>7, <1>9

\* So does the loss of a client: its flag and its connection go together.
LEMMA PerteSain ==
  ASSUME Sain, Perte
  PROVE  Connexions' /\ SalonSain'
<1>1. PICK k \in actifs, c \in Clients :
        /\ Titulaire(k, c)
        /\ \E R : Couper({c}, R)
        /\ actifs' = actifs \ {k}
        /\ aFaire' \subseteq actifs \ {k}
        /\ UNCHANGED <<file, nbClients, clients>>
  BY DEF Perte
<1>2. \A d \in Clients : lien'[d] = (IF d = c THEN "ferme" ELSE lien[d])
                        /\ descr'[d] = (IF d = c THEN 0 ELSE descr[d])
  BY <1>1 DEF Couper
<1>3. lien[c] = "ouvert" /\ descr[c] = clients[k]
  BY <1>1 DEF Titulaire
<1>4. \A n \in 1 .. Len(file) : file[n] \in Clients /\ file[n] # c
  BY <1>3 DEF Sain, Connexions, TypeServeur, TypeSockets
<1>5. Connexions'
  <2>1. \A d \in Clients : descr'[d] # 0 <=> lien'[d] = "ouvert"
    BY <1>2 DEF Sain, Connexions
  <2>2. \A d, e \in Clients : lien'[d] = "ouvert" /\ lien'[e] = "ouvert"
                             /\ descr'[d] = descr'[e] => d = e
    BY <1>2 DEF Sain, Connexions
  <2>3. \A n \in 1 .. Len(file') : lien'[file'[n]] = "file"
    BY <1>1, <1>2, <1>4 DEF Sain, Connexions
  <2>4. \A m, n \in 1 .. Len(file') : file'[m] = file'[n] => m = n
    BY <1>1 DEF Sain, Connexions
  <2> QED BY <2>1, <2>2, <2>3, <2>4 DEF Connexions
<1>6. SalonSain'
  <2>1. \A l \in actifs' : \E d \in Clients : Titulaire(l, d)'
    <3> SUFFICES ASSUME NEW l \in actifs, l # k
                 PROVE  \E d \in Clients : lien'[d] = "ouvert" /\ descr'[d] = clients'[l]
      BY <1>1 DEF Titulaire
    <3>1. PICK d \in Clients : lien[d] = "ouvert" /\ descr[d] = clients[l]
      BY DEF Sain, SalonSain, Titulaire
    <3>2. d # c
      BY <1>3, <3>1 DEF Sain, SalonSain
    <3> QED BY <1>1, <1>2, <3>1, <3>2
  <2>2. \A l, n \in actifs' : clients'[l] = clients'[n] => l = n
    BY <1>1 DEF Sain, SalonSain
  <2>3. ASSUME NEW d \in Clients, lien'[d] = "ouvert"
        PROVE  \E l \in actifs' : Titulaire(l, d)'
    <3>1. d # c /\ lien[d] = "ouvert" /\ descr'[d] = descr[d]
      BY <1>2, <2>3
    <3>2. PICK l \in actifs : descr[d] = clients[l]
      BY <3>1 DEF Sain, SalonSain, Titulaire
    <3>3. l # k
      BY <1>3, <3>1, <3>2 DEF Sain, Connexions
    <3> QED BY <1>1, <2>3, <3>1, <3>2, <3>3 DEF Titulaire
  <2> QED BY <1>1, <2>1, <2>2, <2>3 DEF SalonSain
<1> QED BY <1>5, <1>6

\* So does a refusal: the refused connection never had a slot.
LEMMA RefusSain ==
  ASSUME Sain, Refus
  PROVE  Connexions' /\ SalonSain'
<1> DEFINE h == Head(file)
<1>1. h \in Clients /\ file \in Seq(Clients) /\ file # <<>> /\ file' = Tail(file)
  BY TypeRefuser DEF Sain, Refus, Refuser, TypeServeur, TypeSockets
<1>2. /\ Len(file') = Len(file) - 1 /\ Len(file) \in Nat \ {0}
      /\ \A n \in 1 .. Len(file') : n + 1 \in 1 .. Len(file) /\ file'[n] = file[n + 1]
      /\ h = file[1]
  BY <1>1
<1>3. lien[h] = "file" /\ \A n \in 1 .. Len(file') : file'[n] # h /\ file'[n] \in Clients
  <2>1. lien[h] = "file"
    BY <1>2 DEF Sain, Connexions
  <2>2. ASSUME NEW n \in 1 .. Len(file') PROVE file'[n] # h /\ file'[n] \in Clients
    <3>1. file[n + 1] = file[1] => n + 1 = 1
      BY <1>2 DEF Sain, Connexions
    <3>2. file[n + 1] \in Clients
      BY <1>1, <1>2
    <3> QED BY <1>2, <3>1, <3>2
  <2> QED BY <2>1, <2>2
<1>4. \A d \in Clients : lien'[d] = (IF d = h THEN "ferme" ELSE lien[d])
                        /\ descr'[d] = (IF d = h THEN 0 ELSE descr[d])
  BY DEF Refus, Refuser, Couper
<1> HIDE DEF h
<1>5. Connexions'
  <2>1. \A d \in Clients : descr'[d] # 0 <=> lien'[d] = "ouvert"
    BY <1>4 DEF Sain, Connexions
  <2>2. \A d, e \in Clients : lien'[d] = "ouvert" /\ lien'[e] = "ouvert"
                             /\ descr'[d] = descr'[e] => d = e
    BY <1>4 DEF Sain, Connexions
  <2>3. \A n \in 1 .. Len(file') : lien'[file'[n]] = "file"
    BY <1>2, <1>3, <1>4 DEF Sain, Connexions
  <2>4. \A m, n \in 1 .. Len(file') : file'[m] = file'[n] => m = n
    BY <1>2 DEF Sain, Connexions
  <2> QED BY <2>1, <2>2, <2>3, <2>4 DEF Connexions
<1>6. \A k \in Slots, d \in Clients : Titulaire(k, d)' <=> Titulaire(k, d)
  BY <1>3, <1>4 DEF Refus, Titulaire
<1>7. actifs' = actifs /\ aFaire' \subseteq actifs /\ clients' = clients /\ actifs \subseteq Slots
  BY SocketsAssumption DEF Refus, Sain, TypeServeur, TypeSalon, Slots
<1>8. \A d \in Clients : lien'[d] = "ouvert" => lien[d] = "ouvert"
  BY <1>4
<1>9. SalonSain'
  BY <1>6, <1>7, <1>8 DEF Sain, SalonSain
<1> QED BY <1>5, <1>9

\* The end of the server leaves no connection open and no queue.
LEMMA FinSain ==
  ASSUME TypeServeur, Connexions, ToutFermer
  PROVE  Connexions'
<1>1. file' = <<>>
  BY Zenon DEF ToutFermer
<1>2. \A c \in Clients : lien'[c] # "ouvert" /\ (descr'[c] = 0 \/ (descr'[c] = descr[c] /\ lien[c] # "ouvert"))
  <2> DEFINE C == {c \in Clients : lien[c] \in {"file", "ouvert"}}
  <2>1. PICK R : Couper(C, R)
    BY Zenon DEF ToutFermer
  <2>2. \A c \in Clients : c \notin C => lien[c] # "ouvert"
    OBVIOUS
  <2> HIDE DEF C
  <2>3. \A c \in Clients : lien'[c] = (IF c \in C THEN "ferme" ELSE lien[c])
                          /\ descr'[c] = (IF c \in C THEN 0 ELSE descr[c])
    BY <2>1 DEF Couper
  <2> QED BY <2>2, <2>3
<1>3. \A c \in Clients : descr'[c] = 0
  BY <1>2 DEF Connexions
<1> QED BY <1>1, <1>2, <1>3 DEF Connexions

(* A peer never touches the table of clients: it can only enter the accept *)
(* queue.                                                                  *)
LEMMA PairSain ==
  ASSUME TypeServeur, Connexions, DescripteursSains, NEW c \in Clients,
         \/ ClientConnecte(c) \/ (\E m : ClientEnvoie(c, m))
         \/ ClientLit(c) \/ ClientFerme(c) \/ ArriveeRst(c),
         UNCHANGED serveurVars
  PROVE  Connexions' /\ DescripteursSains'
<1>1. CASE ClientConnecte(c)
  <2>1. /\ lien[c] = "libre" /\ file' = Append(file, c) /\ file \in Seq(Clients)
        /\ descr' = descr
        /\ \A d \in Clients : lien'[d] = IF d = c THEN "file" ELSE lien[d]
    BY <1>1 DEF ClientConnecte, TypeServeur, TypeSockets
  <2>2. /\ Len(file') = Len(file) + 1 /\ Len(file) \in Nat
        /\ \A n \in 1 .. Len(file) : file'[n] = file[n] /\ file[n] \in Clients
        /\ file'[Len(file) + 1] = c
    BY <2>1
  <2>3. \A n \in 1 .. Len(file) : file[n] # c
    BY <2>1 DEF Connexions
  <2>4. Connexions'
    <3>1. \A n \in 1 .. Len(file') : lien'[file'[n]] = "file"
      BY <2>1, <2>2, <2>3 DEF Connexions
    <3>2. \A m, n \in 1 .. Len(file') : file'[m] = file'[n] => m = n
      BY <2>2, <2>3 DEF Connexions
    <3> QED BY <2>1, <3>1, <3>2 DEF Connexions
  <2>5. DescripteursSains'
    BY <2>1 DEF DescripteursSains, SalonSain, Titulaire, ServeurFini, serveurVars
  <2> QED BY <2>4, <2>5
<1>2. CASE UNCHANGED <<file, lien, descr>>
  BY <1>2 DEF Connexions, DescripteursSains, SalonSain, Titulaire, ServeurFini, serveurVars
<1>3. (\E m : ClientEnvoie(c, m)) \/ ClientLit(c) \/ ClientFerme(c) \/ ArriveeRst(c)
         => UNCHANGED <<file, lien, descr>>
  BY DEF ClientEnvoie, ClientLit, ClientFerme, ArriveeRst
<1> QED BY <1>1, <1>2, <1>3

-----------------------------------------------------------------------------
(***************************************************************************)
(* Every action of the server is one of the five kinds of step.            *)
(***************************************************************************)
\* Each send() or recv() of a loop moves nothing or loses the client of its turn.
LEMMA ClasseEchange ==
  ASSUME Sain, NEW k \in Slots, NEW c \in Clients, EchangeAvec(k, c)
  PROVE  Calme \/ Perte
<1> USE DEF Sain, SalonSain
<1>1. ASSUME Tour(k, c) PROVE k \in actifs /\ Titulaire(k, c) /\ aFaire \subseteq actifs
  BY <1>1 DEF Tour
<1>2. ASSUME ServeurLit(c) PROVE UNCHANGED <<file, lien, descr>>
  BY <1>2 DEF ServeurLit
<1>3. ASSUME NEW m, ServeurEnvoie(c, m) PROVE UNCHANGED <<file, lien, descr>>
  BY <1>3 DEF ServeurEnvoie
<1>4. ASSUME Tour(k, c), Deconnecter(k, c), aFaire' = aFaire \ {k} PROVE Perte
  <2>1. file' = file /\ \E R : Couper({c}, R)
    BY <1>4 DEF Deconnecter, FermerServeur
  <2> QED BY <1>1, <1>4, <2>1 DEF Perte, Deconnecter
<1>5. ASSUME Tour(k, c), Depart(k, c), aFaire' = aFaire \ {k} PROVE Perte
  <2>1. file' = file /\ \E R : Couper({c}, R)
    BY <1>5 DEF Depart, LireEtFermer
  <2> QED BY <1>1, <1>5, <2>1 DEF Perte, Depart
<1>6. CASE LirePret(k, c)
  BY <1>1, <1>2, <1>4, <1>6 DEF LirePret, Calme, salonVars
<1>7. CASE EnvoyerSignal(k, c)
  BY <1>1, <1>3, <1>7 DEF EnvoyerSignal, Calme, salonVars
<1>8. CASE EnvoyerForme(k, c)
  BY <1>1, <1>3, <1>8 DEF EnvoyerForme, Calme, salonVars
<1>9. CASE EnvoyerIndices(k, c)
  BY <1>1, <1>3, <1>9 DEF EnvoyerIndices, Calme, salonVars
<1>10. CASE RecevoirJuste(k, c)
  BY <1>1, <1>2, <1>4, <1>10 DEF RecevoirJuste, PerteReponse, Calme, salonVars
<1>11. CASE RecevoirTemps(k, c)
  BY <1>1, <1>2, <1>4, <1>11 DEF RecevoirTemps, Calme, salonVars
<1>12. CASE EnvoyerMeilleur(k, c)
  BY <1>1, <1>3, <1>12 DEF EnvoyerMeilleur, Calme, salonVars
<1>13. CASE EnvoyerPire(k, c)
  BY <1>1, <1>3, <1>13 DEF EnvoyerPire, Calme, salonVars
<1>14. CASE RecevoirChoix(k, c)
  BY <1>1, <1>2, <1>4, <1>5, <1>14 DEF RecevoirChoix, Calme, salonVars
<1> QED BY <1>6, <1>7, <1>8, <1>9, <1>10, <1>11, <1>12, <1>13, <1>14 DEF EchangeAvec

\* Although select() filled read_fds before the accept(), the loop only reads slots
\* that were active then, and each has a connection on which recv() returns at once:
\* a descriptor of read_fds is open, so accept() cannot return it (serveur.c:104-142).
LEMMA LuDejaActif ==
  ASSUME Sain, Select
  PROVE  /\ aFaire' \subseteq actifs /\ aFaire' \cap prets = {}
         /\ \A k \in aFaire' : /\ clients'[k] = clients[k]
                              /\ \E c \in Clients : Titulaire(k, c) /\ Lisible(c)
<1>1. \A f \in Signales : \E c \in Clients : lien[c] = "ouvert" /\ descr[c] = f /\ Lisible(c)
  BY DEF Signales, Titulaire
<1>2. CASE UNCHANGED <<salonVars, prets>>
  <2>1. aFaire' \subseteq actifs /\ aFaire' \cap prets = {}
        /\ \A k \in aFaire' : clients'[k] = clients[k] /\ clients[k] \in Signales
    BY <1>2 DEF Select, ALire, salonVars
  <2> QED BY <1>1, <2>1 DEF Titulaire
<1>3. CASE \E f \in Descripteurs : /\ Accepter(f) /\ AjouterClient(f)
                                  /\ nbClients < MAX_CLIENTS /\ prets' = prets \ {nbClients}
  <2>1. PICK f \in Descripteurs : /\ Accepter(f) /\ AjouterClient(f)
                                 /\ nbClients < MAX_CLIENTS /\ prets' = prets \ {nbClients}
    BY <1>3
  <2>2. /\ nbClients \in Slots /\ nbClients \notin actifs
        /\ actifs' = actifs \cup {nbClients}
        /\ \A k \in Slots : clients'[k] = (IF k = nbClients THEN f ELSE clients[k])
    BY <2>1, SocketsAssumption DEF Sain, TypeServeur, TypeSalon, Slots, AjouterClient
  <2>3. f \notin Signales
    BY <1>1, <2>1 DEF Accepter, PlusPetitLibre
  <2>4. \A k \in aFaire' : k \in Slots /\ k \in actifs' /\ k \notin prets' /\ clients'[k] \in Signales
    BY DEF Select, ALire
  <2>5. ASSUME NEW k \in aFaire'
        PROVE  k \in actifs /\ k \notin prets /\ clients'[k] = clients[k] /\ clients[k] \in Signales
    BY <2>1, <2>2, <2>3, <2>4
  <2> QED BY <1>1, <2>5 DEF Titulaire
<1> QED BY <1>2, <1>3 DEF Select, ResteUnePlace

\* Every action of the server is one of the five.
LEMMA ClasseServeur ==
  ASSUME Sain, Debut, NextServeur
  PROVE  Calme \/ (Accueil /\ nbClients < MAX_CLIENTS) \/ Perte \/ Refus \/ Fin
<1> USE DEF Sain, SalonSain
<1>1. CASE AccepterPremier
  BY <1>1, SocketsAssumption DEF AccepterPremier, Accueil, Debut
<1>2. CASE AccepterAutre
  BY <1>2 DEF AccepterAutre, Accueil
<1>3. CASE FinDelai
  BY <1>3 DEF FinDelai, DebutAttente, Calme, sockVars, salonVars
<1>4. CASE Select
  <2>1. aFaire' \subseteq actifs
    BY <1>4, LuDejaActif
  <2>2. CASE UNCHANGED <<sockVars, salonVars, prets>>
    BY <2>1, <2>2 DEF Calme, sockVars, salonVars
  <2>3. CASE ResteUnePlace /\ \E f \in Descripteurs : Accepter(f) /\ AjouterClient(f)
    BY <2>1, <2>3 DEF Accueil, ResteUnePlace
  <2>4. CASE Refuser /\ UNCHANGED <<salonVars, prets>>
    BY <2>1, <2>4 DEF Refus, salonVars
  <2> QED BY <1>4, <2>2, <2>3, <2>4 DEF Select
<1>5. CASE FinTour \/ FinSignal \/ FinGrille \/ FinTemps \/ FinBilan \/ FinResultats
  BY <1>5 DEF FinTour, FinSignal, FinGrille, FinTemps, FinBilan, FinResultats,
              Calme, sockVars, salonVars
<1>6. CASE FinChoix
  BY <1>6 DEF FinChoix, DebutAttente, Calme, sockVars, salonVars
<1>7. CASE Fermeture
  BY <1>7 DEF Fermeture, Fin, ServeurFini
<1>8. CASE \E k \in Slots : Bilan(k)
  BY <1>8 DEF Bilan, Calme, sockVars, salonVars
<1>9. CASE \E k \in Slots, c \in Clients : EchangeAvec(k, c)
  BY <1>9, ClasseEchange
<1>10. CASE Demarrer
  BY <1>10 DEF Demarrer, Calme, salonVars
<1>11. CASE SelectErreur
  BY <1>11 DEF SelectErreur, Calme, sockVars, salonVars
<1>12. CASE TueParSigpipe
  BY <1>12 DEF TueParSigpipe, Fin, ServeurFini
<1> QED BY <1>1, <1>2, <1>3, <1>4, <1>5, <1>6, <1>7, <1>8, <1>9, <1>10, <1>11, <1>12
        DEF NextServeur, PasServeur

-----------------------------------------------------------------------------
(***************************************************************************)
(* Every action of the server keeps the types.                             *)
(***************************************************************************)
\* A step that touches no socket keeps their types.
LEMMA TypeStable == TypeSockets /\ UNCHANGED sockVars => TypeSockets'
BY DEF TypeSockets, sockVars

\* The initial values of the variables of a round have their types.
LEMMA TypeVierges ==
  /\ Vierges.forme \in Formes
  /\ Vierges.indices \in [Formes -> Formes]
  /\ Vierges.temps \in [Slots -> Int]
<1>1. 0 \in Formes /\ TempsMax \in Int
  BY NbFormesAssumption DEF Formes, TempsMax
<1> QED BY <1>1 DEF Vierges

\* The entry of attendre_pression_touch keeps the types (serveur.c:79-81).
LEMMA TypeDebutAttente ==
  ASSUME DebutAttente, UNCHANGED salonVars, TypeSalon
  PROVE  pcS' \in EtatsServeur /\ TypeSalon' /\ TypeManche'
<1>1. TypeManche'
  BY TypeVierges DEF DebutAttente, TypeManche, TempsMax
<1> QED BY <1>1 DEF DebutAttente, PretsInitiaux, TypeSalon, EtatsServeur, salonVars

\* clients[nb_clients++] stays inside the array when nb_clients < MAX_CLIENTS.
LEMMA TypeAjouter ==
  ASSUME TypeSalon, NEW f \in Descripteurs, AjouterClient(f), nbClients < MAX_CLIENTS,
         prets' \subseteq Slots, aFaire' \subseteq Slots
  PROVE  TypeSalon'
BY SocketsAssumption DEF TypeSalon, AjouterClient, Slots

\* The loops over the clients keep the types.
LEMMA TypeEchange ==
  ASSUME TypeServeur, NEW k \in Slots, NEW c \in Clients, EchangeAvec(k, c)
  PROVE  TypeServeur'
<1> USE DEF TypeServeur
<1>1. CASE LirePret(k, c)
  <2>1. TypeSockets'
    BY <1>1, TypeFermer, TypeLecture DEF LirePret, Deconnecter
  <2>2. TypeSalon'
    BY <1>1 DEF LirePret, Deconnecter, TypeSalon, salonVars
  <2> QED BY <1>1, <2>1, <2>2 DEF LirePret, TypeManche, mancheVars
<1>2. CASE EnvoyerSignal(k, c) \/ EnvoyerForme(k, c) \/ EnvoyerIndices(k, c)
           \/ EnvoyerMeilleur(k, c) \/ EnvoyerPire(k, c)
  <2> USE DEF EnvoyerSignal, EnvoyerForme, EnvoyerIndices, EnvoyerMeilleur, EnvoyerPire
  <2>1. TypeSockets'
    BY <1>2, TypeEnvoi
  <2>2. TypeSalon'
    BY <1>2 DEF TypeSalon, salonVars
  <2>3. TypeManche'
    BY <1>2 DEF TypeManche, mancheVars
  <2>4. pcS' \in EtatsServeur
    BY <1>2 DEF EtatsServeur, EtatsEnvoi
  <2> QED BY <2>1, <2>2, <2>3, <2>4
<1>3. CASE RecevoirJuste(k, c)
  <2>1. TypeSockets'
    BY <1>3, TypeFermer, TypeLecture DEF RecevoirJuste, PerteReponse, Deconnecter
  <2>2. TypeSalon'
    BY <1>3 DEF RecevoirJuste, PerteReponse, Deconnecter, TypeSalon, salonVars
  <2>3. TypeManche'
    BY <1>3 DEF RecevoirJuste, TypeManche
  <2>4. pcS' \in EtatsServeur
    BY <1>3 DEF RecevoirJuste, EtatsServeur
  <2> QED BY <2>1, <2>2, <2>3, <2>4
<1>4. CASE RecevoirTemps(k, c)
  <2>1. TypeSockets'
    BY <1>4, TypeFermer, TypeLecture DEF RecevoirTemps, Deconnecter
  <2>2. TypeSalon'
    BY <1>4 DEF RecevoirTemps, Deconnecter, TypeSalon, salonVars
  <2>3. ServeurLit(c) => Head(versServeur[c]).val \in Int
    BY TypeLecture
  <2>4. TypeManche'
    BY <1>4, <2>3 DEF RecevoirTemps, TypeManche, TempsMax
  <2>5. pcS' \in EtatsServeur
    BY <1>4 DEF RecevoirTemps, EtatsServeur
  <2> QED BY <2>1, <2>2, <2>4, <2>5
<1>5. CASE RecevoirChoix(k, c)
  <2>1. TypeSockets'
    BY <1>5, TypeFermer, TypeLecture DEF RecevoirChoix, Deconnecter, Depart
  <2>2. TypeSalon'
    BY <1>5 DEF RecevoirChoix, Deconnecter, Depart, TypeSalon, salonVars
  <2>3. TypeManche' /\ pcS' \in EtatsServeur
    BY <1>5 DEF RecevoirChoix, TypeManche
  <2> QED BY <2>1, <2>2, <2>3
<1> QED BY <1>1, <1>2, <1>3, <1>4, <1>5 DEF EchangeAvec

\* Every action of the server keeps the types.
LEMMA TypeEtape ==
  ASSUME TypeServeur, Debut, NextServeur
  PROVE  TypeServeur'
<1> USE DEF TypeServeur
<1>0. actifs \subseteq Slots
  BY SocketsAssumption DEF TypeSalon, Slots
<1>1. CASE AccepterPremier \/ AccepterAutre
  <2>1. PICK f \in Descripteurs : Accepter(f) /\ AjouterClient(f)
    BY <1>1 DEF AccepterPremier, AccepterAutre
  <2>2. nbClients < MAX_CLIENTS
    BY <1>1, SocketsAssumption DEF AccepterPremier, AccepterAutre, Debut
  <2>3. TypeSockets'
    BY <2>1, TypeAccepter
  <2>4. prets' \subseteq Slots /\ aFaire' \subseteq Slots
    BY <1>1 DEF AccepterPremier, AccepterAutre, TypeSalon
  <2>5. TypeSalon'
    BY <2>1, <2>2, <2>4, TypeAjouter
  <2>6. TypeManche'
    BY <1>1 DEF AccepterPremier, AccepterAutre, TypeManche, mancheVars
  <2>7. pcS' \in EtatsServeur
    BY <1>1 DEF AccepterPremier, AccepterAutre, EtatsServeur
  <2> QED BY <2>3, <2>5, <2>6, <2>7
<1>2. CASE FinDelai
  BY <1>2, TypeStable, TypeDebutAttente DEF FinDelai
<1>3. CASE Select
  <2>1. aFaire' \subseteq Slots
    BY <1>3 DEF Select, ALire
  <2>2. prets' \subseteq Slots
    BY <1>3 DEF Select, TypeSalon
  <2>3. TypeSockets'
    BY <1>3, TypeStable, TypeAccepter, TypeRefuser DEF Select
  <2>4. TypeSalon'
    <3>1. CASE UNCHANGED salonVars
      BY <2>1, <2>2, <3>1 DEF TypeSalon, salonVars
    <3>2. CASE ResteUnePlace /\ \E f \in Descripteurs : AjouterClient(f)
      BY <2>1, <2>2, <3>2, TypeAjouter DEF ResteUnePlace
    <3> QED BY <1>3, <3>1, <3>2 DEF Select
  <2>5. TypeManche'
    BY <1>3 DEF Select, TypeManche, mancheVars
  <2>6. pcS' \in EtatsServeur
    BY <1>3 DEF Select, EtatsServeur
  <2> QED BY <2>3, <2>4, <2>5, <2>6
<1>4. CASE FinTour \/ FinBilan \/ SelectErreur
  <2> USE DEF FinTour, FinBilan, SelectErreur
  <2>1. TypeSockets'
    BY <1>4, TypeStable
  <2>2. TypeSalon'
    BY <1>0, <1>4 DEF TypeSalon, salonVars
  <2>3. TypeManche'
    BY <1>4 DEF TypeManche, mancheVars
  <2>4. pcS' \in EtatsServeur
    BY <1>4 DEF EtatsServeur, EtatsEnvoi
  <2> QED BY <2>1, <2>2, <2>3, <2>4
<1>5. CASE FinSignal \/ FinGrille \/ FinTemps \/ FinResultats
  <2> USE DEF FinSignal, FinGrille, FinTemps, FinResultats
  <2>1. TypeSockets'
    BY <1>5, TypeStable
  <2>2. TypeSalon'
    BY <1>0, <1>5 DEF TypeSalon, salonVars
  <2>3. TypeManche'
    BY <1>5 DEF TypeManche, Ordres, TempsMax
  <2>4. pcS' \in EtatsServeur
    BY <1>5 DEF EtatsServeur, EtatsEnvoi
  <2> QED BY <2>1, <2>2, <2>3, <2>4
<1>6. CASE FinChoix
  <2>1. TypeSockets'
    BY <1>6, TypeStable DEF FinChoix
  <2>2. CASE DebutAttente
    BY <1>6, <2>1, <2>2, TypeDebutAttente DEF FinChoix
  <2>3. CASE pcS' = "fermeture" /\ UNCHANGED <<prets, aFaire, mancheVars>>
    BY <1>6, <2>1, <2>3 DEF FinChoix, TypeSalon, TypeManche, mancheVars, salonVars, EtatsServeur
  <2> QED BY <1>6, <2>2, <2>3 DEF FinChoix
<1>7. CASE Fermeture \/ TueParSigpipe
  <2> USE DEF Fermeture, TueParSigpipe
  <2>1. TypeSockets'
    BY <1>7, TypeToutFermer
  <2>2. TypeSalon'
    BY <1>7 DEF TypeSalon, salonVars
  <2>3. TypeManche'
    BY <1>7 DEF TypeManche, mancheVars
  <2>4. pcS' \in EtatsServeur
    BY <1>7 DEF EtatsServeur
  <2> QED BY <2>1, <2>2, <2>3, <2>4
<1>8. CASE \E k \in Slots : Bilan(k)
  <2>1. PICK k \in Slots : Bilan(k)
    BY <1>8
  <2>2. TypeSockets'
    BY <2>1, TypeStable DEF Bilan
  <2>3. TypeSalon'
    BY <2>1 DEF Bilan, TypeSalon, salonVars
  <2>4. TypeManche'
    BY <2>1 DEF Bilan, TypeManche, MeilleurAvec, PireAvec
  <2> QED BY <2>1, <2>2, <2>3, <2>4 DEF Bilan
<1>9. CASE \E k \in Slots, c \in Clients : EchangeAvec(k, c)
  BY <1>9, TypeEchange
<1>10. CASE Demarrer
  <2>1. ecoute' \in BOOLEAN
    BY <1>10, Zenon DEF Demarrer, TypeSockets
  <2>2. TypeSockets'
    BY <1>10, <2>1 DEF Demarrer, TypeSockets
  <2>3. TypeSalon' /\ TypeManche'
    BY <1>10 DEF Demarrer, TypeSalon, TypeManche, salonVars, mancheVars
  <2>4. pcS' \in EtatsServeur
    BY <1>10 DEF Demarrer, EtatsServeur
  <2> QED BY <2>2, <2>3, <2>4
<1> QED BY <1>1, <1>2, <1>3, <1>4, <1>5, <1>6, <1>7, <1>8, <1>9, <1>10
        DEF NextServeur, PasServeur

-----------------------------------------------------------------------------
(***************************************************************************)
(* The loop of envoyer_resultats.                                          *)
(***************************************************************************)
\* One turn of the loop (serveur.c:285-301) extends what is known to one more slot.
LEMMA BilanTour ==
  ASSUME TypeServeur, BilanInv, aFaire \subseteq actifs, NEW k \in Slots, Bilan(k)
  PROVE  BilanInv'
<1> DEFINE F == actifs \ aFaire
           G == actifs' \ aFaire'
<1>1. G = F \cup {k} /\ F \subseteq Slots /\ temps' = temps /\ justes' = justes /\ pcS' = "bilan"
  BY SocketsAssumption DEF Bilan, salonVars, TypeServeur, TypeSalon, Slots
<1>2. /\ temps \in [Slots -> Int] /\ meilleur \in Int /\ pire \in Int
      /\ meilleur' = MeilleurAvec(k) /\ pire' = PireAvec(k)
  BY DEF Bilan, TypeServeur, TypeManche
<1>3. BilanDe(F)
  BY DEF BilanInv, Bilan
<1> HIDE DEF F, G
<1>4. \A l \in G : temps'[l] <= pire' /\ (l \in justes' => meilleur' <= temps'[l])
  BY <1>1, <1>2, <1>3 DEF BilanDe, MeilleurAvec, PireAvec
<1>5. meilleur' <= TempsMax
  BY <1>2, <1>3 DEF BilanDe, MeilleurAvec, TempsMax
<1>6. meilleur' = TempsMax \/ \E l \in G : l \in justes' /\ temps'[l] = meilleur'
  BY <1>1, <1>2, <1>3 DEF BilanDe, MeilleurAvec
<1>7. pire' = 0 \/ \E l \in G : temps'[l] = pire'
  BY <1>1, <1>2, <1>3 DEF BilanDe, PireAvec
<1> QED BY <1>1, <1>4, <1>5, <1>6, <1>7 DEF BilanInv, BilanDe, G

\* No other action disturbs the results before they are all sent.
LEMMA BilanEtape ==
  ASSUME TypeServeur, BilanInv, DescripteursSains, NextServeur
  PROVE  BilanInv'
<1>1. CASE FinTemps
  <2>1. /\ pcS' = "bilan" /\ actifs' \ aFaire' = {}
        /\ meilleur' = TempsMax /\ pire' = 0
    BY <1>1 DEF FinTemps, salonVars
  <2> QED BY <2>1 DEF BilanInv, BilanDe, TempsMax
<1>2. CASE \E k \in Slots : Bilan(k)
  <2>1. aFaire \subseteq actifs
    BY <1>2 DEF Bilan, DescripteursSains, ServeurFini, SalonSain
  <2> QED BY <1>2, <2>1, BilanTour
<1>3. CASE FinBilan
  <2>1. pcS' = "meilleur" /\ actifs \ aFaire = actifs /\ BilanDe(actifs \ aFaire)
    BY <1>3 DEF FinBilan, BilanInv
  <2>2. BilanDe(actifs)
    BY <2>1
  <2> QED BY <1>3, <2>1, <2>2 DEF FinBilan, BilanInv, BilanDe, salonVars, mancheVars
<1>4. CASE \E k \in Slots, c \in Clients : EnvoyerMeilleur(k, c) \/ EnvoyerPire(k, c)
  BY <1>4 DEF EnvoyerMeilleur, EnvoyerPire, BilanInv, BilanDe, salonVars, mancheVars
<1>5. CASE pcS' \notin {"bilan", "meilleur", "pire"}
  BY <1>5 DEF BilanInv
<1>6. CASE \/ AccepterPremier \/ AccepterAutre \/ FinDelai \/ Select \/ FinTour \/ FinSignal
           \/ FinGrille \/ FinResultats \/ FinChoix \/ Fermeture
           \/ Demarrer \/ SelectErreur \/ TueParSigpipe
  <2>1. pcS' \notin {"bilan", "meilleur", "pire"}
    BY <1>6 DEF AccepterPremier, AccepterAutre, FinDelai, Select, FinTour, FinSignal,
         FinGrille, FinResultats, FinChoix, Fermeture, Demarrer, SelectErreur,
         TueParSigpipe, DebutAttente
  <2> QED BY <1>5, <2>1
<1>7. CASE \E k \in Slots, c \in Clients :
             \/ LirePret(k, c) \/ EnvoyerSignal(k, c) \/ EnvoyerForme(k, c)
             \/ EnvoyerIndices(k, c) \/ RecevoirJuste(k, c) \/ RecevoirTemps(k, c)
             \/ RecevoirChoix(k, c)
  <2>1. pcS' \notin {"bilan", "meilleur", "pire"}
    BY <1>7 DEF LirePret, EnvoyerSignal, EnvoyerForme, EnvoyerIndices, RecevoirJuste,
         RecevoirTemps, RecevoirChoix
  <2> QED BY <1>5, <2>1
<1> QED BY <1>1, <1>2, <1>3, <1>4, <1>6, <1>7 DEF NextServeur, PasServeur, EchangeAvec

\* Nothing but the first accept() ends the time without clients.
LEMMA DebutEtape ==
  ASSUME Debut, NextServeur
  PROVE  Debut'
<1>1. CASE Demarrer
  BY <1>1 DEF Demarrer, Debut, salonVars
<1>2. CASE ~Demarrer
  <2>1. pcS' \notin {"demarrage", "premier"}
    BY <1>2 DEF NextServeur, PasServeur, EchangeAvec, AccepterPremier, AccepterAutre, FinDelai,
         Select, FinTour, FinSignal, FinGrille, FinTemps, Bilan, FinBilan, FinResultats,
         FinChoix, Fermeture, SelectErreur, TueParSigpipe, DebutAttente, LirePret,
         EnvoyerSignal, EnvoyerForme, EnvoyerIndices, RecevoirJuste, RecevoirTemps,
         EnvoyerMeilleur, EnvoyerPire, RecevoirChoix
  <2> QED BY <2>1 DEF Debut
<1> QED BY <1>1, <1>2

-----------------------------------------------------------------------------
(***************************************************************************)
(* The invariant is inductive.                                             *)
(***************************************************************************)
\* The invariant holds when the server and its peers start.
LEMMA InitInv == InitOuvert => IInv
<1> SUFFICES ASSUME InitOuvert PROVE IInv
  OBVIOUS
<1> USE DEF InitOuvert, InitSockets, InitServeur
<1>1. TypeSockets
  <2>1. <<>> \in Seq(Unites) /\ <<>> \in Seq(Clients)
    OBVIOUS
  <2>2. ecoute \in BOOLEAN
    BY Zenon
  <2>3. finClient \in [Clients -> BOOLEAN]
    OBVIOUS
  <2> QED BY <2>1, <2>2, <2>3 DEF TypeSockets, Liens, Resets
<1>2. TypeSalon /\ pcS \in EtatsServeur
  BY SocketsAssumption DEF TypeSalon, EtatsServeur
<1>3. TypeManche
  BY TypeVierges DEF TypeManche, TempsMax
<1>4. Debut /\ BilanInv
  BY DEF Debut, BilanInv
<1>5. Connexions
  BY DEF Connexions
<1>6. DescripteursSains
  BY DEF DescripteursSains, SalonSain
<1> QED BY <1>1, <1>2, <1>3, <1>4, <1>5, <1>6 DEF IInv, TypeServeur

\* Every action of the server preserves the invariant.
LEMMA ServeurInv ==
  ASSUME IInv, NextServeur
  PROVE  IInv'
<1>1. TypeServeur'
  BY TypeEtape DEF IInv
<1>2. Debut'
  BY DebutEtape DEF IInv
<1>3. BilanInv'
  BY BilanEtape DEF IInv
<1>4. ~ServeurFini
  BY DEF ServeurFini, NextServeur, PasServeur, EchangeAvec, AccepterPremier, AccepterAutre,
         FinDelai, Select, FinTour, FinSignal, FinGrille, FinTemps, Bilan, FinBilan,
         FinResultats, FinChoix, Fermeture, SelectErreur, TueParSigpipe, LirePret,
         EnvoyerSignal, EnvoyerForme, EnvoyerIndices, RecevoirJuste, RecevoirTemps,
         EnvoyerMeilleur, EnvoyerPire, RecevoirChoix, Demarrer, EtatsEnvoi
<1>5. Sain
  BY <1>4 DEF IInv, Sain, DescripteursSains
<1>6. Calme \/ (Accueil /\ nbClients < MAX_CLIENTS) \/ Perte \/ Refus \/ Fin
  BY <1>5, ClasseServeur DEF IInv
<1>7. CASE Fin
  <2>1. Connexions'
    BY <1>7, FinSain DEF IInv, Fin
  <2> QED BY <1>1, <1>2, <1>3, <1>7, <2>1 DEF IInv, Fin, DescripteursSains
<1>8. CASE ~Fin
  <2>1. Connexions' /\ SalonSain'
    BY <1>5, <1>6, <1>8, CalmeSain, AccueilSain, PerteSain, RefusSain
  <2> QED BY <1>1, <1>2, <1>3, <2>1 DEF IInv, DescripteursSains
<1> QED BY <1>7, <1>8

\* Whatever the other end of a connection does preserves the invariant.
LEMMA BoutInv ==
  ASSUME IInv, NEW c \in Clients, UNCHANGED serveurVars,
         \/ ClientConnecte(c) \/ (\E m \in Unites : ClientEnvoie(c, m))
         \/ ClientLit(c) \/ ClientFerme(c) \/ ArriveeRst(c)
  PROVE  IInv'
<1>1. Connexions' /\ DescripteursSains'
  BY PairSain DEF IInv
<1>2. TypeSockets'
  BY TypePair DEF IInv, TypeServeur
<1>3. TypeServeur'
  BY <1>2 DEF IInv, TypeServeur, TypeSalon, TypeManche, serveurVars
<1>4. Debut' /\ BilanInv'
  BY DEF IInv, Debut, BilanInv, BilanDe, serveurVars
<1> QED BY <1>1, <1>3, <1>4 DEF IInv

\* Whatever a peer does preserves the invariant.
LEMMA PairInv ==
  ASSUME IInv, NEW c \in Clients, PasPair(c)
  PROVE  IInv'
<1>1. /\ UNCHANGED serveurVars
      /\ \/ ClientConnecte(c) \/ (\E m \in Unites : ClientEnvoie(c, m))
         \/ ClientLit(c) \/ ClientFerme(c) \/ ArriveeRst(c)
  BY MessagesAssumption DEF PasPair
<1> QED BY <1>1, BoutInv

\* Every step, stuttering included, preserves the invariant.
LEMMA EtapeInv == IInv /\ [NextOuvert]_varsOuvert => IInv'
<1> SUFFICES ASSUME IInv, [NextOuvert]_varsOuvert PROVE IInv'
  OBVIOUS
<1>1. CASE NextServeur
  BY <1>1, ServeurInv
<1>2. CASE \E c \in Clients : PasPair(c)
  BY <1>2, PairInv
<1>3. CASE UNCHANGED varsOuvert
  <2>1. TypeSockets'
    BY <1>3, TypeStable DEF IInv, TypeServeur, varsOuvert
  <2>2. TypeServeur'
    BY <1>3, <2>1 DEF IInv, TypeServeur, TypeSalon, TypeManche, serveurVars, varsOuvert
  <2>3. Debut' /\ BilanInv'
    BY <1>3 DEF IInv, Debut, BilanInv, BilanDe, serveurVars, varsOuvert
  <2>4. Connexions' /\ DescripteursSains'
    BY <1>3 DEF IInv, Connexions, DescripteursSains, SalonSain, Titulaire, ServeurFini,
         serveurVars, sockVars, varsOuvert
  <2> QED BY <2>2, <2>3, <2>4 DEF IInv
<1> QED BY <1>1, <1>2, <1>3 DEF NextOuvert

(* The invariant holds in every state, whatever the peers do.              *)
LEMMA InvariantServeur == SpecOuvert => []IInv
<1> QED BY InitInv, EtapeInv, PTL DEF SpecOuvert

-----------------------------------------------------------------------------
(***************************************************************************)
(* The count of the players who stay.                                      *)
(***************************************************************************)
\* One choice (serveur.c:338-361) counts the client that stays, and only it.
LEMMA GardeChoix ==
  ASSUME TypeServeur, aFaire \subseteq actifs, RejoueurGarde,
         NEW k \in Slots, NEW c \in Clients, RecevoirChoix(k, c)
  PROVE  RejoueurGarde'
<1> DEFINE F == actifs \ aFaire
<1>1. /\ pcS = "choix" /\ k \in aFaire /\ k \in actifs /\ k \notin F
      /\ aFaire' = aFaire \ {k} /\ rejouer = Cardinality(F)
  BY DEF RecevoirChoix, Tour, RejoueurGarde
<1>2. IsFiniteSet(F)
  <2>1. F \subseteq 0 .. MAX_CLIENTS - 1 /\ MAX_CLIENTS - 1 \in Int
    BY SocketsAssumption DEF TypeServeur, TypeSalon
  <2>2. IsFiniteSet(0 .. MAX_CLIENTS - 1)
    BY <2>1, FS_Interval
  <2> QED BY <2>1, <2>2, FS_Subset
<1>3. CASE actifs' = actifs \ {k} /\ rejouer' = rejouer
  <2>1. actifs' \ aFaire' = F
    BY <1>1, <1>3
  <2> QED BY <1>1, <1>3, <2>1 DEF RejoueurGarde
<1>4. CASE actifs' = actifs /\ rejouer' = rejouer + 1
  <2>1. actifs' \ aFaire' = F \cup {k}
    BY <1>1, <1>4
  <2>2. Cardinality(F \cup {k}) = Cardinality(F) + 1
    BY <1>1, <1>2, FS_AddElement
  <2> QED BY <1>1, <1>4, <2>1, <2>2 DEF RejoueurGarde
<1> QED BY <1>3, <1>4 DEF RecevoirChoix, Deconnecter, Depart, salonVars

\* The loop starts with nobody counted, and no other action is in it.
LEMMA GardeServeur ==
  ASSUME IInv, RejoueurGarde, NextServeur
  PROVE  RejoueurGarde'
<1>1. CASE FinResultats
  <2>1. actifs' \ aFaire' = {} /\ rejouer' = 0
    BY <1>1 DEF FinResultats, salonVars
  <2> QED BY <2>1, FS_EmptySet DEF RejoueurGarde
<1>2. CASE \E k \in Slots, c \in Clients : RecevoirChoix(k, c)
  <2>1. aFaire \subseteq actifs
    BY <1>2 DEF RecevoirChoix, IInv, DescripteursSains, ServeurFini, SalonSain
  <2> QED BY <1>2, <2>1, GardeChoix DEF IInv
<1>3. CASE \/ AccepterPremier \/ AccepterAutre \/ FinDelai \/ Select \/ FinTour \/ FinSignal
           \/ FinGrille \/ FinTemps \/ FinBilan \/ FinChoix \/ Fermeture
           \/ (\E k \in Slots : Bilan(k))
           \/ Demarrer \/ SelectErreur \/ TueParSigpipe
  <2>1. pcS' # "choix"
    BY <1>3 DEF AccepterPremier, AccepterAutre, FinDelai, Select, FinTour, FinSignal,
         FinGrille, FinTemps, FinBilan, FinChoix, Fermeture, Bilan, Demarrer,
         SelectErreur, TueParSigpipe, DebutAttente
  <2> QED BY <2>1 DEF RejoueurGarde
<1>4. CASE \E k \in Slots, c \in Clients :
             \/ LirePret(k, c) \/ EnvoyerSignal(k, c) \/ EnvoyerForme(k, c)
             \/ EnvoyerIndices(k, c) \/ RecevoirJuste(k, c) \/ RecevoirTemps(k, c)
             \/ EnvoyerMeilleur(k, c) \/ EnvoyerPire(k, c)
  <2>1. pcS' # "choix"
    BY <1>4 DEF LirePret, EnvoyerSignal, EnvoyerForme, EnvoyerIndices, RecevoirJuste,
         RecevoirTemps, EnvoyerMeilleur, EnvoyerPire
  <2> QED BY <2>1 DEF RejoueurGarde
<1> QED BY <1>1, <1>2, <1>3, <1>4 DEF NextServeur, PasServeur, EchangeAvec

\* Who said 'o' is counted and still connected, whatever the peers do.
LEMMA InvariantGarde == SpecOuvert => []RejoueurGarde
<1>1. InitOuvert => RejoueurGarde
  BY DEF InitOuvert, InitServeur, RejoueurGarde
<1>2. IInv /\ RejoueurGarde /\ [NextOuvert]_varsOuvert => RejoueurGarde'
  <2> SUFFICES ASSUME IInv, RejoueurGarde, [NextOuvert]_varsOuvert PROVE RejoueurGarde'
    OBVIOUS
  <2>1. CASE UNCHANGED serveurVars
    BY <2>1 DEF serveurVars, RejoueurGarde
  <2> QED BY <2>1, GardeServeur DEF NextOuvert, PasPair, varsOuvert
<1> QED BY <1>1, <1>2, InvariantServeur, PTL DEF SpecOuvert

-----------------------------------------------------------------------------
(***************************************************************************)
(* The wait for the confirmations never stops in recv().                   *)
(***************************************************************************)
\* What a slot of the loop needs: a connection on which recv() returns at once.
Rend(k) == \E c \in Clients : Titulaire(k, c) /\ Lisible(c)

\* select() has reported every slot that the loop is about to read, and the
\* accept() or the refusal that comes between concerns another connection.
LEMMA BloqueSelect ==
  ASSUME Sain, Select
  PROVE  \A k \in aFaire' : Rend(k)'
<1> SUFFICES ASSUME NEW k \in aFaire' PROVE Rend(k)'
  OBVIOUS
<1>1. PICK c \in Clients : Titulaire(k, c) /\ Lisible(c)
  BY LuDejaActif
<1>2. clients'[k] = clients[k] /\ lien[c] = "ouvert" /\ descr[c] = clients[k]
  BY <1>1, LuDejaActif DEF Titulaire
<1>3. file # <<>> => Head(file) # c
  <2> SUFFICES ASSUME file # <<>> PROVE Head(file) # c
    OBVIOUS
  <2>1. file \in Seq(Clients)
    BY DEF Sain, TypeServeur, TypeSockets
  <2>2. 1 \in 1 .. Len(file) /\ Head(file) = file[1]
    BY <2>1
  <2>3. lien[Head(file)] = "file"
    BY <2>2 DEF Sain, Connexions
  <2> QED BY <1>2, <2>3
<1>4. CASE UNCHANGED sockVars
  BY <1>1, <1>2, <1>4 DEF Rend, Titulaire, Lisible, sockVars
<1>5. CASE \E f \in Descripteurs : Accepter(f)
  <2>1. lien'[c] = lien[c] /\ descr'[c] = descr[c] /\ UNCHANGED <<versServeur, finClient>>
    BY <1>3, <1>5 DEF Accepter, Sain, TypeServeur, TypeSockets
  <2> QED BY <1>1, <1>2, <2>1 DEF Rend, Titulaire, Lisible
<1>6. CASE Refuser
  <2>1. c \notin {Head(file)}
    BY <1>3, <1>6 DEF Refuser
  <2>2. lien'[c] = lien[c] /\ descr'[c] = descr[c] /\ versServeur'[c] = versServeur[c]
        /\ finClient' = finClient
    BY <1>6, <2>1 DEF Refuser, Couper
  <2> QED BY <1>1, <1>2, <2>2 DEF Rend, Titulaire, Lisible
<1> QED BY <1>4, <1>5, <1>6 DEF Select

\* One recv(), with the close() that may follow it, leaves the connections of the
\* slots after it alone (serveur.c:144-152).
LEMMA BloqueLecture ==
  ASSUME Sain, \A k \in aFaire : Rend(k), NEW j \in Slots, NEW d \in Clients, LirePret(j, d)
  PROVE  \A k \in aFaire' : Rend(k)'
<1> SUFFICES ASSUME NEW k \in aFaire' PROVE Rend(k)'
  OBVIOUS
<1>1. /\ aFaire' = aFaire \ {j} /\ j \in aFaire /\ Titulaire(j, d) /\ clients' = clients
      /\ FermerServeur(d) \/ ServeurLit(d)
  BY DEF LirePret, Tour, Deconnecter, salonVars
<1>2. PICK c \in Clients : Titulaire(k, c) /\ Lisible(c)
  BY <1>1 DEF Rend
<1>3. c # d
  BY <1>1, <1>2 DEF Sain, SalonSain, Titulaire
<1>4. lien'[c] = lien[c] /\ descr'[c] = descr[c] /\ versServeur'[c] = versServeur[c]
      /\ finClient' = finClient
  <2>1. CASE FermerServeur(d)
    <3>1. c \notin {d}
      BY <1>3
    <3> QED BY <2>1, <3>1 DEF FermerServeur, Couper
  <2>2. CASE ServeurLit(d)
    BY <1>3, <2>2 DEF ServeurLit, Sain, TypeServeur, TypeSockets
  <2> QED BY <1>1, <2>1, <2>2
<1> QED BY <1>1, <1>2, <1>4 DEF Rend, Titulaire, Lisible

\* No action of the server leads into the loop or goes on in it otherwise.
LEMMA BloqueServeur ==
  ASSUME IInv, JamaisBloque, NextServeur
  PROVE  JamaisBloque'
<1>1. ASSUME pcS \in {"select", "prets"} PROVE Sain
  BY <1>1 DEF IInv, Sain, DescripteursSains, ServeurFini
<1>2. CASE Select
  BY <1>1, <1>2, BloqueSelect DEF Select, JamaisBloque, Rend
<1>3. CASE \E k \in Slots, c \in Clients : LirePret(k, c)
  <2>1. PICK k \in Slots, c \in Clients : LirePret(k, c)
    BY <1>3
  <2>2. pcS = "prets"
    BY <2>1 DEF LirePret
  <2>3. \A l \in aFaire : Rend(l)
    BY <2>2 DEF JamaisBloque, Rend
  <2>4. \A l \in aFaire' : Rend(l)'
    BY <1>1, <2>1, <2>2, <2>3, BloqueLecture
  <2> QED BY <2>4 DEF JamaisBloque, Rend
<1>4. CASE \/ AccepterPremier \/ AccepterAutre \/ FinDelai \/ FinTour \/ FinSignal
           \/ FinGrille \/ FinTemps \/ FinBilan \/ FinResultats \/ FinChoix \/ Fermeture
           \/ (\E k \in Slots : Bilan(k))
           \/ Demarrer \/ SelectErreur \/ TueParSigpipe
  <2>1. pcS' # "prets"
    BY <1>4 DEF AccepterPremier, AccepterAutre, FinDelai, FinTour, FinSignal, FinGrille,
         FinTemps, FinBilan, FinResultats, FinChoix, Fermeture, Bilan, Demarrer,
         SelectErreur, TueParSigpipe, DebutAttente
  <2> QED BY <2>1 DEF JamaisBloque
<1>5. CASE \E k \in Slots, c \in Clients :
             \/ EnvoyerSignal(k, c) \/ EnvoyerForme(k, c) \/ EnvoyerIndices(k, c)
             \/ RecevoirJuste(k, c) \/ RecevoirTemps(k, c)
             \/ EnvoyerMeilleur(k, c) \/ EnvoyerPire(k, c) \/ RecevoirChoix(k, c)
  <2>1. pcS' # "prets"
    BY <1>5 DEF EnvoyerSignal, EnvoyerForme, EnvoyerIndices, RecevoirJuste, RecevoirTemps,
         EnvoyerMeilleur, EnvoyerPire, RecevoirChoix
  <2> QED BY <2>1 DEF JamaisBloque
<1> QED BY <1>2, <1>3, <1>4, <1>5 DEF NextServeur, PasServeur, EchangeAvec

\* What the other ends do takes nothing from what recv() can return.
LEMMA BloquePair ==
  ASSUME IInv, JamaisBloque, NEW d \in Clients, PasPair(d)
  PROVE  JamaisBloque'
<1> SUFFICES ASSUME pcS = "prets", NEW k \in aFaire
             PROVE  \E c \in Clients : Titulaire(k, c)' /\ Lisible(c)'
  BY DEF JamaisBloque, PasPair, serveurVars
<1>1. PICK c \in Clients : Titulaire(k, c) /\ Lisible(c)
  BY DEF JamaisBloque
<1>2. clients' = clients
  BY DEF PasPair, serveurVars
<1>3. TypeSockets
  BY DEF IInv, TypeServeur
<1>4. lien'[c] = lien[c] /\ descr'[c] = descr[c]
  BY <1>1, <1>3 DEF PasPair, ClientConnecte, ClientEnvoie, ClientLit, ClientFerme, ArriveeRst,
       Titulaire, TypeSockets
<1>5. Lisible(c)'
  <2>1. CASE \E m \in Messages : ClientEnvoie(d, m)
    <3>1. PICK m \in Messages : ClientEnvoie(d, m)
      BY <2>1
    <3>2. Append(versServeur[d], m) # <<>>
      <4>1. versServeur[d] \in Seq(Unites) /\ m \in Unites
        BY <1>3, MessagesAssumption DEF TypeSockets
      <4> QED BY <4>1, AppendProperties
    <3>3. versServeur'[c] = versServeur[c] \/ versServeur'[c] = Append(versServeur[d], m)
      BY <1>3, <3>1 DEF ClientEnvoie, TypeSockets
    <3> QED BY <1>1, <3>1, <3>2, <3>3 DEF Lisible, ClientEnvoie
  <2>2. CASE ClientConnecte(d) \/ ClientLit(d) \/ ClientFerme(d) \/ ArriveeRst(d)
    BY <1>1, <1>3, <2>2 DEF ClientConnecte, ClientLit, ClientFerme, ArriveeRst, Lisible,
         TypeSockets
  <2> QED BY <2>1, <2>2 DEF PasPair
<1> QED BY <1>1, <1>2, <1>4, <1>5 DEF Titulaire

-----------------------------------------------------------------------------
(* Array bounds and types of serveur.c, whatever connects to the port: no  *)
(* accept() writes past clients[] and no loop reads past it.               *)
THEOREM TypesDuServeur == SpecOuvert => []TypeServeur
<1>1. IInv => TypeServeur
  BY DEF IInv
<1> QED BY <1>1, InvariantServeur, PTL

(* While the server runs, active slots and open connections correspond one *)
(* to one although the kernel gives closed descriptor numbers again.       *)
THEOREM DescripteursDuServeur == SpecOuvert => []DescripteursSains
<1>1. IInv => DescripteursSains
  BY DEF IInv
<1> QED BY <1>1, InvariantServeur, PTL

(* The results envoyer_resultats sends are exact, whatever was received.   *)
THEOREM BilanDuServeur == SpecOuvert => []BilanExact
<1>1. IInv => BilanExact
  BY DEF IInv, BilanInv, BilanDe, BilanExact
<1> QED BY <1>1, InvariantServeur, PTL

(* The server counts for the next round exactly the clients that said 'o'  *)
(* (serveur.c:338-361): none of them is lost, and nobody else is counted.  *)
THEOREM GardeDuServeur == SpecOuvert => []RejoueurGarde
BY InvariantGarde

(* Whatever the peers do, the server never waits in a recv() of the loop   *)
(* of the confirmations (serveur.c:139-158): select() is its only wait.    *)
THEOREM AttenteSansBlocage == SpecOuvert => []JamaisBloque
<1>1. InitOuvert => JamaisBloque
  BY DEF InitOuvert, InitServeur, JamaisBloque
<1>2. IInv /\ JamaisBloque /\ [NextOuvert]_varsOuvert => JamaisBloque'
  <2> SUFFICES ASSUME IInv, JamaisBloque, [NextOuvert]_varsOuvert PROVE JamaisBloque'
    OBVIOUS
  <2>1. CASE UNCHANGED varsOuvert
    BY <2>1 DEF varsOuvert, sockVars, serveurVars, JamaisBloque, Titulaire, Lisible
  <2> QED BY <2>1, BloqueServeur, BloquePair DEF NextOuvert
<1> QED BY <1>1, <1>2, InvariantServeur, PTL DEF SpecOuvert

=============================================================================
