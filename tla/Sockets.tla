------------------------------ MODULE Sockets ------------------------------
(***************************************************************************)
(* The TCP sockets of the kernel, as far as serveur.c, client.c and the    *)
(* two wrappers of lib/jeu.c (envoyer_donnees = send, recevoir_donnees =   *)
(* recv) use them.  The kernel is not part of the repository: this module  *)
(* is external and says only what the calls of the code can observe.       *)
(*                                                                         *)
(* A client process opens one connection in its life (client.c:53-72), so  *)
(* a connection is named by its client.  A stream is a FIFO of the units   *)
(* that were given to send(); every unit is an integer, a character or the *)
(* array of indices, and a recv() of the right size returns one unit.  The *)
(* content of a unit is the business of module Protocole.                  *)
(***************************************************************************)
EXTENDS Integers, Sequences, FiniteSets

CONSTANTS
  Clients,       \* the client processes
  Descripteurs,  \* the descriptor numbers accept() may return in the server
  MAX_CLIENTS    \* #define MAX_CLIENTS, 10 in the code (also the backlog)

ASSUME SocketsAssumption ==
  /\ Descripteurs \subseteq Nat \ {0}
  /\ MAX_CLIENTS \in Nat \ {0}

VARIABLES
  ecoute,       \* the server listens: connect() can succeed
  file,         \* the accept queue of the listening socket, oldest first
  lien,         \* lien[c]: the server's end of the connection of c
  descr,        \* descr[c]: the server's descriptor for it, 0 when it has none
  versServeur,  \* versServeur[c]: units sent by c, not read by the server
  versClient,   \* versClient[c]: units sent to c, not read by c
  finClient,    \* finClient[c]: c has closed its end (or its process is gone)
  rstServeur,   \* a reset sent by the end of c: not sent, on its way, received
  rstClient     \* a reset sent by the server's end: same values

sockVars == <<ecoute, file, lien, descr, versServeur, versClient, finClient,
              rstServeur, rstClient>>

Liens == {"libre", "file", "ouvert", "ferme"}
Resets == {"non", "route", "recu"}

InitSockets ==
  /\ ecoute = FALSE
  /\ file = <<>>
  /\ lien = [c \in Clients |-> "libre"]
  /\ descr = [c \in Clients |-> 0]
  /\ versServeur = [c \in Clients |-> <<>>]
  /\ versClient = [c \in Clients |-> <<>>]
  /\ finClient = [c \in Clients |-> FALSE]
  /\ rstServeur = [c \in Clients |-> "non"]
  /\ rstClient = [c \in Clients |-> "non"]

-----------------------------------------------------------------------------
(***************************************************************************)
(* Calls of the server.                                                    *)
(***************************************************************************)

\* POSIX: accept() returns the lowest-numbered descriptor that is not open.
PlusPetitLibre(f) ==
  LET Libre(g) == \A c \in Clients : descr[c] # g
  IN  Libre(f) /\ \A g \in Descripteurs : Libre(g) => f <= g

\* accept(): the oldest pending connection gets descriptor f.
Accepter(f) ==
  /\ file # <<>>
  /\ PlusPetitLibre(f)
  /\ file' = Tail(file)
  /\ lien' = [lien EXCEPT ![Head(file)] = "ouvert"]
  /\ descr' = [descr EXCEPT ![Head(file)] = f]
  /\ UNCHANGED <<ecoute, versServeur, versClient, finClient, rstServeur, rstClient>>

\* Closing the server's end of the connections of C: unread data is discarded,
\* and those of R that are still there are sent a reset.
Couper(C, R) ==
  /\ lien' = [c \in Clients |-> IF c \in C THEN "ferme" ELSE lien[c]]
  /\ descr' = [c \in Clients |-> IF c \in C THEN 0 ELSE descr[c]]
  /\ versServeur' = [c \in Clients |-> IF c \in C THEN <<>> ELSE versServeur[c]]
  /\ rstClient' = [c \in Clients |->
                     IF c \in R /\ ~finClient[c] THEN "route" ELSE rstClient[c]]
  /\ UNCHANGED <<versClient, finClient, rstServeur>>

\* The connections that still hold data once n units have been read: closing
\* one of them sends a reset instead of a FIN.
NonLus(C, n) == {c \in C : Len(versServeur[c]) > n}

\* close() of the descriptor of c, and recv() of one unit followed by close().
FermerServeur(c) == Couper({c}, NonLus({c}, 0)) /\ UNCHANGED <<ecoute, file>>
LireEtFermer(c) ==
  versServeur[c] # <<>> /\ Couper({c}, NonLus({c}, 1)) /\ UNCHANGED <<ecoute, file>>

\* accept() followed at once by close(): the connection is refused.
Refuser ==
  /\ file # <<>>
  /\ file' = Tail(file)
  /\ Couper({Head(file)}, NonLus({Head(file)}, 0))
  /\ UNCHANGED ecoute

\* The end of the server process, or close() of all its sockets: the pending
\* connections go with the listening socket and are reset.
ToutFermer ==
  LET C == {c \in Clients : lien[c] \in {"file", "ouvert"}}
  IN  /\ ecoute' = FALSE
      /\ file' = <<>>
      /\ Couper(C, NonLus(C, 0) \cup {c \in C : lien[c] = "file"})

\* send() on the connection of c returns.  To a peer that is gone the data is
\* lost and the peer answers with a reset.
ServeurEnvoie(c, m) ==
  /\ \/ /\ ~finClient[c]
        /\ versClient' = [versClient EXCEPT ![c] = Append(@, m)]
        /\ UNCHANGED rstServeur
     \/ /\ finClient[c]
        /\ rstServeur' = [rstServeur EXCEPT ![c] = IF @ = "non" THEN "route" ELSE @]
        /\ UNCHANGED versClient
  /\ UNCHANGED <<ecoute, file, lien, descr, versServeur, finClient, rstClient>>

\* recv() on the connection of c returns a unit ...
ServeurLit(c) ==
  /\ versServeur[c] # <<>>
  /\ versServeur' = [versServeur EXCEPT ![c] = Tail(@)]
  /\ UNCHANGED <<ecoute, file, lien, descr, versClient, finClient, rstServeur, rstClient>>

\* ... or 0 or -1 once the client is gone and its data has been read.
FluxFini(c) == versServeur[c] = <<>> /\ finClient[c]

\* select() reports the descriptor of c: recv() would not block.
Lisible(c) == versServeur[c] # <<>> \/ finClient[c]

-----------------------------------------------------------------------------
(***************************************************************************)
(* Calls of a client.                                                      *)
(***************************************************************************)

\* connect(): the kernel completes it as soon as the server listens and the
\* backlog has room, before any accept().
ClientConnecte(c) ==
  /\ ecoute
  /\ lien[c] = "libre"
  /\ Len(file) <= MAX_CLIENTS
  /\ lien' = [lien EXCEPT ![c] = "file"]
  /\ file' = Append(file, c)
  /\ UNCHANGED <<ecoute, descr, versServeur, versClient, finClient, rstServeur, rstClient>>

ClientEnvoie(c, m) ==
  /\ ~finClient[c]
  /\ \/ /\ lien[c] \in {"file", "ouvert"}
        /\ versServeur' = [versServeur EXCEPT ![c] = Append(@, m)]
        /\ UNCHANGED rstClient
     \/ /\ lien[c] = "ferme"
        /\ rstClient' = [rstClient EXCEPT ![c] = IF @ = "non" THEN "route" ELSE @]
        /\ UNCHANGED versServeur
  /\ UNCHANGED <<ecoute, file, lien, descr, versClient, finClient, rstServeur>>

ClientLit(c) ==
  /\ versClient[c] # <<>>
  /\ versClient' = [versClient EXCEPT ![c] = Tail(@)]
  /\ UNCHANGED <<ecoute, file, lien, descr, versServeur, finClient, rstServeur, rstClient>>

\* close(), or the end of the process: FIN, or RST when data was left unread.
ClientFerme(c) ==
  /\ lien[c] # "libre"
  /\ ~finClient[c]
  /\ finClient' = [finClient EXCEPT ![c] = TRUE]
  /\ versClient' = [versClient EXCEPT ![c] = <<>>]
  /\ rstServeur' = [rstServeur EXCEPT ![c] =
                      IF versClient[c] # <<>> /\ lien[c] # "ferme" THEN "route" ELSE @]
  /\ UNCHANGED <<ecoute, file, lien, descr, versServeur, rstClient>>

-----------------------------------------------------------------------------
(***************************************************************************)
(* A reset reaches the other end.  From then on a send() there raises      *)
(* SIGPIPE, which neither program ignores (no MSG_NOSIGNAL in jeu.c:21, no *)
(* signal() call); the first one may return the pending error instead.     *)
(***************************************************************************)
ArriveeRst(c) ==
  /\ \/ /\ rstServeur[c] = "route"
        /\ rstServeur' = [rstServeur EXCEPT ![c] = "recu"]
        /\ UNCHANGED rstClient
     \/ /\ rstClient[c] = "route"
        /\ rstClient' = [rstClient EXCEPT ![c] = "recu"]
        /\ UNCHANGED rstServeur
  /\ UNCHANGED <<ecoute, file, lien, descr, versServeur, versClient, finClient>>

=============================================================================
