--------------------------- MODULE ServeurOuvert ---------------------------
(***************************************************************************)
(* The server among arbitrary peers: whatever connects may send anything,  *)
(* read or not, and close at any moment.  What holds here holds whatever   *)
(* client.c does, and for any other program that connects to the port.     *)
(***************************************************************************)
EXTENDS Serveur

CONSTANTS
  Messages,   \* what the peer of a connection may send
  MaxFlux     \* bound: the units in flight, each way, up to which a free peer sends

ASSUME MessagesAssumption ==
  /\ MaxFlux \in Nat
  /\ Messages \subseteq Unites

PasPair(c) ==
  /\ \/ ClientConnecte(c)
     \/ /\ Len(versServeur[c]) < MaxFlux
        /\ Len(versClient[c]) < MaxFlux
        /\ \E m \in Messages : ClientEnvoie(c, m)
     \/ ClientLit(c)
     \/ ClientFerme(c)
     \/ ArriveeRst(c)
  /\ UNCHANGED serveurVars

varsOuvert == <<sockVars, serveurVars>>
InitOuvert == InitSockets /\ InitServeur
NextOuvert == NextServeur \/ \E c \in Clients : PasPair(c)
SpecOuvert == InitOuvert /\ [][NextOuvert]_varsOuvert

=============================================================================
