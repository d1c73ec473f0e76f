------------------------------- MODULE Canal -------------------------------
(***************************************************************************)
(* What serveur.c and client.c take a connection for, and what module      *)
(* Sockets gives them: two queues of units, one in each direction.  A unit *)
(* is sent whole and received whole, in the order of the calls.            *)
(***************************************************************************)
EXTENDS Sequences

CONSTANTS Bouts,   \* the two ends of the connection
          Unites   \* the units they exchange

VARIABLES
  file,   \* file[b]: the units that are on their way to b
  lu      \* lu[b]: the unit that b has received last, Rien before

Rien == <<>>

Init == file = [b \in Bouts |-> <<>>] /\ lu = [b \in Bouts |-> Rien]

Envoyer(b) ==
  \E u \in Unites :
    /\ file' = [file EXCEPT ![b] = Append(@, u)]
    /\ UNCHANGED lu

Recevoir(b) ==
  /\ file[b] # <<>>
  /\ lu' = [lu EXCEPT ![b] = Head(file[b])]
  /\ file' = [file EXCEPT ![b] = Tail(@)]

Spec == Init /\ [][\E b \in Bouts : Envoyer(b) \/ Recevoir(b)]_<<file, lu>>
=============================================================================
