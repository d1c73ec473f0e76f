-------------------------- MODULE MCPeripheriques --------------------------
(***************************************************************************)
(* An LCD of two columns, where 65 and 66 are letters and 0 is a custom    *)
(* character; numbers around every change of length and of sign; two lines *)
(* of LEDs; four buttons.                                                  *)
(***************************************************************************)
EXTENDS Peripheriques

MCTextes == {<<65>>, <<66, 65>>, <<65, 66, 65>>, <<65, 0, 66, 66>>}
MCNombres == {0, 7, 10, 99, 100, 101, 1000, 9999, 10000, 12034, -1, -10, -999, -1000, -4321}
MCMotifs == {[i \in 0 .. LIGNES - 1 |-> 129 + i], [i \in 0 .. LIGNES - 1 |-> 24]}
=============================================================================
