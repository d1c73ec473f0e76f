------------------------------- MODULE MCLcd -------------------------------
(***************************************************************************)
(* A display of two columns; 65 and 66 are letters, 0 a custom character.  *)
(***************************************************************************)
EXTENDS Lcd

MCTextes == {<<65>>, <<66, 65>>, <<65, 66, 65>>, <<65, 0, 66, 66>>}
=============================================================================
