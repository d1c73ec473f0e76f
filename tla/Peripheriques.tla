--------------------------- MODULE Peripheriques ---------------------------
(***************************************************************************)
(* The four devices of a player's machine that have a driver with a state: *)
(* LCD, seven-segment display, LED matrix and button matrix.  The drivers  *)
(* share no variable, no pin and no chip, and each property is about one   *)
(* of them, so it is enough to look at the behaviours in which one of them *)
(* moves: appareil says which.                                             *)
(***************************************************************************)
EXTENDS Lcd, Segment7, MatriceLed, MatriceBtn

VARIABLE appareil

vars == <<varsLcd, vars7, varsLed, varsBtn, appareil>>

Init ==
  /\ InitLcd /\ Init7 /\ InitLed /\ InitBtn
  /\ appareil \in {"lcd", "segments", "leds", "boutons"}

Next ==
  /\ \/ appareil = "lcd" /\ NextLcd /\ UNCHANGED <<vars7, varsLed, varsBtn>>
     \/ appareil = "segments" /\ Next7 /\ UNCHANGED <<varsLcd, varsLed, varsBtn>>
     \/ appareil = "leds" /\ NextLed /\ UNCHANGED <<varsLcd, vars7, varsBtn>>
     \/ appareil = "boutons" /\ NextBtn /\ UNCHANGED <<varsLcd, vars7, varsLed>>
  /\ UNCHANGED appareil

Spec == Init /\ [][Next]_vars
=============================================================================
