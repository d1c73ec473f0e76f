------------------------------ MODULE MCEcran ------------------------------
(* Four shapes, two of them each other's mirror image, on terminals that are
   just large enough, larger (odd and even margins), and too small. *)
EXTENDS Ecran

MCTailles == {<<19, 19>>, <<20, 24>>, <<12, 21>>}
=============================================================================
