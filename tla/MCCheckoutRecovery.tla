------------------------- MODULE MCCheckoutRecovery -------------------------
(***************************************************************************)
(* Values of the constants of CheckoutRecovery for TLC.                    *)
(***************************************************************************)
EXTENDS CheckoutRecovery

CONSTANTS k1, k2, d1, d2
=============================================================================
