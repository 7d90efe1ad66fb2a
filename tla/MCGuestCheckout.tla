-------------------------- MODULE MCGuestCheckout --------------------------
(***************************************************************************)
(* Values of the constants of GuestCheckout for TLC.                       *)
(***************************************************************************)
EXTENDS GuestCheckout

CONSTANTS s1, s2, r1, r2, r3, k1, k2, p1, p2

MCBefore == [r \in Requests |-> CASE r = r1 -> {} [] r = r2 -> {r1} [] r = r3 -> {r1, r2}]
=============================================================================
