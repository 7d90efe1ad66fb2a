-------------------------- MODULE MCPaymentLifecycle --------------------------
(***************************************************************************)
(* Values of the constants of PaymentLifecycle for TLC.                    *)
(***************************************************************************)
EXTENDS PaymentLifecycle

CONSTANTS c1, p1

OneProduct == [c \in Checkouts |-> p1]
OneUnit    == [c \in Checkouts |-> 1]

\* A provider whose terminal statuses are final.
FinalMoves == {<<"PENDING", "APPROVED">>, <<"PENDING", "DECLINED">>, <<"PENDING", "VOIDED">>}

\* A provider that may take back a decline, as the code provides for.
FlippingMoves == {<<"PENDING", "APPROVED">>, <<"PENDING", "DECLINED">>,
                  <<"DECLINED", "APPROVED">>, <<"DECLINED", "VOIDED">>}

\* A provider that may void what it charged or declined.
VoidingMoves == FinalMoves \cup {<<"APPROVED", "VOIDED">>, <<"DECLINED", "VOIDED">>}

Stock1 == [p \in Products |-> 1]
===============================================================================
