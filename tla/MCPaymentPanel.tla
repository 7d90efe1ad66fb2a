----------------------------- MODULE MCPaymentPanel -----------------------------
(***************************************************************************)
(* One checkout and one tab.  The cases: a sandbox as it should be, with   *)
(* two commands, two cards and one reload; one command and a provider that *)
(* takes a decline back; three commands in a row, declined or lost; a      *)
(* sandbox that lost its integrity secret; and a total that fits a double  *)
(* but whose centavos do not.                                              *)
(***************************************************************************)
EXTENDS PaymentPanel, TLC

Sandbox == [environment |-> "test", baseUrl |-> "STAGING", publicKey |-> "STAGING",
            privateKey |-> "STAGING", integritySecret |-> "STAGING", eventsSecret |-> "STAGING"]
Unsigned == [Sandbox EXCEPT !.integritySecret = "MISSING"]

Sound == [deployment |-> Sandbox, amount |-> 5, commands |-> 2, reloads |-> 1,
          first |-> {"PENDING", "REFUSED"},
          moves |-> {<<"PENDING", "APPROVED">>, <<"PENDING", "DECLINED">>}]
Declining == [Sound EXCEPT !.first = {"DECLINED"}, !.moves = {}, !.reloads = 0]

TheShops == ("SOUND"    :> Sound) @@
            ("REVISED"  :> [Declining EXCEPT !.moves = {<<"DECLINED", "APPROVED">>},
                                      !.commands = 1, !.reloads = 1]) @@
            ("THRICE"   :> [Declining EXCEPT !.commands = 3]) @@
            ("UNSIGNED" :> [Sound EXCEPT !.deployment = Unsigned]) @@
            ("HUGE"     :> [Sound EXCEPT !.amount = 50])

===============================================================================
