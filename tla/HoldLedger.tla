------------------------------ MODULE HoldLedger ------------------------------
(***************************************************************************)
(* What a transaction that touches stock promises, whatever the row locks  *)
(* it took on the way: it takes effect as one indivisible step that sweeps *)
(* some lapsed holds of checkouts with no open payment and does at most    *)
(* one thing of its own, and the product counters move exactly with the    *)
(* holds.  RowLocks, lock by lock, and PaymentLifecycle, with everything   *)
(* the payments add, are both shown to implement it.                       *)
(***************************************************************************)
EXTENDS Integers

CONSTANTS
  Checkouts,
  Products,
  ProductOf,
  Units(_),   \* how many units a set of checkouts is for
  Stock

VARIABLES hold, paying, physical, reserved

ledgerVars == <<hold, paying, physical, reserved>>

Holding(h, p)   == {c \in Checkouts : ProductOf[c] = p /\ h[c] = "HELD"}
Committed(h, p) == {c \in Checkouts : ProductOf[c] = p /\ h[c] = "COMMITTED"}

\* The counters a product must show when the holds are h.
Balanced(h, free, taken) ==
  \A p \in Products : /\ taken[p] = Units(Holding(h, p))
                      /\ free[p] = Stock[p] - Units(Committed(h, p))
                      /\ taken[p] <= free[p]

Promised ==
  /\ hold \in [Checkouts -> {"NONE", "HELD", "RELEASED", "COMMITTED"}]
  /\ paying \in [Checkouts -> BOOLEAN]
  /\ Balanced(hold, physical, reserved)

Sweepable(S) == \A c \in S : hold[c] = "HELD" /\ ~paying[c]

\* What one transaction may do to its own checkout, which it has not swept.
Reserve(c) == hold[c] = "NONE" /\ hold'[c] = "HELD" /\ ~paying'[c]
Open(c)    == hold[c] = "HELD" /\ ~paying[c] /\ hold'[c] = "HELD" /\ paying'[c]
Close(c)   == paying[c] /\ ~paying'[c] /\ hold'[c] = hold[c]
Settle(c)  == hold[c] = "HELD" /\ ~paying'[c] /\ hold'[c] \in {"RELEASED", "COMMITTED"}

Transaction(S, c) ==
  /\ Sweepable(S)
  /\ \A s \in S : hold'[s] = "RELEASED" /\ ~paying'[s]
  /\ c \notin S => Reserve(c) \/ Open(c) \/ Close(c) \/ Settle(c)
  /\ \A other \in Checkouts \ (S \cup {c}) :
       hold'[other] = hold[other] /\ paying'[other] = paying[other]
  /\ Balanced(hold', physical', reserved')
  /\ hold' \in [Checkouts -> {"NONE", "HELD", "RELEASED", "COMMITTED"}]
  /\ paying' \in [Checkouts -> BOOLEAN]

Next == \E S \in SUBSET Checkouts, c \in Checkouts : Transaction(S, c)

Spec == Promised /\ [][Next]_ledgerVars
===============================================================================
