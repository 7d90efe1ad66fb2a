------------------------------ MODULE StockProofs ------------------------------
(***************************************************************************)
(* Stock is conserved, for every value of the constants: the two counters  *)
(* of a product, which every transaction updates by difference, always     *)
(* equal what the reservations add up to.  With what ChargeProofs knows of *)
(* the order of attempts, the payment core implements HoldLedger.          *)
(***************************************************************************)
EXTENDS ChargeProofs

(***************************************************************************)
(* Total adds up over disjoint sets of checkouts.                          *)
(***************************************************************************)
LEMMA TotalUnion ==
  ASSUME NEW S \in SUBSET Checkouts, NEW T \in SUBSET Checkouts, S \cap T = {}
  PROVE  Total(S \cup T) = Total(S) + Total(T)
<1>1. IsFiniteSet(UnitsOf(S)) /\ IsFiniteSet(UnitsOf(T)) /\ Total(S) \in Nat /\ Total(T) \in Nat
  BY UnitsFinite
<1>2. UnitsOf(S \cup T) = UnitsOf(S) \cup UnitsOf(T)
  BY DEF UnitsOf
<1>3. UnitsOf(S) \cap UnitsOf(T) = {}
  <2>1. ASSUME NEW u, u \in UnitsOf(S), u \in UnitsOf(T) PROVE FALSE
    <3>1. PICK c \in S : u \in {c} \X (1..Quantity[c])
      BY <2>1 DEF UnitsOf
    <3>2. PICK d \in T : u \in {d} \X (1..Quantity[d])
      BY <2>1 DEF UnitsOf
    <3>3. c = d
      BY <3>1, <3>2
    <3> QED
      BY <3>3
  <2> QED
    BY <2>1
<1>4. Cardinality(UnitsOf(S) \cup UnitsOf(T))
        = Cardinality(UnitsOf(S)) + Cardinality(UnitsOf(T)) - Cardinality({})
  BY <1>1, <1>3, FS_Union
<1>5. Cardinality({}) = 0
  BY FS_EmptySet
<1>6. Total(S \cup T) = Total(S) + Total(T) - 0
  BY <1>2, <1>4, <1>5 DEF Total
<1> QED
  BY <1>1, <1>6

LEMMA TotalMinus ==
  ASSUME NEW S \in SUBSET Checkouts, NEW T \in SUBSET S
  PROVE  Total(S \ T) = Total(S) - Total(T)
<1>1. /\ (S \ T) \cup T = S /\ (S \ T) \cap T = {}
      /\ S \ T \in SUBSET Checkouts /\ T \in SUBSET Checkouts
  OBVIOUS
<1>2. Total((S \ T) \cup T) = Total(S \ T) + Total(T)
  BY <1>1, TotalUnion
<1>3. Total(S \ T) \in Nat /\ Total(T) \in Nat
  BY <1>1, UnitsFinite
<1>4. Total(S) = Total(S \ T) + Total(T)
  BY <1>1, <1>2
<1> QED
  BY <1>3, <1>4

LEMMA TotalOne ==
  ASSUME NEW c \in Checkouts
  PROVE  Total({c}) = Quantity[c]
<1>1. Quantity[c] \in Nat \ {0}
  BY ConstantsOK
<1>2. UnitsOf({c}) = {c} \X (1..Quantity[c])
  BY DEF UnitsOf
<1>3. IsFiniteSet({c}) /\ Cardinality({c}) = 1
  BY FS_Singleton
<1>4. IsFiniteSet(1..Quantity[c]) /\ Cardinality(1..Quantity[c]) = Quantity[c]
  BY <1>1, FS_Interval
<1>5. Cardinality({c} \X (1..Quantity[c])) = Cardinality({c}) * Cardinality(1..Quantity[c])
  BY <1>3, <1>4, FS_Product
<1>6. 1 * Quantity[c] = Quantity[c]
  BY <1>1
<1> QED
  BY <1>2, <1>3, <1>4, <1>5, <1>6 DEF Total
-------------------------------------------------------------------------------
(***************************************************************************)
(* The four ways a transaction moves stock, and the way most do not.       *)
(***************************************************************************)
Held(p)      == In("HELD") \cap Of(p)
Committed(p) == In("COMMITTED") \cap Of(p)

LEMMA Counted ==
  ASSUME TypeOK, NEW p \in Products
  PROVE  /\ Held(p) \in SUBSET Checkouts /\ Committed(p) \in SUBSET Checkouts
         /\ Total(Held(p)) \in Nat /\ Total(Committed(p)) \in Nat
         /\ reserved[p] \in Nat /\ physical[p] \in Nat /\ InitialStock[p] \in Nat
<1>1. Held(p) \in SUBSET Checkouts /\ Committed(p) \in SUBSET Checkouts
  BY DEF Held, Committed, In, Of
<1> QED
  BY <1>1, UnitsFinite, ConstantsOK DEF TypeOK, LedgerTypeOK

LEMMA StockUntouched ==
  ASSUME StockConserved, UNCHANGED <<physical, reserved, hold>>
  PROVE  StockConserved'
  BY DEF StockConserved, Total, UnitsOf, In, Of

\* Giving the units of one checkout back.
LEMMA ReleaseStock ==
  ASSUME TypeOK, StockConserved, NEW c \in Checkouts, ReleaseHold(c), physical' = physical
  PROVE  StockConserved'
<1>1. CASE hold[c] # "HELD"
  BY <1>1, StockUntouched DEF ReleaseHold
<1>2. CASE hold[c] = "HELD"
  <2> SUFFICES ASSUME NEW p \in Products
               PROVE  /\ reserved'[p] = Total(Held(p)')
                      /\ physical'[p] = InitialStock[p] - Total(Committed(p)')
                      /\ reserved'[p] <= physical'[p]
    BY DEF StockConserved, Held, Committed, Total, UnitsOf, In, Of
  <2>1. /\ reserved[p] = Total(Held(p)) /\ reserved[p] <= physical[p]
        /\ physical[p] = InitialStock[p] - Total(Committed(p))
    BY DEF StockConserved, Held, Committed
  <2>2. hold' = [hold EXCEPT ![c] = "RELEASED"]
        /\ reserved' = [reserved EXCEPT ![ProductOf[c]] = @ - Quantity[c]]
    BY <1>2 DEF ReleaseHold
  <2>3. Committed(p)' = Committed(p)
    BY <1>2, <2>2 DEF Committed, In, Of, TypeOK, LedgerTypeOK
  <2>4. CASE ProductOf[c] = p
    <3>1. Held(p)' = Held(p) \ {c} /\ {c} \in SUBSET Held(p)
      BY <1>2, <2>2, <2>4 DEF Held, In, Of, TypeOK, LedgerTypeOK
    <3>2. Total(Held(p)') = Total(Held(p)) - Quantity[c]
      BY <3>1, Counted, TotalMinus, TotalOne
    <3>3. reserved'[p] = reserved[p] - Quantity[c] /\ Quantity[c] \in Nat
      BY <2>2, <2>4, ConstantsOK DEF TypeOK, LedgerTypeOK
    <3> QED
      BY <2>1, <2>3, <3>2, <3>3, Counted
  <2>5. CASE ProductOf[c] # p
    <3>1. Held(p)' = Held(p)
      BY <2>2, <2>5 DEF Held, In, Of, TypeOK, LedgerTypeOK
    <3>2. reserved'[p] = reserved[p]
      BY <2>2, <2>5 DEF TypeOK, LedgerTypeOK
    <3> QED
      BY <2>1, <2>3, <3>1, <3>2
  <2> QED
    BY <2>4, <2>5
<1> QED
  BY <1>1, <1>2

\* Selling the units of one checkout.
LEMMA CommitStock ==
  ASSUME TypeOK, StockConserved, NEW c \in Checkouts, CommitSale(c)
  PROVE  StockConserved'
<1> SUFFICES ASSUME NEW p \in Products
             PROVE  /\ reserved'[p] = Total(Held(p)')
                    /\ physical'[p] = InitialStock[p] - Total(Committed(p)')
                    /\ reserved'[p] <= physical'[p]
  BY DEF StockConserved, Held, Committed, Total, UnitsOf, In, Of
<1>1. /\ reserved[p] = Total(Held(p)) /\ reserved[p] <= physical[p]
      /\ physical[p] = InitialStock[p] - Total(Committed(p))
  BY DEF StockConserved, Held, Committed
<1>2. /\ hold[c] = "HELD"
      /\ hold' = [hold EXCEPT ![c] = "COMMITTED"]
      /\ reserved' = [reserved EXCEPT ![ProductOf[c]] = @ - Quantity[c]]
      /\ physical' = [physical EXCEPT ![ProductOf[c]] = @ - Quantity[c]]
  BY DEF CommitSale, Committable
<1>3. CASE ProductOf[c] = p
  <2>1. Held(p)' = Held(p) \ {c} /\ {c} \in SUBSET Held(p)
    BY <1>2, <1>3 DEF Held, In, Of, TypeOK, LedgerTypeOK
  <2>2. Total(Held(p)') = Total(Held(p)) - Quantity[c]
    BY <2>1, Counted, TotalMinus, TotalOne
  <2>3. Committed(p)' = Committed(p) \cup {c} /\ Committed(p) \cap {c} = {}
    BY <1>2, <1>3 DEF Committed, In, Of, TypeOK, LedgerTypeOK
  <2>4. Total(Committed(p)') = Total(Committed(p)) + Quantity[c]
    BY <2>3, Counted, TotalUnion, TotalOne
  <2>5. /\ reserved'[p] = reserved[p] - Quantity[c] /\ physical'[p] = physical[p] - Quantity[c]
        /\ Quantity[c] \in Nat
    BY <1>2, <1>3, ConstantsOK DEF TypeOK, LedgerTypeOK
  <2> QED
    BY <1>1, <2>2, <2>4, <2>5, Counted
<1>4. CASE ProductOf[c] # p
  <2>1. Held(p)' = Held(p) /\ Committed(p)' = Committed(p)
    BY <1>2, <1>4 DEF Held, Committed, In, Of, TypeOK, LedgerTypeOK
  <2>2. reserved'[p] = reserved[p] /\ physical'[p] = physical[p]
    BY <1>2, <1>4 DEF TypeOK, LedgerTypeOK
  <2> QED
    BY <1>1, <2>1, <2>2
<1> QED
  BY <1>3, <1>4

\* What the sweep leaves: the counters of the swept state.
LEMMA SweptStock ==
  ASSUME TypeOK, StockConserved, NEW p \in Products
  PROVE  /\ SweptReserved[p] = Total({d \in Of(p) : SweptHold[d] = "HELD"})
         /\ Committed(p) = {d \in Of(p) : SweptHold[d] = "COMMITTED"}
         /\ SweptReserved[p] <= physical[p]
<1> DEFINE gone == Expired \cap Of(p)
<1>1. gone \in SUBSET Held(p)
  BY DEF Expired, Held, In
<1>2. {d \in Of(p) : SweptHold[d] = "HELD"} = Held(p) \ gone
  BY DEF SweptHold, Expired, Held, In, Of
<1>3. Committed(p) = {d \in Of(p) : SweptHold[d] = "COMMITTED"}
  BY DEF SweptHold, Expired, Committed, In, Of
<1>4. Total(Held(p) \ gone) = Total(Held(p)) - Total(gone)
  BY <1>1, Counted, TotalMinus
<1>5. SweptReserved[p] = reserved[p] - Total(gone)
  BY DEF SweptReserved
<1>6. reserved[p] = Total(Held(p)) /\ reserved[p] <= physical[p]
  BY DEF StockConserved, Held
<1>7. Total(gone) \in Nat
  BY <1>1, Counted, UnitsFinite
<1>8. SweptReserved[p] = Total({d \in Of(p) : SweptHold[d] = "HELD"})
  <2>1. SweptReserved[p] = Total(Held(p) \ gone)
    BY <1>4, <1>5, <1>6
  <2> QED
    BY <1>2, <2>1
<1>9. SweptReserved[p] <= physical[p]
  <2>1. reserved[p] \in Nat /\ physical[p] \in Nat
    BY Counted
  <2> QED
    BY <1>5, <1>6, <1>7, <2>1
<1> QED
  BY <1>3, <1>8, <1>9

LEMMA SweepStock ==
  ASSUME TypeOK, StockConserved,
         reserved' = SweptReserved, hold' = SweptHold, physical' = physical
  PROVE  StockConserved'
<1> SUFFICES ASSUME NEW p \in Products
             PROVE  /\ reserved'[p] = Total(Held(p)')
                    /\ physical'[p] = InitialStock[p] - Total(Committed(p)')
                    /\ reserved'[p] <= physical'[p]
  BY DEF StockConserved, Held, Committed, Total, UnitsOf, In, Of
<1>1. physical[p] = InitialStock[p] - Total(Committed(p))
  BY DEF StockConserved, Committed
<1>2. Held(p)' = {d \in Of(p) : SweptHold[d] = "HELD"}
  BY DEF Held, In, Of
<1>3. Committed(p)' = {d \in Of(p) : SweptHold[d] = "COMMITTED"}
  BY DEF Committed, In, Of
<1> QED
  BY <1>1, <1>2, <1>3, SweptStock

\* Holding the units of a new checkout, after the sweep.
LEMMA CreateStock ==
  ASSUME TypeOK, StockConserved, SaleInv, NEW c \in Checkouts, CreateCheckout(c)
  PROVE  StockConserved'
<1> SUFFICES ASSUME NEW p \in Products
             PROVE  /\ reserved'[p] = Total(Held(p)')
                    /\ physical'[p] = InitialStock[p] - Total(Committed(p)')
                    /\ reserved'[p] <= physical'[p]
  BY DEF StockConserved, Held, Committed, Total, UnitsOf, In, Of
<1> DEFINE kept == {d \in Of(p) : SweptHold[d] = "HELD"}
<1>1. physical[p] = InitialStock[p] - Total(Committed(p)) /\ physical' = physical
  BY DEF StockConserved, Committed, CreateCheckout
<1>2. /\ hold' = [SweptHold EXCEPT ![c] = "HELD"]
      /\ reserved' = [SweptReserved EXCEPT ![ProductOf[c]] = @ + Quantity[c]]
      /\ physical[ProductOf[c]] - SweptReserved[ProductOf[c]] >= Quantity[c]
  BY DEF CreateCheckout
<1>3. SweptHold[c] = "NONE"
  BY DEF CreateCheckout, SaleInv, NoHoldBefore, SweptHold, Expired
<1>4. SweptReserved \in [Products -> Nat] /\ SweptHold \in [Checkouts -> {"NONE", "HELD", "COMMITTED", "RELEASED"}]
  BY SweptType DEF CreateCheckout
<1>5. Committed(p)' = Committed(p)
  <2>1. Committed(p)' = {d \in Of(p) : SweptHold[d] = "COMMITTED"}
    BY <1>2, <1>3, <1>4 DEF Committed, In, Of
  <2> QED
    BY <2>1, SweptStock
<1>6. CASE ProductOf[c] = p
  <2>1. Held(p)' = kept \cup {c} /\ kept \cap {c} = {} /\ kept \in SUBSET Checkouts
    BY <1>2, <1>3, <1>4, <1>6 DEF Held, In, Of
  <2>2. Total(Held(p)') = Total(kept) + Quantity[c]
    BY <2>1, TotalUnion, TotalOne
  <2>3. reserved'[p] = SweptReserved[p] + Quantity[c] /\ Quantity[c] \in Nat
    BY <1>2, <1>4, <1>6, ConstantsOK
  <2>4. SweptReserved[p] = Total(kept)
    BY SweptStock
  <2>5. physical[p] - SweptReserved[p] >= Quantity[c] /\ SweptReserved[p] \in Nat
    BY <1>2, <1>4, <1>6
  <2> QED
    BY <1>1, <1>5, <2>2, <2>3, <2>4, <2>5, Counted
<1>7. CASE ProductOf[c] # p
  <2>1. Held(p)' = kept
    BY <1>2, <1>4, <1>7 DEF Held, In, Of
  <2>2. reserved'[p] = SweptReserved[p]
    BY <1>2, <1>4, <1>7
  <2> QED
    BY <1>1, <1>5, <2>1, <2>2, SweptStock
<1> QED
  BY <1>6, <1>7
-------------------------------------------------------------------------------
(***************************************************************************)
(* Every step either moves stock in one of these ways or leaves it alone.  *)
(***************************************************************************)
LEMMA AcceptStock ==
  ASSUME TypeOK, StockConserved, NEW a \in Attempts, NEW s \in Status, NEW at \in Int,
         AcceptStatus(a, s, at)
  PROVE  StockConserved'
<1>1. a[1] \in Checkouts
  BY AttemptParts
<1>2. CASE KeepPending(a[1])
  BY <1>2, StockUntouched DEF KeepPending, stock
<1>3. CASE CommitSale(a[1])
  BY <1>1, <1>3, CommitStock
<1>4. CASE RaiseException(a[1]) \/ CloseVoided(a[1])
  <2>1. ReleaseHold(a[1]) /\ physical' = physical
    BY <1>4 DEF RaiseException, CloseVoided
  <2> QED
    BY <1>1, <2>1, ReleaseStock
<1>5. CASE RecordFailure(a[1])
  <2>1. physical' = physical /\ (ReleaseHold(a[1]) \/ UNCHANGED <<reserved, hold>>)
    BY <1>5 DEF RecordFailure, ledger
  <2> QED
    BY <1>1, <2>1, ReleaseStock, StockUntouched
<1> QED
  BY <1>2, <1>3, <1>4, <1>5 DEF AcceptStatus

LEMMA ApplyStatusStock ==
  ASSUME TypeOK, StockConserved, NEW a \in Attempts, NEW s \in Status, NEW at \in Int,
         ApplyStatus(a, s, at)
  PROVE  StockConserved'
<1>1. CASE UNCHANGED ledger
  BY <1>1, StockUntouched DEF ledger
<1>2. CASE AcceptStatus(a, s, at)
  BY <1>2, AcceptStock
<1> QED
  BY <1>1, <1>2 DEF ApplyStatus, RecordStale

LEMMA NextStock ==
  ASSUME TypeOK, StockConserved, SaleInv, [Next]_vars
  PROVE  StockConserved'
<1>1. 0..MaxNow \subseteq Int
  BY ConstantsOK
<1>2. CASE Client
  <2>1. CASE Sweep
    BY <2>1, SweepStock DEF Sweep
  <2>2. ASSUME NEW c \in Checkouts, CreateCheckout(c) PROVE StockConserved'
    BY <2>2, CreateStock
  <2>3. ASSUME NEW c \in Checkouts, HoldLapses(c) PROVE StockConserved'
    BY <2>3, StockUntouched DEF HoldLapses, stock
  <2>4. ASSUME NEW c \in Checkouts, NEW n \in Numbers, CreateAttempt(c, n) PROVE StockConserved'
    BY <2>4, SweepStock DEF CreateAttempt
  <2> QED
    BY <1>2, <2>1, <2>2, <2>3, <2>4 DEF Client
<1>3. CASE Dispatch
  <2>1. PICK a \in Attempts : \/ FailBeforeSending(a)
                              \/ \E answer \in Answer : AnswerCall(a, answer)
                              \/ RecordAnswer(a)
                              \/ LoseCall(a)
    BY <1>3 DEF Dispatch
  <2>2. CASE call[a] \in Status /\ ApplyStatus(a, call[a], arrived[a])
    BY <2>2, ApplyStatusStock DEF TypeOK
  <2>3. CASE UNCHANGED <<physical, reserved, hold>>
    BY <2>3, StockUntouched
  <2> QED
    BY <2>1, <2>2, <2>3
    DEF FailBeforeSending, AnswerCall, RecordAnswer, LoseCall, CloseDispatch, RecordMismatch,
        ledger, stock
<1>4. CASE Inbox
  <2>1. ASSUME NEW e \in events, ReceiveEvent(e) PROVE StockConserved'
    <3>1. e.attempt \in Attempts /\ e.status \in Status /\ e.at \in Int
      BY DEF TypeOK, EventRecord
    <3> QED
      BY <2>1, <3>1, ApplyStatusStock DEF ReceiveEvent
  <2>2. CASE PurgeReceipts
    BY <2>2, StockUntouched DEF PurgeReceipts, ledger
  <2>3. ASSUME NEW a \in Attempts, ReportMismatch(a) PROVE StockConserved'
    BY <2>3, StockUntouched DEF ReportMismatch, RecordMismatch, stock
  <2> QED
    BY <1>4, <2>1, <2>2, <2>3 DEF Inbox
<1>5. CASE Reconciler
  <2>1. ASSUME NEW a \in Attempts, NEW s \in Status, NEW at \in 0..MaxNow, ApplyLookUp(a, s, at)
        PROVE  StockConserved'
    BY <1>1, <2>1, ApplyStatusStock DEF ApplyLookUp
  <2>2. ASSUME NEW a \in Attempts,
               LookUp(a) \/ AnswerLookUp(a) \/ LoseLookUp(a) \/ MarkManualReview(a)
        PROVE  StockConserved'
    BY <2>2, StockUntouched DEF LookUp, AnswerLookUp, LoseLookUp, MarkManualReview, ledger
  <2>3. ASSUME NEW a \in Attempts, RecoverDispatch(a) PROVE StockConserved'
    BY <2>3, StockUntouched DEF RecoverDispatch, CloseDispatch, ledger, stock
  <2> QED
    BY <1>5, <2>1, <2>2, <2>3 DEF Reconciler
<1>6. CASE Provider \/ Tick \/ UNCHANGED vars
  BY <1>6, StockUntouched DEF Provider, ProviderCreates, ProviderChanges, ProviderRefuses,
     SignStatus, Tick, vars, ledger
<1> QED
  BY <1>2, <1>3, <1>4, <1>5, <1>6 DEF Next

LEMMA InitStock == Init => StockConserved
<1> SUFFICES ASSUME Init, NEW p \in Products
             PROVE  /\ reserved[p] = Total(In("HELD") \cap Of(p))
                    /\ physical[p] = InitialStock[p] - Total(In("COMMITTED") \cap Of(p))
                    /\ reserved[p] <= physical[p]
  BY DEF StockConserved
<1>1. In("HELD") \cap Of(p) = {} /\ In("COMMITTED") \cap Of(p) = {}
  BY DEF Init, In, Of
<1>2. UnitsOf({}) = {}
  BY DEF UnitsOf
<1>3. Total({}) = 0
  BY <1>2, FS_EmptySet DEF Total
<1>4. InitialStock[p] \in Nat /\ physical[p] = InitialStock[p] /\ reserved[p] = 0
  BY ConstantsOK DEF Init
<1> QED
  BY <1>1, <1>3, <1>4

(***************************************************************************)
(* Stock is conserved: for any products, stock, quantities and number of   *)
(* checkouts, what a product row calls reserved is exactly what held       *)
(* reservations ask for, what left the shelf is exactly what was           *)
(* committed, and no product is promised beyond its stock.                 *)
(***************************************************************************)
THEOREM StockIsConserved == Spec => []StockConserved
<1>1. Init => StockConserved
  BY InitStock
<1>2. TypeOK /\ SaleInv /\ StockConserved /\ [Next]_vars => StockConserved'
  BY NextStock
<1> QED
  BY <1>1, <1>2, SaleInvariant, PTL DEF Spec
-------------------------------------------------------------------------------
(***************************************************************************)
(* The payment core implements HoldLedger.                                 *)
(***************************************************************************)
Paying(c) == checkout[c] \in InProgress

\* The counters of the ledger are those of StockConserved.
LEMMA SameBalance ==
  /\ StockConserved => Ledger!Balanced(hold, physical, reserved)
  /\ StockConserved' => Ledger!Balanced(hold', physical', reserved')
<1>1. ASSUME NEW p \in Products
      PROVE  /\ Ledger!Holding(hold, p) = In("HELD") \cap Of(p)
             /\ Ledger!Committed(hold, p) = In("COMMITTED") \cap Of(p)
             /\ Ledger!Holding(hold', p) = In("HELD")' \cap Of(p)
             /\ Ledger!Committed(hold', p) = In("COMMITTED")' \cap Of(p)
  BY DEF Ledger!Holding, Ledger!Committed, In, Of
<1>. QED
  BY <1>1 DEF StockConserved, Ledger!Balanced, Total, UnitsOf, In, Of

\* A step that sweeps S and does one thing to the checkout c, or nothing to those left.
LEMMA LedgerStep ==
  ASSUME TypeOK', StockConserved', NEW S \in SUBSET Checkouts, NEW c \in Checkouts,
         \A d \in S : /\ hold[d] = "HELD" /\ ~Paying(d)
                      /\ hold'[d] = "RELEASED" /\ ~Paying(d)',
         \A d \in Checkouts \ (S \cup {c}) : hold'[d] = hold[d] /\ (Paying(d)' <=> Paying(d)),
         c \notin S => \/ hold[c] = "NONE" /\ hold'[c] = "HELD" /\ ~Paying(c)'
                       \/ hold[c] = "HELD" /\ ~Paying(c) /\ hold'[c] = "HELD" /\ Paying(c)'
                       \/ Paying(c) /\ ~Paying(c)' /\ hold'[c] = hold[c]
                       \/ hold[c] = "HELD" /\ ~Paying(c)' /\ hold'[c] \in {"RELEASED", "COMMITTED"}
  PROVE  Ledger!Next
<1>1. /\ Ledger!Balanced(hold', physical', reserved')
      /\ hold' \in [Checkouts -> {"NONE", "HELD", "RELEASED", "COMMITTED"}]
  BY SameBalance DEF TypeOK, LedgerTypeOK
<1>2. Ledger!Transaction(S, c)
  <2>1. Ledger!Sweepable(S)
    BY DEF Paying, Ledger!Sweepable
  <2>2. \A d \in S : hold'[d] = "RELEASED" /\ ~[e \in Checkouts |-> checkout[e] \in InProgress]'[d]
    BY DEF Paying
  <2>3. c \notin S => Ledger!Reserve(c) \/ Ledger!Open(c) \/ Ledger!Close(c) \/ Ledger!Settle(c)
    BY DEF Paying, Ledger!Reserve, Ledger!Open, Ledger!Close, Ledger!Settle
  <2>4. \A d \in Checkouts \ (S \cup {c}) :
          /\ hold'[d] = hold[d]
          /\ [e \in Checkouts |-> checkout[e] \in InProgress]'[d]
             = [e \in Checkouts |-> checkout[e] \in InProgress][d]
    BY DEF Paying
  <2>5. [e \in Checkouts |-> checkout[e] \in InProgress]' \in [Checkouts -> BOOLEAN]
    OBVIOUS
  <2>. QED
    BY <1>1, <2>1, <2>2, <2>3, <2>4, <2>5, Zenon DEF Ledger!Transaction
<1>. QED
  BY <1>2 DEF Ledger!Next

\* A step of one checkout, without a sweep.
LEMMA OwnStep ==
  ASSUME TypeOK', StockConserved', NEW c \in Checkouts,
         \A d \in Checkouts : d # c => hold'[d] = hold[d] /\ (Paying(d)' <=> Paying(d)),
         \/ Paying(c) /\ ~Paying(c)' /\ hold'[c] = hold[c]
         \/ hold[c] = "HELD" /\ ~Paying(c)' /\ hold'[c] \in {"RELEASED", "COMMITTED"}
  PROVE  Ledger!Next
<1>. DEFINE S == {}
<1>1. S \in SUBSET Checkouts /\ c \notin S
  OBVIOUS
<1>2. \A d \in Checkouts \ (S \cup {c}) : hold'[d] = hold[d] /\ (Paying(d)' <=> Paying(d))
  OBVIOUS
<1>3. \A d \in S : /\ hold[d] = "HELD" /\ ~Paying(d)
                  /\ hold'[d] = "RELEASED" /\ ~Paying(d)'
  OBVIOUS
<1>. HIDE DEF S
<1>. QED
  BY <1>1, <1>2, <1>3, LedgerStep

LEMMA LedgerRests ==
  ASSUME UNCHANGED <<physical, reserved, hold>>,
         \A c \in Checkouts : Paying(c)' <=> Paying(c)
  PROVE  UNCHANGED Ledger!ledgerVars
BY DEF Paying, Ledger!ledgerVars
-------------------------------------------------------------------------------
\* The commands of clients, with their sweep.
LEMMA ClientLedger ==
  ASSUME TypeOK, SaleInv, Client, TypeOK', StockConserved'
  PROVE  Ledger!Next \/ UNCHANGED Ledger!ledgerVars
<1>1. \A d \in Expired : hold[d] = "HELD" /\ ~Paying(d) /\ SweptHold[d] = "RELEASED"
                         /\ SweptCheckout[d] \notin InProgress
  BY DEF Expired, Paying, Sweepable, InProgress, SweptHold, SweptCheckout
<1>2. \A d \in Checkouts \ Expired : SweptHold[d] = hold[d] /\ SweptCheckout[d] = checkout[d]
  BY DEF SweptHold, SweptCheckout
<1>3. Expired \in SUBSET Checkouts
  BY DEF Expired
<1>4. CASE Sweep
  <2>1. PICK c \in Checkouts : c \in Expired
    BY <1>3, <1>4 DEF Sweep
  <2>2. hold' = SweptHold /\ checkout' = SweptCheckout
    BY <1>4 DEF Sweep
  <2>. QED
    BY <1>1, <1>2, <1>3, <2>1, <2>2, LedgerStep DEF Paying
<1>5. ASSUME NEW c \in Checkouts, CreateCheckout(c) PROVE Ledger!Next
  <2>1. checkout[c] = "NONE" /\ hold[c] = "NONE" /\ c \notin Expired
    BY <1>5 DEF CreateCheckout, SaleInv, NoHoldBefore, Expired
  <2>2. /\ hold' = [SweptHold EXCEPT ![c] = "HELD"]
        /\ checkout' = [SweptCheckout EXCEPT ![c] = "RESERVED"]
    BY <1>5 DEF CreateCheckout
  <2>3. /\ hold'[c] = "HELD" /\ checkout'[c] = "RESERVED"
        /\ \A d \in Checkouts \ {c} : hold'[d] = SweptHold[d] /\ checkout'[d] = SweptCheckout[d]
    BY <2>2 DEF SweptHold, SweptCheckout
  <2>4. \A d \in Checkouts \ (Expired \cup {c}) :
          hold'[d] = hold[d] /\ (Paying(d)' <=> Paying(d))
    BY <1>2, <2>3 DEF Paying
  <2>5. \A d \in Expired : hold'[d] = "RELEASED" /\ ~Paying(d)'
    BY <1>1, <1>3, <2>1, <2>3 DEF Paying
  <2>. QED
    BY <1>1, <1>3, <2>1, <2>3, <2>4, <2>5, LedgerStep DEF Paying, InProgress
<1>6. ASSUME NEW c \in Checkouts, NEW n \in Numbers, CreateAttempt(c, n) PROVE Ledger!Next
  <2>1. hold[c] = "HELD" /\ c \notin Expired /\ checkout[c] \in Sweepable
    BY <1>2, <1>6 DEF CreateAttempt, Eligible, Expired
  <2>2. /\ hold' = SweptHold
        /\ checkout' = [SweptCheckout EXCEPT ![c] = "PAYMENT_PENDING"]
    BY <1>6 DEF CreateAttempt
  <2>3. /\ hold'[c] = "HELD" /\ checkout'[c] = "PAYMENT_PENDING"
        /\ \A d \in Checkouts \ {c} : hold'[d] = SweptHold[d] /\ checkout'[d] = SweptCheckout[d]
    BY <1>2, <2>1, <2>2 DEF SweptCheckout
  <2>4. \A d \in Checkouts \ (Expired \cup {c}) :
          hold'[d] = hold[d] /\ (Paying(d)' <=> Paying(d))
    BY <1>2, <2>3 DEF Paying
  <2>5. \A d \in Expired : hold'[d] = "RELEASED" /\ ~Paying(d)'
    BY <1>1, <1>3, <2>1, <2>3 DEF Paying
  <2>6. ~Paying(c) /\ Paying(c)'
    BY <2>1, <2>3 DEF Paying, InProgress, Sweepable
  <2>. QED
    BY <1>1, <1>3, <2>1, <2>3, <2>4, <2>5, <2>6, LedgerStep
<1>7. ASSUME NEW c \in Checkouts, HoldLapses(c) PROVE UNCHANGED Ledger!ledgerVars
  BY <1>7, LedgerRests DEF HoldLapses, stock, Paying
<1>. QED
  BY <1>4, <1>5, <1>6, <1>7 DEF Client

\* An accepted report: it settles a held checkout, ends its payment, or does nothing to it.
LEMMA AcceptLedger ==
  ASSUME TypeOK, SaleInv, Evidence, Orderly, TypeOK', StockConserved',
         NEW a \in Attempts, NEW s \in Status, NEW at \in Int,
         tx[a] \in Status, ~Repeats(a, s), ~Contradicts(a, s), AcceptStatus(a, s, at)
  PROVE  Ledger!Next \/ UNCHANGED Ledger!ledgerVars
<1>. DEFINE c == a[1]
<1>1. c \in Checkouts /\ a[2] \in Numbers /\ a = <<c, a[2]>>
  BY AttemptParts
<1>2. \A d \in Checkouts : d # c => checkout'[d] = checkout[d] /\ hold'[d] = hold[d]
  BY AcceptFrame
<1>3. Progress(c) /\ (Paying(c) => hold[c] = "HELD")
  BY <1>1 DEF Orderly, Progress, Paying, InProgress
<1>4. ASSUME \/ Paying(c) /\ ~Paying(c)' /\ hold'[c] = hold[c]
             \/ hold[c] = "HELD" /\ ~Paying(c)' /\ hold'[c] \in {"RELEASED", "COMMITTED"}
      PROVE  Ledger!Next
  BY <1>1, <1>2, <1>4, OwnStep DEF Paying
<1>5. ASSUME UNCHANGED <<physical, reserved, hold>>, Paying(c)' <=> Paying(c)
      PROVE  UNCHANGED Ledger!ledgerVars
  BY <1>2, <1>5, LedgerRests DEF Paying
<1>6. CASE s = "PENDING" /\ KeepPending(c)
  <2>1. checkout[c] \notin {"NONE", "RESERVED", "PAYMENT_FAILED"}
    BY <1>1, <1>3, <1>6, AcceptedFrom DEF Progress, Open, Unresolved
  <2>2. checkout[c] \in CheckoutState
    BY <1>1 DEF TypeOK, LedgerTypeOK
  <2>3. /\ UNCHANGED <<physical, reserved, hold>>
        /\ checkout'[c] = IF checkout[c] \in {"EXPIRED", "CANCELLED", "PAID", "FULFILLMENT_EXCEPTION"}
                          THEN checkout[c] ELSE "PAYMENT_PENDING"
    BY <1>1, <1>6 DEF KeepPending, stock, TypeOK, LedgerTypeOK
  <2>4. Paying(c)' <=> Paying(c)
    BY <2>1, <2>2, <2>3 DEF Paying, InProgress, CheckoutState
  <2>. QED
    BY <1>5, <2>3, <2>4
<1>7. CASE CommitSale(c)
  BY <1>1, <1>4, <1>7 DEF CommitSale, Committable, Paying, InProgress, TypeOK, LedgerTypeOK
<1>8. CASE RaiseException(c) \/ CloseVoided(c)
  <2>1. ReleaseHold(c) /\ physical' = physical
    BY <1>8 DEF RaiseException, CloseVoided
  <2>2. checkout'[c] \in {"PAID", "FULFILLMENT_EXCEPTION", "CANCELLED"}
    BY <1>1, <1>8 DEF RaiseException, CloseVoided, TypeOK, LedgerTypeOK
  <2>3. ~Paying(c)'
    BY <2>2 DEF Paying, InProgress
  <2>4. CASE hold[c] = "HELD"
    BY <1>1, <1>4, <2>1, <2>3, <2>4 DEF ReleaseHold, TypeOK, LedgerTypeOK
  <2>5. CASE hold[c] # "HELD"
    BY <1>3, <1>5, <2>1, <2>3, <2>5 DEF ReleaseHold
  <2>. QED
    BY <2>4, <2>5
<1>9. CASE RecordFailure(c)
  <2>1. CASE hold[c] = "HELD" /\ checkout[c] \notin {"PAID", "CANCELLED"}
    <3>1. /\ checkout'[c] = "PAYMENT_FAILED" /\ physical' = physical
          /\ ReleaseHold(c) \/ UNCHANGED <<reserved, hold>>
      BY <1>1, <1>9, <2>1 DEF RecordFailure, TypeOK, LedgerTypeOK
    <3>2. ~Paying(c)'
      BY <3>1 DEF Paying, InProgress
    <3>3. CASE ReleaseHold(c)
      BY <1>1, <1>4, <2>1, <3>2, <3>3 DEF ReleaseHold, TypeOK, LedgerTypeOK
    <3>4. CASE UNCHANGED <<reserved, hold>>
      BY <1>4, <1>5, <3>1, <3>2, <3>4
    <3>. QED
      BY <3>1, <3>3, <3>4
  <2>2. CASE ~(hold[c] = "HELD" /\ checkout[c] \notin {"PAID", "CANCELLED"})
    BY <1>5, <1>9, <2>2 DEF RecordFailure, ledger, Paying
  <2>. QED
    BY <2>1, <2>2
<1>. QED
  BY <1>6, <1>7, <1>8, <1>9 DEF AcceptStatus

\* A mismatch keeps a payment in progress, and the end of a dispatch keeps or ends it.
LEMMA OtherWritesLedger ==
  ASSUME TypeOK, TypeOK', StockConserved', NEW a \in Attempts,
         \/ RecordMismatch(a)
         \/ \E s \in Local \cup {"UNKNOWN_OUTCOME"} :
              CloseDispatch(a, s, IF s \in Local THEN "RESERVED" ELSE "UNKNOWN_OUTCOME")
  PROVE  Ledger!Next \/ UNCHANGED Ledger!ledgerVars
<1>. DEFINE c == a[1]
<1>1. c \in Checkouts
  BY AttemptParts
<1>2. /\ UNCHANGED <<physical, reserved, hold>>
      /\ \A d \in Checkouts : d # c => checkout'[d] = checkout[d]
      /\ checkout'[c] = checkout[c] \/ (checkout[c] = "PAYMENT_PENDING"
                                        /\ checkout'[c] \in {"RESERVED", "UNKNOWN_OUTCOME"})
  BY <1>1 DEF RecordMismatch, CloseDispatch, ledger, stock, TypeOK, LedgerTypeOK
<1>3. CASE Paying(c)' <=> Paying(c)
  BY <1>2, <1>3, LedgerRests DEF Paying
<1>4. CASE Paying(c) /\ ~Paying(c)'
  <2>1. \A d \in Checkouts : d # c => hold'[d] = hold[d] /\ (Paying(d)' <=> Paying(d))
    BY <1>2 DEF Paying
  <2>. QED
    BY <1>1, <1>2, <1>4, <2>1, OwnStep
<1>. QED
  BY <1>2, <1>3, <1>4 DEF Paying, InProgress

LEMMA LedgerNext ==
  TypeOK /\ SaleInv /\ Evidence /\ Orderly /\ StockConserved /\ [Next]_vars
    => Ledger!Next \/ UNCHANGED Ledger!ledgerVars
<1>. SUFFICES ASSUME TypeOK, SaleInv, Evidence, Orderly, StockConserved, [Next]_vars
              PROVE  Ledger!Next \/ UNCHANGED Ledger!ledgerVars
  OBVIOUS
<1>1. TypeOK' /\ StockConserved'
  BY NextType, NextStock
<1>2. CASE Client
  BY <1>1, <1>2, ClientLedger
<1>3. CASE UNCHANGED ledger
  BY <1>3, LedgerRests DEF ledger, Paying
<1>4. ASSUME NEW a \in Attempts, Writes(a) PROVE Ledger!Next \/ UNCHANGED Ledger!ledgerVars
  BY <1>1, <1>3, <1>4, AcceptLedger, OtherWritesLedger DEF Writes
<1>. QED
  BY <1>2, <1>3, <1>4, Steps DEF Silent

(***************************************************************************)
(* The payment core implements HoldLedger: whatever answers, events,       *)
(* lookups and crashes interleave, for any checkouts, quantities and       *)
(* attempts, each step is one of its transactions or changes nothing of    *)
(* holds, payments in progress and stock (releaseExpired, createAttempt,   *)
(* applyTransactionInTransaction, CheckoutsService.create).                *)
(***************************************************************************)
THEOREM ImplementsLedger == Spec => ImplementsHoldLedger
<1>1. Init => Ledger!Promised
  BY InitType, InitStock, SameBalance DEF Ledger!Promised, TypeOK, LedgerTypeOK
<1>2. /\ TypeOK /\ SaleInv /\ Evidence /\ Orderly /\ StockConserved
      /\ [Next]_vars
      => [Ledger!Next]_(Ledger!ledgerVars)
  BY LedgerNext
<1>. QED
  BY <1>1, <1>2, OrderAlways, StockIsConserved, PTL DEF Spec, ImplementsHoldLedger, Ledger!Spec
===============================================================================
