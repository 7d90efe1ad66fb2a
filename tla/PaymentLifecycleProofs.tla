------------------------ MODULE PaymentLifecycleProofs ------------------------
(***************************************************************************)
(* Theorems about PaymentLifecycle, for every value of its constants: the  *)
(* state keeps its type, a sale stays consistent, a hold is settled once   *)
(* and an approval is final.                                               *)
(***************************************************************************)
EXTENDS PaymentLifecycle, FiniteSetTheorems, TLAPS

(***************************************************************************)
(* A set of checkouts asks for a number of units: Total is defined.        *)
(***************************************************************************)
LEMMA UnitsFinite ==
  ASSUME NEW S \in SUBSET Checkouts
  PROVE  /\ IsFiniteSet(UnitsOf(S))
         /\ Total(S) \in Nat
<1> DEFINE unit == [c \in S |-> {c} \X (1..Quantity[c])]
           T == {{c} \X (1..Quantity[c]) : c \in S}
<1>1. IsFiniteSet(S)
  BY ConstantsOK, FS_Subset
<1>2. unit \in Surjection(S, T)
  BY DEF Surjection
<1>3. IsFiniteSet(T)
  BY <1>1, <1>2, FS_Surjection
<1>4. ASSUME NEW U \in T PROVE IsFiniteSet(U)
  <2>1. PICK c \in S : U = {c} \X (1..Quantity[c])
    OBVIOUS
  <2>2. Quantity[c] \in Int
    BY ConstantsOK
  <2>3. IsFiniteSet({c})
    BY FS_Singleton
  <2>4. IsFiniteSet(1..Quantity[c])
    BY <2>2, FS_Interval
  <2> QED
    BY <2>1, <2>3, <2>4, FS_Product
<1>5. IsFiniteSet(UnitsOf(S))
  BY <1>3, <1>4, FS_UNION DEF UnitsOf
<1> QED
  BY <1>5, FS_CardinalityType DEF Total

LEMMA SweptType ==
  ASSUME TypeOK, SweepSucceeds
  PROVE  /\ SweptReserved \in [Products -> Nat]
         /\ SweptHold \in [Checkouts -> {"NONE", "HELD", "COMMITTED", "RELEASED"}]
         /\ SweptCheckout \in [Checkouts -> CheckoutState]
<1>1. ASSUME NEW p \in Products PROVE reserved[p] - Total(Expired \cap Of(p)) \in Nat
  <2>1. Total(Expired \cap Of(p)) \in Nat
    BY UnitsFinite DEF Of, Expired
  <2>2. reserved[p] \in Nat /\ reserved[p] >= Total(Expired \cap Of(p))
    BY DEF TypeOK, LedgerTypeOK, SweepSucceeds
  <2> QED
    BY <2>1, <2>2
<1> QED
  BY <1>1 DEF SweptReserved, SweptHold, SweptCheckout, TypeOK, LedgerTypeOK, CheckoutState
-------------------------------------------------------------------------------
(***************************************************************************)
(* The operators that settle a checkout keep the types of the ledger.      *)
(***************************************************************************)
AttemptsTypeOK == att \in [Attempts -> AttemptRecord]

LEMMA AttemptParts ==
  ASSUME NEW a \in Attempts
  PROVE  /\ a[1] \in Checkouts /\ a[2] \in Numbers
         /\ a = <<a[1], a[2]>>
  BY DEF Attempts

LEMMA ReleaseHoldType ==
  ASSUME LedgerTypeOK, NEW c \in Checkouts, ReleaseHold(c)
  PROVE  /\ reserved' \in [Products -> Nat]
         /\ hold' \in [Checkouts -> {"NONE", "HELD", "COMMITTED", "RELEASED"}]
<1>1. ProductOf[c] \in Products /\ Quantity[c] \in Nat
  BY ConstantsOK
<1>2. CASE hold[c] = "HELD"
  BY <1>1, <1>2 DEF ReleaseHold, LedgerTypeOK
<1>3. CASE hold[c] # "HELD"
  BY <1>3 DEF ReleaseHold, LedgerTypeOK
<1> QED
  BY <1>2, <1>3

LEMMA CommitSaleType ==
  ASSUME LedgerTypeOK, NEW c \in Checkouts, CommitSale(c)
  PROVE  LedgerTypeOK'
<1>1. ProductOf[c] \in Products /\ Quantity[c] \in Nat
  BY ConstantsOK
<1> QED
  BY <1>1 DEF CommitSale, LedgerTypeOK, CheckoutState

LEMMA RaiseExceptionType ==
  ASSUME LedgerTypeOK, NEW c \in Checkouts, RaiseException(c)
  PROVE  LedgerTypeOK'
<1>1. ReleaseHold(c)
  BY DEF RaiseException
<1> QED
  BY <1>1, ReleaseHoldType DEF RaiseException, LedgerTypeOK, CheckoutState

LEMMA RecordFailureType ==
  ASSUME LedgerTypeOK, NEW c \in Checkouts, RecordFailure(c)
  PROVE  LedgerTypeOK'
<1>1. CASE ~(hold[c] = "HELD" /\ checkout[c] \notin {"PAID", "CANCELLED"})
  BY <1>1 DEF RecordFailure, LedgerTypeOK, ledger
<1>2. CASE hold[c] = "HELD" /\ checkout[c] \notin {"PAID", "CANCELLED"}
  <2>1. checkout' \in [Checkouts -> CheckoutState]
    BY <1>2 DEF RecordFailure, LedgerTypeOK, CheckoutState
  <2>2. CASE ReleaseHold(c) /\ UNCHANGED lapsed
    BY <1>2, <2>1, <2>2, ReleaseHoldType DEF RecordFailure, LedgerTypeOK
  <2>3. CASE lapsed' = [lapsed EXCEPT ![c] = FALSE] /\ UNCHANGED <<reserved, hold>>
    BY <1>2, <2>1, <2>3 DEF RecordFailure, LedgerTypeOK
  <2> QED
    BY <1>2, <2>2, <2>3 DEF RecordFailure
<1> QED
  BY <1>1, <1>2

LEMMA CloseVoidedType ==
  ASSUME LedgerTypeOK, NEW c \in Checkouts, CloseVoided(c)
  PROVE  LedgerTypeOK'
<1>1. ReleaseHold(c)
  BY DEF CloseVoided
<1>2. checkout' \in [Checkouts -> CheckoutState]
  BY DEF CloseVoided, LedgerTypeOK, CheckoutState
<1> QED
  BY <1>1, <1>2, ReleaseHoldType DEF CloseVoided, LedgerTypeOK

LEMMA KeepPendingType ==
  ASSUME LedgerTypeOK, NEW c \in Checkouts, KeepPending(c)
  PROVE  LedgerTypeOK'
<1>1. checkout' \in [Checkouts -> CheckoutState]
  BY DEF KeepPending, LedgerTypeOK, CheckoutState
<1> QED
  BY <1>1 DEF KeepPending, LedgerTypeOK, stock

(***************************************************************************)
(* One provider status, whatever becomes of it, keeps the types.           *)
(***************************************************************************)
LEMMA RecordStaleType ==
  ASSUME LedgerTypeOK, AttemptsTypeOK, NEW a \in Attempts, NEW conflict \in BOOLEAN,
         RecordStale(a, conflict)
  PROVE  LedgerTypeOK' /\ AttemptsTypeOK'
<1>1. AttemptsTypeOK'
  BY DEF RecordStale, AttemptsTypeOK, AttemptRecord
<1> QED
  BY <1>1 DEF RecordStale, LedgerTypeOK, ledger

LEMMA AcceptStatusType ==
  ASSUME LedgerTypeOK, AttemptsTypeOK, NEW a \in Attempts, NEW s \in Status,
         NEW at \in Int, AcceptStatus(a, s, at)
  PROVE  LedgerTypeOK' /\ AttemptsTypeOK'
<1>1. AttemptsTypeOK'
  BY DEF AcceptStatus, AttemptsTypeOK, AttemptRecord, AttemptState, Status, Chargeable,
         Terminal, Unresolved
<1>2. a[1] \in Checkouts
  BY AttemptParts
<1>3. \/ KeepPending(a[1]) \/ CommitSale(a[1]) \/ RaiseException(a[1])
      \/ RecordFailure(a[1]) \/ CloseVoided(a[1])
  BY DEF AcceptStatus
<1> QED
  BY <1>1, <1>2, <1>3, KeepPendingType, CommitSaleType, RaiseExceptionType,
     RecordFailureType, CloseVoidedType

LEMMA ApplyStatusType ==
  ASSUME LedgerTypeOK, AttemptsTypeOK, NEW a \in Attempts, NEW s \in Status,
         NEW at \in Int, ApplyStatus(a, s, at)
  PROVE  LedgerTypeOK' /\ AttemptsTypeOK'
<1>1. CASE RecordStale(a, att[a].state \in Terminal /\ att[a].providerStatus # s)
  BY <1>1, RecordStaleType
<1>2. CASE RecordStale(a, TRUE)
  BY <1>2, RecordStaleType
<1>3. CASE UNCHANGED <<ledger, att>>
  BY <1>3 DEF ledger, LedgerTypeOK, AttemptsTypeOK
<1>4. CASE AcceptStatus(a, s, at)
  BY <1>4, AcceptStatusType
<1> QED
  BY <1>1, <1>2, <1>3, <1>4 DEF ApplyStatus

LEMMA RecordMismatchType ==
  ASSUME LedgerTypeOK, AttemptsTypeOK, NEW a \in Attempts, RecordMismatch(a)
  PROVE  LedgerTypeOK' /\ AttemptsTypeOK'
<1>1. AttemptsTypeOK'
  BY DEF RecordMismatch, AttemptsTypeOK, AttemptRecord, AttemptState, Chargeable, Unresolved
<1>2. checkout' \in [Checkouts -> CheckoutState]
  BY AttemptParts DEF RecordMismatch, LedgerTypeOK, CheckoutState
<1> QED
  BY <1>1, <1>2 DEF RecordMismatch, LedgerTypeOK, stock

LEMMA CloseDispatchType ==
  ASSUME LedgerTypeOK, AttemptsTypeOK, NEW a \in Attempts,
         NEW s \in {"FAILED_LOCAL", "REJECTED_NO_TRANSACTION", "UNKNOWN_OUTCOME"},
         NEW t \in {"RESERVED", "UNKNOWN_OUTCOME"}, CloseDispatch(a, s, t)
  PROVE  LedgerTypeOK' /\ AttemptsTypeOK'
<1>1. CASE ~InFlight(a)
  BY <1>1 DEF CloseDispatch, ledger, LedgerTypeOK, AttemptsTypeOK
<1>2. CASE InFlight(a)
  <2>1. AttemptsTypeOK'
    BY <1>2 DEF CloseDispatch, AttemptsTypeOK, AttemptRecord, AttemptState, Chargeable, Unresolved
  <2>2. checkout' \in [Checkouts -> CheckoutState]
    BY <1>2, AttemptParts DEF CloseDispatch, LedgerTypeOK, CheckoutState
  <2> QED
    BY <1>2, <2>1, <2>2 DEF CloseDispatch, LedgerTypeOK, stock
<1> QED
  BY <1>1, <1>2
-------------------------------------------------------------------------------
(***************************************************************************)
(* Types of the provider's side.                                           *)
(***************************************************************************)
LEMMA EventType ==
  ASSUME TypeOK, NEW a \in Attempts, NEW s \in Status
  PROVE  Event(a, s) \in EventRecord
<1>1. now + Skew \in Int
  BY ConstantsOK DEF TypeOK
<1> QED
  BY <1>1 DEF Event, EventRecord

LEMMA SignStatusType ==
  ASSUME TypeOK, NEW a \in Attempts, NEW s \in Status, SignStatus(a, s)
  PROVE  TypeOK'
<1>1. events' \subseteq EventRecord
  BY EventType DEF SignStatus, TypeOK
<1>2. tx' \in [Attempts -> Status \cup {"NONE", "REQUESTED", "REFUSED", "NEVER"}]
  BY DEF SignStatus, TypeOK
<1> QED
  BY <1>1, <1>2 DEF SignStatus, TypeOK, LedgerTypeOK, ledger, memory

(***************************************************************************)
(* Every action keeps the types.                                           *)
(***************************************************************************)
LEMMA InitType == Init => TypeOK
  BY ConstantsOK
  DEF Init, TypeOK, LedgerTypeOK, CheckoutState, NoAttempt, AttemptRecord, AttemptState

LEMMA ClientType ==
  ASSUME TypeOK, Client
  PROVE  TypeOK'
<1>1. CASE Sweep
  BY <1>1, SweptType DEF Sweep, TypeOK, LedgerTypeOK, memory, provider
<1>2. ASSUME NEW c \in Checkouts, CreateCheckout(c)
      PROVE  TypeOK'
  <2>1. SweptReserved \in [Products -> Nat] /\ ProductOf[c] \in Products /\ Quantity[c] \in Nat
    BY <1>2, SweptType, ConstantsOK DEF CreateCheckout
  <2>2. reserved' \in [Products -> Nat]
    BY <1>2, <2>1 DEF CreateCheckout
  <2>3. hold' \in [Checkouts -> {"NONE", "HELD", "COMMITTED", "RELEASED"}]
    BY <1>2, SweptType DEF CreateCheckout
  <2>4. checkout' \in [Checkouts -> CheckoutState]
    BY <1>2, SweptType DEF CreateCheckout, CheckoutState
  <2> QED
    BY <1>2, <2>2, <2>3, <2>4 DEF CreateCheckout, TypeOK, LedgerTypeOK, memory, provider
<1>3. ASSUME NEW c \in Checkouts, HoldLapses(c)
      PROVE  TypeOK'
  BY <1>3 DEF HoldLapses, TypeOK, LedgerTypeOK, stock, memory, provider
<1>4. ASSUME NEW c \in Checkouts, NEW n \in Numbers, CreateAttempt(c, n)
      PROVE  TypeOK'
  <2>1. <<c, n>> \in Attempts
    BY DEF Attempts
  <2>2. /\ SweptReserved \in [Products -> Nat]
        /\ SweptHold \in [Checkouts -> {"NONE", "HELD", "COMMITTED", "RELEASED"}]
        /\ SweptCheckout \in [Checkouts -> CheckoutState]
    BY <1>4, SweptType DEF CreateAttempt
  <2>3. checkout' \in [Checkouts -> CheckoutState]
    BY <1>4, <2>2 DEF CreateAttempt, CheckoutState
  <2>4. att' \in [Attempts -> AttemptRecord]
    <3>1. NoAttempt \in AttemptRecord
      BY DEF NoAttempt, AttemptRecord, AttemptState
    <3>2. "PENDING" \in AttemptState
      BY DEF AttemptState, Chargeable, Unresolved
    <3> QED
      BY <1>4, <2>1, <3>1, <3>2 DEF CreateAttempt, TypeOK, AttemptRecord
  <2>5. /\ call' \in [Attempts -> Answer \cup {"NONE", "OPEN", "DONE"}]
        /\ tx' \in [Attempts -> Status \cup {"NONE", "REQUESTED", "REFUSED", "NEVER"}]
    BY <1>4, <2>1 DEF CreateAttempt, TypeOK
  <2> QED
    BY <1>4, <2>2, <2>3, <2>4, <2>5 DEF CreateAttempt, TypeOK, LedgerTypeOK
<1> QED
  BY <1>1, <1>2, <1>3, <1>4 DEF Client

LEMMA DispatchType ==
  ASSUME TypeOK, Dispatch
  PROVE  TypeOK'
<1>1. PICK a \in Attempts : \/ FailBeforeSending(a)
                            \/ \E answer \in Answer : AnswerCall(a, answer)
                            \/ RecordAnswer(a)
                            \/ LoseCall(a)
  BY DEF Dispatch
<1>2. CASE FailBeforeSending(a)
  BY <1>2 DEF FailBeforeSending, TypeOK, LedgerTypeOK, ledger, Answer
<1>3. CASE \E answer \in Answer : AnswerCall(a, answer)
  BY <1>3 DEF AnswerCall, TypeOK, LedgerTypeOK, ledger, provider
<1>4. CASE RecordAnswer(a)
  <2>1. arrived[a] \in Int /\ LedgerTypeOK /\ AttemptsTypeOK
    BY DEF TypeOK, AttemptsTypeOK
  <2>2. LedgerTypeOK' /\ AttemptsTypeOK'
    <3>1. CASE CloseDispatch(a, "FAILED_LOCAL", "RESERVED")
      BY <2>1, <3>1, CloseDispatchType
    <3>2. CASE CloseDispatch(a, "REJECTED_NO_TRANSACTION", "RESERVED")
      BY <2>1, <3>2, CloseDispatchType
    <3>3. CASE CloseDispatch(a, "UNKNOWN_OUTCOME", "UNKNOWN_OUTCOME")
      BY <2>1, <3>3, CloseDispatchType
    <3>4. CASE RecordMismatch(a)
      BY <2>1, <3>4, RecordMismatchType
    <3>5. CASE call[a] \in Status /\ ApplyStatus(a, call[a], arrived[a])
      BY <2>1, <3>5, ApplyStatusType
    <3> QED
      BY <1>4, <3>1, <3>2, <3>3, <3>4, <3>5 DEF RecordAnswer
  <2> QED
    BY <1>4, <2>2 DEF RecordAnswer, Forget, TypeOK, AttemptsTypeOK, provider
<1>5. CASE LoseCall(a)
  BY <1>5 DEF LoseCall, Forget, TypeOK, LedgerTypeOK, ledger, provider
<1> QED
  BY <1>1, <1>2, <1>3, <1>4, <1>5

LEMMA InboxType ==
  ASSUME TypeOK, Inbox
  PROVE  TypeOK'
<1>1. now \in Int /\ LedgerTypeOK /\ AttemptsTypeOK
  BY DEF TypeOK, AttemptsTypeOK
<1>2. ASSUME NEW e \in events, ReceiveEvent(e)
      PROVE  TypeOK'
  <2>1. e.attempt \in Attempts /\ e.status \in Status /\ e.at \in Int /\ e \in EventRecord
    BY DEF TypeOK, EventRecord
  <2>2. LedgerTypeOK' /\ AttemptsTypeOK'
    BY <1>1, <1>2, <2>1, ApplyStatusType DEF ReceiveEvent
  <2> QED
    BY <1>2, <2>1, <2>2 DEF ReceiveEvent, TypeOK, AttemptsTypeOK, memory, provider
<1>3. CASE PurgeReceipts
  BY <1>3 DEF PurgeReceipts, TypeOK, LedgerTypeOK, ledger, memory, provider
<1>4. ASSUME NEW a \in Attempts, ReportMismatch(a)
      PROVE  TypeOK'
  <2>1. LedgerTypeOK' /\ AttemptsTypeOK'
    BY <1>1, <1>4, RecordMismatchType DEF ReportMismatch
  <2> QED
    BY <1>4, <2>1 DEF ReportMismatch, TypeOK, AttemptsTypeOK, memory, provider
<1> QED
  BY <1>2, <1>3, <1>4 DEF Inbox

LEMMA ReconcilerType ==
  ASSUME TypeOK, Reconciler
  PROVE  TypeOK'
<1>1. now \in Int /\ LedgerTypeOK /\ AttemptsTypeOK
  BY DEF TypeOK, AttemptsTypeOK
<1>2. ASSUME NEW a \in Attempts, LookUp(a) \/ AnswerLookUp(a)
      PROVE  TypeOK'
  BY <1>2 DEF LookUp, AnswerLookUp, TypeOK, LedgerTypeOK, ledger, provider
<1>3. ASSUME NEW a \in Attempts, NEW s \in Status, NEW at \in 0..MaxNow, ApplyLookUp(a, s, at)
      PROVE  TypeOK'
  <2>1. LedgerTypeOK' /\ AttemptsTypeOK'
    BY <1>1, <1>3, ConstantsOK, ApplyStatusType DEF ApplyLookUp
  <2> QED
    BY <1>3, <2>1 DEF ApplyLookUp, TypeOK, AttemptsTypeOK, provider
<1>4. ASSUME NEW a \in Attempts, LoseLookUp(a)
      PROVE  TypeOK'
  BY <1>4 DEF LoseLookUp, TypeOK, LedgerTypeOK, ledger, provider
<1>5. ASSUME NEW a \in Attempts, RecoverDispatch(a)
      PROVE  TypeOK'
  <2>1. LedgerTypeOK' /\ AttemptsTypeOK'
    BY <1>1, <1>5, CloseDispatchType DEF RecoverDispatch
  <2> QED
    BY <1>5, <2>1 DEF RecoverDispatch, TypeOK, AttemptsTypeOK, memory, provider
<1>6. ASSUME NEW a \in Attempts, MarkManualReview(a)
      PROVE  TypeOK'
  <2>1. AttemptsTypeOK'
    BY <1>1, <1>6 DEF MarkManualReview, AttemptsTypeOK, AttemptRecord
  <2> QED
    BY <1>6, <2>1 DEF MarkManualReview, TypeOK, LedgerTypeOK, AttemptsTypeOK, ledger, memory, provider
<1> QED
  BY <1>2, <1>3, <1>4, <1>5, <1>6 DEF Reconciler

LEMMA ProviderType ==
  ASSUME TypeOK, Provider
  PROVE  TypeOK'
<1>1. PICK a \in Attempts : \/ \E s \in Status : ProviderCreates(a, s) \/ ProviderChanges(a, s)
                            \/ ProviderRefuses(a)
  BY DEF Provider
<1>2. CASE \E s \in Status : ProviderCreates(a, s) \/ ProviderChanges(a, s)
  BY <1>2, SignStatusType DEF ProviderCreates, ProviderChanges
<1>3. CASE ProviderRefuses(a)
  BY <1>3 DEF ProviderRefuses, TypeOK, LedgerTypeOK, ledger, memory
<1> QED
  BY <1>1, <1>2, <1>3

LEMMA NextType ==
  ASSUME TypeOK, [Next]_vars
  PROVE  TypeOK'
<1>1. CASE Next
  <2>1. CASE Tick
    BY <2>1, ConstantsOK DEF Tick, TypeOK, LedgerTypeOK, ledger, memory, provider
  <2> QED
    BY <1>1, <2>1, ClientType, DispatchType, InboxType, ReconcilerType, ProviderType DEF Next
<1>2. CASE UNCHANGED vars
  BY <1>2 DEF vars, ledger, TypeOK, LedgerTypeOK
<1> QED
  BY <1>1, <1>2

(***************************************************************************)
(* The state keeps its type: in particular no product counter ever goes    *)
(* below zero, for any stock, any number of checkouts and any interleaving *)
(* of sweeps, payments and provider reports.                               *)
(***************************************************************************)
THEOREM TypeCorrect == Spec => []TypeOK
<1>1. Init => TypeOK
  BY InitType
<1>2. TypeOK /\ [Next]_vars => TypeOK'
  BY NextType
<1> QED
  BY <1>1, <1>2, PTL DEF Spec
-------------------------------------------------------------------------------
(***************************************************************************)
(* A sale stays consistent, a hold is settled once and an approval is      *)
(* final.  All three follow from one inductive invariant.                  *)
(***************************************************************************)

(***************************************************************************)
(* What SaleIsConsistent needs beside itself to be inductive: an exception *)
(* holds no units (or a later approval could turn it into a sale), and an  *)
(* approved attempt counts as answered (or a mismatch could reopen it);    *)
(* before its checkout exists a hold does not.                             *)
(***************************************************************************)
NoExceptionHolds   == \A c \in Checkouts : checkout[c] = "FULFILLMENT_EXCEPTION" => hold[c] # "HELD"
ApprovedIsAnswered == \A a \in Attempts : att[a].state = "APPROVED" => att[a].responded
NoHoldBefore       == \A c \in Checkouts : checkout[c] = "NONE" => hold[c] = "NONE"

SaleInv ==
  /\ SaleIsConsistent
  /\ NoExceptionHolds
  /\ ApprovedIsAnswered
  /\ NoHoldBefore

Approved(a) == att[a].state = "APPROVED"

(***************************************************************************)
(* A checkout whose rows and approvals a step leaves alone stays           *)
(* consistent.                                                             *)
(***************************************************************************)
LEMMA Untouched ==
  ASSUME NEW c \in Checkouts, ConsistentSale(c),
         checkout'[c] = checkout[c], hold'[c] = hold[c], fulfillment'[c] = fulfillment[c],
         \A n \in Numbers : Approved(<<c, n>>)' <=> Approved(<<c, n>>)
  PROVE  ConsistentSale(c)'
<1>1. AttemptsIn(c, {"APPROVED"})' = AttemptsIn(c, {"APPROVED"})
  BY DEF AttemptsIn, Approved
<1> QED
  BY <1>1 DEF ConsistentSale

(***************************************************************************)
(* A step that changes only how a checkout that is neither paid nor an     *)
(* exception is open or closed, and approves nothing, keeps it consistent. *)
(***************************************************************************)
LEMMA Unsold ==
  ASSUME NEW c \in Checkouts, ConsistentSale(c),
         checkout[c] \notin {"PAID", "FULFILLMENT_EXCEPTION"},
         checkout'[c] \notin {"PAID", "FULFILLMENT_EXCEPTION"},
         hold'[c] # "COMMITTED", fulfillment'[c] = fulfillment[c],
         \A n \in Numbers : Approved(<<c, n>>)' <=> Approved(<<c, n>>)
  PROVE  ConsistentSale(c)'
<1>1. AttemptsIn(c, {"APPROVED"})' = AttemptsIn(c, {"APPROVED"})
  BY DEF AttemptsIn, Approved
<1> QED
  BY <1>1 DEF ConsistentSale

\* What one step may not do to an approval and to a settled hold.
ApprovedStays == \A a \in Attempts : Approved(a) => Approved(a)'
SettledStays  == \A c \in Checkouts : hold[c] \in {"COMMITTED", "RELEASED"} => hold'[c] = hold[c]
FinalStays    == ApprovedStays /\ SettledStays

LEMMA OtherAttempts ==
  ASSUME NEW a \in Attempts, NEW c \in Checkouts, c # a[1], NEW n \in Numbers
  PROVE  <<c, n>> \in Attempts /\ <<c, n>> # a
  BY DEF Attempts
-------------------------------------------------------------------------------
(***************************************************************************)
(* The steps of a payment transaction, for the checkout of attempt a.      *)
(***************************************************************************)

\* What AcceptStatus does to the attempts, and to the checkouts of others.
LEMMA AcceptFrame ==
  ASSUME TypeOK, NEW a \in Attempts, NEW s \in Status, NEW at \in Int,
         AcceptStatus(a, s, at)
  PROVE  /\ att'[a].state = s /\ att'[a].responded
         /\ \A b \in Attempts : b # a => att'[b] = att[b]
         /\ \A c \in Checkouts : c # a[1] =>
              /\ checkout'[c] = checkout[c] /\ hold'[c] = hold[c]
              /\ fulfillment'[c] = fulfillment[c]
<1>1. /\ att'[a].state = s /\ att'[a].responded
      /\ \A b \in Attempts : b # a => att'[b] = att[b]
  BY DEF AcceptStatus, TypeOK, AttemptRecord
<1>2. ASSUME NEW c \in Checkouts, c # a[1]
      PROVE  /\ checkout'[c] = checkout[c] /\ hold'[c] = hold[c]
             /\ fulfillment'[c] = fulfillment[c]
  <2>1. a[1] \in Checkouts
    BY AttemptParts
  <2>2. CASE KeepPending(a[1])
    BY <1>2, <2>1, <2>2 DEF KeepPending, TypeOK, LedgerTypeOK
  <2>3. CASE CommitSale(a[1])
    BY <1>2, <2>1, <2>3 DEF CommitSale, TypeOK, LedgerTypeOK
  <2>4. CASE RaiseException(a[1])
    BY <1>2, <2>1, <2>4 DEF RaiseException, ReleaseHold, TypeOK, LedgerTypeOK
  <2>5. CASE RecordFailure(a[1])
    BY <1>2, <2>1, <2>5 DEF RecordFailure, ReleaseHold, TypeOK, LedgerTypeOK, ledger
  <2>6. CASE CloseVoided(a[1])
    BY <1>2, <2>1, <2>6 DEF CloseVoided, ReleaseHold, TypeOK, LedgerTypeOK
  <2> QED
    BY <2>2, <2>3, <2>4, <2>5, <2>6 DEF AcceptStatus
<1> QED
  BY <1>1, <1>2

\* What an accepted approval does to its own checkout.
LEMMA AcceptApproval ==
  ASSUME TypeOK, SaleInv, NEW a \in Attempts, NEW at \in Int,
         ~Approved(a), AcceptStatus(a, "APPROVED", at)
  PROVE  /\ ConsistentSale(a[1])'
         /\ checkout'[a[1]] # "NONE"
         /\ checkout'[a[1]] = "FULFILLMENT_EXCEPTION" => hold'[a[1]] # "HELD"
<1> DEFINE c == a[1]
<1>1. c \in Checkouts /\ a[2] \in Numbers /\ a = <<c, a[2]>>
  BY AttemptParts
<1>2. ConsistentSale(c) /\ (checkout[c] = "FULFILLMENT_EXCEPTION" => hold[c] # "HELD")
  BY <1>1 DEF SaleInv, SaleIsConsistent, NoExceptionHolds
<1>3. att'[a].state = "APPROVED" /\ \A b \in Attempts : b # a => att'[b] = att[b]
  BY AcceptFrame DEF Status
<1>4. AttemptsIn(c, {"APPROVED"})' = AttemptsIn(c, {"APPROVED"}) \cup {a[2]}
  BY <1>1, <1>3 DEF AttemptsIn, Attempts
<1>5. CommitSale(c) \/ RaiseException(c)
  BY DEF AcceptStatus
<1>6. CASE CommitSale(c)
  <2>1. hold[c] = "HELD"
    BY <1>6 DEF CommitSale, Committable
  <2>2. checkout[c] \notin {"PAID", "FULFILLMENT_EXCEPTION"}
    BY <1>2, <2>1 DEF ConsistentSale
  <2>3. fulfillment[c] = "NONE" /\ AttemptsIn(c, {"APPROVED"}) = {}
    BY <1>1, <1>2, <2>2 DEF ConsistentSale, TypeOK, LedgerTypeOK
  <2>4. checkout'[c] = "PAID" /\ hold'[c] = "COMMITTED" /\ fulfillment'[c] = "READY"
    BY <1>1, <1>6, <2>3 DEF CommitSale, TypeOK, LedgerTypeOK
  <2> QED
    BY <1>4, <2>3, <2>4 DEF ConsistentSale
<1>7. CASE RaiseException(c)
  <2>1. checkout'[c] = "FULFILLMENT_EXCEPTION" /\ fulfillment'[c] = "FULFILLMENT_EXCEPTION"
    BY <1>1, <1>7 DEF RaiseException, TypeOK, LedgerTypeOK
  <2>2. hold'[c] # "HELD"
    BY <1>1, <1>7 DEF RaiseException, ReleaseHold, TypeOK, LedgerTypeOK
  <2> QED
    BY <1>4, <2>1, <2>2 DEF ConsistentSale
<1> QED
  BY <1>5, <1>6, <1>7

\* What any other accepted status does to its own checkout.
LEMMA AcceptOther ==
  ASSUME TypeOK, SaleInv, NEW a \in Attempts, NEW s \in Status \ {"APPROVED"}, NEW at \in Int,
         ~Approved(a), AcceptStatus(a, s, at)
  PROVE  /\ ConsistentSale(a[1])'
         /\ checkout'[a[1]] = "NONE" => hold'[a[1]] = "NONE"
         /\ checkout'[a[1]] = "FULFILLMENT_EXCEPTION" => hold'[a[1]] # "HELD"
<1> DEFINE c == a[1]
<1>1. c \in Checkouts /\ a[2] \in Numbers /\ a = <<c, a[2]>>
  BY AttemptParts
<1>2. /\ ConsistentSale(c)
      /\ checkout[c] = "FULFILLMENT_EXCEPTION" => hold[c] # "HELD"
      /\ checkout[c] = "NONE" => hold[c] = "NONE"
  BY <1>1 DEF SaleInv, SaleIsConsistent, NoExceptionHolds, NoHoldBefore
<1>3. \A n \in Numbers : Approved(<<c, n>>)' <=> Approved(<<c, n>>)
  <2>1. att'[a].state = s /\ \A b \in Attempts : b # a => att'[b] = att[b]
    BY AcceptFrame
  <2> QED
    BY <1>1, <2>1 DEF Approved, Attempts
<1>4. CASE KeepPending(c)
  <2>1. hold' = hold /\ fulfillment' = fulfillment
    BY <1>4 DEF KeepPending
  <2>2. CASE checkout[c] \in {"EXPIRED", "CANCELLED", "PAID", "FULFILLMENT_EXCEPTION"}
    <3>1. checkout'[c] = checkout[c]
      BY <1>1, <1>4, <2>2 DEF KeepPending, TypeOK, LedgerTypeOK
    <3> QED
      BY <1>1, <1>2, <1>3, <2>1, <3>1, Untouched
  <2>3. CASE checkout[c] \notin {"EXPIRED", "CANCELLED", "PAID", "FULFILLMENT_EXCEPTION"}
    <3>1. checkout'[c] = "PAYMENT_PENDING"
      BY <1>1, <1>4, <2>3 DEF KeepPending, TypeOK, LedgerTypeOK
    <3>2. hold[c] # "COMMITTED"
      BY <1>2, <2>3 DEF ConsistentSale
    <3> QED
      BY <1>1, <1>2, <1>3, <2>1, <2>3, <3>1, <3>2, Unsold
  <2> QED
    BY <2>2, <2>3
<1>5. CASE RecordFailure(c)
  <2>1. CASE hold[c] = "HELD" /\ checkout[c] \notin {"PAID", "CANCELLED"}
    <3>1. checkout'[c] = "PAYMENT_FAILED" /\ fulfillment'[c] = fulfillment[c]
      BY <1>1, <1>5, <2>1 DEF RecordFailure, TypeOK, LedgerTypeOK
    <3>2. hold'[c] # "COMMITTED"
      BY <1>1, <1>5, <2>1 DEF RecordFailure, ReleaseHold, TypeOK, LedgerTypeOK
    <3> QED
      BY <1>1, <1>2, <1>3, <2>1, <3>1, <3>2, Unsold
  <2>2. CASE ~(hold[c] = "HELD" /\ checkout[c] \notin {"PAID", "CANCELLED"})
    <3>1. checkout' = checkout /\ hold' = hold /\ fulfillment' = fulfillment
      BY <1>5, <2>2 DEF RecordFailure, ledger
    <3> QED
      BY <1>1, <1>2, <1>3, <3>1, Untouched
  <2> QED
    BY <2>1, <2>2
<1>6. CASE CloseVoided(c)
  <2>1. ReleaseHold(c) /\ fulfillment' = fulfillment
    BY <1>6 DEF CloseVoided
  <2>2. hold'[c] = IF hold[c] = "HELD" THEN "RELEASED" ELSE hold[c]
    BY <1>1, <2>1 DEF ReleaseHold, TypeOK, LedgerTypeOK
  <2>3. CASE checkout[c] \in {"PAID", "FULFILLMENT_EXCEPTION"}
    <3>1. checkout'[c] = checkout[c]
      BY <1>1, <1>6, <2>3 DEF CloseVoided, TypeOK, LedgerTypeOK
    <3>2. hold'[c] = hold[c]
      BY <1>2, <2>2, <2>3 DEF ConsistentSale
    <3> QED
      BY <1>1, <1>2, <1>3, <2>1, <2>3, <3>1, <3>2, Untouched
  <2>4. CASE checkout[c] \notin {"PAID", "FULFILLMENT_EXCEPTION"}
    <3>1. checkout'[c] = "CANCELLED"
      BY <1>1, <1>6, <2>4 DEF CloseVoided, TypeOK, LedgerTypeOK
    <3>2. hold'[c] # "COMMITTED"
      BY <1>2, <2>2, <2>4 DEF ConsistentSale
    <3> QED
      BY <1>1, <1>2, <1>3, <2>1, <2>4, <3>1, <3>2, Unsold
  <2> QED
    BY <2>3, <2>4
<1> QED
  BY <1>4, <1>5, <1>6 DEF AcceptStatus

LEMMA AcceptSale ==
  ASSUME TypeOK, SaleInv, NEW a \in Attempts, NEW s \in Status, NEW at \in Int,
         ~Approved(a), AcceptStatus(a, s, at)
  PROVE  SaleInv'
<1>1. a[1] \in Checkouts
  BY AttemptParts
<1>2. /\ ConsistentSale(a[1])'
      /\ checkout'[a[1]] = "NONE" => hold'[a[1]] = "NONE"
      /\ checkout'[a[1]] = "FULFILLMENT_EXCEPTION" => hold'[a[1]] # "HELD"
  BY AcceptApproval, AcceptOther
<1>3. /\ att'[a].responded
      /\ \A b \in Attempts : b # a => att'[b] = att[b]
  BY AcceptFrame
<1>4. ASSUME NEW c \in Checkouts, c # a[1]
      PROVE  /\ ConsistentSale(c)'
             /\ checkout'[c] = "NONE" => hold'[c] = "NONE"
             /\ checkout'[c] = "FULFILLMENT_EXCEPTION" => hold'[c] # "HELD"
  <2>1. /\ checkout'[c] = checkout[c] /\ hold'[c] = hold[c]
        /\ fulfillment'[c] = fulfillment[c]
    BY <1>4, AcceptFrame
  <2>2. \A n \in Numbers : Approved(<<c, n>>)' <=> Approved(<<c, n>>)
    BY <1>3, <1>4, OtherAttempts DEF Approved
  <2> QED
    BY <2>1, <2>2, Untouched DEF SaleInv, SaleIsConsistent, NoExceptionHolds, NoHoldBefore
<1>5. ApprovedIsAnswered'
  BY <1>3 DEF SaleInv, ApprovedIsAnswered
<1> QED
  BY <1>1, <1>2, <1>4, <1>5 DEF SaleInv, SaleIsConsistent, NoExceptionHolds, NoHoldBefore

(***************************************************************************)
(* Every other step approves nothing, and sells nothing: it leaves a       *)
(* checkout as it is or moves it between states that are not a sale.       *)
(***************************************************************************)
SameApprovals ==
  \A a \in Attempts : /\ Approved(a)' <=> Approved(a)
                      /\ Approved(a) => att'[a].responded

MovesUnsold(c) ==
  \/ checkout'[c] = checkout[c] /\ hold'[c] = hold[c]
  \/ /\ checkout[c] \notin {"PAID", "FULFILLMENT_EXCEPTION"}
     /\ checkout'[c] \notin {"NONE", "PAID", "FULFILLMENT_EXCEPTION"}
     /\ hold'[c] # "COMMITTED"

LEMMA Preserved ==
  ASSUME SaleInv, SameApprovals, fulfillment' = fulfillment,
         \A c \in Checkouts : MovesUnsold(c)
  PROVE  SaleInv'
<1>1. ASSUME NEW c \in Checkouts
      PROVE  /\ ConsistentSale(c)'
             /\ checkout'[c] = "NONE" => hold'[c] = "NONE"
             /\ checkout'[c] = "FULFILLMENT_EXCEPTION" => hold'[c] # "HELD"
  <2>1. \A n \in Numbers : Approved(<<c, n>>)' <=> Approved(<<c, n>>)
    <3>1. ASSUME NEW n \in Numbers PROVE <<c, n>> \in Attempts
      BY DEF Attempts
    <3> QED
      BY <3>1 DEF SameApprovals, Approved
  <2>2. ConsistentSale(c)
    BY DEF SaleInv, SaleIsConsistent
  <2> QED
    BY <2>1, <2>2, Untouched, Unsold
    DEF SaleInv, NoExceptionHolds, NoHoldBefore, MovesUnsold
<1>2. ApprovedIsAnswered'
  BY DEF SaleInv, ApprovedIsAnswered, SameApprovals, Approved
<1> QED
  BY <1>1, <1>2 DEF SaleInv, SaleIsConsistent, NoExceptionHolds, NoHoldBefore

LEMMA OneAttemptChanges ==
  ASSUME TypeOK, SaleInv, NEW a \in Attempts, \A b \in Attempts : b # a => att'[b] = att[b],
         Approved(a)' <=> Approved(a), Approved(a) => att'[a].responded
  PROVE  SameApprovals
  BY DEF SameApprovals, SaleInv, ApprovedIsAnswered, Approved

LEMMA LedgerUntouched ==
  ASSUME checkout' = checkout, hold' = hold
  PROVE  \A c \in Checkouts : MovesUnsold(c)
  BY DEF MovesUnsold

LEMMA RecordStaleSale ==
  ASSUME TypeOK, SaleInv, NEW a \in Attempts, NEW conflict \in BOOLEAN, RecordStale(a, conflict)
  PROVE  SaleInv' /\ SameApprovals
<1>1. /\ \A b \in Attempts : b # a => att'[b] = att[b]
      /\ att'[a].state = att[a].state /\ att'[a].responded = att[a].responded
  BY DEF RecordStale, TypeOK, AttemptRecord
<1>2. SameApprovals
  BY <1>1, OneAttemptChanges DEF Approved, SaleInv, ApprovedIsAnswered
<1> QED
  BY <1>2, Preserved, LedgerUntouched DEF RecordStale, ledger

LEMMA RecordMismatchSale ==
  ASSUME TypeOK, SaleInv, NEW a \in Attempts, RecordMismatch(a)
  PROVE  SaleInv' /\ SameApprovals
<1>1. /\ \A b \in Attempts : b # a => att'[b] = att[b]
      /\ att'[a].state = IF att[a].responded THEN att[a].state ELSE "UNKNOWN_OUTCOME"
      /\ att'[a].responded
  BY DEF RecordMismatch, TypeOK, AttemptRecord
<1>2. SameApprovals
  BY <1>1, OneAttemptChanges DEF Approved, SaleInv, ApprovedIsAnswered
<1>3. ASSUME NEW c \in Checkouts PROVE MovesUnsold(c)
  <2>1. \/ checkout'[c] = checkout[c]
        \/ checkout[c] = "PAYMENT_PENDING" /\ checkout'[c] = "UNKNOWN_OUTCOME"
    BY AttemptParts DEF RecordMismatch, TypeOK, LedgerTypeOK
  <2>2. hold' = hold
    BY DEF RecordMismatch
  <2> QED
    BY <2>1, <2>2 DEF MovesUnsold, SaleInv, SaleIsConsistent, ConsistentSale
<1> QED
  BY <1>2, <1>3, Preserved DEF RecordMismatch

LEMMA CloseDispatchSale ==
  ASSUME TypeOK, SaleInv, NEW a \in Attempts,
         NEW s \in {"FAILED_LOCAL", "REJECTED_NO_TRANSACTION", "UNKNOWN_OUTCOME"},
         NEW t \in {"RESERVED", "UNKNOWN_OUTCOME"}, CloseDispatch(a, s, t)
  PROVE  SaleInv' /\ SameApprovals
<1>1. CASE ~InFlight(a)
  <2>1. att' = att /\ checkout' = checkout /\ hold' = hold /\ fulfillment' = fulfillment
    BY <1>1 DEF CloseDispatch, ledger
  <2>2. SameApprovals
    BY <2>1 DEF SameApprovals, Approved, SaleInv, ApprovedIsAnswered
  <2> QED
    BY <2>1, <2>2, Preserved, LedgerUntouched
<1>2. CASE InFlight(a)
  <2>1. /\ \A b \in Attempts : b # a => att'[b] = att[b]
        /\ att[a].state = "PENDING" /\ att'[a].state = s
    BY <1>2 DEF CloseDispatch, InFlight, TypeOK, AttemptRecord
  <2>2. SameApprovals
    BY <2>1, OneAttemptChanges DEF Approved
  <2>3. ASSUME NEW c \in Checkouts PROVE MovesUnsold(c)
    <3>1. \/ checkout'[c] = checkout[c]
          \/ checkout[c] = "PAYMENT_PENDING" /\ checkout'[c] = t
      BY <1>2, AttemptParts DEF CloseDispatch, TypeOK, LedgerTypeOK
    <3>2. hold' = hold
      BY <1>2 DEF CloseDispatch
    <3> QED
      BY <3>1, <3>2 DEF MovesUnsold, SaleInv, SaleIsConsistent, ConsistentSale
  <2> QED
    BY <1>2, <2>2, <2>3, Preserved DEF CloseDispatch
<1> QED
  BY <1>1, <1>2

(***************************************************************************)
(* One provider status, whatever becomes of it.                            *)
(***************************************************************************)
LEMMA AcceptFinal ==
  ASSUME TypeOK, NEW a \in Attempts, NEW s \in Status, NEW at \in Int,
         ~Approved(a), AcceptStatus(a, s, at)
  PROVE  FinalStays
<1>1. ApprovedStays
  BY AcceptFrame DEF ApprovedStays, Approved
<1>2. ASSUME NEW c \in Checkouts, hold[c] \in {"COMMITTED", "RELEASED"}
      PROVE  hold'[c] = hold[c]
  <2>1. a[1] \in Checkouts
    BY AttemptParts
  <2>2. CASE c # a[1]
    BY <2>2, AcceptFrame
  <2>3. CASE c = a[1]
    <3>1. ~CommitSale(c)
      BY <1>2 DEF CommitSale, Committable
    <3>2. CASE KeepPending(c) \/ RecordFailure(c)
      BY <1>2, <3>2 DEF KeepPending, RecordFailure, ledger
    <3>3. CASE RaiseException(c) \/ CloseVoided(c)
      BY <1>2, <3>3 DEF RaiseException, CloseVoided, ReleaseHold
    <3> QED
      BY <2>3, <3>1, <3>2, <3>3 DEF AcceptStatus
  <2> QED
    BY <2>2, <2>3
<1> QED
  BY <1>1, <1>2 DEF FinalStays, SettledStays

LEMMA FinalIfUntouched ==
  ASSUME SameApprovals, hold' = hold
  PROVE  FinalStays
  BY DEF FinalStays, ApprovedStays, SettledStays, SameApprovals

LEMMA ApplyStatusSale ==
  ASSUME TypeOK, SaleInv, NEW a \in Attempts, NEW s \in Status, NEW at \in Int,
         ApplyStatus(a, s, at)
  PROVE  SaleInv' /\ FinalStays
<1>1. ASSUME NEW conflict \in BOOLEAN, RecordStale(a, conflict)
      PROVE  SaleInv' /\ FinalStays
  <2>1. hold' = hold
    BY <1>1 DEF RecordStale, ledger
  <2> QED
    BY <1>1, <2>1, RecordStaleSale, FinalIfUntouched
<1>2. CASE UNCHANGED <<ledger, att>>
  <2>1. att' = att /\ checkout' = checkout /\ hold' = hold /\ fulfillment' = fulfillment
    BY <1>2 DEF ledger
  <2>2. SameApprovals
    BY <2>1 DEF SameApprovals, Approved, SaleInv, ApprovedIsAnswered
  <2> QED
    BY <2>1, <2>2, Preserved, LedgerUntouched, FinalIfUntouched
<1>3. CASE ~Repeats(a, s) /\ ~Contradicts(a, s) /\ AcceptStatus(a, s, at)
  <2>1. ~Approved(a)
    BY <1>3 DEF Repeats, Contradicts, Approved
  <2> QED
    BY <1>3, <2>1, AcceptSale, AcceptFinal
<1>4. (att[a].state \in Terminal /\ att[a].providerStatus # s) \in BOOLEAN
  OBVIOUS
<1> QED
  BY <1>1, <1>2, <1>3, <1>4 DEF ApplyStatus

LEMMA RecordMismatchFinal ==
  ASSUME TypeOK, SaleInv, NEW a \in Attempts, RecordMismatch(a)
  PROVE  SaleInv' /\ FinalStays
<1>1. hold' = hold
  BY DEF RecordMismatch
<1> QED
  BY <1>1, RecordMismatchSale, FinalIfUntouched

LEMMA CloseDispatchFinal ==
  ASSUME TypeOK, SaleInv, NEW a \in Attempts,
         NEW s \in {"FAILED_LOCAL", "REJECTED_NO_TRANSACTION", "UNKNOWN_OUTCOME"},
         NEW t \in {"RESERVED", "UNKNOWN_OUTCOME"}, CloseDispatch(a, s, t)
  PROVE  SaleInv' /\ FinalStays
<1>1. hold' = hold
  BY DEF CloseDispatch, ledger
<1> QED
  BY <1>1, CloseDispatchSale, FinalIfUntouched
-------------------------------------------------------------------------------
(***************************************************************************)
(* The actions.                                                            *)
(***************************************************************************)

\* A step that leaves the sales and the attempts alone.
LEMMA Idle ==
  ASSUME SaleInv, UNCHANGED <<checkout, hold, fulfillment, att>>
  PROVE  SaleInv' /\ FinalStays
<1>1. SameApprovals
  BY DEF SameApprovals, Approved, SaleInv, ApprovedIsAnswered
<1> QED
  BY <1>1, Preserved, LedgerUntouched, FinalIfUntouched

\* The sweep alone, and the checkouts that a sweep in passing touches.
LEMMA SweptMoves ==
  ASSUME TypeOK, SaleInv, NEW c \in Checkouts
  PROVE  /\ \/ SweptCheckout[c] = checkout[c] /\ SweptHold[c] = hold[c]
            \/ /\ checkout[c] \notin {"PAID", "FULFILLMENT_EXCEPTION"}
               /\ SweptCheckout[c] = "EXPIRED" /\ SweptHold[c] = "RELEASED"
         /\ hold[c] \in {"COMMITTED", "RELEASED"} => SweptHold[c] = hold[c]
  BY DEF SweptCheckout, SweptHold, Expired, Sweepable

LEMMA SweepSale ==
  ASSUME TypeOK, SaleInv, Sweep
  PROVE  SaleInv' /\ FinalStays
<1>1. hold' = SweptHold /\ checkout' = SweptCheckout /\ fulfillment' = fulfillment /\ att' = att
  BY DEF Sweep
<1>2. SameApprovals
  BY <1>1 DEF SameApprovals, Approved, SaleInv, ApprovedIsAnswered
<1>3. \A c \in Checkouts : MovesUnsold(c)
  BY <1>1, SweptMoves DEF MovesUnsold
<1>4. FinalStays
  BY <1>1, <1>2, SweptMoves DEF FinalStays, ApprovedStays, SettledStays, SameApprovals
<1> QED
  BY <1>1, <1>2, <1>3, <1>4, Preserved

LEMMA CreateCheckoutSale ==
  ASSUME TypeOK, SaleInv, NEW c \in Checkouts, CreateCheckout(c)
  PROVE  SaleInv' /\ FinalStays
<1>1. fulfillment' = fulfillment /\ att' = att
  BY DEF CreateCheckout
<1>2. SameApprovals
  BY <1>1 DEF SameApprovals, Approved, SaleInv, ApprovedIsAnswered
<1>3. checkout[c] = "NONE" /\ hold[c] = "NONE"
  BY DEF CreateCheckout, SaleInv, NoHoldBefore
<1>4. checkout'[c] = "RESERVED" /\ hold'[c] = "HELD"
  BY DEF CreateCheckout, SweptCheckout, SweptHold
<1>5. ASSUME NEW d \in Checkouts, d # c
      PROVE  checkout'[d] = SweptCheckout[d] /\ hold'[d] = SweptHold[d]
  BY <1>5 DEF CreateCheckout, SweptCheckout, SweptHold
<1>6. \A d \in Checkouts : MovesUnsold(d)
  BY <1>3, <1>4, <1>5, SweptMoves DEF MovesUnsold
<1>7. FinalStays
  BY <1>2, <1>3, <1>5, SweptMoves DEF FinalStays, ApprovedStays, SettledStays, SameApprovals
<1> QED
  BY <1>1, <1>2, <1>6, <1>7, Preserved

LEMMA CreateAttemptSale ==
  ASSUME TypeOK, SaleInv, NEW c \in Checkouts, NEW n \in Numbers, CreateAttempt(c, n)
  PROVE  SaleInv' /\ FinalStays
<1> DEFINE a == <<c, n>>
<1>1. a \in Attempts
  BY DEF Attempts
<1>2. att[a].state = "NONE"
  BY ConstantsOK DEF CreateAttempt, NextNumber, Numbers
<1>3. att'[a].state = "PENDING" /\ \A b \in Attempts : b # a => att'[b] = att[b]
  BY <1>1 DEF CreateAttempt, TypeOK, NoAttempt
<1>4. SameApprovals
  BY <1>1, <1>2, <1>3, OneAttemptChanges DEF Approved
<1>5. hold' = SweptHold /\ fulfillment' = fulfillment
  BY DEF CreateAttempt
<1>6. SweptCheckout[c] \in Sweepable /\ hold[c] = "HELD" /\ c \notin Expired
  BY DEF CreateAttempt, Eligible, Expired
<1>7. checkout[c] \in Sweepable /\ checkout'[c] = "PAYMENT_PENDING" /\ hold'[c] = "HELD"
  BY <1>5, <1>6 DEF CreateAttempt, SweptCheckout, SweptHold
<1>8. ASSUME NEW d \in Checkouts, d # c
      PROVE  checkout'[d] = SweptCheckout[d]
  BY <1>8 DEF CreateAttempt, SweptCheckout
<1>9. \A d \in Checkouts : MovesUnsold(d)
  BY <1>5, <1>7, <1>8, SweptMoves DEF MovesUnsold, Sweepable
<1>10. FinalStays
  BY <1>4, <1>5, SweptMoves DEF FinalStays, ApprovedStays, SettledStays, SameApprovals
<1> QED
  BY <1>4, <1>5, <1>9, <1>10, Preserved

LEMMA ClientSale ==
  ASSUME TypeOK, SaleInv, Client
  PROVE  SaleInv' /\ FinalStays
<1>1. ASSUME NEW c \in Checkouts, HoldLapses(c)
      PROVE  SaleInv' /\ FinalStays
  BY <1>1, Idle DEF HoldLapses
<1> QED
  BY <1>1, SweepSale, CreateCheckoutSale, CreateAttemptSale DEF Client

LEMMA DispatchSale ==
  ASSUME TypeOK, SaleInv, Dispatch
  PROVE  SaleInv' /\ FinalStays
<1>1. PICK a \in Attempts : \/ FailBeforeSending(a)
                            \/ \E answer \in Answer : AnswerCall(a, answer)
                            \/ RecordAnswer(a)
                            \/ LoseCall(a)
  BY DEF Dispatch
<1>2. CASE FailBeforeSending(a) \/ LoseCall(a) \/ \E answer \in Answer : AnswerCall(a, answer)
  BY <1>2, Idle DEF FailBeforeSending, LoseCall, AnswerCall, ledger
<1>3. CASE RecordAnswer(a)
  <2>1. \/ CloseDispatch(a, "FAILED_LOCAL", "RESERVED")
        \/ CloseDispatch(a, "REJECTED_NO_TRANSACTION", "RESERVED")
        \/ CloseDispatch(a, "UNKNOWN_OUTCOME", "UNKNOWN_OUTCOME")
        \/ RecordMismatch(a)
        \/ call[a] \in Status /\ ApplyStatus(a, call[a], arrived[a])
    BY <1>3 DEF RecordAnswer
  <2>2. arrived[a] \in Int
    BY DEF TypeOK
  <2> QED
    BY <2>1, <2>2, CloseDispatchFinal, RecordMismatchFinal, ApplyStatusSale
<1> QED
  BY <1>1, <1>2, <1>3

LEMMA InboxSale ==
  ASSUME TypeOK, SaleInv, Inbox
  PROVE  SaleInv' /\ FinalStays
<1>1. ASSUME NEW e \in events, ReceiveEvent(e)
      PROVE  SaleInv' /\ FinalStays
  <2>1. e.attempt \in Attempts /\ e.status \in Status /\ e.at \in Int
    BY DEF TypeOK, EventRecord
  <2> QED
    BY <1>1, <2>1, ApplyStatusSale DEF ReceiveEvent
<1>2. CASE PurgeReceipts
  BY <1>2, Idle DEF PurgeReceipts, ledger
<1>3. ASSUME NEW a \in Attempts, ReportMismatch(a)
      PROVE  SaleInv' /\ FinalStays
  BY <1>3, RecordMismatchFinal DEF ReportMismatch
<1> QED
  BY <1>1, <1>2, <1>3 DEF Inbox

LEMMA ReconcilerSale ==
  ASSUME TypeOK, SaleInv, Reconciler
  PROVE  SaleInv' /\ FinalStays
<1>1. ASSUME NEW a \in Attempts, NEW s \in Status, NEW at \in 0..MaxNow, ApplyLookUp(a, s, at)
      PROVE  SaleInv' /\ FinalStays
  <2>1. at \in Int
    BY ConstantsOK
  <2> QED
    BY <1>1, <2>1, ApplyStatusSale DEF ApplyLookUp
<1>2. ASSUME NEW a \in Attempts, LookUp(a) \/ AnswerLookUp(a) \/ LoseLookUp(a)
      PROVE  SaleInv' /\ FinalStays
  BY <1>2, Idle DEF LookUp, AnswerLookUp, LoseLookUp, ledger
<1>3. ASSUME NEW a \in Attempts, RecoverDispatch(a)
      PROVE  SaleInv' /\ FinalStays
  BY <1>3, CloseDispatchFinal DEF RecoverDispatch
<1>4. ASSUME NEW a \in Attempts, MarkManualReview(a)
      PROVE  SaleInv' /\ FinalStays
  <2>1. /\ \A b \in Attempts : b # a => att'[b] = att[b]
        /\ att'[a].state = att[a].state /\ att'[a].responded = att[a].responded
    BY <1>4 DEF MarkManualReview, TypeOK, AttemptRecord
  <2>2. SameApprovals
    BY <2>1, OneAttemptChanges DEF Approved, SaleInv, ApprovedIsAnswered
  <2> QED
    BY <1>4, <2>2, Preserved, LedgerUntouched, FinalIfUntouched DEF MarkManualReview, ledger
<1> QED
  BY <1>1, <1>2, <1>3, <1>4 DEF Reconciler

LEMMA NextSale ==
  ASSUME TypeOK, SaleInv, [Next]_vars
  PROVE  SaleInv' /\ FinalStays
<1>1. CASE Provider \/ Tick
  BY <1>1, Idle DEF Provider, ProviderCreates, ProviderChanges, ProviderRefuses, SignStatus,
     Tick, ledger
<1>2. CASE UNCHANGED vars
  BY <1>2, Idle DEF vars, ledger
<1> QED
  BY <1>1, <1>2, ClientSale, DispatchSale, InboxSale, ReconcilerSale DEF Next

LEMMA InitSale == Init => SaleInv
<1> SUFFICES ASSUME Init PROVE SaleInv
  OBVIOUS
<1>1. ASSUME NEW c \in Checkouts PROVE ConsistentSale(c)
  <2>1. AttemptsIn(c, {"APPROVED"}) = {}
    BY DEF Init, AttemptsIn, NoAttempt, Attempts
  <2> QED
    BY <2>1 DEF Init, ConsistentSale
<1>2. NoExceptionHolds /\ NoHoldBefore
  BY DEF Init, NoExceptionHolds, NoHoldBefore
<1>3. ApprovedIsAnswered
  BY DEF Init, ApprovedIsAnswered, NoAttempt
<1> QED
  BY <1>1, <1>2, <1>3 DEF SaleInv, SaleIsConsistent
-------------------------------------------------------------------------------
(***************************************************************************)
(* The inductive invariant holds in every reachable state.                 *)
(***************************************************************************)
THEOREM SaleInvariant == Spec => [](TypeOK /\ SaleInv)
<1>1. Init => TypeOK /\ SaleInv
  BY InitType, InitSale
<1>2. TypeOK /\ SaleInv /\ [Next]_vars => TypeOK' /\ SaleInv'
  BY NextType, NextSale
<1> QED
  BY <1>1, <1>2, PTL DEF Spec

(***************************************************************************)
(* Checkout, reservation, fulfillment and attempts tell the same story:    *)
(* for any number of checkouts, units, attempts and any provider, a        *)
(* checkout is paid exactly when its units are committed and ready to ship *)
(* on one approval, and any other approval is a fulfillment exception.     *)
(***************************************************************************)
THEOREM SaleConsistent == Spec => []SaleIsConsistent
<1>1. TypeOK /\ SaleInv => SaleIsConsistent
  BY DEF SaleInv
<1> QED
  BY <1>1, SaleInvariant, PTL

(***************************************************************************)
(* An approval is never downgraded by a later status, an older answer, a   *)
(* mismatch or a late failure of the call, whatever the provider reports.  *)
(***************************************************************************)
THEOREM ApprovalFinal == Spec => ApprovedIsFinal
<1>1. TypeOK /\ SaleInv /\ [Next]_vars
      => [\A a \in Attempts : att[a].state = "APPROVED" => att'[a].state = "APPROVED"]_vars
  BY NextSale DEF FinalStays, ApprovedStays, Approved
<1> QED
  BY <1>1, SaleInvariant, PTL DEF Spec, ApprovedIsFinal

(***************************************************************************)
(* A hold is settled once: no step changes a committed or released hold.   *)
(***************************************************************************)
THEOREM HoldFinal == Spec => HoldSettlesOnce
<1>1. TypeOK /\ SaleInv /\ [Next]_vars
      => [\A c \in Checkouts : hold[c] \in {"COMMITTED", "RELEASED"} => hold'[c] = hold[c]]_vars
  BY NextSale DEF FinalStays, SettledStays
<1> QED
  BY <1>1, SaleInvariant, PTL DEF Spec, HoldSettlesOnce
===============================================================================
