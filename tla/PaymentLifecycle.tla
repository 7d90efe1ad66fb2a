--------------------------- MODULE PaymentLifecycle ---------------------------
(***************************************************************************)
(* The checkout, reservation, payment-attempt and fulfillment state that   *)
(* the API keeps in PostgreSQL, and every committed transaction that       *)
(* changes it: creating a checkout, sweeping lapsed holds, opening a       *)
(* payment attempt, recording what the provider answered, receiving a      *)
(* provider event, and reconciling.                                        *)
(*                                                                         *)
(* One committed database transaction is one step: each takes row locks on *)
(* the checkout before it reads anything it acts on.  What happens outside *)
(* a transaction (the provider call, an answer held in memory, a lookup in *)
(* flight, a crash) is a step of its own, so every interleaving of the two *)
(* is a behaviour of this module.                                          *)
(***************************************************************************)
EXTENDS Integers, FiniteSets

CONSTANTS
  Checkouts,        \* checkout ids, each created at most once
  Products,
  ProductOf,        \* the product a checkout is for (one item per checkout)
  Quantity,         \* how many units of it
  InitialStock,     \* physical units of each product at the start
  MaxAttempts,      \* attempt_number BETWEEN 1 AND 10
  FirstStatuses,    \* the statuses a new provider transaction may start in
  ProviderMoves,    \* pairs <<s, t>>: the provider may change s into t later
  MismatchPossible, \* may the provider report data that is not the attempt's?
  Skew,             \* the provider's clock minus this system's clock
  EscalateUnresolved, \* is PAYMENT_UNRESOLVED_REVIEW_THRESHOLD_SECONDS above 0?
  ForgetReceipts,   \* is the receipt retention shorter than the event window?
  MaxLookUps,       \* bound on the lookups in flight at once
  MaxNow            \* bound on the clock

Status      == {"PENDING", "APPROVED", "DECLINED", "ERROR", "VOIDED"}
Terminal    == Status \ {"PENDING"}
Unresolved  == {"PENDING", "UNKNOWN_OUTCOME"}
Chargeable  == Unresolved \cup Terminal     \* PAYMENT_RELEVANT_STATES

AttemptState == {"NONE", "FAILED_LOCAL", "REJECTED_NO_TRANSACTION"} \cup Chargeable
CheckoutState == {"NONE", "RESERVED", "PAYMENT_PENDING", "UNKNOWN_OUTCOME", "PAID",
                  "PAYMENT_FAILED", "CANCELLED", "EXPIRED", "FULFILLMENT_EXCEPTION"}
Sweepable    == {"RESERVED", "PAYMENT_FAILED"}

Numbers  == 1..MaxAttempts
Attempts == Checkouts \X Numbers

\* The answers a provider call can leave in the API process.
Answer == Status \cup {"CONFIG", "REJECTED", "UNKNOWN", "MISMATCH"}

ASSUME ConstantsOK ==
  /\ IsFiniteSet(Checkouts)
  /\ ProductOf \in [Checkouts -> Products]
  /\ Quantity \in [Checkouts -> Nat \ {0}]
  /\ InitialStock \in [Products -> Nat]
  /\ MaxAttempts \in Nat
  /\ FirstStatuses \subseteq Status
  /\ ProviderMoves \subseteq Status \X Status
  /\ MismatchPossible \in BOOLEAN
  /\ EscalateUnresolved \in BOOLEAN
  /\ ForgetReceipts \in BOOLEAN
  /\ Skew \in Int
  /\ MaxLookUps \in Nat
  /\ MaxNow \in Nat

VARIABLES
  physical,     \* products.physical_quantity
  reserved,     \* products.reserved_quantity
  checkout,     \* checkouts.state, "NONE" before the row exists
  hold,         \* reservations.state, "NONE" before the row exists
  lapsed,       \* reservations.expires_at <= now
  fulfillment,  \* fulfillments.state, "NONE" while there is no row
  att,          \* payment_attempts, one record per <<checkout, attempt number>>
  receipts,     \* payment_event_receipts: the events recorded so far
  call,         \* the API process's own view of the POST of an attempt
  arrived,      \* and when the answer it has not recorded yet arrived
  lookups,      \* status lookups asked for, or answered (and when) but not yet applied
  tx,           \* the provider's transaction for an attempt
  events,       \* events the provider ever signed: delivered 0..n times, in any order
  now           \* the clock of the API and the database

stock    == <<physical, reserved>>
ledger   == <<physical, reserved, checkout, hold, lapsed, fulfillment>>
provider == <<tx, events>>
memory   == <<call, arrived, lookups>>
vars     == <<ledger, att, receipts, call, arrived, lookups, tx, events, now>>

NoAttempt == [state |-> "NONE", providerStatus |-> "NONE", stamp |-> 0,
              known |-> FALSE, responded |-> FALSE, review |-> FALSE]

Init ==
  /\ physical = InitialStock
  /\ reserved = [p \in Products |-> 0]
  /\ checkout = [c \in Checkouts |-> "NONE"]
  /\ hold = [c \in Checkouts |-> "NONE"]
  /\ lapsed = [c \in Checkouts |-> FALSE]
  /\ fulfillment = [c \in Checkouts |-> "NONE"]
  /\ att = [a \in Attempts |-> NoAttempt]
  /\ receipts = {}
  /\ call = [a \in Attempts |-> "NONE"]
  /\ arrived = [a \in Attempts |-> 0]
  /\ lookups = {}
  /\ tx = [a \in Attempts |-> "NONE"]
  /\ events = {}
  /\ now = 0
-------------------------------------------------------------------------------
(***************************************************************************)
(* Stock.  The units of a set S of checkouts, and how many there are: the  *)
(* sum of their quantities.                                                *)
(***************************************************************************)
UnitsOf(S) == UNION {{c} \X (1..Quantity[c]) : c \in S}
Total(S)   == Cardinality(UnitsOf(S))
Of(p)      == {c \in Checkouts : ProductOf[c] = p}
In(state)  == {c \in Checkouts : hold[c] = state}

(***************************************************************************)
(* releaseExpired: the sweep that starts every checkout and product        *)
(* request.  It settles all lapsed holds of checkouts with no payment in   *)
(* progress.  A later failure of the same transaction rolls it back too,   *)
(* so the sweep is never a step of its own but part of its caller.         *)
(***************************************************************************)
Expired == {c \in Checkouts : hold[c] = "HELD" /\ lapsed[c] /\ checkout[c] \in Sweepable}

\* Seeded fault: the sweep gives the units back twice.
SweptReservedTwice == [p \in Products |-> reserved[p] - 2 * Total(Expired \cap Of(p))]

SweptReserved == [p \in Products |-> reserved[p] - Total(Expired \cap Of(p))]
SweptHold     == [c \in Checkouts |-> IF c \in Expired THEN "RELEASED" ELSE hold[c]]
SweptCheckout == [c \in Checkouts |-> IF c \in Expired THEN "EXPIRED" ELSE checkout[c]]

\* Its product UPDATE throws when the counter would go below zero.
SweepSucceeds == \A p \in Products : reserved[p] >= Total(Expired \cap Of(p))

\* A catalog read, a checkout read, a replayed command: only the sweep changes state.
Sweep ==
  /\ Expired # {}
  /\ SweepSucceeds
  /\ reserved' = SweptReserved
  /\ hold' = SweptHold
  /\ checkout' = SweptCheckout
  /\ UNCHANGED <<physical, lapsed, fulfillment, att, receipts, memory, provider, now>>

(***************************************************************************)
(* CheckoutsService.create: sweep, then hold the units in one conditional  *)
(* UPDATE, then insert the snapshot rows.  Too little stock rolls the      *)
(* whole transaction back, the sweep included.                             *)
(***************************************************************************)
CreateCheckout(c) ==
  LET p == ProductOf[c] IN
  /\ checkout[c] = "NONE"
  /\ SweepSucceeds
  /\ physical[p] - SweptReserved[p] >= Quantity[c]
  /\ reserved' = [SweptReserved EXCEPT ![p] = @ + Quantity[c]]
  /\ hold' = [SweptHold EXCEPT ![c] = "HELD"]
  /\ checkout' = [SweptCheckout EXCEPT ![c] = "RESERVED"]
  /\ UNCHANGED <<physical, lapsed, fulfillment, att, receipts, memory, provider, now>>

\* Time passes the deadline of a hold.
HoldLapses(c) ==
  /\ hold[c] = "HELD"
  /\ ~lapsed[c]
  /\ lapsed' = [lapsed EXCEPT ![c] = TRUE]
  /\ UNCHANGED <<stock, checkout, hold, fulfillment, att, receipts, memory, provider, now>>
-------------------------------------------------------------------------------
(***************************************************************************)
(* Opening an attempt.                                                     *)
(***************************************************************************)
\* Seeded fault: the retry limit is one too high.
MoreThanTwoCharges(c) ==
  \E k, m, n \in Numbers : /\ k # m /\ k # n /\ m # n
                           /\ \A i \in {k, m, n} : att[<<c, i>>].state \in Chargeable

TwoCharges(c) ==
  \E m, n \in Numbers : /\ m # n
                        /\ att[<<c, m>>].state \in Chargeable
                        /\ att[<<c, n>>].state \in Chargeable

NextNumber(c, n) ==
  \A m \in Numbers : (att[<<c, m>>].state = "NONE") <=> (m >= n)

Eligible(c) ==
  /\ SweptCheckout[c] \in Sweepable
  /\ hold[c] = "HELD" /\ ~lapsed[c]
  /\ \A n \in Numbers :
       att[<<c, n>>].state \notin Unresolved \cup {"APPROVED", "VOIDED"}
  /\ ~TwoCharges(c)

\* The partial unique index: one unresolved attempt per checkout.  A violation
\* aborts the transaction, so the step is not there.
IndexAllows(a, s) ==
  s = "PENDING" => \A n \in Numbers : /\ <<a[1], n>> # a
                                      => att[<<a[1], n>>].state \notin Unresolved

(***************************************************************************)
(* PaymentsService.createAttempt up to its COMMIT, and the start of the    *)
(* provider call that follows it.  From here a crash leaves an attempt     *)
(* nobody is dispatching, whose request the provider may or may not have.  *)
(***************************************************************************)
CreateAttempt(c, n) ==
  LET a == <<c, n>> IN
  /\ SweepSucceeds
  /\ Eligible(c)
  /\ NextNumber(c, n)
  /\ IndexAllows(a, "PENDING")
  /\ att' = [att EXCEPT ![a] = [NoAttempt EXCEPT !.state = "PENDING"]]
  /\ reserved' = SweptReserved
  /\ hold' = SweptHold
  /\ checkout' = [SweptCheckout EXCEPT ![c] = "PAYMENT_PENDING"]
  /\ call' = [call EXCEPT ![a] = "OPEN"]
  /\ tx' = [tx EXCEPT ![a] = "REQUESTED"]
  /\ UNCHANGED <<physical, lapsed, fulfillment, receipts, arrived, lookups, events, now>>
-------------------------------------------------------------------------------
(***************************************************************************)
(* Settling a checkout.  Each operator is the part of a payment            *)
(* transaction that changes the ledger of one checkout.                    *)
(***************************************************************************)

\* Seeded fault: a release is made repeatable by clamping the counter, whatever
\* became of the hold.
ReleaseHoldClamped(c) ==
  /\ reserved' = [reserved EXCEPT ![ProductOf[c]] = IF @ >= Quantity[c] THEN @ - Quantity[c] ELSE 0]
  /\ hold' = [hold EXCEPT ![c] = "RELEASED"]

\* releaseReservation: give the units of a held reservation back.
ReleaseHold(c) ==
  IF hold[c] = "HELD"
  THEN /\ reserved[ProductOf[c]] >= Quantity[c]
       /\ reserved' = [reserved EXCEPT ![ProductOf[c]] = @ - Quantity[c]]
       /\ hold' = [hold EXCEPT ![c] = "RELEASED"]
  ELSE UNCHANGED <<reserved, hold>>

\* May an approval still take the held units?
Committable(c) ==
  /\ hold[c] = "HELD"
  /\ checkout[c] \notin {"EXPIRED", "CANCELLED"}
  /\ ~(checkout[c] = "PAYMENT_FAILED" /\ lapsed[c])

\* commitHeldInventory, setCheckoutPaid, createReadyFulfillment.
CommitSale(c) ==
  LET p == ProductOf[c] IN
  /\ Committable(c)
  /\ physical[p] >= Quantity[c] /\ reserved[p] >= Quantity[c]
  /\ physical' = [physical EXCEPT ![p] = @ - Quantity[c]]
  /\ reserved' = [reserved EXCEPT ![p] = @ - Quantity[c]]
  /\ hold' = [hold EXCEPT ![c] = "COMMITTED"]
  /\ checkout' = [checkout EXCEPT ![c] = "PAID"]
  /\ fulfillment' = [fulfillment EXCEPT ![c] = IF @ = "NONE" THEN "READY" ELSE @]
  /\ UNCHANGED lapsed

\* Seeded fault: a late approval releases the hold and leaves its units reserved.
RaiseExceptionKeepingUnits(c) ==
  /\ ~Committable(c)
  /\ hold' = [hold EXCEPT ![c] = IF @ = "HELD" THEN "RELEASED" ELSE @]
  /\ checkout' = [checkout EXCEPT ![c] = "FULFILLMENT_EXCEPTION"]
  /\ fulfillment' = [fulfillment EXCEPT ![c] = "FULFILLMENT_EXCEPTION"]
  /\ UNCHANGED <<physical, reserved, lapsed>>

\* An approval that came too late, or a second one.
RaiseException(c) ==
  /\ ~Committable(c)
  /\ ReleaseHold(c)
  /\ checkout' = [checkout EXCEPT ![c] = "FULFILLMENT_EXCEPTION"]
  /\ fulfillment' = [fulfillment EXCEPT ![c] = "FULFILLMENT_EXCEPTION"]
  /\ UNCHANGED <<physical, lapsed>>

\* A confirmed decline or error: open the retry window once, then let the hold go.
RecordFailure(c) ==
  IF hold[c] = "HELD" /\ checkout[c] \notin {"PAID", "CANCELLED"}
  THEN /\ checkout' = [checkout EXCEPT ![c] = "PAYMENT_FAILED"]
       /\ IF TwoCharges(c)'
          THEN ReleaseHold(c) /\ UNCHANGED lapsed
          ELSE lapsed' = [lapsed EXCEPT ![c] = FALSE] /\ UNCHANGED <<reserved, hold>>
       /\ UNCHANGED <<physical, fulfillment>>
  ELSE UNCHANGED ledger

\* A confirmed void.
CloseVoided(c) ==
  /\ ReleaseHold(c)
  /\ checkout' = [checkout EXCEPT ![c] =
                    IF @ \in {"PAID", "FULFILLMENT_EXCEPTION"} THEN @ ELSE "CANCELLED"]
  /\ UNCHANGED <<physical, lapsed, fulfillment>>

\* setCheckoutPaymentPendingUnlessClosed.
KeepPending(c) ==
  /\ checkout' = [checkout EXCEPT ![c] =
                    IF @ \in {"EXPIRED", "CANCELLED", "PAID", "FULFILLMENT_EXCEPTION"}
                    THEN @ ELSE "PAYMENT_PENDING"]
  /\ UNCHANGED <<stock, hold, lapsed, fulfillment>>
-------------------------------------------------------------------------------
(***************************************************************************)
(* applyTransactionInTransaction: what one provider status s, stamped at,  *)
(* does to attempt a.  Four outcomes, in the code's order: stale,          *)
(* duplicate, contradictory, applied.                                      *)
(***************************************************************************)
\* Seeded fault: the age of a report is ignored.
NeverStale(a, at) == FALSE

IsStale(a, at) == att[a].providerStatus # "NONE" /\ at < att[a].stamp

Repeats(a, s) ==
  \/ att[a].state = "APPROVED" /\ s = "APPROVED"
  \/ att[a].state \in {"DECLINED", "ERROR", "VOIDED"} /\ att[a].providerStatus = s

\* Seeded fault: only a decline, error or void resists a later status.
ContradictsUnlessApproved(a, s) ==
  /\ att[a].state \in {"DECLINED", "ERROR", "VOIDED"}
  /\ att[a].providerStatus # s
  /\ s \notin {"APPROVED", "VOIDED"}
\* Seeded fault: only an approval resists a later status.
ContradictsIfApproved(a, s) == att[a].state = "APPROVED" /\ s # "APPROVED"

Contradicts(a, s) ==
  \/ att[a].state = "APPROVED" /\ s # "APPROVED"
  \/ /\ att[a].state \in {"DECLINED", "ERROR", "VOIDED"}
     /\ att[a].providerStatus # s
     /\ s \notin {"APPROVED", "VOIDED"}

\* Seeded fault: a conflict raises no review.
RecordStaleSilently(a, conflict) == UNCHANGED <<ledger, att>>

\* recordStaleTransaction.
RecordStale(a, conflict) ==
  /\ att' = [att EXCEPT ![a].review = @ \/ conflict]
  /\ UNCHANGED ledger

AcceptStatus(a, s, at) ==
  /\ IndexAllows(a, s)
  /\ att' = [att EXCEPT ![a] = [@ EXCEPT !.state = s, !.providerStatus = s, !.stamp = at,
                                         !.known = TRUE, !.responded = TRUE]]
  /\ \/ s = "PENDING" /\ KeepPending(a[1])
     \/ s = "APPROVED" /\ (CommitSale(a[1]) \/ RaiseException(a[1]))
     \/ s \in {"DECLINED", "ERROR"} /\ RecordFailure(a[1])
     \/ s = "VOIDED" /\ CloseVoided(a[1])

ApplyStatus(a, s, at) ==
  \/ /\ IsStale(a, at)
     /\ RecordStale(a, att[a].state \in Terminal /\ att[a].providerStatus # s)
  \/ /\ ~IsStale(a, at) /\ Repeats(a, s)
     /\ UNCHANGED <<ledger, att>>
  \/ /\ ~IsStale(a, at) /\ Contradicts(a, s)
     /\ RecordStale(a, TRUE)
  \/ /\ ~IsStale(a, at) /\ ~Repeats(a, s) /\ ~Contradicts(a, s)
     /\ AcceptStatus(a, s, at)

\* recordTransactionMismatch: the report names the attempt but not its amount,
\* currency or transaction.
RecordMismatch(a) ==
  /\ \/ att[a].responded
     \/ \A n \in Numbers : n # a[2] => att[<<a[1], n>>].state \notin Unresolved
  /\ att' = [att EXCEPT ![a] =
               [@ EXCEPT !.state = IF att[a].responded THEN att[a].state ELSE "UNKNOWN_OUTCOME",
                         !.responded = TRUE, !.review = TRUE]]
  /\ checkout' = [checkout EXCEPT ![a[1]] =
                    IF ~att[a].responded /\ @ = "PAYMENT_PENDING"
                    THEN "UNKNOWN_OUTCOME" ELSE @]
  /\ UNCHANGED <<stock, hold, lapsed, fulfillment>>

(***************************************************************************)
(* markLocalFailure, markRejected, markUnknown: close a dispatch nothing   *)
(* has been heard of, unless a provider answer got there first.            *)
(***************************************************************************)
InFlight(a) == att[a].state = "PENDING" /\ ~att[a].responded

\* Seeded fault: the attempt is closed whatever has been recorded meanwhile.
CloseDispatchAlways(a, attemptState, checkoutState) ==
  /\ att' = [att EXCEPT ![a].state = attemptState]
  /\ checkout' = [checkout EXCEPT ![a[1]] =
                    IF @ = "PAYMENT_PENDING" THEN checkoutState ELSE @]
  /\ UNCHANGED <<stock, hold, lapsed, fulfillment>>

CloseDispatch(a, attemptState, checkoutState) ==
  IF InFlight(a)
  THEN /\ att' = [att EXCEPT ![a].state = attemptState]
       /\ checkout' = [checkout EXCEPT ![a[1]] =
                         IF @ = "PAYMENT_PENDING" THEN checkoutState ELSE @]
       /\ UNCHANGED <<stock, hold, lapsed, fulfillment>>
  ELSE UNCHANGED <<ledger, att>>
-------------------------------------------------------------------------------
(***************************************************************************)
(* The provider call of an attempt, as its API process sees it.            *)
(***************************************************************************)

\* A configuration error is raised before any request byte is sent.
FailBeforeSending(a) ==
  /\ call[a] = "OPEN" /\ tx[a] = "REQUESTED"
  /\ call' = [call EXCEPT ![a] = "CONFIG"]
  /\ tx' = [tx EXCEPT ![a] = "NEVER"]
  /\ UNCHANGED <<ledger, att, receipts, arrived, lookups, events, now>>

\* The call returns: the provider's status at this moment, its refusal, or nothing
\* usable (timeout, transport failure, malformed body, any other HTTP status).
AnswerCall(a, answer) ==
  /\ call[a] = "OPEN"
  /\ \/ answer \in Status /\ tx[a] = answer
     \/ answer = "MISMATCH" /\ MismatchPossible /\ tx[a] \in Status
     \/ answer = "REJECTED" /\ tx[a] = "REFUSED"
     \/ answer = "UNKNOWN"
  /\ call' = [call EXCEPT ![a] = answer]
  /\ arrived' = [arrived EXCEPT ![a] = now]
  /\ UNCHANGED <<ledger, att, receipts, lookups, provider, now>>

\* The process is done with the call.
Forget(a) ==
  /\ call' = [call EXCEPT ![a] = "DONE"]
  /\ arrived' = [arrived EXCEPT ![a] = 0]

\* Seeded fault: a timeout is taken for a proof that nothing was created.
RecordAnswerTimeoutAsRejection(a) ==
  /\ call[a] \in Answer
  /\ \/ call[a] = "CONFIG" /\ CloseDispatch(a, "FAILED_LOCAL", "RESERVED")
     \/ /\ call[a] \in {"REJECTED", "UNKNOWN"}
        /\ CloseDispatch(a, "REJECTED_NO_TRANSACTION", "RESERVED")
     \/ call[a] = "MISMATCH" /\ RecordMismatch(a)
     \/ call[a] \in Status /\ ApplyStatus(a, call[a], arrived[a])
  /\ Forget(a)
  /\ UNCHANGED <<receipts, lookups, provider, now>>

\* The second transaction of createAttempt.  A status counts from the moment the answer
\* arrived, and may have to wait for the rows that others have locked.
RecordAnswer(a) ==
  /\ call[a] \in Answer
  /\ \/ call[a] = "CONFIG" /\ CloseDispatch(a, "FAILED_LOCAL", "RESERVED")
     \/ call[a] = "REJECTED" /\ CloseDispatch(a, "REJECTED_NO_TRANSACTION", "RESERVED")
     \/ call[a] = "UNKNOWN" /\ CloseDispatch(a, "UNKNOWN_OUTCOME", "UNKNOWN_OUTCOME")
     \/ call[a] = "MISMATCH" /\ RecordMismatch(a)
     \/ call[a] \in Status /\ ApplyStatus(a, call[a], arrived[a])
  /\ Forget(a)
  /\ UNCHANGED <<receipts, lookups, provider, now>>

\* The process dies, or its database transaction fails: the answer is lost.
LoseCall(a) ==
  /\ call[a] \in Answer \cup {"OPEN"}
  /\ Forget(a)
  /\ UNCHANGED <<ledger, att, receipts, lookups, provider, now>>
-------------------------------------------------------------------------------
(***************************************************************************)
(* Provider events.  An event is delivered any number of times, in any     *)
(* order, or never.  The receipt and the transition commit together; a     *)
(* recorded event is acknowledged and changes nothing.                     *)
(***************************************************************************)
ReceiveEvent(e) ==
  /\ e \in events \ receipts
  /\ ApplyStatus(e.attempt, e.status, e.at)
  /\ receipts' = receipts \cup {e}
  /\ UNCHANGED <<memory, provider, now>>

\* Receipts are purged after a configured number of days, and with one day some are
\* forgotten whose event is still accepted (48 hours).
PurgeReceipts ==
  /\ ForgetReceipts
  /\ \E kept \in SUBSET receipts : kept # receipts /\ receipts' = kept
  /\ UNCHANGED <<ledger, att, memory, provider, now>>

\* An event or a lookup whose amount, currency or transaction is not the attempt's.
ReportMismatch(a) ==
  /\ MismatchPossible
  /\ tx[a] \in Status
  /\ RecordMismatch(a)
  /\ UNCHANGED <<receipts, memory, provider, now>>
-------------------------------------------------------------------------------
(***************************************************************************)
(* Reconciliation, by the 30-second pass of any API instance or by a       *)
(* client that polls its attempt.  The attempt is chosen, the provider is  *)
(* asked, and its answer applied in three steps with anything in between:  *)
(* the attempt may have been settled by the time the answer is there.      *)
(***************************************************************************)
\* Seeded fault: only an attempt marked unknown is looked up.
LookUpUnknownOnly(a) ==
  /\ Cardinality(lookups) < MaxLookUps
  /\ att[a].known
  /\ att[a].state = "UNKNOWN_OUTCOME"
  /\ lookups' = lookups \cup {<<a, "ASKED", 0>>}
  /\ UNCHANGED <<ledger, att, receipts, call, arrived, provider, now>>

LookUp(a) ==
  /\ Cardinality(lookups) < MaxLookUps
  /\ att[a].known
  /\ att[a].state \in Unresolved
  /\ lookups' = lookups \cup {<<a, "ASKED", 0>>}
  /\ UNCHANGED <<ledger, att, receipts, call, arrived, provider, now>>

AnswerLookUp(a) ==
  /\ <<a, "ASKED", 0>> \in lookups
  /\ \E s \in Status : /\ tx[a] = s
                       /\ lookups' = (lookups \ {<<a, "ASKED", 0>>}) \cup {<<a, s, now>>}
  /\ UNCHANGED <<ledger, att, receipts, call, arrived, provider, now>>

ApplyLookUp(a, s, at) ==
  /\ <<a, s, at>> \in lookups
  /\ lookups' = lookups \ {<<a, s, at>>}
  /\ ApplyStatus(a, s, at)
  /\ UNCHANGED <<receipts, call, arrived, provider, now>>

\* The lookup fails, or its process dies before applying the answer.
LoseLookUp(a) ==
  /\ \E l \in lookups : l[1] = a /\ lookups' = lookups \ {l}
  /\ UNCHANGED <<ledger, att, receipts, call, arrived, provider, now>>

\* The pass finds a dispatch that nobody answered within DISPATCH_STALE_SECONDS.
RecoverDispatch(a) ==
  /\ InFlight(a)
  /\ CloseDispatch(a, "UNKNOWN_OUTCOME", "UNKNOWN_OUTCOME")
  /\ UNCHANGED <<receipts, memory, provider, now>>

\* An attempt older than the review threshold and still unresolved.
MarkManualReview(a) ==
  /\ EscalateUnresolved
  /\ att[a].state \in Unresolved /\ ~att[a].review
  /\ att' = [att EXCEPT ![a].review = TRUE]
  /\ UNCHANGED <<ledger, receipts, memory, provider, now>>
-------------------------------------------------------------------------------
(***************************************************************************)
(* The provider.  A refused request never becomes a transaction; a status  *)
(* change is signed as an event stamped with the provider's clock.         *)
(***************************************************************************)
Event(a, s) == [attempt |-> a, status |-> s, at |-> now + Skew]

SignStatus(a, s) ==
  /\ now + Skew <= MaxNow
  /\ tx' = [tx EXCEPT ![a] = s]
  /\ events' = events \cup {Event(a, s)}
  /\ UNCHANGED <<ledger, att, receipts, memory, now>>

ProviderCreates(a, s) == tx[a] = "REQUESTED" /\ s \in FirstStatuses /\ SignStatus(a, s)
ProviderChanges(a, s) == <<tx[a], s>> \in ProviderMoves /\ SignStatus(a, s)

ProviderRefuses(a) ==
  /\ tx[a] = "REQUESTED"
  /\ tx' = [tx EXCEPT ![a] = "REFUSED"]
  /\ UNCHANGED <<ledger, att, receipts, memory, events, now>>

Tick ==
  /\ now < MaxNow
  /\ now' = now + 1
  /\ UNCHANGED <<ledger, att, receipts, memory, provider>>
-------------------------------------------------------------------------------
Client == \/ Sweep
          \/ \E c \in Checkouts : CreateCheckout(c) \/ HoldLapses(c)
          \/ \E c \in Checkouts, n \in Numbers : CreateAttempt(c, n)

Dispatch == \E a \in Attempts : \/ FailBeforeSending(a)
                                \/ \E answer \in Answer : AnswerCall(a, answer)
                                \/ RecordAnswer(a)
                                \/ LoseCall(a)

Inbox == \/ \E e \in events : ReceiveEvent(e)
         \/ PurgeReceipts
         \/ \E a \in Attempts : ReportMismatch(a)

Reconciler == \E a \in Attempts : \/ LookUp(a)
                                  \/ AnswerLookUp(a)
                                  \/ \E s \in Status, at \in 0..MaxNow : ApplyLookUp(a, s, at)
                                  \/ LoseLookUp(a)
                                  \/ RecoverDispatch(a)
                                  \/ MarkManualReview(a)

Provider == \E a \in Attempts : \/ \E s \in Status : ProviderCreates(a, s) \/ ProviderChanges(a, s)
                                \/ ProviderRefuses(a)

Next == Client \/ Dispatch \/ Inbox \/ Reconciler \/ Provider \/ Tick

Spec == Init /\ [][Next]_vars
-------------------------------------------------------------------------------
AttemptRecord == [state : AttemptState, providerStatus : Status \cup {"NONE"}, stamp : Int,
                  known : BOOLEAN, responded : BOOLEAN, review : BOOLEAN]
EventRecord   == [attempt : Attempts, status : Status, at : Int]

LedgerTypeOK ==
  /\ physical \in [Products -> Nat]
  /\ reserved \in [Products -> Nat]
  /\ checkout \in [Checkouts -> CheckoutState]
  /\ hold \in [Checkouts -> {"NONE", "HELD", "COMMITTED", "RELEASED"}]
  /\ lapsed \in [Checkouts -> BOOLEAN]
  /\ fulfillment \in [Checkouts -> {"NONE", "READY", "FULFILLMENT_EXCEPTION"}]

TypeOK ==
  /\ LedgerTypeOK
  /\ att \in [Attempts -> AttemptRecord]
  /\ receipts \subseteq EventRecord
  /\ call \in [Attempts -> Answer \cup {"NONE", "OPEN", "DONE"}]
  /\ arrived \in [Attempts -> Nat]
  /\ lookups \subseteq Attempts \X (Status \cup {"ASKED"}) \X Nat
  /\ tx \in [Attempts -> Status \cup {"NONE", "REQUESTED", "REFUSED", "NEVER"}]
  /\ events \subseteq EventRecord
  /\ now \in Nat
-------------------------------------------------------------------------------
(***************************************************************************)
(* Safety.                                                                 *)
(***************************************************************************)
AttemptsIn(c, S) == {n \in Numbers : att[<<c, n>>].state \in S}

(***************************************************************************)
(* Stock is conserved: what a product row says is reserved is exactly what *)
(* held reservations ask for, what left the shelf is exactly what was      *)
(* committed, and no product is promised beyond its stock.  Commit,        *)
(* release, expiry and a checkout that sweeps others on its way all update *)
(* the two counters by difference, so one missed or repeated update shows  *)
(* up here and nowhere else.                                               *)
(***************************************************************************)
StockConserved ==
  \A p \in Products :
    /\ reserved[p] = Total(In("HELD") \cap Of(p))
    /\ physical[p] = InitialStock[p] - Total(In("COMMITTED") \cap Of(p))
    /\ reserved[p] <= physical[p]

(***************************************************************************)
(* The whole payment core, with its attempts, events, lookups and crashes, *)
(* does to holds and stock only what HoldLedger promises: each step sweeps *)
(* some unpaid lapsed holds and does one thing to one checkout, a payment  *)
(* in progress keeps its hold until it ends, a settled hold never moves    *)
(* again, and the counters follow the holds (releaseExpired, createAttempt,*)
(* applyTransactionInTransaction, CheckoutsService.create).                *)
(***************************************************************************)
InProgress == {"PAYMENT_PENDING", "UNKNOWN_OUTCOME"}

Ledger == INSTANCE HoldLedger WITH paying <- [c \in Checkouts |-> checkout[c] \in InProgress],
                                   Units  <- Total,
                                   Stock  <- InitialStock
ImplementsHoldLedger == Ledger!Spec

(***************************************************************************)
(* A hold is settled once: after COMMITTED or RELEASED it never changes,   *)
(* whatever approval, void, decline or sweep still arrives.                *)
(***************************************************************************)
HoldSettlesOnce ==
  [][\A c \in Checkouts : hold[c] \in {"COMMITTED", "RELEASED"} => hold'[c] = hold[c]]_vars

ConsistentSale(c) ==
  /\ fulfillment[c] = "READY" <=> checkout[c] = "PAID"
  /\ fulfillment[c] = "FULFILLMENT_EXCEPTION" <=> checkout[c] = "FULFILLMENT_EXCEPTION"
  /\ hold[c] = "COMMITTED" => checkout[c] \in {"PAID", "FULFILLMENT_EXCEPTION"}
  /\ checkout[c] = "PAID" => /\ hold[c] = "COMMITTED"
                             /\ \A m, n \in AttemptsIn(c, {"APPROVED"}) : m = n
  /\ AttemptsIn(c, {"APPROVED"}) # {} <=> checkout[c] \in {"PAID", "FULFILLMENT_EXCEPTION"}

(***************************************************************************)
(* Checkout, reservation, fulfillment and attempts tell the same story: a  *)
(* checkout is paid exactly when its units are committed and ready to ship *)
(* on one approval; an approval that found no hold, or a second approval,  *)
(* is a fulfillment exception; nothing ships without an approval.          *)
(***************************************************************************)
SaleIsConsistent == \A c \in Checkouts : ConsistentSale(c)

(***************************************************************************)
(* While an attempt is unresolved and nothing closed the checkout, the     *)
(* checkout says so and keeps its hold, so no sweep can take the units;    *)
(* and a checkout that says a payment is in progress has an attempt that   *)
(* will end it, so no hold is stranded where no sweep would look.          *)
(***************************************************************************)
PaymentInProgress ==
  \A c \in Checkouts :
    /\ checkout[c] \in {"PAYMENT_PENDING", "UNKNOWN_OUTCOME"} =>
         AttemptsIn(c, Unresolved) # {} /\ hold[c] = "HELD"
    /\ checkout[c] \in {"RESERVED", "PAYMENT_FAILED", "EXPIRED"} =>
         AttemptsIn(c, Unresolved) = {}

(***************************************************************************)
(* One explicit retry: no checkout ever has three attempts that reached    *)
(* the provider, and after two confirmed failures its units are free.      *)
(***************************************************************************)
RetryLimit ==
  \A c \in Checkouts :
    /\ Cardinality(AttemptsIn(c, Chargeable)) <= 2
    /\ Cardinality(AttemptsIn(c, {"DECLINED", "ERROR"})) = 2 => hold[c] # "HELD"

(***************************************************************************)
(* No double charge: at most one attempt of a checkout has a provider      *)
(* transaction that is approved or still can be, also across timeouts,     *)
(* lost answers and crashes.  A transaction the provider once reported as  *)
(* ended is not counted, even if the provider takes that back: nothing but *)
(* such a report may open the way to a second attempt.                     *)
(***************************************************************************)
Alive    == {"REQUESTED", "PENDING", "APPROVED"}
Ended(a) == \E e \in events : e.attempt = a /\ e.status \in Terminal \ {"APPROVED"}

AtMostOneCharge ==
  \A c \in Checkouts : \A m, n \in Numbers :
    /\ tx[<<c, m>>] \in Alive /\ ~Ended(<<c, m>>)
    /\ tx[<<c, n>>] \in Alive /\ ~Ended(<<c, n>>)
    => m = n

(***************************************************************************)
(* FAILED_LOCAL and REJECTED_NO_TRANSACTION promise that no transaction    *)
(* exists or ever will; a later retry relies on that.                      *)
(***************************************************************************)
NoChargeBehindFailure ==
  \A a \in Attempts : att[a].state \in {"FAILED_LOCAL", "REJECTED_NO_TRANSACTION"}
                      => tx[a] \in {"REFUSED", "NEVER"}

(***************************************************************************)
(* Every event the provider signed can be recorded and acknowledged in     *)
(* every state: none makes its transaction fail on the index of unresolved *)
(* attempts, which the provider would answer by sending it again.          *)
(***************************************************************************)
EventsAcknowledged ==
  \A e \in events : LET a == e.attempt IN
    \/ IsStale(a, e.at)
    \/ Repeats(a, e.status)
    \/ Contradicts(a, e.status)
    \/ IndexAllows(a, e.status)

(***************************************************************************)
(* An approval is never downgraded, neither by a later status nor by an    *)
(* older answer, a mismatch or a late failure of the call that caused it.  *)
(***************************************************************************)
ApprovedIsFinal ==
  [][\A a \in Attempts : att[a].state = "APPROVED" => att'[a].state = "APPROVED"]_vars

(***************************************************************************)
(* A contradiction of a recorded approval is never dropped in silence:     *)
(* another terminal status, however old its event, or any other status     *)
(* that is not older than what is recorded, marks the attempt for review.  *)
(* (That an older PENDING marks it too is no merit: see ReviewHasCause.)   *)
(***************************************************************************)
ContradictionFlagged ==
  [][\A e \in receipts' \ receipts :
       /\ att[e.attempt].state = "APPROVED" /\ e.status # "APPROVED"
       /\ e.status \in Terminal \/ ~IsStale(e.attempt, e.at)
       => att'[e.attempt].review]_vars

(***************************************************************************)
(* Reports are applied in the order of their stamps: no step replaces what *)
(* was recorded by something older, although events arrive in any order    *)
(* and answers are stamped by another clock.                               *)
(***************************************************************************)
StampsMonotone ==
  [][\A a \in Attempts : att[a].providerStatus # "NONE" => att'[a].stamp >= att[a].stamp]_vars
-------------------------------------------------------------------------------
(***************************************************************************)
(* Liveness.  Every API instance runs the reconciliation pass every 30     *)
(* seconds for as long as it lives, so a pass that can act does (weak      *)
(* fairness); the provider answers status lookups infinitely often, so one *)
(* of them is applied (strong fairness), and clocks run.  Nothing is       *)
(* assumed of webhook delivery, of clients, or of the opening call.        *)
(***************************************************************************)
Fairness ==
  /\ WF_vars(Tick)
  /\ \A a \in Attempts : /\ WF_vars(LookUp(a))
                         /\ SF_vars(AnswerLookUp(a))
                         /\ SF_vars(\E s \in Status, at \in 0..MaxNow : ApplyLookUp(a, s, at))

FairSpec == Spec /\ Fairness

(***************************************************************************)
(* A charge the provider approved reaches the local record once its        *)
(* transaction id is known, with every event lost and every client gone,   *)
(* unless the provider voids it first.                                     *)
(***************************************************************************)
ApprovalIsRecorded ==
  \A a \in Attempts :
    (att[a].known /\ tx[a] = "APPROVED") ~> (att[a].state = "APPROVED" \/ tx[a] # "APPROVED")
-------------------------------------------------------------------------------
(***************************************************************************)
(* What the documentation says and the code does not do.                   *)
(***************************************************************************)

(***************************************************************************)
(* docs/payment-lifecycle.md: an approval commits a still-valid hold; one  *)
(* that arrives after the retry deadline becomes a fulfillment exception.  *)
(* Only an open attempt keeps a hold valid past its deadline.              *)
(***************************************************************************)
OnlyValidHoldsAreSold ==
  [][\A c \in Checkouts :
       hold[c] = "HELD" /\ hold'[c] = "COMMITTED"
       => ~lapsed[c] \/ AttemptsIn(c, Unresolved) # {}]_vars

(***************************************************************************)
(* docs/payment-lifecycle.md: duplicate and out-of-order events are        *)
(* harmless, and a contradictory terminal status asks for review.  So a    *)
(* settled attempt is marked only when the provider has reported another   *)
(* terminal status for it.                                                 *)
(***************************************************************************)
ReviewHasCause ==
  [][\A a \in Attempts :
       att[a].state \in Terminal /\ ~att[a].review /\ att'[a].review
       => \E e \in events : /\ e.attempt = a
                            /\ e.status \in Terminal \ {att[a].state}]_vars
===============================================================================
