# payment-flow-lab in TLA+

A verification development for the checkout and payment flow of this repository:
TLA+ modules translated from the code under `apps/`, TLC configurations that
model-check them on small instances, and theorems that TLAPS proves for every
instance. Paths below are relative to `src/`.

## 1. The system

A small shop. A guest picks a product, the API holds its units for ten minutes,
the guest pays through an external provider, and the units are either sold or
given back. The API (`apps/api`, NestJS) may run in several instances; its only
shared state is PostgreSQL.

| component | state it keeps | operations | what makes it correct |
|---|---|---|---|
| Payment attempts (`payments.service.ts`, `postgres-payment-persistence.adapter.ts`) | `payment_attempts`, `payment_event_receipts`, `fulfillments` | open an attempt, record the provider's answer, receive an event, reconcile, mark for review, purge receipts | one approval is one sale; no double charge; no approval is lost or undone; reports are applied in order |
| Inventory reservations (`postgres-reservation-expiration.adapter.ts`) | `products.reserved_quantity`, `reservations` | sweep lapsed holds; commit; release | counters equal reservations; a hold is settled once; an open payment keeps its hold |
| Checkouts (`checkouts.service.ts`, `postgres-checkout-persistence.adapter.ts`) | `checkouts`, `checkout_items`, `customers`, `deliveries`, `idempotency_records` | create, read, recover | one command is one checkout; never more units than there are; price snapshot in range |
| Provider client (`http-payment-gateway.ts`) | none | create and look up a transaction, tokenize, acceptance documents | a failure is called local or refused only when no transaction can exist |
| Event verification (`payment-signatures.ts`) | none | verify a signed event | an event is accepted only for what was signed |
| Reconciliation scheduling (timer in `payments.service.ts`, leases in the adapter) | `reconciliation_lease_until`, `last_reconciled_at` | claim five candidates, recover, release | every unresolved attempt is visited, by one pass at a time |
| Guest sessions (`guest-sessions/`) | `guest_sessions` | create, refresh, clear | a session that owns a checkout survives |
| Personal-data retention (`checkout-pii-retention.service.ts`, its adapter) | redacted columns | redact after 30 days | nothing open is redacted; a redacted replay is refused |
| Product catalog (`products/`) | none of its own | list (sweeps first) | shows what can be reserved |
| Database access (`database.service.ts`) | a pool of ten connections | run a transaction | a returned error rolls back |
| Web shop (`apps/web`) | `sessionStorage`, the address bar, the page's memory, requests under way | order, recover, pay, poll, retry | a reload or a lost answer neither loses nor repeats a command |
| Configuration, health, error mapping, Terraform | | | no behaviour of their own |

Components interact by calls inside one database transaction (checkout and
payment services call the sweep), by rows they share, by HTTP calls made outside
any transaction (the provider), and by events the provider sends when it likes.

### What is hard here

* One provider transaction is reported over three paths (the answer to the POST,
  signed events, lookups) with two clocks, any order, repetition and loss.
* Between committing an attempt and recording its answer lies an HTTP call: the
  process can die, time out or answer after somebody else has settled the attempt.
* A timeout proves nothing, so a retry could charge twice.
* The two counters of a product are changed by difference in four places.
* A hold is kept alive by an open payment, by its deadline or by a retry window,
  and three columns must agree on which.
* A partial unique index turns an unlucky report into a failed transaction.
* The sweep locks rows of several checkouts in the middle of somebody's command.
* A request outlives the page that sent it and is handled after the next one.
* The pass, the leases and the stamps of several instances share one table.
* The browser must decide when a command whose answer was lost may be sent again.
* Personal data is erased while commands that read it are under way.

`PROJECT.json` lists the hazards at their lines, with the properties that would
catch each going wrong, or why none does.

## 2. Modules

| module | what it is |
|---|---|
| `PaymentLifecycle` | the payment core: stock, holds, checkouts, attempts, events, lookups, the provider |
| `MCPaymentLifecycle` | its constants for TLC |
| `PaymentLifecycleProofs` | type correctness, that `Total` is defined, sale consistency, finality of approvals and of holds |
| `StockProofs` | conservation of stock; the core implements `HoldLedger` |
| `ChargeProofs` | charges, retries, the order of reports, payments in progress |
| `RowLocks` | the transactions of the API, one row lock at a time: sweep, create, pay, record an answer or an event, claim a pass |
| `HoldLedger` | the abstract specification that `PaymentLifecycle` and `RowLocks` both implement: indivisible transactions over holds and counters |
| `MCRowLocks`, `RowLocksProofs` | the constants of `RowLocks` for TLC; its type, its refinement of `HoldLedger`, what sweeps and deadlocks need |
| `Reconciler` | the background pass: timers, batches, leases, stamps, lookups that take time |
| `MCReconciler`, `ReconcilerProofs` | its constants for TLC; its type and its queue, passes that look attempts up apart |
| `CheckoutRecovery` | the checkout command end to end: the tab and its stored key, the network, the idempotency record |
| `MCCheckoutRecovery`, `CheckoutRecoveryProofs` | its constants for TLC; its invariants |
| `Gateway` | the boundary with the provider, as operators: configuration, what an answer proves, card tokens, signed events |
| `PaymentPanel` | paying end to end: the panel with its marker and timers, the network, the attempts, the provider |
| `MCPaymentPanel`, `PaymentPanelProofs` | its constants for TLC; what the API believes, and no blind resend |
| `GuestCheckout` | sessions, the claim of a command key, the payments of a checkout, and the redaction of personal data |
| `MCGuestCheckout`, `GuestCheckoutProofs` | its constants for TLC; its invariants |

The modules meet where one takes for granted what another shows.

* `PaymentLifecycle` takes every transaction as one step: `RowLocks` shows that
  locking row by row gives no more than that. Both implement `HoldLedger`
  (`ImplementsHoldLedger`), the one with every way a payment can go, the other with every
  order of its locks.
* `PaymentLifecycle` assumes that unresolved attempts are looked up and silent
  dispatches closed: `Reconciler` shows it from the timer.
* `PaymentLifecycle` lets a customer open any number of checkouts:
  `CheckoutRecovery` shows what keeps one order one checkout in the browser, and
  `GuestCheckout` what keeps one command one checkout in the database.
* `PaymentLifecycle` takes the outcome of a call as `CONFIG`, `REJECTED`, a status or
  unknown, and every event as the provider's: `Gateway` says which answer is which and
  which event is believed, and `PaymentPanel` uses these operators and shows that what
  is believed is true (`ProviderFacts`).
* `PaymentPanel` is the browser's end of `PaymentLifecycle`. It repeats of the API
  only what a panel can tell apart; the races inside the API are `PaymentLifecycle`'s.

### `PaymentLifecycle` and the code

*State.* Each variable is a column or a set of rows (`physical`, `reserved`, `checkout`,
`hold`, `lapsed`, `fulfillment`, `att`, `receipts`) or is outside the database: `call`
is what an API process holds in memory about its own POST and `arrived` when that answer
came, `lookups` the lookups in flight or answered (and when), `tx` and `events` the
provider's side, `now` the clock. An attempt record keeps `state`, `provider_status`,
`provider_status_updated_at` (`stamp`), whether a transaction id is recorded (`known`),
whether `provider_response_received_at` is set (`responded`) and whether
`manual_review_required_at` is (`review`). "NONE" is a row that does not exist yet. The
states `CREATED`, `DISPATCHING` and `CANCEL_PENDING` of the schema are left out: no
statement of the code writes them.

*Steps.* One committed database transaction is one step. Every transaction that
touches an existing checkout takes the row lock of the checkout before it reads
what it acts on, so committed transactions on one checkout are serial; the sweep
rechecks under the lock whatever it discovered without it. A transaction that
throws or returns an error is rolled back and is therefore no step. What happens
outside a transaction is a step of its own: `AnswerCall`, `LoseCall`, `LookUp`,
`AnswerLookUp`, `ApplyLookUp`, the provider and the clock.

| action | code |
|---|---|
| `Sweep` | `releaseExpired` committed by a catalog read, `CheckoutsService.get`, `recover`, or a replayed command |
| `CreateCheckout` | `CheckoutsService.create` with its sweep |
| `CreateAttempt` | first transaction of `PaymentsService.createAttempt` with its sweep |
| `FailBeforeSending`, `AnswerCall` | `HttpPaymentGateway.createTransaction` |
| `RecordAnswer` | second transaction of `createAttempt`: `markLocalFailure`, `markRejected`, `markUnknown`, `applyTransactionResult` |
| `LoseCall` | the process dies or that transaction fails |
| `ReceiveEvent` | `receiveEvent`: receipt and transition in one transaction |
| `PurgeReceipts` | `purgeExpiredEventReceipts` |
| `ReportMismatch` | an event or a lookup that fails the amount, currency, reference or id check |
| `LookUp`, `AnswerLookUp`, `ApplyLookUp`, `LoseLookUp` | choosing an attempt, `getTransaction`, `reconcileById` |
| `RecoverDispatch`, `MarkManualReview` | the rest of the reconciliation pass and of a client's poll |
| `HoldLapses`, `Tick` | time |
| `ProviderCreates`, `ProviderChanges`, `ProviderRefuses` | the provider (external: modelled from what the client and the docs say of it) |

`ApplyStatus` is `applyTransactionInTransaction`, with the four outcomes in the
code's order: stale, duplicate, contradictory, applied.

*Abstractions.* A deadline is the Boolean `lapsed`, so no run depends on how long
a hold lasts; a reopened retry window clears it. A report with the wrong amount,
currency or transaction is the answer "MISMATCH". Quantities are kept; prices are
not. An idempotency key is not modelled: a replay only sweeps. Leases and the
30-second pass are abstracted to "any instance may look any unresolved attempt up
at any time", which allows more than the code does. The 48-hour event window is
not a guard; the proofs and runs hold for late events too. An answer and a lookup are
stamped when they arrive, as the code does (`payments.service.ts:322` and `:619`), and
recorded later: other reports may overtake them in between.

*Configuration.* `EscalateUnresolved` is a review threshold
above zero, `ForgetReceipts` a receipt retention shorter than the event window.

### `RowLocks` and the code

The committed rows (`state`, `hold`, `lapsed`, `attempt`, `physical`, `reserved`,
`received`) are what other connections see; `owner` is the row locks; `job` is what a
connection is doing: its kind, its checkout, the holds that are past their deadline for
its `now()` (`due`), those of them its sweep has still to visit (`visit`), the table of
the row it locks next (`step`), what it has swept and what it will write. While there is
somebody to visit the row is that of the first of them (`Sweeps`), afterwards that of
the transaction's own checkout (`Does`); `FirstRow` and `NextRow` are the order in which
the code locks. A row locked by somebody else blocks the step. An uncommitted insert of
an idempotency record or an event receipt is a row whose lock makes the second inserter
wait (`claim`, `receipt`). `Decide` evaluates, under the locks, the conditions of the
command; `Commit` and `Rollback` release everything, and a command that finds the
attempt of an earlier one is a replay, which commits its sweep and writes nothing else
(`Replays`); a cycle of waits (`Ahead` is the least set closed under who waits for whom)
is broken by failing one of its transactions, as PostgreSQL does. Each checkout is for
one unit of one product, and a checkout has one attempt at a time, so this module is
about locks and not about charges.

### `CheckoutRecovery` and the code

`stored` is the command key in `sessionStorage`, `url` the checkout in the address
bar, `checked` the state `recoveryChecked`, `page` the page load (a counter: what an
earlier page waited for is answered to nobody), `requests` the fetches that the API
has not handled or the page has not read. `records` is `idempotency_records`, with the
order its fingerprint stands for. A key names the checkout it opens. `Submit`,
`CheckoutCreated` and `CreationFails` are `submitCheckout`; `RecoverOnMount` and
`RecoveryAnswered` the effect and the recovery inside `submitCheckout`; `Create`,
`Recover` and `Redact` the API. `opened` is a history variable. One tab is modelled;
a duplicated tab copies the session storage and is not.

### `Reconciler` and the code

Time is counted in units of ten seconds: a pass every three, a lease of two (25
seconds, rounded down, which is the harder case), a stale dispatch after two, a lookup
of at most one. `waiting` keeps the attempts in the order of
`COALESCE(last_reconciled_at, created_at)`; `rest`, `lease` and `silent` are the ages
of the three columns, counted only as far as the code compares them. An attempt
stamped a whole interval ago is on either side of the thirty seconds (`OnTheEdge`), so
a claim may or may not see it. `work` is the candidates an instance holds in memory, as
it read them: a candidate may have been settled by an event meanwhile. `poll` is the
lookups of clients: `getAttempt` calls the provider for an attempt that was not
reconciled in the last fifteen seconds, rounded down to one unit, asks for no lease, and
the outcome clears the one a pass may have (`StartPoll`, `EndPoll`). Rows skipped
because another transaction has them locked (SKIP LOCKED) and the mark for manual
review are left out. A lookup is assumed to be shorter than a lease and than the rest
after a visit, as the constants of the code are (10, 25 and 30 seconds): at equality two
passes could look an attempt up at the same instant. Polls are not kept apart from
passes, nor from each other: nothing in the code does that.

### `Gateway` and the code

No state: `http-payment-gateway.ts`, `payment-signatures.ts` and
`sandbox-payment.ts` as operators. A deployment is the settings `configuration`
compares, a credential the profile its prefix names (`TEST`, `STAGING`, `LIVE`). A reply
is what the code tells apart of a response. `CreateOutcome` is `createTransaction` with
the state it leaves the attempt in, `Fetched` is `getTransaction`, `CardStatus` the card
relay, `Tokenized` the browser's way from a card to a token. A digest is the list of the
values it is computed from, so two are equal exactly when those are; cryptography is
taken as given. `Accepted` is `receiveEvent` up to its transaction.

### `PaymentPanel` and the code

The browser tab: `token` and `local` are state of `App.tsx` (the token and the answer to
the last command), `marked` is the recovery marker in session storage, `asked` and
`submitting` are state of `PaymentPanel.tsx`, `shown`, `lookup` and `seen` what the last
reads returned. Everything else the page shows is derived (`Displayed`, `CanStart`,
`TerminalResult`, `FormOffered`), and `Render` is what every render does to the panel:
one that is gone forgets its state, one that comes back reads the marker, one that sees
an attempt anew clears it. `Submit`, `PostSucceeds` and `PostFails` are the command and
its two continuations, `Poll`, `Recheck` and `GiveUp` the timers, `Reload` a new page
load. `Deliver` may happen at any time after a command was sent, also when its page is
gone; a delivery of a command that has an attempt changes nothing. `ReceiveEvent` lets
an event through when `Gateway` accepts an envelope for it that the network can make:
one the provider signed, whole, in part or altered, or one signed with nothing.

`Settle` is `applyTransactionInTransaction` for the reports it applies (`Applies`): an
approval or a void also counts over a decline, an error or a void, and an approval of a
checkout in `PAYMENT_FAILED` sells the hold or, past the retry deadline, frees it
(`OrdersAfter`). `looked` is a history variable: a lookup has answered since the last
command was over. `Shop` lists the cases a behaviour may be of; each has its deployment
and total, and bounds of its own on commands, page loads and what the provider does.

*Abstractions.* A provider's answer is applied in the step in which it arrives
(`PaymentLifecycle` has the race between the two). The lookup of the attempt and the
reading of the checkout, always sent together, are answered together. `stage` stands for
`updated_at`, by which the panel decides which of two views of an attempt is newer. The
answer to a command carries the attempt as it was when it left and may be older than
what a lookup has shown. The marker's time stamp is the age of the last command. A
failed write of the marker sends nothing and is no step. The form's own expiry clock
only withdraws the form earlier than the API would refuse it. Stock, stamps, the review
flag, deadlines, other tabs and the eight-second return to the catalog are left out.

### `GuestCheckout` and the code

A request is handled in the code's steps: `RequireSession` (or the three statements of
`initialize`: `SelectDoomed`, `DeleteDoomed`, `ReuseOrCreate`), then the handler's
transaction. `Claim` is the insert of the idempotency record, which waits for the
transaction that has an uncommitted record of the same key, and `Open` or `RollBack` the
end of that transaction. `ReadCheckout` and `Pay` are `lockCheckoutForAttempt` in two
steps: the statement reads the customer's e-mail and may then wait for the lock of the
checkout, and PostgreSQL reads only the locked row again (`FOR UPDATE OF c`), so the
e-mail may be older than the lock. A payment command with a new key opens the first
attempt or, once that has failed or was never charged, another, up to two that reached
the provider (`Payable`). `Settle` decides an attempt, in one step and at any time: the
first failure moves the hold to the retry window that begins with it
(`extendRetryWindow`), so a hold may end later than a day after its checkout was opened;
everything else settles it. `FindRecord` and `Recover` are the two unlocked reads of
`recover`. `StartRun`, `RedactBatch` and `RunFails` are the retention job. `req` is what
the API holds in memory of each request, `checkout` the rows of `checkouts`,
`customers`, `reservations` (`due`), `idempotency_records` and `payment_attempts`
(`attempt`).

*Abstractions.* Time is counted in days. A hold as it is opened is shorter than the
retention because the configuration limits it to a day (`environment.ts:40`), and the
retention is thirty; what a retry window adds is not bounded.
`Before` fixes the order in which requests are sent, which only names them: when each is
handled, and how far, is open.
A request carries any cookie that was issued: the browser's cookie jar is not modelled.
A refusal for stock or for the amount is one outcome (`RollBack`).

## 3. Runs

The deadlock check is off for every module but `RowLocks`: a shop whose checkouts are
all settled, a tab out of page loads or commands, an attempt out of crashes, or
requests that are all answered have stopped for good. One run of each module also
checks its type invariant.

| run | instance | what it shows |
|---|---|---|
| `retries` | 1 checkout, 3 attempts, a provider that may turn a decline into an approval or a void | `StockConserved`, `SaleIsConsistent`, `PaymentInProgress`, `EventsAcknowledged`, `RetryLimit`, `AtMostOneCharge`, `NoChargeBehindFailure`, `ApprovedIsFinal`, `ImplementsHoldLedger` |
| `clocks` | 1 attempt, provider clock one tick ahead, mismatches, forgotten receipts, a lookup, escalation, voids of what was approved or declined; fairness of the lookups | `StampsMonotone`, `ContradictionFlagged`, `ApprovalIsRecorded` |
| `row_locks` | 2 connections, 2 held checkouts of one product; reads, payments and their replays, answers | `ImplementsHoldLedger`, `NeverSweptEarly` |
| `row_claims` | 2 connections, 2 checkouts, one of them still to be created, 1 unit; adds creation, events, passes, and fairness | `DeadlockNeedsASweep`, `ImplementsHoldLedger`, `EveryTransactionEnds` |
| `checkout_recovery` | 2 keys, 2 orders, 3 page loads | `NeverOrphaned`, `SpentKeysStaySpent`, `EveryWaitEnds` |
| `reconciler` | 2 instances, a polling client, 2 attempts, batches of 1, 1 crash | `PassesLookUpApart`, `NoStarvation`, `SilenceEnds` |
| `payment_panel` | 2 commands and 1 reload in a sound shop, one without integrity secret and one whose total has too many centavos; 1 command and 1 reload with a decline taken back; 3 commands that are declined or lost | `OneAttemptPerCommand`, `ProviderFacts`, `NoBlindResend`, `RecoveryEnds`, `RecordedOutcomeIsShown` |
| `guest_checkout` | 2 sessions, 3 requests, 1 checkout key, 2 payment keys, 2 payloads, 3 days, 1 failing batch | `OneCheckoutPerCommand`, `SessionsKeepTheirCheckouts`, `OnlyRetriesOutliveRedaction`, `FaithfulAnswers`, `EventuallyRedacted` |
| `late_approval` | 1 checkout, 2 attempts | `OnlyValidHoldsAreSold` is violated (finding 1) |
| `out_of_order` | 1 attempt, clock 0..1 | `ReviewHasCause` is violated (finding 2) |
| `row_opposite` | as `row_locks`, without answers | `NoOppositeWaits` is violated (finding 3) |
| `fresh_tokens` | as `payment_panel` | `FreshTokens` is violated (finding 4) |

*Bounds.* Two attempts are the first number at which one attempt's report meets
another attempt's open payment, and the most charges the code allows; three are the
first at which its limit can be exceeded. Several checkouts that compete for units, and
a transaction that sweeps several holds, are in `row_locks` and `row_claims`; for the
whole core they are covered by `TypeCorrect` and `StockIsConserved`, which hold for any
number of checkouts and products. The clock is
bounded by `MaxNow`: two ticks give an event older than, as old as and newer than
an answer. Without a clock (`MaxNow = 0`) all stamps are equal and no report is
stale, which leaves every order of delivery to the other guards. `MaxLookUps`
bounds the lookups in flight: with 0 a lookup adds nothing an event with the same
status does not do, with 1 an answer can be overtaken by events. `ERROR` goes the
same way as `DECLINED` in every guard, so most instances leave it out.
A cycle of row locks needs two connections and two checkouts; a third connection
makes longer cycles and no new kind of wait. Three page loads are an order, its
reload and the reload of that; two keys are what it takes to confuse two orders.
Two attempts compete for a batch of one as six do for a batch of five, and two
instances for one attempt; one client is enough to clear the lease of a pass.
Two commands are what it takes to send one in doubt of another, one reload is
what loses the page's memory between them, and three commands what it takes to lose one
while an older attempt, that failed, is on the page: this case has no reload and a
provider that declines at once, which is the shortest way there.
Three requests are a command, its replay and
the payment or the session clean-up that races them, or a checkout, its payment and the
retry of that; on day 2 a hold, a session and the retention have all run out, one after
the other, and a failure on day 1 holds a checkout past its redaction.

*Fairness.*
`clocks`: `WF(LookUp)`, because each instance runs a pass every 30 seconds from start to
shutdown (`reconciler` checks that it reaches every attempt, and every silent dispatch);
`SF(AnswerLookUp)` and `SF(ApplyLookUp)`: lookups may fail, but not every one for ever.
`WF(Tick)`: a clock ahead of ours is overtaken, so an answer stamped by us is
eventually not stale. Nothing is assumed of webhooks, of clients, or of the call that
opened the attempt.
`row_claims`: `SF(Proceed)`, because PostgreSQL grants a row lock in turn, and
`WF(BreakDeadlock)`, its deadlock time-out. Nothing makes a transaction begin or fail.
`checkout_recovery`: a fetch ends with an answer or an error; the effect runs when its
condition holds, and its reruns stop.
`reconciler`: time passes, timers fire, and the work of a pass and the lookup of a poll
end; the number of crashes is finite. Nothing makes a client poll.
`payment_panel`: `WF(TenSeconds)`, `WF(GiveUp)` and `WF(Poll)`, the browser's timers
while the tab is visible, and `WF(FirstLookup)`: a lookup comes back or fails. That
`Poll` is one that is answered means that not every poll fails for ever. Nothing is
assumed of the customer, the command or the provider.
`guest_checkout`: `WF(StartRun \/ RedactBatch)`, the job's timer and its transactions
(one of the two is always enabled), of which finitely many fail; `WF(Pay)`: a payment's
transaction ends and lets go of its lock.

*Seeded faults.* Every property has a variant of one definition that a plausible
bug would produce (comments `Seeded fault`), under which its run fails.

### Findings

1. *An approval can be sold after the retry deadline* (`late_approval`).
   `payments.service.ts:543` looks at the deadline only while the checkout is
   `PAYMENT_FAILED`. A decline opens the retry window; a retry that is refused
   or fails locally puts the checkout back to `RESERVED`; the deadline passes
   unswept; the first attempt is then approved late and commits the hold.
   `docs/payment-lifecycle.md:69` and `:71` promise a fulfillment exception.
2. *An out-of-order PENDING asks for manual review* (`out_of_order`).
   `payments.service.ts:503` counts every older, different status as a terminal
   conflict. `docs/payment-lifecycle.md:55` calls out-of-order events harmless.
3. *A command and a sweep wait for each other's checkouts* (`row_opposite`).
   `createAttempt` sweeps every lapsed hold, keeps those rows, and then locks its own
   checkout, whatever its id; another sweep that started once that checkout had lapsed
   holds it and waits for a row of the first. `docs/payment-lifecycle.md:46` says such
   waits in opposite orders do not occur. PostgreSQL aborts one of the two
   transactions, so nothing but the request is lost; `DeadlockNeedsASweep` shows that
   the sweep is the only cause.
4. *A card token can be sent twice* (`fresh_tokens`). `PaymentPanel.tsx:139` drops the
   token only when the answer to the command arrives. When the answer is lost and the
   recovery finds the attempt failed locally or refused, the form is offered again with
   the token still in memory and the next command carries it.
   `docs/payment-lifecycle.md:52` says "Each deliberate payment attempt uses a fresh card
   token." That first attempt has no transaction, so no card is charged twice.

Three smaller disagreements have no run of their own.

*The ten seconds of a lost payment do not always apply.* `PaymentPanel.tsx:55` calls a
recovery pending only while no attempt is on the page. With an older attempt on it that
failed, the form comes back with the first lookup after a lost command, while that
command may still be on its way to the API: the next one may overtake it. The API opens
an attempt for the one it handles first and refuses the other as long as that attempt is
open. `PaymentPanel.spec.tsx:117` says of a command without an answer "asks the user to
reconcile, never resend". `NoBlindResend` says what does hold: a lookup has answered in
between, and the ten seconds if no attempt is shown.

*A fingerprint can outlive its redaction.* A failure moves the hold
(`postgres-payment-persistence.adapter.ts:383`). When an attempt that was open for weeks
fails at last, the retry it allows may have read the e-mail just before its checkout was
redacted, and then inserts an attempt with a fingerprint. The redacted checkout is no
candidate any more, so that fingerprint stays, against `docs/payment-lifecycle.md:57`.
TLC reaches this in `guest_checkout`; `OnlyRetriesOutliveRedaction` says that there is no
other way.

*A silent dispatch may be marked a pass late.* `docs/payment-lifecycle.md:68` says that
a silent dispatch is marked "on the next 30-second reconciliation pass". A pass that
meets one younger than twenty seconds stamps it
(`postgres-payment-persistence.adapter.ts:126`), and the next pass may find that stamp a
moment less than thirty seconds old and skip it. `SilenceEnds` shows that it is marked
in the end.

## 4. Proofs

`PaymentLifecycle`, for every value of the constants that `ConstantsOK` admits: any set
of products and stock, any finite set of checkouts, any quantities, any retry bound, any
provider (which statuses it may start in and change to), any clock skew.

* `TypeCorrect`: `Spec => []TypeOK`. `TypeOK` is inductive. Its content is that
  both counters stay natural numbers, which each subtraction owes to its guard.
* `SaleConsistent`, `ApprovalFinal`, `HoldFinal`, from one inductive invariant
  `TypeOK /\ SaleInv`. `SaleIsConsistent` alone is not inductive: a checkout in
  exception that still held units could be sold by a second approval
  (`NoExceptionHolds`), an approved attempt not counted as answered could be
  reopened by a mismatch (`ApprovedIsAnswered`), and a hold older than its checkout
  would be overwritten by creating it (`NoHoldBefore`). The proof separates the one
  step that can sell, an accepted status, from all others, which move a checkout
  between unsold states or leave it alone (`Preserved`).
* `StockIsConserved`: from the same invariant and `Total`'s additivity over disjoint
  sets (`TotalUnion`, `TotalMinus`, `TotalOne`). Four lemmas cover the four ways
  stock moves: release, commit, sweep, create.
* `ImplementsLedger`: a refinement. A payment is in progress while its checkout is
  `PAYMENT_PENDING` or `UNKNOWN_OUTCOME`; with that, every step of the core is one
  transaction of `HoldLedger` or changes nothing it speaks of: a client's command is a
  sweep and one thing of its own (`ClientLedger`), an accepted report settles a hold or
  ends a payment (`AcceptLedger`), a closed dispatch at most ends a payment
  (`OtherWritesLedger`). It needs `Orderly`, below: without it a late PENDING could put
  a checkout whose hold is gone back in progress. `HoldFinal` follows from it too.
* `NothingIsCharged`, `ChargedOnce`, `StampsOnlyGrow`, `ContradictionsAreFlagged`,
  `ProgressIsTold`, `EventsAreRecorded`, `RetriesAreLimited`, from two more inductive
  invariants. `Evidence` relates a report to the provider: a row, an answer a process
  holds in memory and an event name a status only if there is a transaction, and a
  failure only if the provider signed it. Without the part about memory, an answer
  recorded late could contradict what the provider had meanwhile done. `Orderly`
  relates the attempts of a checkout to each other: `Progress` says that one attempt is
  open at a time, that the checkout names its state, and that it keeps its hold as long;
  `Retries` that two attempts at most reached the provider, and that a checkout which
  still holds units has seen one failure at most. A transaction the provider once reported
  as ended is not counted as a charge, even if the provider takes that back: nothing but
  such a report opens the way to a second attempt.

`CheckoutRecovery`, for any finite set of keys, any orders and any number of page loads:

* `NoOrphans` and `KeysAreSpent` (and `RecoveryInvariant`, from which both follow).
  `NeverOrphaned` says nothing of the network and is not inductive. `RecoveryInv` adds
  that what the page waits for is about the stored key (`AwaitedIsStored`), or an
  answer would clear another command's key; that it waits for one request
  (`OneAwaited`) and none belongs to a later page (`NoLaterPage`); that a creation
  nobody waits for is still covered when the API handles it at last
  (`PendingIsCovered`); and that an answer "gone" is still true when it is read
  (`GoneIsRedacted`). `RecoveryTypes` is its type invariant.

`RowLocks`, for any set of connections, any products and stock, any finite set of
checkouts, any kinds of transaction and any reports:

* `RowTypes`, `TransactionsAreAtomic`, `NeverSweptBeforeItsDeadline`, from one inductive
  invariant, `LockInv`. It has a part about what is committed: the rows of a checkout
  agree (`RowsAgree`) and the counters are what the holds add up to (`Balance`). And it
  has a part about each transaction, which says why it may act on what it has read.
  Every lock it holds is one its program has passed (`LocksHaveReasons`); what it has
  swept, visits, or has locked for its own command is locked by it and is still what it
  read (`SweptIsLocked`, `VisitedIsLocked`, `OwnIsLocked`); and what it will write was
  decided on rows that are still so (`WriteIsRight`). Without `SweptIsLocked` two sweeps
  could return the same unit; without `WriteIsRight` a command could commit a hold that
  is gone.
* The argument: but for deadlines that pass, `Commit` is the only step that writes a row
  (`OnlyCommitsWrite`), and whatever it writes is locked by the transaction that commits,
  so what the others rely on, which they have locked, is left alone
  (`CommitSparesLocked`, `CommitSparesOthers`). A step that writes nothing takes at most
  free locks and does not disturb them (`UnnoticedKeeps`). What `Commit` writes is one
  `Transaction` of `HoldLedger`, the swept holds and at most one thing of the command's
  own, or nothing the ledger speaks of.
* `NeverSweptBeforeItsDeadline`: a transaction's `due` loses a hold whose deadline moves,
  and only a hold in `due` is swept. A decline that moves it must hold the checkout, which
  the sweep locks before it looks again.
* `OnlySweepsDeadlock`: give each table its rank in the order in which the code locks. A
  transaction that holds no row of a sweep asks for a row of a rank above all it has
  (`PastWhatItHolds`), so along waits without such rows the rank grows: in a cycle through
  a transaction, those at a higher rank than its own would be closed under waiting, and it
  is not one of them (`CyclesHaveASweep`). The reconciliation pass holds attempts and
  waits for nobody.

`Reconciler`, for any finite or infinite set of attempts and instances, any batch and
number of crashes:

* `ReconcilerTypes`. Its content is the queue: every unresolved attempt waits exactly
  once, whoever stamps, resolves or opens it. It rests on what `RemoveAt` leaves of a
  sequence without repetitions (`RemovedAt`, `LeftOut`, `PutBehind`).
* `PassesNeverMeet`. Its invariant `LookUpInv` says why a lookup is alone
  (`LookUpsCovered`): what is left of its lease and the time it has taken make up a
  whole lease, or somebody visited the attempt since it began and it still rests, or the
  attempt is resolved; and a pass holds an attempt once (`OnePerPass`). Whoever clears a
  lease, a polling client among them, leaves a visit that rests (`ReconcileTouches`,
  `PollKeeps`). The theorem rests on a lookup being shorter than a lease and than the
  rest, and is about passes: of polls it is not true.

`GuestCheckout`, for any sessions, finite set of requests, keys and terms:

* `GuestTypes`, `CommandsAreSingle`, `OwnersStay`, `RedactionIsFinal`,
  `AnswersAreFaithful`, from `GuestInv`. It adds that one claim of a command key is open
  at a time (`OneClaim`), or a second one would open a second checkout; that a cookie
  was issued (`CookiesWereIssued`); that a payment past its first read is about a
  checkout of its session (`ReadIsOwn`); that what is redacted is old (`RedactedIsOld`):
  with a first hold shorter than the retention, a payment that read the e-mail before
  the redaction finds that hold lapsed and writes no fingerprint back; and that a hold
  which lasts longer was prolonged by a failed attempt (`ProlongedByFailure`), which is
  what a retry needs. That the first failure is the only one to prolong it is counted in
  `TwoCharged`.

`PaymentPanel`, for any number of commands and reloads, any shops and any provider:

* `PanelTypes`; `CommandsAreSingle` and `ApiBelievesFacts` from `ApiInv`, whose part
  `StatesAreTrue` says of every attempt what its state claims of the provider, with the
  events in `SignedWhenReached`. That an accepted event was signed (`AcceptedIsSigned`) is
  derived from the checksum: an envelope that verifies lists every required field, and a
  checksum equal to the expected one has the secret and the same values in it.
* `ResendsLookFirst`, from two invariants. `DoubtInv`: within ten seconds of a command
  an attempt is on the page or the marker is set (`DoubtIsMarked`), and then no form is
  offered. It needs that an answer under way shows an attempt (`AnswersShow`) and that
  what a page shows exists (`ViewsAreReal`), or an answer could clear the marker and
  show nothing. And `LookInv`: commands are sent one after the other (`SentInOrder`);
  while one is under way the form waits for it, or the panel is gone with the token
  spent (`WaitsForCommand`); once it is over, the form waits for a lookup, one is under
  way or has failed, or the page shows what became of the command (`WaitsForLookup`),
  since an answer is that of its own command (`AnswersAreOwn`).

Every safety invariant and every action property of the passing runs is thus a theorem.
Only model-checked: the liveness properties `ApprovalIsRecorded`,
`EveryTransactionEnds`, `EveryWaitEnds`, `NoStarvation`, `SilenceEnds`, `RecoveryEnds`,
`RecordedOutcomeIsShown` and `EventuallyRedacted`, since fairness and `ENABLED` are beyond
the prover; and the four runs that refute a statement of the documentation, which are
counterexamples and need no proof.

## 5. Plan

Done: the payment core with its type, sale, stock and charge proofs; the row locks and the
ledger they implement; the checkout command, the background pass, the payment panel with
the provider's boundary, and sessions, claims and retention, each with its proofs.

What could follow:

1. *SaleContract*: `HoldLedger` says what becomes of a hold and of stock. Fulfillment
   and exceptions (an approval without a hold is one) could have an abstract
   specification too; `SaleConsistent` says most of it today.
2. *MoneyBounds*: the sum of a checkout against the safe integers. `Gateway` has the
   conversion to centavos.

## 6. Not modelled

Presentation, form validation, request DTOs, logging, health, Terraform: no state or
no behaviour a property could be about. Cryptography is taken as given. The product
listing only reads, after the sweep it begins with. Of the configuration, what changes
behaviour is a constant or a field of a deployment; its parsing and defaults are not.

Of the web shop: duplicated tabs, a browser without storage, the draft of the order form,
and two tabs that initialize a session at once (`guest-sessions.service.ts:24`: each gets
one, the browser keeps the later cookie). Of `RowLocks`: the pool's limit of ten
connections, since no transaction asks for a second connection while it has one.

Behaviour the models have and no property speaks against:

* An unknown outcome without a transaction id can only be ended by an event
  (`payments.service.ts:661`, `docs/payment-lifecycle.md:79`).
* After a 404 the customer may change the order and send it under the stored key; if the
  lost request was handled meanwhile, the first order opens (`App.tsx:244`).
* When lookups fail and no attempt is on the page, only the customer's button asks again
  (`PaymentPanel.tsx:96`): `RecoveryEnds` counts that as an end.
