------------------------------ MODULE PaymentPanel ------------------------------
(***************************************************************************)
(* Paying one checkout from one browser tab, end to end: the payment panel *)
(* with its recovery marker and timers, the attempt the API records, the   *)
(* provider's transaction, and a network that delays, repeats and loses    *)
(* what passes between them.                                               *)
(*                                                                         *)
(* The API's side is the part of PaymentLifecycle the panel can tell       *)
(* apart: a provider answer is applied in the step it arrives in, and      *)
(* stock, deadlines, stamps and the review flag are left out: a report is  *)
(* stale, or a retry deadline over, whenever it can be.  What an answer or *)
(* an event is worth is decided by Gateway.                                *)
(***************************************************************************)
EXTENDS Gateway

CONSTANTS
  MaxCommands,   \* payment commands a tab sends at most
  Shop           \* the cases: a deployment and the total of a checkout, the commands its tab
                 \* may send and how often its page may be loaded again, what the provider
                 \* makes of a request (a status of its transaction, or REFUSED) and the
                 \* status changes it makes later

ASSUME PanelBounds ==
  /\ MaxCommands \in Nat \ {0}
  /\ \A s \in DOMAIN Shop :
       Shop[s] \in [deployment : Deployment, amount : Nat, commands : Nat, reloads : Nat,
                    first : SUBSET (TransactionStatus \cup {"REFUSED"}),
                    moves : SUBSET (TransactionStatus \X TransactionStatus)]

VARIABLES
  \* the browser tab
  token,       \* the card token in memory: NONE, NEW, or SENT once a command carried it
  marked,      \* the recovery marker is in session storage
  age,         \* of the last command: NONE, FRESH (under ten seconds) or OLD
  asked,       \* recoveryPendingRequested
  submitting,  \* the command the form waits for, REFRESH, or NONE
  local,       \* localPaymentAttempt: the answer to the last command
  shown,       \* the latest attempt a lookup returned
  lookup,      \* attemptLookupState
  seen,        \* the checkout as last read
  looked,      \* history: a lookup has answered since the last command was over
  reloads,
  \* the network
  post,        \* per command: how far its request is
  answer,      \* and the attempt as its answer shows it
  \* the API
  attempts,    \* the checkout's payment attempts, in order
  order,       \* the checkout and its hold
  shop,        \* the case this is
  \* the provider
  tx,          \* what became of each attempt's request
  events       \* the status changes it has signed

memory  == <<token, local>>
panel   == <<marked, asked, submitting>>
reading == <<shown, lookup, seen, looked>>
api     == <<attempts, order>>
remote  == <<tx, events>>
wire    == <<post, answer>>
vars    == <<memory, panel, reading, age, reloads, wire, api, shop, remote>>

Deployed == Shop[shop].deployment
Amount   == Shop[shop].amount

Commands == 1..MaxCommands

Unresolved == {"PENDING", "UNKNOWN_OUTCOME"}
NotSent    == {"FAILED_LOCAL", "REJECTED_NO_TRANSACTION"}
Failed     == {"DECLINED", "ERROR"}
Terminal   == {"APPROVED", "DECLINED", "ERROR", "VOIDED"}
-------------------------------------------------------------------------------
(***************************************************************************)
(* What the page derives on every render.  A view's stage stands for       *)
(* updatedAt: how far the row had come on its only way, from created to    *)
(* unknown to heard of to failed to voided to approved; of two attempts    *)
(* the later one is taken to be the later updated.                         *)
(***************************************************************************)
Stage(state, heard) == CASE state = "UNKNOWN_OUTCOME" -> 2
                         [] state = "PENDING" -> IF heard THEN 3 ELSE 1
                         [] state = "VOIDED" -> 5
                         [] state = "APPROVED" -> 6
                         [] OTHER -> 4

NoView  == [number |-> 0, state |-> "NONE", stage |-> 0]
View(n) == [number |-> n, state |-> attempts[n].state,
            stage |-> Stage(attempts[n].state, attempts[n].heard)]
Latest  == IF attempts = <<>> THEN NoView ELSE View(Len(attempts))

Newer(v, w) == v.number > w.number \/ (v.number = w.number /\ v.stage > w.stage)

\* latestAttempt.
Displayed == IF local # NoView /\ Newer(local, shown) THEN local ELSE shown

Open            == Displayed.state \in Unresolved
RecoveryPending == Displayed = NoView /\ asked /\ marked

CanPayAgain ==
  /\ seen.state \in {"RESERVED", "PAYMENT_FAILED"} /\ seen.hold = "HELD"
  /\ \/ Displayed = NoView
     \/ Displayed.state \in Failed /\ Displayed.number < 2
     \/ Displayed.state \in NotSent /\ Displayed.number < 10

CanStart == lookup \in {"FOUND", "NOT_FOUND"} /\ CanPayAgain

TerminalResult ==
  /\ seen.state # "LOADING" /\ ~Open
  /\ \/ seen.state \in {"PAID", "PAYMENT_FAILED", "CANCELLED", "EXPIRED", "FULFILLMENT_EXCEPTION"}
     \/ Displayed.state \in Terminal
  /\ ~(token # "NONE" /\ CanPayAgain)

PanelShown  == seen.state # "LOADING" /\ ~TerminalResult
FormOffered == PanelShown /\ ~RecoveryPending /\ ~Open /\ CanStart

\* Every step of the page ends in a render: a panel that is gone forgets its state and
\* reads the marker again when it comes back, and one that sees an attempt anew clears it.
Render(mark, ask, busy) ==
  /\ marked' = (mark /\ ~(PanelShown' /\ Displayed' # NoView
                            /\ (Displayed' # Displayed \/ ~PanelShown)))
  /\ asked' = IF PanelShown' THEN ask ELSE marked'
  /\ submitting' = IF PanelShown' THEN busy ELSE "NONE"
-------------------------------------------------------------------------------
(***************************************************************************)
(* The customer.                                                           *)
(***************************************************************************)
Loading == [state |-> "LOADING", hold |-> "NONE"]

\* The names `submitting` takes for a command.
Busy(k) == IF k = 1 THEN "FIRST" ELSE "LATER"

\* The documents are shown, the card is encrypted and exchanged for a token.
EnterCard ==
  /\ token = "NONE"
  /\ CanPayAgain /\ (FormOffered \/ TerminalResult)
  /\ DocumentsShown(Deployed, "OK", DocumentFields)
  /\ Tokenized(Deployed, CardChecks, "OK", "OK", Deployed.publicKey)
  /\ token' = "NEW"
  /\ UNCHANGED <<local, reading, age, reloads, wire, api, shop, remote>>
  /\ Render(marked, asked, submitting)

\* submit, up to the request: the marker is written before anything is sent.
Submit(k) ==
  /\ k <= Shop[shop].commands
  /\ FormOffered /\ submitting = "NONE" /\ token # "NONE"
  /\ post[k] = "UNUSED" /\ \A j \in 1..(k - 1) : post[j] # "UNUSED"
  /\ post' = [post EXCEPT ![k] = "SENT"] /\ token' = "SENT"
  /\ age' = "FRESH" /\ looked' = FALSE
  /\ UNCHANGED <<local, shown, lookup, seen, reloads, answer, api, shop, remote>>
  /\ Render(TRUE, TRUE, Busy(k))

\* refreshCheckoutAndAttempt, sent: without an attempt to show, or after an error, the
\* lookup is loading.
Refresh ==
  /\ lookup' = IF lookup = "FOUND" THEN "FOUND" ELSE "LOADING"
  /\ looked' = FALSE
  /\ UNCHANGED <<shown, seen>>

\* The answer to the command arrives: it is shown, and the token is dropped.
PostSucceeds(k) ==
  /\ post[k] = "ANSWERED"
  /\ post' = [post EXCEPT ![k] = "DONE"] /\ answer' = [answer EXCEPT ![k] = NoView]
  /\ local' = answer[k] /\ token' = "NONE"
  /\ Refresh
  /\ UNCHANGED <<age, reloads, api, shop, remote>>
  /\ Render(FALSE, FALSE, IF submitting = Busy(k) THEN "REFRESH" ELSE submitting)

\* Seeded fault: the form does not wait for the lookup.
PostFailsAtOnce(k) ==
  /\ post[k] \in {"SENT", "ANSWERED"}
  /\ post' = [post EXCEPT ![k] = "DONE"] /\ answer' = [answer EXCEPT ![k] = NoView]
  /\ Refresh
  /\ UNCHANGED <<memory, age, reloads, api, shop, remote>>
  /\ Render(marked, TRUE, IF submitting = Busy(k) THEN "NONE" ELSE submitting)

\* A time-out, a lost answer, an error status: the outcome is unknown and looked up.
PostFails(k) ==
  /\ post[k] \in {"SENT", "ANSWERED"}
  /\ post' = [post EXCEPT ![k] = "DONE"] /\ answer' = [answer EXCEPT ![k] = NoView]
  /\ Refresh
  /\ UNCHANGED <<memory, age, reloads, api, shop, remote>>
  /\ Render(marked, TRUE, IF submitting = Busy(k) THEN "REFRESH" ELSE submitting)
-------------------------------------------------------------------------------
(***************************************************************************)
(* Timers and lookups.                                                     *)
(***************************************************************************)
Settled(busy) == IF busy = "REFRESH" THEN "NONE" ELSE busy
UnderWay      == \E k \in Commands : post[k] \in {"SENT", "ANSWERED"}

\* Seeded fault: a 404 counts as an answer.
AnswerWithoutAttempt ==
  /\ shown' = Latest /\ seen' = order /\ lookup' = "FOUND" /\ looked' = ~UnderWay
  /\ UNCHANGED <<memory, age, reloads, wire, api, shop, remote>>
  /\ Render(marked, asked, Settled(submitting))

\* GET payment-attempts/latest and GET checkouts/{id}, always asked for together.  The
\* first may reconcile the attempt before it answers.
AnswerLookup ==
  /\ shown' = Latest /\ seen' = order
  /\ lookup' = IF Latest = NoView THEN "NOT_FOUND" ELSE "FOUND"
  /\ looked' = ~UnderWay
  /\ UNCHANGED <<memory, age, reloads, wire, api, shop, remote>>
  /\ Render(marked, asked, Settled(submitting))

LookupFails ==
  /\ lookup' = "ERROR"
  /\ UNCHANGED <<memory, shown, seen, looked, age, reloads, wire, api, shop, remote>>
  /\ Render(marked, asked, Settled(submitting))

\* What a load or a command has made the page ask for comes back, or does not.
FirstLookup == lookup = "LOADING" /\ (AnswerLookup \/ LookupFails)

\* The buttons that ask again: everywhere but on the final status.
AskAgain == ~TerminalResult /\ (AnswerLookup \/ LookupFails)

\* Seeded fault: an unknown outcome is not polled.
PollPending == PanelShown /\ Displayed.state = "PENDING" /\ AnswerLookup

\* Every ten seconds while the attempt on the page is unresolved and the tab visible.
Poll == PanelShown /\ Open /\ AnswerLookup

\* Within ten seconds of the command, while lookups find nothing.
Recheck == PanelShown /\ RecoveryPending /\ lookup = "NOT_FOUND" /\ age = "FRESH" /\ AnswerLookup

\* Seeded fault: the test on the marker is inverted.
GiveUpUnmarked ==
  /\ PanelShown /\ RecoveryPending /\ lookup = "NOT_FOUND" /\ age = "OLD" /\ ~marked
  /\ UNCHANGED <<memory, reading, age, reloads, wire, api, shop, remote>>
  /\ Render(FALSE, FALSE, submitting)

\* After ten seconds without an attempt, the command is taken for lost.
GiveUp ==
  /\ PanelShown /\ RecoveryPending /\ lookup = "NOT_FOUND" /\ age = "OLD"
  /\ UNCHANGED <<memory, reading, age, reloads, wire, api, shop, remote>>
  /\ Render(FALSE, FALSE, submitting)

TenSeconds ==
  /\ age = "FRESH" /\ age' = "OLD"
  /\ UNCHANGED <<memory, panel, reading, reloads, wire, api, shop, remote>>

\* Seeded fault: the marker is kept in memory.
ReloadUnmarked ==
  /\ reloads < Shop[shop].reloads /\ reloads' = reloads + 1
  /\ token' = "NONE" /\ local' = NoView /\ shown' = NoView
  /\ lookup' = "LOADING" /\ seen' = Loading /\ looked' = FALSE
  /\ post' = [k \in Commands |-> IF post[k] = "UNUSED" THEN "UNUSED" ELSE "DONE"]
  /\ answer' = [k \in Commands |-> NoView]
  /\ UNCHANGED <<age, api, shop, remote>>
  /\ Render(FALSE, FALSE, "NONE")

\* The page is loaded again: only the marker survives, and answers under way reach nobody.
Reload ==
  /\ reloads < Shop[shop].reloads /\ reloads' = reloads + 1
  /\ token' = "NONE" /\ local' = NoView /\ shown' = NoView
  /\ lookup' = "LOADING" /\ seen' = Loading /\ looked' = FALSE
  /\ post' = [k \in Commands |-> IF post[k] = "UNUSED" THEN "UNUSED" ELSE "DONE"]
  /\ answer' = [k \in Commands |-> NoView]
  /\ UNCHANGED <<age, api, shop, remote>>
  /\ Render(marked, marked, "NONE")
-------------------------------------------------------------------------------
(***************************************************************************)
(* The API.  A command is delivered at any time after it was sent, any     *)
(* number of times, even when the browser has long given it up.            *)
(***************************************************************************)
browser == <<memory, panel, reading, age, reloads>>

Numbers      == DOMAIN attempts
ChargeStates == {"PENDING", "UNKNOWN_OUTCOME", "APPROVED", "DECLINED", "ERROR", "VOIDED"}
Charges      == {n \in Numbers : attempts[n].state \in ChargeStates}

Eligible ==
  /\ order.state \in {"RESERVED", "PAYMENT_FAILED"} /\ order.hold = "HELD"
  /\ \A n \in Numbers : attempts[n].state \notin Unresolved \cup {"APPROVED", "VOIDED"}
  /\ Cardinality(Charges) < 2
  /\ Len(attempts) < 10

\* createAttempt, first transaction.
OpenAttempt(k) ==
  /\ Eligible
  /\ attempts' = Append(attempts, [key |-> k, state |-> "PENDING", heard |-> FALSE])
  /\ order' = [order EXCEPT !.state = "PAYMENT_PENDING"]
  /\ tx' = Append(tx, IF MayCreate(Deployed, Amount) THEN "REQUESTED" ELSE "NEVER")
  /\ UNCHANGED <<browser, wire, shop, events>>

\* Seeded fault: a repeated command is not recognised.
DeliverAgain(k) == post[k] # "UNUSED" /\ OpenAttempt(k)

\* A repeated command is answered with its attempt, and an ineligible one with an error;
\* neither changes anything.
Deliver(k) ==
  /\ post[k] # "UNUSED"
  /\ \A n \in Numbers : attempts[n].key # k
  /\ OpenAttempt(k)

\* The answer leaves with the attempt as it is at that moment.
AnswerPost(k) ==
  /\ post[k] = "SENT" /\ post' = [post EXCEPT ![k] = "ANSWERED"]
  /\ \E n \in Numbers : attempts[n].key = k /\ answer' = [answer EXCEPT ![k] = View(n)]
  /\ UNCHANGED <<browser, api, shop, remote>>

Write(n, state, heard) ==
  attempts' = [attempts EXCEPT ![n].state = state, ![n].heard = heard]

\* markLocalFailure, markRejected, markUnknown.
CloseDispatch(n, attemptState, orderState) ==
  /\ attempts[n].state = "PENDING" /\ ~attempts[n].heard
  /\ Write(n, attemptState, FALSE)
  /\ order' = [order EXCEPT !.state = IF @ = "PAYMENT_PENDING" THEN orderState ELSE @]

OrdersAfter(n, s) ==
  LET held     == order.hold = "HELD"
      lastTry  == Cardinality(Charges \cup {n}) >= 2
      To(state, hold) == [state |-> state, hold |-> hold]
  IN CASE s = "PENDING" ->
            IF order.state \in {"EXPIRED", "CANCELLED", "PAID", "FULFILLMENT_EXCEPTION"}
            THEN {order} ELSE {To("PAYMENT_PENDING", order.hold)}
       [] s = "APPROVED" ->
            IF held
            THEN {To("PAID", "COMMITTED")}
                 \cup (IF order.state = "PAYMENT_FAILED"
                       THEN {To("FULFILLMENT_EXCEPTION", "RELEASED")} ELSE {})
            ELSE {To("FULFILLMENT_EXCEPTION", order.hold)}
       [] s \in Failed ->
            IF held THEN {To("PAYMENT_FAILED", IF lastTry THEN "RELEASED" ELSE "HELD")} ELSE {order}
       [] s = "VOIDED" ->
            {To(IF order.state \in {"PAID", "FULFILLMENT_EXCEPTION"} THEN order.state ELSE "CANCELLED",
                IF held THEN "RELEASED" ELSE order.hold)}

\* A failure or a void gives way to an approval or to another void, and nothing to the rest.
Applies(n, s) ==
  /\ attempts[n].state # "APPROVED"
  /\ attempts[n].state \in Terminal => s \in {"APPROVED", "VOIDED"}
  /\ <<attempts[n].state, attempts[n].heard>> # <<s, TRUE>>

\* applyTransactionInTransaction for a status that it applies.
Settle(n, s) ==
  /\ Applies(n, s)
  /\ Write(n, s, TRUE)
  /\ order' \in OrdersAfter(n, s)

\* What the provider, or the network in its place, may answer to the request.
PossibleReply(n, reply) ==
  \/ reply \in TransactionStatus /\ tx[n] = reply
  \/ reply \in Refusal /\ tx[n] = "REFUSED"
  \/ reply \in {"NO_ANSWER", "REFUSED"}

\* createAttempt, once createTransaction returns or throws: at any time, after somebody
\* else's news of the same transaction, or, when the process died, never.
RecordReply(n, reply) ==
  /\ PossibleReply(n, reply)
  /\ LET outcome == CreateOutcome(Deployed, Amount, reply)
     IN \/ outcome \in NotSent /\ CloseDispatch(n, outcome, "RESERVED")
        \/ outcome = "UNKNOWN_OUTCOME" /\ CloseDispatch(n, outcome, outcome)
        \/ outcome \in TransactionStatus /\ Settle(n, outcome)
  /\ UNCHANGED <<browser, wire, shop, remote>>

\* The reconciler finds a dispatch nobody answered for twenty seconds.
RecoverDispatch(n) ==
  /\ CloseDispatch(n, "UNKNOWN_OUTCOME", "UNKNOWN_OUTCOME")
  /\ UNCHANGED <<browser, wire, shop, remote>>

\* Reconciliation by transaction id, from the pass or from a lookup of the browser.
Reconcile(n) ==
  /\ attempts[n].heard /\ attempts[n].state \in Unresolved
  /\ \E s \in TransactionStatus :
       /\ tx[n] = s /\ Fetched(Deployed, s) = s
       /\ Settle(n, s)
  /\ UNCHANGED <<browser, wire, shop, remote>>

\* The sweep, or the sweep at the start of the next command.
Expire ==
  /\ order.state \in {"RESERVED", "PAYMENT_FAILED"} /\ order.hold = "HELD"
  /\ order' = [state |-> "EXPIRED", hold |-> "RELEASED"]
  /\ UNCHANGED <<browser, wire, attempts, shop, remote>>
-------------------------------------------------------------------------------
(***************************************************************************)
(* The provider and its events.  The network may hand over an event that   *)
(* is not what was signed, or one signed over fewer fields, or for another *)
(* environment; none of them may count.                                    *)
(***************************************************************************)
AllFields       == <<"id", "reference", "amount_in_cents", "currency", "status">>
FieldsButStatus == <<"id", "reference", "amount_in_cents", "currency">>

Transaction(s) == [id |-> "ID", reference |-> "REFERENCE", amount_in_cents |-> "TOTAL",
                   currency |-> "COP", status |-> s]

Signed(s, fields, secret) ==
  [event |-> "transaction.updated", environment |-> "test", timestamp |-> 1,
   header |-> "NONE", illFormed |-> {}, transaction |-> Transaction(s),
   properties |-> fields, checksum |-> Checksum(Transaction(s), fields, 1, secret)]

\* What may arrive of the event that an attempt's transaction has status s.
Copies(s, secret) ==
  LET genuine == Signed(s, AllFields, secret)
      partial == Signed(s, FieldsButStatus, secret)
  IN {genuine, Signed(s, AllFields, "LIVE"), [genuine EXCEPT !.illFormed = {"status"}]}
     \cup {[e EXCEPT !.transaction.status = t] :
             e \in {genuine, partial}, t \in TransactionStatus}

\* The statuses receiveEvent believes on hearing of s, a moment or two days late.
Believed ==
  [c \in DOMAIN Shop |-> [s \in TransactionStatus |->
     LET d == Shop[c].deployment
     IN {e.transaction.status :
           e \in {f \in Copies(s, d.eventsSecret) :
                    \E seconds \in {0, 172801} : Accepted(d, f, seconds)}}]]

\* receiveEvent: an event is applied, or found stale, repeated or contradictory.
ReceiveEvent(n, s) ==
  /\ <<n, s>> \in events
  /\ \E t \in Believed[shop][s] : Settle(n, t)
  /\ UNCHANGED <<browser, wire, shop, remote>>

Sign(n, s) ==
  /\ tx' = [tx EXCEPT ![n] = s]
  /\ events' = events \cup {<<n, s>>}
  /\ UNCHANGED <<browser, wire, api, shop>>

ProviderCreates(n, s) == tx[n] = "REQUESTED" /\ s \in Shop[shop].first /\ Sign(n, s)
ProviderChanges(n, s) == <<tx[n], s>> \in Shop[shop].moves /\ Sign(n, s)

ProviderRefuses(n) ==
  /\ tx[n] = "REQUESTED" /\ "REFUSED" \in Shop[shop].first
  /\ tx' = [tx EXCEPT ![n] = "REFUSED"]
  /\ UNCHANGED <<browser, wire, api, shop, events>>
-------------------------------------------------------------------------------
\* The page has just been opened on a new checkout, with the card token in memory.
Init ==
  /\ token = "NEW"
  /\ marked = FALSE /\ asked = FALSE /\ submitting = "NONE" /\ age = "NONE"
  /\ local = NoView /\ shown = NoView /\ lookup = "LOADING"
  /\ seen = Loading /\ looked = FALSE /\ reloads = 0
  /\ post = [k \in Commands |-> "UNUSED"] /\ answer = [k \in Commands |-> NoView]
  /\ attempts = <<>> /\ order = [state |-> "RESERVED", hold |-> "HELD"]
  /\ shop \in DOMAIN Shop
  /\ tx = <<>> /\ events = {}

Page == \/ EnterCard \/ Reload
        \/ \E k \in Commands : Submit(k) \/ PostSucceeds(k) \/ PostFails(k)
        \/ FirstLookup \/ AskAgain \/ Poll \/ Recheck
        \/ GiveUp \/ TenSeconds

Api == \/ \E k \in Commands : Deliver(k) \/ AnswerPost(k)
       \/ \E n \in Numbers : \/ \E reply \in Reply : RecordReply(n, reply)
                             \/ RecoverDispatch(n) \/ Reconcile(n)
                             \/ \E s \in TransactionStatus : ReceiveEvent(n, s)
       \/ Expire

Provider == \E n \in Numbers : \/ \E s \in TransactionStatus : ProviderCreates(n, s)
                                                            \/ ProviderChanges(n, s)
                               \/ ProviderRefuses(n)

Next == Page \/ Api \/ Provider

Spec == Init /\ [][Next]_vars

(***************************************************************************)
(* Time passes, timers fire while the tab is visible, a lookup comes back  *)
(* or fails, and of the polls that never stop one is answered.  Nothing is *)
(* assumed of the customer, the command or the provider.                   *)
(***************************************************************************)
Fairness == /\ WF_vars(TenSeconds) /\ WF_vars(FirstLookup)
            /\ WF_vars(Poll) /\ WF_vars(GiveUp)

FairSpec == Spec /\ Fairness
-------------------------------------------------------------------------------
AttemptState == Unresolved \cup NotSent \cup Terminal
OrderState == {"RESERVED", "PAYMENT_PENDING", "PAYMENT_FAILED", "UNKNOWN_OUTCOME", "PAID",
               "CANCELLED", "EXPIRED", "FULFILLMENT_EXCEPTION"}
OrderRecord == [state : OrderState, hold : {"HELD", "COMMITTED", "RELEASED"}]
ViewRecord  == [number : Nat, state : AttemptState \cup {"NONE"}, stage : 0..6]
AttemptRecord == [key : Commands, state : AttemptState, heard : BOOLEAN]

TypeOK ==
  /\ token \in {"NONE", "NEW", "SENT"}
  /\ marked \in BOOLEAN /\ asked \in BOOLEAN /\ age \in {"NONE", "FRESH", "OLD"}
  /\ submitting \in {"NONE", "REFRESH", "FIRST", "LATER"}
  /\ local \in ViewRecord /\ shown \in ViewRecord
  /\ lookup \in {"LOADING", "FOUND", "NOT_FOUND", "ERROR"}
  /\ seen \in OrderRecord \cup {Loading} /\ looked \in BOOLEAN /\ reloads \in Nat
  /\ post \in [Commands -> {"UNUSED", "SENT", "ANSWERED", "DONE"}]
  /\ answer \in [Commands -> ViewRecord]
  /\ attempts \in Seq(AttemptRecord) /\ order \in OrderRecord /\ shop \in DOMAIN Shop
  /\ tx \in Seq(TransactionStatus \cup {"REQUESTED", "REFUSED", "NEVER"})
  /\ events \subseteq Nat \X TransactionStatus
  /\ Len(tx) = Len(attempts)
  /\ marked => asked
  /\ lookup = "FOUND" => shown # NoView
-------------------------------------------------------------------------------
(***************************************************************************)
(* One command is one attempt: however often the network delivers it, and  *)
(* whatever became of its attempt, a command key names at most one.        *)
(***************************************************************************)
OneAttemptPerCommand ==
  \A m, n \in Numbers : attempts[m].key = attempts[n].key => m = n

Reached(n, s) == tx[n] = s \/ <<n, s>> \in events

(***************************************************************************)
(* The API believes only what the provider did.  An attempt it calls       *)
(* local or rejected never became a transaction, one with a provider       *)
(* status had that status at the provider, whichever answer, lookup or     *)
(* event said so, and no request leaves a shop that is not a configured    *)
(* sandbox or for a total whose centavos a double does not hold.           *)
(***************************************************************************)
ProviderFacts ==
  \A n \in Numbers :
    /\ attempts[n].state = "FAILED_LOCAL" => tx[n] = "NEVER"
    /\ attempts[n].state = "REJECTED_NO_TRANSACTION" => tx[n] = "REFUSED"
    /\ attempts[n].state \in Terminal => Reached(n, attempts[n].state)
    /\ tx[n] # "NEVER" => /\ Deployed.environment = "test"
                          /\ Amount * 100 <= MaxSafe

Sends(k) == post[k] = "UNUSED" /\ post'[k] = "SENT"

\* The page shows the attempt of command k, or one that was opened after it.
Shows(k) == \E n \in Numbers : attempts[n].key = k /\ n <= Displayed.number

(***************************************************************************)
(* No command is sent blindly: after the last one, whose answer may be     *)
(* lost, a lookup has answered since it was over, unless the page shows    *)
(* what became of it; and as long as the page has no attempt at all to     *)
(* show, ten seconds have passed, whatever was loaded again or lost        *)
(* meanwhile.  More does not hold: while the page shows an OLDER attempt   *)
(* that failed, it gives the form back as soon as that lookup is there,    *)
(* and a command still under way to the API gets no ten seconds.           *)
(***************************************************************************)
NoBlindResend ==
  [][\A k \in Commands :
       Sends(k) => /\ looked \/ Shows(k - 1)
                   /\ age # "FRESH" \/ Displayed # NoView]_vars

Recovering == PanelShown /\ RecoveryPending

(***************************************************************************)
(* A recovery ends: with an attempt on the page, with the form back after  *)
(* ten seconds, or with an error that the customer can retry.              *)
(***************************************************************************)
RecoveryEnds == Recovering ~> (~Recovering \/ lookup = "ERROR")

OutcomeUnseen == Open /\ Displayed.number = Len(attempts) /\ Latest.state \notin Unresolved

(***************************************************************************)
(* A recorded outcome is shown: once the API has settled the attempt that  *)
(* the page shows as unresolved, the page stops showing it so.             *)
(***************************************************************************)
RecordedOutcomeIsShown == OutcomeUnseen ~> ~OutcomeUnseen

Recorded(k) == \E n \in Numbers : attempts[n].key = k

(***************************************************************************)
(* docs/payment-lifecycle.md, of a payment attempt: "Each deliberate       *)
(* payment attempt uses a fresh card token."  No command carries the token *)
(* of the command before it when that one became an attempt.               *)
(***************************************************************************)
FreshTokens ==
  [][\A k \in Commands : Sends(k) /\ Recorded(k - 1) => token = "NEW"]_vars
===============================================================================
