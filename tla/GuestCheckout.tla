--------------------------- MODULE GuestCheckout ---------------------------
(***************************************************************************)
(* Who owns a checkout, and for how long it names a person: the anonymous  *)
(* sessions (guest-sessions), the transaction that claims a command key    *)
(* and opens a checkout (checkouts.service.ts), the payment commands on it *)
(* with their retries, and the job that redacts personal data and the      *)
(* fingerprints derived from it (checkout-pii-retention.service.ts).       *)
(*                                                                         *)
(* A request is handled in several steps: its session is looked up before  *)
(* its transaction, and a transaction that claimed a key stays open until  *)
(* it commits or is rolled back.  Time passes in days between the steps.   *)
(* How the provider decides an attempt, and the stock, are in              *)
(* PaymentLifecycle: here an attempt is decided in one step, at any time.  *)
(***************************************************************************)
EXTENDS Integers, FiniteSets, FiniteSetsExt

CONSTANTS
  Sessions,     \* guest sessions the API may create
  Issued,       \* those it created on the first day
  Requests,     \* requests, each handled once; a create also names its checkout
  Before,       \* per request: those sent before it; requests are named in this order
  Keys,         \* Idempotency-Keys of checkout commands
  PaymentKeys,  \* those of payment commands
  Payloads,     \* canonical contents of a command
  HoldFor,      \* CHECKOUT_RESERVATION_TTL_SECONDS, at most a day
  RetryFor,     \* PAYMENT_RETRY_WINDOW_SECONDS, the rest of a day
  SessionFor,   \* GUEST_SESSION_TTL_DAYS
  RetainFor,    \* days after which a checkout is redacted
  BatchSize,    \* PII_RETENTION_BATCH_SIZE
  MaxDay,       \* bound: days that pass
  MaxFailures   \* bound: batches that fail

ASSUME GuestCheckoutConstants ==
  /\ IsFiniteSet(Requests) /\ IsFiniteSet(PaymentKeys) /\ Issued \subseteq Sessions
  /\ Before \in [Requests -> SUBSET Requests]
  /\ {HoldFor, RetryFor, SessionFor, RetainFor, BatchSize} \subseteq Nat \ {0}
  /\ HoldFor < RetainFor
  /\ MaxDay \in Nat /\ MaxFailures \in Nat
  /\ {"NONE", "REDACTED"} \cap (Sessions \cup Requests \cup Keys \cup PaymentKeys \cup Payloads) = {}

VARIABLES
  day,
  until,       \* per session: the day it expires, -1 before, -2 once deleted
  req,         \* per request: what it asks and how far it is
  checkout,    \* per create request: the checkout it committed
  running,     \* a run of the retention job is under way
  failures

vars == <<day, until, req, checkout, running, failures>>

Unissued == -1
Deleted  == -2

Ops     == {"init", "create", "recover", "pay"}
Stages  == {"UNSENT", "SENT", "DELETING", "DELETED", "IN", "CLAIMED", "FOUND", "READ", "DONE"}
Answers == {"NONE", "REUSED", "CREATED", "OPENED", "UNAUTHORIZED", "NOT_FOUND",
            "GONE", "CONFLICT", "REFUSED", "FAILED"}

CommandKeys == Keys \cup PaymentKeys

\* doomed: sessions the DELETE of an init will remove; since: now() of a create's
\* transaction; email: whether a payment read one; of: the checkout asked for or
\* answered.
Request ==
  [op : Ops \cup {"NONE"}, cookie : Sessions \cup {"NONE"},
   key : CommandKeys \cup {"NONE"}, payload : Payloads \cup {"NONE"},
   at : Stages, doomed : SUBSET Sessions, since : 0..MaxDay, email : BOOLEAN,
   of : Requests \cup {"NONE"}, answer : Answers]

\* A payment attempt: OPEN until it is decided, FREED when nothing was charged,
\* FAILED when declined or in error, CLOSED when approved or voided.
Attempt ==
  [state : {"OPEN", "FREED", "FAILED", "CLOSED"}, print : Payloads \cup {"REDACTED"}]
NoAttempt == [state |-> "NONE", print |-> "NONE"]

\* print: the fingerprint in the idempotency record; due: the day the hold expires,
\* 0 once it is settled; attempt: that of each payment command key.
Checkout ==
  [session : Sessions, key : Keys, print : Payloads \cup {"REDACTED"},
   since : 0..MaxDay, personal : BOOLEAN, due : 0..(MaxDay + HoldFor + RetryFor),
   attempt : [PaymentKeys -> Attempt \cup {NoAttempt}]]

Unpaid == [k \in PaymentKeys |-> NoAttempt]

NoCheckout ==
  [session |-> "NONE", key |-> "NONE", print |-> "NONE",
   since |-> 0, personal |-> FALSE, due |-> 0, attempt |-> Unpaid]

\* A session expires when its TTL ends, whatever uses it.
TypeOK ==
  /\ day \in 0..MaxDay
  /\ until \in [Sessions -> {Unissued, Deleted} \cup 0..(day + SessionFor)]
  /\ req \in [Requests -> Request]
  /\ checkout \in [Requests -> Checkout \cup {NoCheckout}]
  /\ running \in BOOLEAN
  /\ failures \in 0..MaxFailures

\* A request before it is sent; what is left of it once it is answered.
Unsent ==
  [op |-> "NONE", cookie |-> "NONE", key |-> "NONE", payload |-> "NONE", at |-> "UNSENT",
   doomed |-> {}, since |-> 0, email |-> FALSE, of |-> "NONE", answer |-> "NONE"]

Done(a, c) == [Unsent EXCEPT !.at = "DONE", !.answer = a, !.of = c]

Init ==
  /\ day = 0
  /\ until = [s \in Sessions |-> IF s \in Issued THEN SessionFor ELSE Unissued]
  /\ req = [r \in Requests |-> Unsent]
  /\ checkout = [r \in Requests |-> NoCheckout]
  /\ running = FALSE
  /\ failures = 0

Opened == {c \in Requests : checkout[c] # NoCheckout}
Active(s)  == s \in Sessions /\ until[s] > day
Expired(s) == until[s] >= 0 /\ until[s] <= day

At(r, op, stage) == req[r].op = op /\ req[r].at = stage
MoveTo(r, stage) == req' = [req EXCEPT ![r].at = stage]
Answer(r, a, c)  == req' = [req EXCEPT ![r] = Done(a, c)]

\* A client sends a request with a cookie it was given, or with none.
Send(r) ==
  /\ req[r].at = "UNSENT"
  /\ \A q \in Before[r] : req[q].at # "UNSENT"
  /\ \E op \in Ops, k \in CommandKeys \cup {"NONE"}, p \in Payloads \cup {"NONE"},
        c \in Opened \cup {"NONE"}, s \in {t \in Sessions : until[t] # Unissued} \cup {"NONE"} :
       /\ (op = "init") = (k = "NONE")
       /\ op \in {"create", "recover"} => k \in Keys
       /\ op = "pay" => k \in PaymentKeys
       /\ (op \in {"create", "pay"}) = (p # "NONE")
       /\ (op = "pay") = (c # "NONE")
       /\ req' = [req EXCEPT ![r] =
                   [@ EXCEPT !.op = op, !.cookie = s, !.key = k, !.payload = p,
                             !.of = c, !.at = "SENT"]]
  /\ UNCHANGED <<day, until, checkout, running, failures>>
-----------------------------------------------------------------------------
(***************************************************************************)
(* Sessions.                                                               *)
(***************************************************************************)
Owns(s) == \E c \in Opened : checkout[c].session = s

\* The foreign key of the claimed record locks its session row.
LockedByClaim(s) ==
  \E r \in Requests : At(r, "create", "CLAIMED") /\ req[r].cookie = s

\* deleteExpiredSessionsWithoutCheckouts, as its statement sees the tables.
SelectDoomed(r) ==
  /\ At(r, "init", "SENT")
  /\ req' = [req EXCEPT ![r].at = "DELETING",
                        ![r].doomed = {s \in Sessions : Expired(s) /\ ~Owns(s)}]
  /\ UNCHANGED <<day, until, checkout, running, failures>>

\* Seeded fault: nothing stops the delete once the session was selected.
DeleteSelected(r) ==
  /\ At(r, "init", "DELETING")
  /\ until' = [s \in Sessions |-> IF s \in req[r].doomed THEN Deleted ELSE until[s]]
  /\ MoveTo(r, "DELETED")
  /\ UNCHANGED <<day, checkout, running, failures>>

\* The delete waits for the transactions that reference a session; one that
\* committed a checkout meanwhile makes it fail on the foreign key.
DeleteDoomed(r) ==
  /\ At(r, "init", "DELETING")
  /\ \A s \in req[r].doomed : ~LockedByClaim(s)
  /\ IF \E s \in req[r].doomed : Owns(s)
     THEN Answer(r, "FAILED", "NONE") /\ UNCHANGED until
     ELSE /\ until' = [s \in Sessions |-> IF s \in req[r].doomed THEN Deleted ELSE until[s]]
          /\ MoveTo(r, "DELETED")
  /\ UNCHANGED <<day, checkout, running, failures>>

\* Seeded fault: a session in use is prolonged by its TTL.
ProlongOrCreate(r) ==
  /\ At(r, "init", "DELETED")
  /\ \/ /\ Active(req[r].cookie)
        /\ until' = [until EXCEPT ![req[r].cookie] = @ + SessionFor]
        /\ Answer(r, "REUSED", "NONE")
     \/ /\ ~Active(req[r].cookie)
        /\ \E s \in Sessions : /\ until[s] = Unissued
                               /\ until' = [until EXCEPT ![s] = day + SessionFor]
        /\ Answer(r, "CREATED", "NONE")
  /\ UNCHANGED <<day, checkout, running, failures>>

\* The rest of GuestSessionsService.initialize: the session of the cookie, or a new one.
ReuseOrCreate(r) ==
  /\ At(r, "init", "DELETED")
  /\ \/ /\ Active(req[r].cookie)
        /\ Answer(r, "REUSED", "NONE")
        /\ UNCHANGED until
     \/ /\ ~Active(req[r].cookie)
        /\ \E s \in Sessions : /\ until[s] = Unissued
                               /\ until' = [until EXCEPT ![s] = day + SessionFor]
        /\ Answer(r, "CREATED", "NONE")
  /\ UNCHANGED <<day, checkout, running, failures>>

\* requireSessionId, before the handler's transaction begins.
RequireSession(r) ==
  /\ req[r].op # "init" /\ req[r].at = "SENT"
  /\ IF Active(req[r].cookie) THEN MoveTo(r, "IN") ELSE Answer(r, "UNAUTHORIZED", "NONE")
  /\ UNCHANGED <<day, until, checkout, running, failures>>
-----------------------------------------------------------------------------
(***************************************************************************)
(* Checkout commands.                                                      *)
(***************************************************************************)
\* The checkouts whose idempotency record has this session and key.
Recorded(s, k) == {c \in Opened : checkout[c].session = s /\ checkout[c].key = k}

\* Seeded fault: a claim that is not committed holds nobody back.
ClaimUnseen(r) == FALSE

\* Another transaction has inserted the record of this command and not ended.
ClaimOpen(r) ==
  \E q \in Requests \ {r} : /\ At(q, "create", "CLAIMED")
                            /\ req[q].cookie = req[r].cookie /\ req[q].key = req[r].key

\* Seeded fault: a redacted fingerprint is not compared.
ReplayUnlessDifferent(print, payload) ==
  IF print \notin {payload, "REDACTED"} THEN "CONFLICT" ELSE "OPENED"

\* What a stored fingerprint answers to a command with its key.
Replay(print, payload) ==
  CASE print = "REDACTED" -> "GONE"
    [] print = payload    -> "OPENED"
    [] OTHER              -> "CONFLICT"

\* CheckoutsService.create up to its claim: the insert waits for the
\* transaction that claims the same key, and needs the session row.
Claim(r) ==
  /\ At(r, "create", "IN")
  /\ ~ClaimOpen(r)
  /\ LET prior == Recorded(req[r].cookie, req[r].key)
     IN  \/ \E c \in prior : Answer(r, Replay(checkout[c].print, req[r].payload), c)
         \/ /\ prior = {} /\ until[req[r].cookie] = Deleted
            /\ Answer(r, "FAILED", "NONE")
         \/ /\ prior = {} /\ until[req[r].cookie] # Deleted
            /\ req' = [req EXCEPT ![r].at = "CLAIMED", ![r].since = day]
  /\ UNCHANGED <<day, until, checkout, running, failures>>

\* The product was reserved: the snapshot is persisted and all of it commits.
Open(r) ==
  /\ At(r, "create", "CLAIMED")
  /\ checkout' = [checkout EXCEPT ![r] =
       [session |-> req[r].cookie, key |-> req[r].key, print |-> req[r].payload,
        since |-> req[r].since, personal |-> TRUE, due |-> req[r].since + HoldFor,
        attempt |-> Unpaid]]
  /\ Answer(r, "OPENED", r)
  /\ UNCHANGED <<day, until, running, failures>>

\* No product, no stock or no safe amount, an error or a crash: the transaction
\* is rolled back, and the claim with it.
RollBack(r) ==
  /\ At(r, "create", "CLAIMED")
  /\ Answer(r, "REFUSED", "NONE")
  /\ UNCHANGED <<day, until, checkout, running, failures>>

\* CheckoutsService.recover reads the record of the command, without a lock...
FindRecord(r) ==
  /\ At(r, "recover", "IN")
  /\ LET prior == Recorded(req[r].cookie, req[r].key)
     IN  \/ prior = {} /\ Answer(r, "NOT_FOUND", "NONE")
         \/ \E c \in prior :
              IF checkout[c].print = "REDACTED"
              THEN Answer(r, "GONE", c)
              ELSE req' = [req EXCEPT ![r].at = "FOUND", ![r].of = c]
  /\ UNCHANGED <<day, until, checkout, running, failures>>

\* ...and then the checkout it names, which may have been redacted since.
Recover(r) ==
  /\ At(r, "recover", "FOUND")
  /\ IF req[r].of \in Opened /\ checkout[req[r].of].session = req[r].cookie
     THEN Answer(r, "OPENED", req[r].of)
     ELSE Answer(r, "NOT_FOUND", "NONE")
  /\ UNCHANGED <<day, until, checkout, running, failures>>
-----------------------------------------------------------------------------
(***************************************************************************)
(* The payment commands of a checkout.                                     *)
(***************************************************************************)
\* lockCheckoutForAttempt reads the customer's e-mail and may then wait for the
\* lock of the checkout: the e-mail is not read again.
ReadCheckout(r) ==
  /\ At(r, "pay", "IN")
  /\ IF req[r].of \in Opened /\ checkout[req[r].of].session = req[r].cookie
     THEN req' = [req EXCEPT ![r].at = "READ", ![r].email = checkout[req[r].of].personal]
     ELSE Answer(r, "NOT_FOUND", req[r].of)
  /\ UNCHANGED <<day, until, checkout, running, failures>>

\* Seeded fault: the e-mail alone says whether the checkout can still be paid.
HeldWhatever(c) == TRUE

\* The reservation is HELD and has not expired.
Held(c) == day < checkout[c].due

InState(c, states) == {k \in PaymentKeys : checkout[c].attempt[k].state \in states}

\* PAYMENT_RELEVANT_STATES: a freed attempt does not count.
Charged(c) == InState(c, {"OPEN", "FAILED", "CLOSED"})

\* A second attempt is the last one, and starts once the first has failed.
Payable(c) ==
  /\ Held(c)
  /\ InState(c, {"OPEN", "CLOSED"}) = {}
  /\ Cardinality(Charged(c)) < 2

\* createAttempt with the checkout locked: replay, refuse, or insert.
Pay(r) ==
  /\ At(r, "pay", "READ")
  /\ LET c == req[r].of
         prior == checkout[c].attempt[req[r].key]
     IN  \/ /\ prior # NoAttempt
            /\ Answer(r, Replay(prior.print, req[r].payload), c)
            /\ UNCHANGED checkout
         \/ /\ prior = NoAttempt /\ ~(Payable(c) /\ req[r].email)
            /\ Answer(r, "REFUSED", c)
            /\ UNCHANGED checkout
         \/ /\ prior = NoAttempt /\ Payable(c) /\ req[r].email
            /\ checkout' = [checkout EXCEPT ![c].attempt[req[r].key] =
                              [state |-> "OPEN", print |-> req[r].payload]]
            /\ Answer(r, "OPENED", c)
  /\ UNCHANGED <<day, until, running, failures>>

\* An answer, an event or a lookup decides an attempt.  The first failure holds the
\* product for a retry, from the day it is known; every other outcome settles the hold.
Settle(c, k) ==
  /\ LET state == checkout[c].attempt[k].state
         hold  == checkout[c].due
         Becomes(new, due) ==
           checkout' = [checkout EXCEPT ![c].attempt[k].state = new, ![c].due = due]
     IN  \/ state = "OPEN" /\ Becomes("FREED", hold)
         \/ state = "OPEN" /\ Becomes("FAILED", IF hold = 0 \/ Cardinality(Charged(c)) >= 2
                                              THEN 0 ELSE day + RetryFor)
         \/ state \in {"OPEN", "FAILED"} /\ Becomes("CLOSED", 0)
  /\ UNCHANGED <<day, until, req, running, failures>>
-----------------------------------------------------------------------------
(***************************************************************************)
(* Retention.                                                              *)
(***************************************************************************)
Old(c) == c \in Opened /\ checkout[c].since + RetainFor <= day

\* What makes a checkout a candidate; payment fingerprints do not.
Candidates == {c \in Requests : Old(c) /\ (checkout[c].personal \/ checkout[c].print # "REDACTED")}

\* Checkouts a payment command may have locked.
MayBeLocked == {req[r].of : r \in {q \in Requests : At(q, "pay", "READ")}}

\* ORDER BY created_at LIMIT: the oldest candidates, ties in any order.
IsBatch(batch, from) ==
  /\ batch \subseteq from
  /\ Cardinality(batch) = Min({BatchSize, Cardinality(from)})
  /\ \A b \in batch, c \in from \ batch : checkout[b].since <= checkout[c].since

Redacted(c) ==
  [checkout[c] EXCEPT !.personal = FALSE, !.print = "REDACTED",
     !.attempt = [k \in PaymentKeys |-> IF @[k] = NoAttempt THEN NoAttempt
                                 ELSE [@[k] EXCEPT !.print = "REDACTED"]]]

\* Seeded fault: a run that failed is kept as the active one.
StartRunUntilFailure ==
  /\ ~running /\ failures = 0
  /\ running' = TRUE
  /\ UNCHANGED <<day, until, req, checkout, failures>>

\* scheduleRedaction, by the timer.
StartRun ==
  /\ ~running
  /\ running' = TRUE
  /\ UNCHANGED <<day, until, req, checkout, failures>>

\* redactExpiredCheckoutBatch skips what is locked; a batch that is not full ends the run.
RedactBatch ==
  /\ running
  /\ \E skipped \in SUBSET MayBeLocked, batch \in SUBSET Candidates :
       /\ IsBatch(batch, Candidates \ skipped)
       /\ checkout' = [c \in Requests |-> IF c \in batch THEN Redacted(c) ELSE checkout[c]]
       /\ running' = (Cardinality(batch) >= BatchSize)
  /\ UNCHANGED <<day, until, req, failures>>

\* A batch fails: it is rolled back, and the run ends until the next timer.
RunFails ==
  /\ running
  /\ failures < MaxFailures
  /\ running' = FALSE
  /\ failures' = failures + 1
  /\ UNCHANGED <<day, until, req, checkout>>

Tick ==
  /\ day < MaxDay
  /\ day' = day + 1
  /\ UNCHANGED <<until, req, checkout, running, failures>>
-----------------------------------------------------------------------------
Next ==
  \/ \E r \in Requests :
       \/ Send(r) \/ SelectDoomed(r) \/ DeleteDoomed(r) \/ ReuseOrCreate(r)
       \/ RequireSession(r) \/ Claim(r) \/ Open(r) \/ RollBack(r)
       \/ FindRecord(r) \/ Recover(r) \/ ReadCheckout(r) \/ Pay(r)
       \/ \E k \in PaymentKeys : Settle(r, k)
  \/ StartRun \/ RedactBatch \/ RunFails \/ Tick

Spec == Init /\ [][Next]_vars

\* The timer of the job fires again and again, its batches end, and so does the
\* transaction of a payment command.
FairSpec ==
  /\ Spec
  /\ WF_vars(StartRun \/ RedactBatch)
  /\ WF_vars(\E r \in Requests : Pay(r))
-----------------------------------------------------------------------------
(***************************************************************************)
(* However requests race, a command key of a session opens one checkout,   *)
(* and while a claim of it is open there is none.                          *)
(***************************************************************************)
OneCheckoutPerCommand ==
  \A r \in Requests, c \in Opened :
    LET same == Recorded(checkout[c].session, checkout[c].key)
    IN  /\ same = {c}
        /\ At(r, "create", "CLAIMED") => c \notin Recorded(req[r].cookie, req[r].key)

(***************************************************************************)
(* A session that owns a checkout, or is the owner in an open claim, is    *)
(* never deleted: the checkouts keep their history.                        *)
(***************************************************************************)
SessionsKeepTheirCheckouts ==
  \A s \in Sessions : Owns(s) \/ LockedByClaim(s) => until[s] >= 0

(***************************************************************************)
(* A redaction erases what is derived from a person, and only a retry can  *)
(* bring a fingerprint back: neither a payment command that read the       *)
(* e-mail before the redaction, nor a replay, nor an attempt decided after *)
(* it, unless an earlier attempt, erased by then, failed and held the      *)
(* product past its first expiry.                                          *)
(***************************************************************************)
RetriedAfterRedaction(c) ==
  \E k \in InState(c, {"FAILED", "CLOSED"}) : checkout[c].attempt[k].print = "REDACTED"

OnlyRetriesOutliveRedaction ==
  \A c \in Opened :
    checkout[c].print = "REDACTED" =>
      /\ ~checkout[c].personal
      /\ \A k \in PaymentKeys : checkout[c].attempt[k].print \in Payloads => RetriedAfterRedaction(c)

(***************************************************************************)
(* A command is answered with success only for a checkout of its session,  *)
(* and a replay only when the fingerprint kept for its key is that of its  *)
(* payload: never once that fingerprint was redacted.                      *)
(***************************************************************************)
Faithful(r, c) ==
  LET to == checkout'[c]
  IN  /\ to.session = req[r].cookie
      /\ CASE req[r].op = "create"  -> to.key = req[r].key /\ to.print = req[r].payload
           [] req[r].op = "recover" -> to.key = req[r].key
           [] req[r].op = "pay"     -> to.attempt[req[r].key].print = req[r].payload

FaithfulAnswers ==
  [][\A r \in Requests :
       req[r].at # "DONE" /\ req'[r].answer = "OPENED" => Faithful(r, req'[r].of)]_vars

(***************************************************************************)
(* The backlog of retention is always worked off: every checkout is        *)
(* redacted in the end, also when batches fail, skip locked rows, or are   *)
(* smaller than what is due.                                               *)
(***************************************************************************)
EventuallyRedacted ==
  []<>(\A c \in Requests : Old(c) => checkout[c].print = "REDACTED")
=============================================================================
