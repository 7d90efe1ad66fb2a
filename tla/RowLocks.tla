------------------------------- MODULE RowLocks -------------------------------
(***************************************************************************)
(* The transactions of the API, one row lock at a time.                    *)
(*                                                                         *)
(* The sweep of lapsed holds looks for candidates without locking, then    *)
(* locks checkout, reservation and product of each and checks again; the   *)
(* commands and the provider's reports lock the rows of their own checkout *)
(* in the order checkout, reservation, attempt, product.  Here every lock  *)
(* a transaction asks for is a step, every wait a blocked step, and every  *)
(* commit or rollback releases what it held.  PaymentLifecycle takes each  *)
(* of these transactions as one step; this module is why it may.           *)
(***************************************************************************)
EXTENDS Integers, FiniteSets

CONSTANTS
  Checkouts,     \* numbered in the order of their ids, which is the sweep's order
  Products,
  ProductOf,     \* every checkout is for one unit of one product
  Stock,         \* physical units of each product at the start
  Held,          \* the checkouts that exist at the start, unpaid, their hold not lapsed
  Transactions,  \* database connections
  Kinds,         \* the kinds of transaction that are begun
  Reports,       \* what the provider or the process may report of an attempt
  None

Sweeping   == {"read", "create", "attempt"}   \* these begin with releaseExpired
Sweepables == {"RESERVED", "PAYMENT_FAILED"}

ASSUME ConstantsOK ==
  /\ Checkouts \subseteq Nat /\ IsFiniteSet(Checkouts)
  /\ ProductOf \in [Checkouts -> Products]
  /\ Stock \in [Products -> Nat]
  /\ Held \subseteq Checkouts
  /\ \A p \in Products : Cardinality({c \in Held : ProductOf[c] = p}) <= Stock[p]
  /\ Kinds \subseteq Sweeping \cup {"event", "answer", "pass"}
  /\ Reports \subseteq {"PENDING", "APPROVED", "DECLINED", "VOIDED", "REFUSED"}
  /\ None \notin Transactions

Rows == ({"claim", "checkout", "reservation", "attempt"} \X Checkouts)
          \cup ({"receipt"} \X (Checkouts \X Reports)) \cup ({"product"} \X Products)

VARIABLES
  state, hold, lapsed,     \* the committed rows of a checkout and its reservation
  attempt,                 \* its latest attempt: NONE, OPEN, FAILED or APPROVED
  physical, reserved,      \* the committed counters of a product
  received,                \* the committed event receipts
  owner,                   \* the transaction that holds the lock of a row
  job                      \* what each connection is doing

rows == <<state, hold, lapsed, attempt, physical, reserved, received>>
vars == <<rows, owner, job>>

NoWrite == [state |-> "NONE", hold |-> "NONE", attempt |-> "NONE", fresh |-> FALSE]

Idle == [kind |-> "none", of |-> None, report |-> None, due |-> {}, visit |-> {},
         step |-> "end", swept |-> {}, write |-> NoWrite]

Init ==
  /\ state = [c \in Checkouts |-> IF c \in Held THEN "RESERVED" ELSE "NONE"]
  /\ hold = [c \in Checkouts |-> IF c \in Held THEN "HELD" ELSE "NONE"]
  /\ lapsed = [c \in Checkouts |-> FALSE]
  /\ attempt = [c \in Checkouts |-> "NONE"]
  /\ physical = Stock
  /\ reserved = [p \in Products |-> Cardinality({c \in Held : ProductOf[c] = p})]
  /\ received = {}
  /\ owner = [r \in Rows |-> None]
  /\ job = [t \in Transactions |-> Idle]
-------------------------------------------------------------------------------
(***************************************************************************)
(* Where a transaction is: at the row of the table job.step that belongs   *)
(* to the candidate its sweep is visiting, as long as there are candidates *)
(* to visit, and then to the checkout of its own command.                  *)
(***************************************************************************)
First(S) == CHOOSE c \in S : \A d \in S : c <= d

Sweeps(t, table) == job[t].visit # {} /\ job[t].step = table
Does(t, table)   == job[t].visit = {} /\ job[t].step = table

\* The first row of a command, and the row after one that is locked.
FirstRow(kind) == CASE kind = "create" -> "claim"
                    [] kind = "event"  -> "receipt"
                    [] kind = "read"   -> "end"
                    [] OTHER           -> "checkout"

NextRow(table) == CASE table = "claim"       -> "product"
                    [] table = "receipt"     -> "checkout"
                    [] table = "checkout"    -> "reservation"
                    [] table = "reservation" -> "attempt"

\* Where a transaction that has S left to visit begins.
Entry(kind, S) == IF S # {} THEN "checkout" ELSE FirstRow(kind)

\* The sweep's first query: candidates by the committed rows, no lock taken.
Candidates == {c \in Checkouts : hold[c] = "HELD" /\ lapsed[c] /\ state[c] \in Sweepables}

\* BEGIN fixes now(), and with it which of them are past their deadline for good: due
\* loses one only when its deadline is moved.
Begin(t, kind, c, report) ==
  /\ job[t] = Idle
  /\ kind = "attempt" => state[c] # "NONE"
  /\ kind \in {"event", "answer"} => attempt[c] # "NONE"
  /\ kind = "event" => report # "REFUSED"
  /\ LET due == IF kind \in Sweeping THEN Candidates ELSE {} IN
     job' = [job EXCEPT ![t] =
       [kind |-> kind, of |-> c, report |-> report, due |-> due, visit |-> due,
        step |-> Entry(kind, due), swept |-> {}, write |-> NoWrite]]
  /\ UNCHANGED <<rows, owner>>

\* claimReconciliationCandidates locks open attempts without their checkouts, but
\* skips those that are locked: it never waits.
BeginPass(t) ==
  /\ job[t] = Idle
  /\ LET free == {c \in Checkouts : attempt[c] = "OPEN" /\ owner[<<"attempt", c>>] = None}
     IN  /\ free # {}
         /\ owner' = [r \in Rows |-> IF r \in {"attempt"} \X free THEN t ELSE owner[r]]
  /\ job' = [job EXCEPT ![t].kind = "pass"]
  /\ UNCHANGED rows
-------------------------------------------------------------------------------
(***************************************************************************)
(* Locks.                                                                  *)
(***************************************************************************)
IdOf(t) == IF job[t].visit # {} THEN First(job[t].visit) ELSE job[t].of

\* Seeded fault: lockAttemptContext locks the attempt it looks up before its checkout.
RowOfAttemptFirst(t) ==
  LET early == Does(t, "checkout") /\ job[t].kind \in {"event", "answer"}
      late  == Does(t, "attempt") /\ job[t].kind \in {"event", "answer"}
      table == IF early THEN "attempt" ELSE IF late THEN "checkout" ELSE job[t].step IN
  CASE table = "product" -> <<table, ProductOf[IdOf(t)]>>
    [] table = "receipt" -> <<table, <<IdOf(t), job[t].report>> >>
    [] OTHER             -> <<table, IdOf(t)>>

RowOf(t) == LET table == job[t].step IN
            CASE table = "product" -> <<table, ProductOf[IdOf(t)]>>
              [] table = "receipt" -> <<table, <<IdOf(t), job[t].report>> >>
              [] OTHER             -> <<table, IdOf(t)>>
Free(t)  == owner[RowOf(t)] \in {None, t}
Lock(t)  == Free(t) /\ owner' = [owner EXCEPT ![RowOf(t)] = t]

\* A row that no longer matches is locked all the same if the query had to wait.
PassOver(t) == owner' = owner \/ Lock(t)

GoTo(t, table) == job' = [job EXCEPT ![t].step = table]

\* The sweep is done with the candidate it visits.
Leave(t, swept) ==
  LET left == job[t].visit \ {IdOf(t)} IN
  job' = [job EXCEPT ![t].visit = left, ![t].step = Entry(job[t].kind, left), ![t].swept = swept]

\* Seeded fault: the sweep trusts what its first query saw of the checkout.
PayableUnchecked(c) == TRUE
\* Seeded fault: the sweep does not look at the deadline again.
StillDueAnyTime(t, c) == hold[c] = "HELD"

\* What the sweep checks again once it has the row.
Payable(c)     == state[c] \in Sweepables
StillDue(t, c) == hold[c] = "HELD" /\ c \in job[t].due

SweepCheckout(t) ==
  /\ Sweeps(t, "checkout")
  /\ IF Payable(IdOf(t)) THEN Lock(t) /\ GoTo(t, "reservation")
     ELSE PassOver(t) /\ Leave(t, job[t].swept)
  /\ UNCHANGED rows

SweepReservation(t) ==
  /\ Sweeps(t, "reservation")
  /\ IF StillDue(t, IdOf(t)) THEN Lock(t) /\ GoTo(t, "product")
     ELSE PassOver(t) /\ Leave(t, job[t].swept)
  /\ UNCHANGED rows

\* The units a transaction has returned so far, which nobody else can see yet.
Returned(t, p) == Cardinality({c \in job[t].swept : ProductOf[c] = p})

\* The UPDATE of the product throws below zero, which Fail covers.
SweepProduct(t) ==
  /\ Sweeps(t, "product")
  /\ reserved[ProductOf[IdOf(t)]] - Returned(t, ProductOf[IdOf(t)]) >= 1
  /\ Lock(t)
  /\ Leave(t, job[t].swept \cup {IdOf(t)})
  /\ UNCHANGED rows
-------------------------------------------------------------------------------
(***************************************************************************)
(* The transaction's own command.                                          *)
(***************************************************************************)
\* INSERT ... ON CONFLICT waits for a claim that is not committed yet, then replays it.
Claim(t) ==
  /\ Does(t, "claim")
  /\ IF state[IdOf(t)] # "NONE" THEN PassOver(t) /\ GoTo(t, "end")
     ELSE Lock(t) /\ GoTo(t, NextRow("claim"))
  /\ UNCHANGED rows

\* An event that is already recorded changes nothing.
Receive(t) ==
  /\ Does(t, "receipt")
  /\ IF <<IdOf(t), job[t].report>> \in received
     THEN PassOver(t) /\ GoTo(t, "end") ELSE Lock(t) /\ GoTo(t, NextRow("receipt"))
  /\ UNCHANGED rows

LockOwn(t) ==
  /\ Does(t, "checkout") \/ Does(t, "reservation")
  /\ Lock(t) /\ GoTo(t, NextRow(job[t].step))
  /\ UNCHANGED rows

\* A payment may be opened on a live hold this transaction has not swept itself.
Eligible(t, c) ==
  /\ c \notin job[t].swept
  /\ state[c] \in Sweepables
  /\ hold[c] = "HELD" /\ ~lapsed[c]
  /\ attempt[c] # "OPEN"

Write(s, h, a, fresh) == [state |-> s, hold |-> h, attempt |-> a, fresh |-> fresh]
Released(c) == IF hold[c] = "HELD" THEN "RELEASED" ELSE hold[c]

Approved(c) ==
  IF hold[c] = "HELD" /\ ~(state[c] = "PAYMENT_FAILED" /\ lapsed[c])
  THEN Write("PAID", "COMMITTED", "APPROVED", FALSE)
  ELSE Write("FULFILLMENT_EXCEPTION", Released(c), "APPROVED", FALSE)

\* Seeded fault: the checkout takes the provider's word for its own state.
VoidedVerbatim(c) == Write("VOIDED", Released(c), "FAILED", FALSE)

Voided(c) ==
  Write(IF state[c] \in {"PAID", "FULFILLMENT_EXCEPTION"} THEN state[c] ELSE "CANCELLED",
        Released(c), "FAILED", FALSE)

\* What a report may write of the checkout, the first decline and the last included.
\* A stale or mismatched report, or one for a closed attempt, writes none of it.
ReportWrites(c, report) ==
  {NoWrite} \cup
  CASE report = "APPROVED" /\ attempt[c] # "APPROVED" -> {Approved(c)}
    [] report = "VOIDED" /\ attempt[c] # "APPROVED"   -> {Voided(c)}
    [] report = "DECLINED" /\ attempt[c] = "OPEN"     ->
         {Write("PAYMENT_FAILED", "HELD", "FAILED", TRUE),
          Write("PAYMENT_FAILED", "RELEASED", "FAILED", FALSE)}
    [] report = "PENDING" /\ attempt[c] = "OPEN"      ->
         {Write("PAYMENT_PENDING", hold[c], "OPEN", FALSE)}
    [] report = "REFUSED" /\ attempt[c] = "OPEN"      ->
         {Write("RESERVED", hold[c], "FREED", FALSE)}
    [] OTHER -> {}

\* The key of a payment command may be that of an attempt made before: a replay.
Replays(c) == IF attempt[c] # "NONE" THEN {NoWrite} ELSE {}

Writes(t, c) ==
  IF job[t].kind # "attempt" THEN ReportWrites(c, job[t].report)
  ELSE Replays(c) \cup
       IF Eligible(t, c) THEN {Write("PAYMENT_PENDING", "HELD", "OPEN", FALSE)} ELSE {}

\* With the attempt locked the command decides, and needs the product row last of
\* all, if stock is to move.
Decide(t) ==
  /\ Does(t, "attempt")
  /\ Lock(t)
  /\ LET c == IdOf(t) IN
     \E w \in Writes(t, c) :
       job' = [job EXCEPT ![t].write = w,
                          ![t].step = IF w # NoWrite /\ w.hold # hold[c]
                                      THEN "product" ELSE "end"]
  /\ UNCHANGED rows

Available(t, p) == physical[p] - (reserved[p] - Returned(t, p)) >= 1

LockProduct(t) ==
  /\ Does(t, "product")
  /\ Lock(t)
  /\ IF job[t].kind = "create"
     THEN /\ Available(t, ProductOf[IdOf(t)])
          /\ job' = [job EXCEPT ![t].step = "end",
                                ![t].write = Write("RESERVED", "HELD", "NONE", TRUE)]
     ELSE GoTo(t, "end")
  /\ UNCHANGED rows
-------------------------------------------------------------------------------
(***************************************************************************)
(* The end of a transaction.                                               *)
(***************************************************************************)
ReleaseLocks(t) == owner' = [r \in Rows |-> IF owner[r] = t THEN None ELSE owner[r]]

Moves(t, p, from) ==
  LET w == job[t].write IN w # NoWrite /\ ProductOf[job[t].of] = p /\ w.hold = from

\* Units of p a transaction's own command adds to or takes from the reserved counter.
Change(t, p) ==
  LET c == job[t].of IN
  IF Moves(t, p, "HELD") /\ hold[c] = "NONE" THEN 1
  ELSE IF (Moves(t, p, "RELEASED") \/ Moves(t, p, "COMMITTED")) /\ hold[c] = "HELD" THEN -1
  ELSE 0

Commit(t) ==
  LET own == IF job[t].write = NoWrite THEN {} ELSE {job[t].of}
      w   == job[t].write
  IN
  /\ job[t].kind # "none" /\ job[t].step = "end"
  /\ state' = [c \in Checkouts |-> IF c \in own THEN w.state
                                   ELSE IF c \in job[t].swept THEN "EXPIRED" ELSE state[c]]
  /\ hold' = [c \in Checkouts |-> IF c \in own THEN w.hold
                                  ELSE IF c \in job[t].swept THEN "RELEASED" ELSE hold[c]]
  /\ attempt' = [c \in Checkouts |-> IF c \in own THEN w.attempt ELSE attempt[c]]
  /\ lapsed' = [c \in Checkouts |-> lapsed[c] /\ ~(c \in own /\ w.fresh)]
  /\ reserved' = [p \in Products |-> reserved[p] - Returned(t, p) + Change(t, p)]
  /\ physical' = [p \in Products |-> physical[p] - (IF Moves(t, p, "COMMITTED") THEN 1 ELSE 0)]
  /\ received' = IF job[t].kind = "event"
                 THEN received \cup {<<job[t].of, job[t].report>>} ELSE received
  /\ ReleaseLocks(t)
  \* A new deadline lies after the now() of every transaction under way.
  /\ job' = [u \in Transactions |->
               IF u = t THEN Idle
               ELSE IF w.fresh THEN [job[u] EXCEPT !.due = @ \ own] ELSE job[u]]

\* Seeded fault: a failed transaction goes back to the pool and nobody ends it.
RollbackForgotten(t) ==
  /\ job[t].kind # "none" /\ job' = [job EXCEPT ![t] = Idle]
  /\ UNCHANGED <<rows, owner>>

\* Seeded fault: the holds a failed transaction has swept stay released.
RollbackHalfway(t) ==
  /\ job[t].kind # "none" /\ ReleaseLocks(t) /\ job' = [job EXCEPT ![t] = Idle]
  /\ hold' = [c \in Checkouts |-> IF c \in job[t].swept THEN "RELEASED" ELSE hold[c]]
  /\ UNCHANGED <<state, lapsed, attempt, physical, reserved, received>>

Rollback(t) ==
  /\ job[t].kind # "none" /\ ReleaseLocks(t) /\ job' = [job EXCEPT ![t] = Idle]
  /\ UNCHANGED rows

\* A refused command rolls back, and its sweep with it.
Refuse(t) ==
  /\ \/ Does(t, "attempt") /\ job[t].kind = "attempt" /\ ~Eligible(t, IdOf(t))
     \/ Does(t, "product") /\ job[t].kind = "create"
          /\ ~Available(t, ProductOf[IdOf(t)])
  /\ Free(t)
  /\ Rollback(t)

\* An error, a lost connection or the end of the process.
Fail(t) == Rollback(t)
-------------------------------------------------------------------------------
(***************************************************************************)
(* Waiting.                                                                *)
(***************************************************************************)
\* Would the query t is at have to wait if its row is locked?
Matches(t) ==
  CASE Sweeps(t, "checkout")    -> Payable(IdOf(t))
    [] Sweeps(t, "reservation") -> StillDue(t, IdOf(t))
    [] Does(t, "claim")         -> state[IdOf(t)] = "NONE"
    [] Does(t, "receipt")       -> <<IdOf(t), job[t].report>> \notin received
    [] OTHER                    -> TRUE

WaitsFor(t) == IF job[t].step # "end" /\ ~Free(t) /\ Matches(t) THEN owner[RowOf(t)] ELSE None

\* The transactions t waits for, directly or through others: the least set that
\* holds whoever t, or one of its members, waits for.
Ahead(t) ==
  {u \in Transactions :
     \A S \in SUBSET Transactions :
       (\A v \in S \cup {t} : WaitsFor(v) \in S \cup {None}) => u \in S}

Deadlocked(t) == t \in Ahead(t)

\* PostgreSQL breaks a cycle by failing one of the transactions in it.
BreakDeadlock(t) == Deadlocked(t) /\ Rollback(t)

Lapse(c) ==
  /\ hold[c] = "HELD" /\ ~lapsed[c]
  /\ lapsed' = [lapsed EXCEPT ![c] = TRUE]
  /\ UNCHANGED <<state, hold, attempt, physical, reserved, received, owner, job>>

Proceed(t) ==
  \/ SweepCheckout(t) \/ SweepReservation(t) \/ SweepProduct(t)
  \/ Claim(t) \/ Receive(t) \/ LockOwn(t) \/ Decide(t) \/ LockProduct(t)
  \/ Refuse(t) \/ Commit(t)

Start(t) ==
  \/ \E kind \in Kinds \cap {"create", "attempt"}, c \in Checkouts : Begin(t, kind, c, None)
  \/ \E kind \in Kinds \cap {"event", "answer"}, c \in Checkouts, r \in Reports :
       Begin(t, kind, c, r)
  \/ "read" \in Kinds /\ Begin(t, "read", None, None)
  \/ "pass" \in Kinds /\ BeginPass(t)

Next ==
  \/ \E t \in Transactions : Start(t) \/ Proceed(t) \/ BreakDeadlock(t) \/ Fail(t)
  \/ \E c \in Checkouts : Lapse(c)

Spec == Init /\ [][Next]_vars

(***************************************************************************)
(* Row locks are granted in turn, so a transaction that could take its     *)
(* next step again and again takes it, and a cycle of waits is broken      *)
(* after deadlock_timeout.  Nothing makes a transaction begin or fail.     *)
(***************************************************************************)
Fairness == /\ \A t \in Transactions : SF_vars(Proceed(t))
            /\ WF_vars(\E t \in Transactions : BreakDeadlock(t))

FairSpec == Spec /\ Fairness
-------------------------------------------------------------------------------
(***************************************************************************)
(* Properties.                                                             *)
(***************************************************************************)
State   == Sweepables \cup {"NONE", "PAYMENT_PENDING", "PAID", "EXPIRED", "CANCELLED",
                             "FULFILLMENT_EXCEPTION"}
Hold    == {"NONE", "HELD", "RELEASED", "COMMITTED"}
Attempt == {"NONE", "OPEN", "FREED", "FAILED", "APPROVED"}

Job == [kind   : Sweeping \cup {"none", "event", "answer", "pass"},
        of     : Checkouts \cup {None},
        report : Reports \cup {None},
        due    : SUBSET Checkouts,
        visit  : SUBSET Checkouts,
        step   : {"claim", "receipt", "checkout", "reservation", "attempt", "product", "end"},
        swept  : SUBSET Checkouts,
        write  : [state : State, hold : Hold, attempt : Attempt, fresh : BOOLEAN]]

\* Every variable keeps its type; no counter ever goes below zero.
TypeOK ==
  /\ state \in [Checkouts -> State]
  /\ hold \in [Checkouts -> Hold]
  /\ lapsed \in [Checkouts -> BOOLEAN]
  /\ attempt \in [Checkouts -> Attempt]
  /\ physical \in [Products -> Nat] /\ reserved \in [Products -> Nat]
  /\ received \subseteq Checkouts \X Reports
  /\ owner \in [Rows -> Transactions \cup {None}]
  /\ job \in [Transactions -> Job]

\* Locking row by row, with a candidate list read before any lock, still gives the
\* atomic transactions of HoldLedger: no unit is returned twice, no hold under an
\* open payment is swept, and the counters follow the holds (releaseExpired,
\* createAttempt, applyTransactionInTransaction).
Ledger == INSTANCE HoldLedger WITH paying <- [c \in Checkouts |-> attempt[c] = "OPEN"],
                                   Units  <- Cardinality
ImplementsHoldLedger == Ledger!Spec

\* A hold whose deadline a decline has just moved into the future is not swept by a
\* transaction that listed it as a candidate before (releaseExpired's second check).
NeverSweptEarly ==
  [][\A c \in Checkouts : state[c] # "EXPIRED" /\ state'[c] = "EXPIRED" => lapsed[c]]_vars

\* Does t hold a checkout row that its sweep has locked?
HoldsSweptRow(t) ==
  \E c \in Checkouts :
    /\ owner[<<"checkout", c>>] = t
    /\ \/ job[t].kind \in {"read", "create"}
       \/ job[t].kind = "attempt" /\ (c # job[t].of \/ c \in job[t].swept
                                       \/ job[t].visit # {})

\* Events, answers, payment commands and reconciliation passes never deadlock among
\* themselves: every cycle of waits has a transaction in it that holds rows of its
\* sweep (the lock order of lockAttemptContext and lockCheckoutForAttempt).
DeadlockNeedsASweep ==
  \A t \in Transactions : Deadlocked(t) => \E u \in Ahead(t) : HoldsSweptRow(u)

\* docs/payment-lifecycle.md, line 46: expiry, events, reconciliation and payment
\* commands never wait on the same checkout rows in opposite orders.
NoOppositeWaits ==
  \A t, u \in Transactions :
    ~ /\ WaitsFor(t) = u /\ WaitsFor(u) = t
      /\ RowOf(t) \in {"checkout"} \X Checkouts
      /\ RowOf(u) \in {"checkout"} \X Checkouts

\* Every transaction ends, by committing or by rolling back: waits are finite
\* because deadlocks are broken and nothing else keeps a row lock.
EveryTransactionEnds == \A t \in Transactions : job[t] # Idle ~> job[t] = Idle
===============================================================================
