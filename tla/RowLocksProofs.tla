---------------------------- MODULE RowLocksProofs ----------------------------
(***************************************************************************)
(* Transactions that lock row by row, with a list of candidates read       *)
(* before any lock, implement HoldLedger, for any number of connections,   *)
(* checkouts and products; and only sweeps bring deadlocks about.          *)
(***************************************************************************)
EXTENDS RowLocks, FiniteSetTheorems, WellFoundedInduction, TLAPS

Owner(table, id) == owner[<<table, id>>]

Commands == {"create", "attempt", "event", "answer"}
Reported == {"attempt", "event", "answer"}   \* these lock a checkout that exists

(***************************************************************************)
(* What the committed rows of a checkout say together.                     *)
(***************************************************************************)
RowsAgree ==
  \A c \in Checkouts :
    /\ state[c] = "NONE" <=> hold[c] = "NONE"
    /\ state[c] = "NONE" => attempt[c] = "NONE"
    /\ attempt[c] = "OPEN" => hold[c] = "HELD" /\ state[c] = "PAYMENT_PENDING"
    /\ hold[c] = "COMMITTED" => attempt[c] = "APPROVED"

(***************************************************************************)
(* Where a transaction can be, by its kind.                                *)
(***************************************************************************)
Late == {"reservation", "attempt", "product", "end"}   \* past the checkout's row

OwnSteps(kind) ==
  CASE kind = "create"  -> {"claim", "product", "end"}
    [] kind = "event"   -> {"receipt", "checkout"} \cup Late
    [] kind \in {"answer", "attempt"} -> {"checkout"} \cup Late
    [] OTHER -> {"end"}

Shape(t) ==
  LET j == job[t] IN
  /\ j.kind = "none" => j = Idle
  /\ j.kind \notin Sweeping => j.visit = {} /\ j.swept = {}
  /\ j.visit # {} => j.step \in {"checkout", "reservation", "product"}
  /\ j.visit = {} => j.step \in OwnSteps(j.kind)
  /\ j.kind \in Commands => j.of \in Checkouts
  /\ j.kind \in {"event", "answer"} => j.report \in Reports
  /\ j.kind \in Reported => state[j.of] # "NONE"
  /\ j.write # NoWrite => j.kind \in Commands /\ j.visit = {} /\ j.step \in {"product", "end"}
  /\ j.due \subseteq {c \in Checkouts : lapsed[c]}

(***************************************************************************)
(* Every lock has a reason: the row is one of the sweep's or one that the  *)
(* command has passed.                                                     *)
(***************************************************************************)
LocksHaveReasons(t) ==
  LET j == job[t] IN
  /\ \A c \in Checkouts :
       /\ Owner("checkout", c) = t =>
            \/ j.kind \in Sweeping
            \/ j.kind \in {"event", "answer"} /\ c = j.of /\ j.step \in Late
       /\ Owner("reservation", c) = t =>
            /\ Owner("checkout", c) = t
            /\ j.kind \notin Sweeping => j.step \in {"attempt", "product", "end"}
       /\ Owner("attempt", c) = t =>
            \/ j.kind = "pass"
            \/ j.kind \in Reported /\ j.visit = {} /\ c = j.of /\ j.step \in {"product", "end"}
       /\ Owner("claim", c) = t =>
            j.kind = "create" /\ j.visit = {} /\ c = j.of /\ j.step \in {"product", "end"}
       /\ \A r \in Reports : Owner("receipt", <<c, r>>) = t =>
            j.kind = "event" /\ c = j.of /\ j.report = r /\ j.step # "receipt"
  /\ \A p \in Products : Owner("product", p) = t =>
       \/ j.kind \in Commands /\ j.visit = {} /\ j.step = "end"
       \/ \E c \in j.swept : ProductOf[c] = p

(***************************************************************************)
(* What a transaction has seen and still relies on is locked, and is still *)
(* so: what its sweep has released or visits, and its own checkout.        *)
(***************************************************************************)
SweptIsLocked(t) ==
  \A c \in job[t].swept :
    /\ Owner("checkout", c) = t /\ Owner("product", ProductOf[c]) = t
    /\ state[c] \in Sweepables /\ hold[c] = "HELD" /\ c \in job[t].due

VisitedIsLocked(t) ==
  LET j == job[t]
      c == First(j.visit) IN
  j.visit # {} /\ j.step # "checkout" =>
    /\ Owner("checkout", c) = t
    /\ state[c] \in Sweepables
    /\ j.step = "product" => hold[c] = "HELD" /\ c \in j.due

OwnIsLocked(t) ==
  LET j == job[t] IN
  j.visit = {} /\ (j.step \in {"reservation", "attempt", "product"} \/ j.write # NoWrite) =>
    /\ j.kind \in Reported => Owner("checkout", j.of) = t
    /\ j.kind = "create" => Owner("claim", j.of) = t /\ state[j.of] = "NONE"

(***************************************************************************)
(* What a transaction will write was decided on rows that are still so.    *)
(***************************************************************************)
\* Opens a payment, settles the hold, or leaves it.
Outcome(c, w) ==
  /\ w.state \notin {"NONE", "EXPIRED"}
  /\ \/ hold[c] = "HELD" /\ w.hold = "HELD" /\ w.attempt = "OPEN" /\ w.state = "PAYMENT_PENDING"
     \/ hold[c] = "HELD" /\ w.hold \in {"RELEASED", "COMMITTED"} /\ w.attempt # "OPEN"
     \/ w.hold = hold[c] /\ w.hold # "COMMITTED" /\ w.attempt # "OPEN"
  /\ w.hold = "COMMITTED" => w.attempt = "APPROVED"

WriteIsRight(t) ==
  LET j == job[t]
      w == j.write IN
  w # NoWrite =>
    /\ j.kind = "create" => /\ w = Write("RESERVED", "HELD", "NONE", TRUE) /\ j.step = "end"
                            /\ Available(t, ProductOf[j.of])
    /\ j.kind \in Reported => Outcome(j.of, w) /\ j.of \notin j.swept
    /\ j.step = "end" /\ w.hold # hold[j.of] => Owner("product", ProductOf[j.of]) = t

JobInv(t) == /\ Shape(t) /\ LocksHaveReasons(t) /\ SweptIsLocked(t) /\ VisitedIsLocked(t)
             /\ OwnIsLocked(t) /\ WriteIsRight(t)

Balance == Ledger!Balanced(hold, physical, reserved)

LockInv == TypeOK /\ RowsAgree /\ Balance /\ \A t \in Transactions : JobInv(t)
-------------------------------------------------------------------------------
\* A set of checkouts that is not empty has a first one.
LEMMA FirstIsIn ==
  ASSUME NEW S \in SUBSET Checkouts, S # {}
  PROVE  First(S) \in S
<1>1. S \subseteq Nat
  BY ConstantsOK
<1>2. IsWellFoundedOn(OpToRel(<, Nat), Nat)
  BY NatLessThanWellFounded
<1>3. \E c \in S : \A d \in S : <<d, c>> \notin OpToRel(<, Nat)
  BY <1>1, <1>2, WFMin
<1>4. PICK c \in S : \A d \in S : <<d, c>> \notin OpToRel(<, Nat)
  BY <1>3
<1>5. \A d \in S : ~ (d < c)
  BY <1>1, <1>4 DEF OpToRel
<1>6. \A d \in S : c <= d
  BY <1>1, <1>5
<1>. QED
  BY <1>6 DEF First

\* The row a transaction is at.
LEMMA RowIsRow ==
  ASSUME TypeOK, NEW t \in Transactions, Shape(t), job[t].step # "end"
  PROVE  /\ IdOf(t) \in Checkouts
         /\ RowOf(t) \in Rows
         /\ job[t].step \in {"claim", "checkout", "reservation", "attempt"} =>
              RowOf(t) = <<job[t].step, IdOf(t)>>
         /\ job[t].step = "product" => RowOf(t) = <<"product", ProductOf[IdOf(t)]>>
         /\ job[t].step = "receipt" => RowOf(t) = <<"receipt", <<IdOf(t), job[t].report>> >>
<1>1. job[t] \in Job
  BY DEF TypeOK
<1>2. IdOf(t) \in Checkouts
  <2>1. CASE job[t].visit # {}
    BY <1>1, <2>1, FirstIsIn DEF IdOf, Job
  <2>2. CASE job[t].visit = {}
    BY <1>1, <2>2 DEF IdOf, Shape, OwnSteps, Commands, Job, Idle, Sweeping
  <2>. QED
    BY <2>1, <2>2
<1>3. job[t].step = "receipt" => job[t].report \in Reports
  BY <1>1 DEF Shape, OwnSteps, Commands, Late, Job, Idle, Sweeping
<1>4. ProductOf[IdOf(t)] \in Products
  BY <1>2, ConstantsOK
<1>. QED
  BY <1>1, <1>2, <1>3, <1>4 DEF RowOf, Rows, Job

\* Taking the lock of a row that is free takes it from nobody.
LEMMA LockTakes ==
  ASSUME TypeOK, NEW t \in Transactions, Shape(t), job[t].step # "end",
         Lock(t) \/ PassOver(t), NEW r \in Rows
  PROVE  /\ owner'[r] = t => owner[r] = t \/ r = RowOf(t)
         /\ owner[r] = t => owner'[r] = t
         /\ Lock(t) => owner'[RowOf(t)] = t
         /\ \A u \in Transactions : u # t => (owner'[r] = u <=> owner[r] = u)
         /\ owner' \in [Rows -> Transactions \cup {None}]
BY RowIsRow, ConstantsOK DEF TypeOK, Lock, PassOver, Free
-------------------------------------------------------------------------------
(***************************************************************************)
(* Steps that write nothing: the others do not notice them.                *)
(***************************************************************************)
Unnoticed(t) ==
  /\ UNCHANGED rows
  /\ job' \in [Transactions -> Job]
  /\ owner' \in [Rows -> Transactions \cup {None}]
  /\ \A u \in Transactions : u # t =>
       job'[u] = job[u] /\ \A r \in Rows : owner'[r] = u <=> owner[r] = u

\* The rows there are, table by table.
LEMMA TablesAreRows ==
  /\ \A c \in Checkouts : /\ <<"checkout", c>> \in Rows /\ <<"reservation", c>> \in Rows
                          /\ <<"attempt", c>> \in Rows /\ <<"claim", c>> \in Rows
                          /\ ProductOf[c] \in Products
                          /\ \A r \in Reports : <<"receipt", <<c, r>> >> \in Rows
  /\ \A p \in Products : <<"product", p>> \in Rows
BY ConstantsOK DEF Rows

\* What another transaction relies on does not change with a step it does not notice.
LEMMA OthersKeep ==
  ASSUME TypeOK, NEW t \in Transactions, Unnoticed(t),
         NEW u \in Transactions, u # t, JobInv(u)
  PROVE  JobInv(u)'
<1>1. job'[u] = job[u] /\ job[u] \in Job /\ UNCHANGED rows
  BY DEF Unnoticed, TypeOK
<1>2. \A r \in Rows : owner'[r] = u <=> owner[r] = u
  BY DEF Unnoticed
<1>3. Shape(u)'
  BY <1>1 DEF JobInv, Shape, rows
<1>4. LocksHaveReasons(u)'
  <2>1. \A table \in {"checkout", "reservation", "attempt", "claim"}, c \in Checkouts :
          Owner(table, c)' = u <=> Owner(table, c) = u
    BY <1>2, TablesAreRows DEF Owner
  <2>2. \A c \in Checkouts, r \in Reports :
          Owner("receipt", <<c, r>>)' = u <=> Owner("receipt", <<c, r>>) = u
    BY <1>2, TablesAreRows DEF Owner
  <2>3. \A p \in Products : Owner("product", p)' = u <=> Owner("product", p) = u
    BY <1>2, TablesAreRows DEF Owner
  <2>. QED
    BY <1>1, <2>1, <2>2, <2>3 DEF JobInv, LocksHaveReasons, Owner
<1>5. SweptIsLocked(u)'
  BY <1>1, <1>2, TablesAreRows DEF JobInv, SweptIsLocked, Owner, rows, Job
<1>6. VisitedIsLocked(u)'
  BY <1>1, <1>2, TablesAreRows, FirstIsIn DEF JobInv, VisitedIsLocked, Owner, rows, Job
<1>7. OwnIsLocked(u)'
  BY <1>1, <1>2, TablesAreRows DEF JobInv, Shape, OwnIsLocked, Owner, rows, Job, Reported, Commands
<1>8. WriteIsRight(u)'
  <2>1. \A p \in Products : Owner("product", p)' = u <=> Owner("product", p) = u
    BY <1>2, TablesAreRows DEF Owner
  <2>2. \A p : Available(u, p)' <=> Available(u, p)
    BY <1>1 DEF Available, Returned, rows
  <2>3. job[u].write # NoWrite => job[u].of \in Checkouts
    BY DEF JobInv, Shape
  <2>4. \A c, w : Outcome(c, w)' <=> Outcome(c, w)
    BY <1>1 DEF Outcome, rows
  <2>. QED
    BY <1>1, <2>1, <2>2, <2>3, <2>4, TablesAreRows DEF JobInv, WriteIsRight, Owner, rows
<1>. QED
  BY <1>3, <1>4, <1>5, <1>6, <1>7, <1>8 DEF JobInv

\* So of such a step only the transaction that takes it needs a look.
LEMMA UnnoticedKeeps ==
  ASSUME LockInv, NEW t \in Transactions, Unnoticed(t), JobInv(t)'
  PROVE  LockInv'
<1>1. TypeOK'
  BY DEF LockInv, Unnoticed, TypeOK, rows
<1>2. RowsAgree' /\ Balance'
  <2>1. UNCHANGED <<state, hold, attempt, physical, reserved>>
    BY DEF Unnoticed, rows
  <2>2. RowsAgree'
    BY <2>1 DEF LockInv, RowsAgree
  <2>3. Balance'
    BY <2>1 DEF LockInv, Balance, Ledger!Balanced, Ledger!Holding, Ledger!Committed
  <2>. QED
    BY <2>2, <2>3
<1>3. \A u \in Transactions : JobInv(u)'
  BY OthersKeep DEF LockInv
<1>. QED
  BY <1>1, <1>2, <1>3 DEF LockInv

\* The same, table by table.
Taken(t) ==
  /\ \A c \in Checkouts :
       /\ \A table \in {"checkout", "reservation", "attempt", "claim"} :
            /\ owner'[<<table, c>>] = t => \/ owner[<<table, c>>] = t
                                           \/ job[t].step = table /\ c = IdOf(t)
            /\ owner[<<table, c>>] = t => owner'[<<table, c>>] = t
            /\ Lock(t) /\ job[t].step = table /\ c = IdOf(t) => owner'[<<table, c>>] = t
       /\ \A r \in Reports : owner'[<<"receipt", <<c, r>> >>] = t =>
            \/ owner[<<"receipt", <<c, r>> >>] = t
            \/ job[t].step = "receipt" /\ c = IdOf(t) /\ r = job[t].report
  /\ \A p \in Products :
       /\ owner'[<<"product", p>>] = t => \/ owner[<<"product", p>>] = t
                                          \/ job[t].step = "product" /\ p = ProductOf[IdOf(t)]
       /\ owner[<<"product", p>>] = t => owner'[<<"product", p>>] = t
       /\ Lock(t) /\ job[t].step = "product" /\ p = ProductOf[IdOf(t)]
            => owner'[<<"product", p>>] = t

\* The lock of a row is taken as the table it belongs to says.
LEMMA LocksTaken ==
  ASSUME TypeOK, NEW t \in Transactions, Shape(t), job[t].step # "end", Lock(t) \/ PassOver(t)
  PROVE  Taken(t) /\ IdOf(t) \in Checkouts
<1>1. job[t].step \in {"claim", "receipt", "checkout", "reservation", "attempt", "product"}
  BY DEF TypeOK, Job
<1>2. \A r \in Rows : /\ owner'[r] = t => owner[r] = t \/ r = RowOf(t)
                      /\ owner[r] = t => owner'[r] = t
                      /\ Lock(t) => owner'[RowOf(t)] = t
  BY LockTakes
<1>3. PICK x : /\ RowOf(t) = <<job[t].step, x>>
               /\ job[t].step = "product" => x = ProductOf[IdOf(t)]
               /\ job[t].step = "receipt" => x = <<IdOf(t), job[t].report>>
               /\ job[t].step \notin {"product", "receipt"} => x = IdOf(t)
  BY <1>1, RowIsRow
<1>4. \A table \in {"checkout", "reservation", "attempt", "claim"}, c \in Checkouts :
        <<table, c>> \in Rows
  BY TablesAreRows
<1>5. ASSUME NEW table, NEW id, <<table, id>> \in Rows
      PROVE  /\ Owner(table, id)' = t => Owner(table, id) = t \/ (table = job[t].step /\ id = x)
             /\ Owner(table, id) = t => Owner(table, id)' = t
             /\ Lock(t) /\ table = job[t].step /\ id = x => Owner(table, id)' = t
  BY <1>2, <1>3, <1>5 DEF Owner
<1>6. ASSUME NEW c \in Checkouts, NEW table \in {"checkout", "reservation", "attempt", "claim"}
      PROVE  /\ Owner(table, c)' = t => Owner(table, c) = t \/ (job[t].step = table /\ c = IdOf(t))
             /\ Owner(table, c) = t => Owner(table, c)' = t
             /\ Lock(t) /\ job[t].step = table /\ c = IdOf(t) => Owner(table, c)' = t
  BY <1>3, <1>4, <1>5, <1>6 DEF Owner
<1>7. ASSUME NEW c \in Checkouts, NEW r \in Reports, Owner("receipt", <<c, r>>)' = t
      PROVE  \/ Owner("receipt", <<c, r>>) = t
             \/ job[t].step = "receipt" /\ c = IdOf(t) /\ r = job[t].report
  <2>1. \/ Owner("receipt", <<c, r>>) = t
        \/ job[t].step = "receipt" /\ <<c, r>> = x
    BY <1>5, <1>7, TablesAreRows DEF Owner
  <2>2. job[t].step = "receipt" /\ <<c, r>> = x => c = IdOf(t) /\ r = job[t].report
    BY <1>3
  <2>. QED
    BY <2>1, <2>2
<1>8. ASSUME NEW p \in Products
      PROVE  /\ Owner("product", p)' = t =>
                  Owner("product", p) = t \/ (job[t].step = "product" /\ p = ProductOf[IdOf(t)])
             /\ Owner("product", p) = t => Owner("product", p)' = t
             /\ Lock(t) /\ job[t].step = "product" /\ p = ProductOf[IdOf(t)]
                  => Owner("product", p)' = t
  BY <1>3, <1>5, <1>8, TablesAreRows DEF Owner
<1>. QED
  BY <1>6, <1>7, <1>8, RowIsRow DEF Taken, Owner

\* A step that takes at most the lock of the row it is at goes unnoticed.
LEMMA LockUnnoticed ==
  ASSUME TypeOK, NEW t \in Transactions, Shape(t), job[t].step # "end", UNCHANGED rows,
         Lock(t) \/ PassOver(t), job' \in [Transactions -> Job],
         \A u \in Transactions : u # t => job'[u] = job[u]
  PROVE  Unnoticed(t)
<1>1. owner' \in [Rows -> Transactions \cup {None}]
  BY RowIsRow DEF TypeOK, Lock, PassOver
<1>. QED
  BY <1>1, LockTakes DEF Unnoticed
-------------------------------------------------------------------------------
(***************************************************************************)
(* The sweep.                                                              *)
(***************************************************************************)
\* A sweeping transaction that leaves its candidate, having swept it or not.
LEMMA LeaveTypes ==
  ASSUME TypeOK, NEW t \in Transactions, Shape(t), job[t].visit # {},
         NEW swept \in SUBSET Checkouts, Leave(t, swept)
  PROVE  /\ job' \in [Transactions -> Job]
         /\ \A u \in Transactions : u # t => job'[u] = job[u]
         /\ job'[t].swept = swept
         /\ job'[t].visit = job[t].visit \ {IdOf(t)}
         /\ job'[t].visit # {} => job'[t].step = "checkout"
         /\ job'[t].visit = {} => job'[t].step = FirstRow(job[t].kind)
         /\ job'[t].kind = job[t].kind /\ job'[t].of = job[t].of /\ job'[t].due = job[t].due
         /\ job'[t].report = job[t].report /\ job'[t].write = job[t].write
<1>1. job[t] \in Job /\ job[t].kind \in Sweeping
  BY DEF TypeOK, Shape
<1>2. Entry(job[t].kind, job[t].visit \ {IdOf(t)}) \in {"checkout", "claim", "end"}
  BY <1>1 DEF Entry, FirstRow, Sweeping
<1>. QED
  BY <1>1, <1>2 DEF TypeOK, Leave, Entry, Job

\* Leaving a candidate keeps what the sweep relies on: a swept one has its rows locked.
LEMMA LeaveKeeps ==
  ASSUME TypeOK, NEW t \in Transactions, JobInv(t), UNCHANGED rows, job[t].visit # {},
         Lock(t) \/ PassOver(t),
         NEW swept, Leave(t, swept),
         swept = IF job[t].step = "product" THEN job[t].swept \cup {IdOf(t)} ELSE job[t].swept,
         job[t].step = "product" => Lock(t)
  PROVE  Unnoticed(t) /\ JobInv(t)'
<1>. DEFINE c == IdOf(t)
<1>1. /\ job[t] \in Job /\ job[t].kind \in Sweeping /\ job[t].write = NoWrite
      /\ job[t].step \in {"checkout", "reservation", "product"}
      /\ c = First(job[t].visit) /\ c \in Checkouts
  BY FirstIsIn DEF TypeOK, JobInv, Shape, IdOf, Job
<1>2. swept \in SUBSET Checkouts
  BY <1>1 DEF Job
<1>3. /\ job' \in [Transactions -> Job]
      /\ \A u \in Transactions : u # t => job'[u] = job[u]
      /\ job'[t].swept = swept
      /\ job'[t].visit # {} => job'[t].step = "checkout"
      /\ job'[t].visit = {} => job'[t].step = FirstRow(job[t].kind)
      /\ job'[t].kind = job[t].kind /\ job'[t].of = job[t].of /\ job'[t].due = job[t].due
      /\ job'[t].report = job[t].report /\ job'[t].write = NoWrite
  BY <1>1, <1>2, LeaveTypes DEF JobInv
<1>4. Unnoticed(t) /\ Taken(t)
  BY <1>1, <1>3, LockUnnoticed, LocksTaken DEF JobInv
<1>5. job'[t].visit = {} => job'[t].step \in OwnSteps(job[t].kind) \cap {"checkout", "claim", "end"}
  BY <1>1, <1>3 DEF FirstRow, OwnSteps, Sweeping, Late
<1>6. Shape(t)'
  BY <1>1, <1>3, <1>5 DEF JobInv, Shape, rows, Sweeping, Commands, Reported
<1>7. job[t].step # "checkout" =>
         /\ owner[<<"checkout", c>>] = t /\ state[c] \in Sweepables
         /\ job[t].step = "product" => hold[c] = "HELD" /\ c \in job[t].due
  BY <1>1 DEF JobInv, VisitedIsLocked, Owner
<1>8. SweptIsLocked(t)'
  <2>1. ASSUME NEW d \in swept
        PROVE  /\ owner[<<"checkout", d>>] = t /\ state[d] \in Sweepables /\ hold[d] = "HELD"
               /\ d \in job[t].due /\ d \in Checkouts
               /\ owner[<<"product", ProductOf[d]>>] = t \/ d = c
    BY <1>1, <1>7 DEF JobInv, SweptIsLocked, Owner, Job
  <2>2. ASSUME NEW d \in swept
        PROVE  owner'[<<"checkout", d>>] = t /\ owner'[<<"product", ProductOf[d]>>] = t
    BY <1>1, <1>4, <2>1, ConstantsOK DEF Taken, JobInv, SweptIsLocked, Owner
  <2>. QED
    BY <1>3, <2>1, <2>2 DEF SweptIsLocked, Owner, rows
<1>9. LocksHaveReasons(t)'
  <2>1. ASSUME NEW d \in Checkouts, Owner("reservation", d)' = t PROVE Owner("checkout", d)' = t
    <3>1. owner[<<"checkout", d>>] = t
      BY <1>1, <1>4, <1>7, <2>1 DEF Taken, JobInv, LocksHaveReasons, Owner
    <3>. QED
      BY <1>4, <3>1 DEF Taken, Owner
  <2>2. ASSUME NEW p \in Products, Owner("product", p)' = t
        PROVE  \E d \in job'[t].swept : ProductOf[d] = p
    BY <1>1, <1>3, <1>4, <2>2 DEF Taken, JobInv, LocksHaveReasons, Owner
  <2>3. ASSUME NEW d \in Checkouts PROVE Owner("attempt", d)' # t /\ Owner("claim", d)' # t
    BY <1>1, <1>3, <1>4 DEF Taken, JobInv, LocksHaveReasons, Owner, Sweeping
  <2>4. ASSUME NEW d \in Checkouts, NEW r \in Reports PROVE Owner("receipt", <<d, r>>)' # t
    BY <1>1, <1>3, <1>4 DEF Taken, JobInv, LocksHaveReasons, Owner, Sweeping
  <2>. QED
    BY <1>1, <1>3, <2>1, <2>2, <2>3, <2>4 DEF LocksHaveReasons, Owner
<1>10. VisitedIsLocked(t)' /\ OwnIsLocked(t)' /\ WriteIsRight(t)'
  BY <1>3, <1>5 DEF VisitedIsLocked, OwnIsLocked, WriteIsRight
<1>. QED
  BY <1>4, <1>6, <1>8, <1>9, <1>10 DEF JobInv

\* A sweeping transaction that locks a row of its candidate and goes on to the next.
LEMMA GoesOn ==
  ASSUME TypeOK, NEW t \in Transactions, JobInv(t), UNCHANGED rows, job[t].visit # {}, Lock(t),
         \/ /\ job[t].step = "checkout" /\ GoTo(t, "reservation") /\ Payable(IdOf(t))
         \/ /\ job[t].step = "reservation" /\ GoTo(t, "product") /\ StillDue(t, IdOf(t))
  PROVE  Unnoticed(t) /\ JobInv(t)'
<1>. DEFINE c == IdOf(t)
<1>1. /\ job[t] \in Job /\ job[t].kind \in Sweeping /\ job[t].write = NoWrite
      /\ c = First(job[t].visit) /\ c \in Checkouts
  BY FirstIsIn DEF TypeOK, JobInv, Shape, IdOf, Job
<1>2. PICK step \in {"reservation", "product"} :
        /\ job' = [job EXCEPT ![t].step = step]
        /\ step = "reservation" => job[t].step = "checkout" /\ state[c] \in Sweepables
        /\ step = "product" => /\ job[t].step = "reservation"
                               /\ hold[c] = "HELD" /\ c \in job[t].due
  BY DEF GoTo, Payable, StillDue
<1>3. /\ job' \in [Transactions -> Job]
      /\ \A u \in Transactions : u # t => job'[u] = job[u]
      /\ job'[t] = [job[t] EXCEPT !.step = step]
  BY <1>1, <1>2 DEF TypeOK, Job
<1>4. Unnoticed(t) /\ Taken(t)
  BY <1>3, LockUnnoticed, LocksTaken DEF JobInv
<1>5. Shape(t)'
  BY <1>1, <1>3 DEF JobInv, Shape, rows, Sweeping, Job, Commands, Reported
<1>6. SweptIsLocked(t)'
  <2>1. ASSUME NEW d \in job[t].swept
        PROVE  /\ owner[<<"checkout", d>>] = t /\ owner[<<"product", ProductOf[d]>>] = t
               /\ d \in Checkouts /\ ProductOf[d] \in Products
    BY <1>1, ConstantsOK DEF JobInv, SweptIsLocked, Owner, Job
  <2>2. ASSUME NEW d \in job[t].swept
        PROVE  owner'[<<"checkout", d>>] = t /\ owner'[<<"product", ProductOf[d]>>] = t
    BY <1>4, <2>1 DEF Taken
  <2>. QED
    BY <1>1, <1>3, <2>2 DEF JobInv, SweptIsLocked, Owner, rows, Job
<1>7. /\ owner'[<<"checkout", c>>] = t
      /\ state[c] \in Sweepables
  <2>1. CASE step = "reservation"
    BY <1>1, <1>2, <1>4, <2>1 DEF Taken
  <2>2. CASE step = "product"
    <3>1. owner[<<"checkout", c>>] = t /\ state[c] \in Sweepables
      BY <1>1, <1>2, <2>2 DEF JobInv, VisitedIsLocked, Owner
    <3>. QED
      BY <1>1, <1>4, <3>1 DEF Taken
  <2>. QED
    BY <2>1, <2>2
<1>8. LocksHaveReasons(t)'
  <2>1. ASSUME NEW d \in Checkouts, owner'[<<"reservation", d>>] = t
        PROVE  owner'[<<"checkout", d>>] = t
    <3>1. owner[<<"reservation", d>>] = t \/ d = c
      BY <1>4, <2>1 DEF Taken
    <3>2. owner[<<"reservation", d>>] = t => owner[<<"checkout", d>>] = t
      BY DEF JobInv, LocksHaveReasons, Owner
    <3>. QED
      BY <1>4, <1>7, <3>1, <3>2 DEF Taken
  <2>2. ASSUME NEW p \in Products, owner'[<<"product", p>>] = t
        PROVE  \E d \in job'[t].swept : ProductOf[d] = p
    BY <1>1, <1>2, <1>3, <1>4, <2>2 DEF Taken, JobInv, LocksHaveReasons, Owner, Job
  <2>3. ASSUME NEW d \in Checkouts
        PROVE owner'[<<"attempt", d>>] # t /\ owner'[<<"claim", d>>] # t
    BY <1>1, <1>2, <1>4 DEF Taken, JobInv, LocksHaveReasons, Owner, Sweeping
  <2>4. ASSUME NEW d \in Checkouts, NEW r \in Reports PROVE owner'[<<"receipt", <<d, r>> >>] # t
    BY <1>1, <1>2, <1>4 DEF Taken, JobInv, LocksHaveReasons, Owner, Sweeping
  <2>. QED
    BY <1>1, <1>3, <2>1, <2>2, <2>3, <2>4 DEF LocksHaveReasons, Owner, Job
<1>9. VisitedIsLocked(t)'
  BY <1>1, <1>2, <1>3, <1>7 DEF VisitedIsLocked, Owner, rows, Job
<1>10. OwnIsLocked(t)' /\ WriteIsRight(t)'
  BY <1>1, <1>3 DEF OwnIsLocked, WriteIsRight, Job
<1>. QED
  BY <1>4, <1>5, <1>6, <1>8, <1>9, <1>10 DEF JobInv

\* Each step of the sweep.
LEMMA SweepKeeps ==
  ASSUME LockInv, NEW t \in Transactions,
         SweepCheckout(t) \/ SweepReservation(t) \/ SweepProduct(t)
  PROVE  LockInv'
<1>1. TypeOK /\ JobInv(t) /\ UNCHANGED rows /\ job[t].visit # {}
  BY DEF LockInv, SweepCheckout, SweepReservation, SweepProduct, Sweeps
<1>2. CASE Lock(t) /\ \/ job[t].step = "checkout" /\ GoTo(t, "reservation") /\ Payable(IdOf(t))
                      \/ job[t].step = "reservation" /\ GoTo(t, "product") /\ StillDue(t, IdOf(t))
  BY <1>1, <1>2, GoesOn, UnnoticedKeeps
<1>3. CASE job[t].step # "product" /\ PassOver(t) /\ Leave(t, job[t].swept)
  BY <1>1, <1>3, LeaveKeeps, UnnoticedKeeps
<1>4. CASE job[t].step = "product" /\ Lock(t) /\ Leave(t, job[t].swept \cup {IdOf(t)})
  BY <1>1, <1>4, LeaveKeeps, UnnoticedKeeps
<1>. QED
  BY <1>2, <1>3, <1>4 DEF SweepCheckout, SweepReservation, SweepProduct, Sweeps

-------------------------------------------------------------------------------
(***************************************************************************)
(* The transaction's own command.                                          *)
(***************************************************************************)
\* The ways a command goes on from a row: with it locked, or because it need not be.
Onward(from, to) ==
  \/ from = "claim" /\ to = "product"
  \/ from = "receipt" /\ to = "checkout"
  \/ from = "checkout" /\ to = "reservation"
  \/ from = "reservation" /\ to = "attempt"
  \/ from = "attempt" /\ to \in {"product", "end"}
  \/ from = "product" /\ to = "end"

\* A command that goes on, having written w, still has locked what it relies on.
LEMMA OwnMoves ==
  ASSUME TypeOK, NEW t \in Transactions, JobInv(t), UNCHANGED rows, job[t].visit = {},
         job[t].step # "end", NEW step, NEW w,
         job' = [job EXCEPT ![t].step = step, ![t].write = w],
         w \in [state : State, hold : Hold, attempt : Attempt, fresh : BOOLEAN],
         step \in OwnSteps(job[t].kind),
         \/ Lock(t) /\ Onward(job[t].step, step)
         \/ PassOver(t) /\ job[t].step \in {"claim", "receipt"} /\ step = "end",
         w = job[t].write \/ (Lock(t) /\ job[t].step \in {"attempt", "product"}),
         job[t].step = "claim" /\ step = "product" => state[job[t].of] = "NONE",
         WriteIsRight(t)'
  PROVE  Unnoticed(t) /\ JobInv(t)'
<1>. DEFINE c == job[t].of
<1>1. /\ job[t] \in Job /\ c = IdOf(t)
      /\ job[t].step \in OwnSteps(job[t].kind)
      /\ job[t].kind \in Commands /\ c \in Checkouts
  BY DEF TypeOK, JobInv, Shape, IdOf, Job, OwnSteps, Sweeping, Commands, Idle
<1>2. step \in {"claim", "receipt", "checkout", "reservation", "attempt", "product", "end"}
  BY <1>1 DEF OwnSteps, Late, Commands
<1>3. /\ job' \in [Transactions -> Job]
      /\ \A u \in Transactions : u # t => job'[u] = job[u]
      /\ job'[t] = [job[t] EXCEPT !.step = step, !.write = w]
  BY <1>1, <1>2 DEF TypeOK, Job
<1>4. Unnoticed(t) /\ Taken(t)
  BY <1>3, LockUnnoticed, LocksTaken DEF JobInv
<1>5. job[t].write # NoWrite => job[t].step \in {"product", "end"}
  BY DEF JobInv, Shape
<1>6. /\ w # NoWrite => step \in {"product", "end"}
      /\ w # NoWrite => job[t].step \in {"attempt", "product"}
  BY <1>5 DEF Onward
<1>7. Shape(t)'
  BY <1>1, <1>3, <1>6 DEF JobInv, Shape, rows, Job, Commands, Reported
<1>8. SweptIsLocked(t)'
  <2>1. ASSUME NEW d \in job[t].swept
        PROVE  /\ owner[<<"checkout", d>>] = t /\ owner[<<"product", ProductOf[d]>>] = t
               /\ d \in Checkouts /\ ProductOf[d] \in Products
    BY <1>1, ConstantsOK DEF JobInv, SweptIsLocked, Owner, Job
  <2>2. ASSUME NEW d \in job[t].swept
        PROVE  owner'[<<"checkout", d>>] = t /\ owner'[<<"product", ProductOf[d]>>] = t
    BY <1>4, <2>1 DEF Taken
  <2>. QED
    BY <1>1, <1>3, <2>2 DEF JobInv, SweptIsLocked, Owner, rows, Job
<1>9. VisitedIsLocked(t)'
  BY <1>1, <1>3 DEF VisitedIsLocked, Job
<1>10. OwnIsLocked(t)'
  <2>1. ASSUME step \in {"reservation", "attempt", "product"} \/ w # NoWrite,
               job[t].kind \in Reported
        PROVE  owner'[<<"checkout", c>>] = t
    <3>1. job[t].step \in {"checkout", "reservation", "attempt", "product"}
      BY <1>1, <1>6, <2>1 DEF OwnSteps, Late, Reported, Onward
    <3>2. CASE job[t].step = "checkout"
      BY <1>1, <1>4, <3>2 DEF Taken
    <3>3. CASE job[t].step # "checkout"
      <4>1. owner[<<"checkout", c>>] = t
        BY <2>1, <3>1, <3>3 DEF JobInv, OwnIsLocked, Owner
      <4>. QED
        BY <1>1, <1>4, <4>1 DEF Taken
    <3>. QED
      BY <3>2, <3>3
  <2>2. ASSUME step \in {"reservation", "attempt", "product"} \/ w # NoWrite,
               job[t].kind = "create"
        PROVE  owner'[<<"claim", c>>] = t /\ state[c] = "NONE"
    <3>1. job[t].step \in {"claim", "product"}
      BY <1>1, <1>6, <2>2 DEF OwnSteps
    <3>2. CASE job[t].step = "claim"
      BY <1>1, <1>4, <1>6, <2>2, <3>2 DEF Taken, Onward
    <3>3. CASE job[t].step = "product"
      <4>1. owner[<<"claim", c>>] = t /\ state[c] = "NONE"
        BY <2>2, <3>3 DEF JobInv, OwnIsLocked, Owner
      <4>. QED
        BY <1>1, <1>4, <4>1 DEF Taken
    <3>. QED
      BY <3>1, <3>2, <3>3
  <2>. QED
    BY <1>1, <1>3, <2>1, <2>2 DEF OwnIsLocked, Owner, rows, Job
<1>11. LocksHaveReasons(t)'
  <2>1. ASSUME NEW d \in Checkouts, owner'[<<"checkout", d>>] = t
        PROVE  \/ job[t].kind \in Sweeping
               \/ job[t].kind \in {"event", "answer"} /\ d = c /\ step \in Late
    <3>1. CASE owner[<<"checkout", d>>] = t
      BY <1>1, <3>1 DEF JobInv, LocksHaveReasons, Owner, Onward, Late
    <3>2. CASE job[t].step = "checkout" /\ d = c
      BY <1>1, <3>2 DEF OwnSteps, Onward, Late, Commands, Sweeping
    <3>. QED
      BY <1>1, <1>4, <2>1, <3>1, <3>2 DEF Taken
  <2>2. ASSUME NEW d \in Checkouts, owner'[<<"reservation", d>>] = t
        PROVE  /\ owner'[<<"checkout", d>>] = t
               /\ job[t].kind \notin Sweeping => step \in {"attempt", "product", "end"}
    <3>1. CASE owner[<<"reservation", d>>] = t
      <4>1. owner[<<"checkout", d>>] = t
        BY <3>1 DEF JobInv, LocksHaveReasons, Owner
      <4>2. owner'[<<"checkout", d>>] = t
        BY <1>4, <4>1 DEF Taken
      <4>. QED
        BY <3>1, <4>2 DEF JobInv, LocksHaveReasons, Owner, Onward
    <3>2. CASE job[t].step = "reservation" /\ d = c
      <4>1. owner[<<"checkout", d>>] = t
        BY <1>1, <3>2 DEF JobInv, OwnIsLocked, Owner, OwnSteps, Reported, Commands
      <4>2. owner'[<<"checkout", d>>] = t
        BY <1>4, <4>1 DEF Taken
      <4>. QED
        BY <3>2, <4>2 DEF Onward
    <3>. QED
      BY <1>1, <1>4, <2>2, <3>1, <3>2 DEF Taken
  <2>3. ASSUME NEW d \in Checkouts, owner'[<<"attempt", d>>] = t
        PROVE  job[t].kind \in Reported /\ d = c /\ step \in {"product", "end"}
    <3>1. CASE owner[<<"attempt", d>>] = t
      BY <1>1, <3>1 DEF JobInv, LocksHaveReasons, Owner, Onward, Commands
    <3>2. CASE job[t].step = "attempt" /\ d = c
      BY <1>1, <3>2 DEF OwnSteps, Onward, Reported, Commands
    <3>. QED
      BY <1>1, <1>4, <2>3, <3>1, <3>2 DEF Taken
  <2>4. ASSUME NEW d \in Checkouts, owner'[<<"claim", d>>] = t
        PROVE  job[t].kind = "create" /\ d = c /\ step \in {"product", "end"}
    <3>1. CASE owner[<<"claim", d>>] = t
      BY <1>1, <3>1 DEF JobInv, LocksHaveReasons, Owner, Onward
    <3>2. CASE job[t].step = "claim" /\ d = c
      BY <1>1, <3>2 DEF OwnSteps, Onward, Late, Commands
    <3>. QED
      BY <1>1, <1>4, <2>4, <3>1, <3>2 DEF Taken
  <2>5. ASSUME NEW d \in Checkouts, NEW r \in Reports, owner'[<<"receipt", <<d, r>> >>] = t
        PROVE  job[t].kind = "event" /\ d = c /\ job[t].report = r /\ step # "receipt"
    <3>1. CASE owner[<<"receipt", <<d, r>> >>] = t
      BY <1>1, <3>1 DEF JobInv, LocksHaveReasons, Owner, Onward
    <3>2. CASE job[t].step = "receipt" /\ d = c /\ r = job[t].report
      BY <1>1, <3>2 DEF OwnSteps, Onward, Late, Commands
    <3>. QED
      BY <1>1, <1>4, <2>5, <3>1, <3>2 DEF Taken
  <2>6. ASSUME NEW p \in Products, owner'[<<"product", p>>] = t
        PROVE  step = "end" \/ \E d \in job[t].swept : ProductOf[d] = p
    <3>1. CASE owner[<<"product", p>>] = t
      BY <1>1, <3>1 DEF JobInv, LocksHaveReasons, Owner
    <3>2. CASE job[t].step = "product"
      BY <3>2 DEF Onward
    <3>. QED
      BY <1>1, <1>4, <2>6, <3>1, <3>2 DEF Taken
  <2>. QED
    BY <1>1, <1>3, <2>1, <2>2, <2>3, <2>4, <2>5, <2>6 DEF LocksHaveReasons, Owner, Job
<1>. QED
  BY <1>4, <1>7, <1>8, <1>9, <1>10, <1>11 DEF JobInv

\* A command that only goes on.
LEMMA GoToMoves ==
  ASSUME TypeOK, NEW t \in Transactions, NEW step, GoTo(t, step)
  PROVE  job' = [job EXCEPT ![t].step = step, ![t].write = job[t].write]
BY DEF TypeOK, Job, GoTo

\* A command has nothing to write before it has decided.
LEMMA NothingWritten ==
  ASSUME NEW t \in Transactions, JobInv(t), job[t].step \notin {"product", "end"}
  PROVE  job[t].write = NoWrite
BY DEF JobInv, Shape

\* Claiming, recording the event, and locking the rows on the way.
LEMMA PassRowKeeps ==
  ASSUME LockInv, NEW t \in Transactions, Claim(t) \/ Receive(t) \/ LockOwn(t)
  PROVE  LockInv'
<1>1. /\ TypeOK /\ JobInv(t) /\ UNCHANGED rows /\ job[t] \in Job /\ job[t].visit = {}
      /\ job[t].step \in {"claim", "receipt", "checkout", "reservation"}
      /\ job[t].write = NoWrite
  BY NothingWritten DEF LockInv, TypeOK, Claim, Receive, LockOwn, Does
<1>2. PICK step : /\ GoTo(t, step)
                  /\ \/ Lock(t) /\ Onward(job[t].step, step)
                     \/ PassOver(t) /\ job[t].step \in {"claim", "receipt"} /\ step = "end"
                  /\ job[t].step = "claim" /\ step = "product" => state[job[t].of] = "NONE"
  <2>1. CASE Claim(t)
    BY <1>1, <2>1 DEF Claim, Does, NextRow, Onward, IdOf
  <2>2. CASE Receive(t)
    BY <1>1, <2>2 DEF Receive, Does, NextRow, Onward
  <2>3. CASE LockOwn(t)
    BY <1>1, <2>3 DEF LockOwn, Does, NextRow, Onward
  <2>. QED
    BY <2>1, <2>2, <2>3
<1>3. step \in OwnSteps(job[t].kind)
  BY <1>1, <1>2 DEF JobInv, Shape, OwnSteps, Late, Onward
<1>4. job' = [job EXCEPT ![t].step = step, ![t].write = job[t].write]
  BY <1>1, <1>2, GoToMoves
<1>5. WriteIsRight(t)'
  BY <1>1, <1>2 DEF GoTo, WriteIsRight, TypeOK, Job
<1>. QED
  BY <1>1, <1>2, <1>3, <1>4, <1>5, OwnMoves, UnnoticedKeeps DEF Job

\* What a command decides to write under its locks.
LEMMA DecidesRight ==
  ASSUME LockInv, NEW t \in Transactions, Decide(t), NEW w \in Writes(t, job[t].of), w # NoWrite
  PROVE  /\ Outcome(job[t].of, w) /\ job[t].of \notin job[t].swept
         /\ w \in [state : State, hold : Hold, attempt : Attempt, fresh : BOOLEAN]
<1>. DEFINE c == job[t].of
<1>1. /\ job[t] \in Job /\ c \in Checkouts /\ job[t].kind \in Reported
      /\ state[c] # "NONE" /\ hold[c] \in Hold /\ hold[c] # "NONE" /\ state[c] \in State
  BY DEF LockInv, RowsAgree, JobInv, Shape, Decide, Does, OwnSteps, Late, Commands, Reported,
         TypeOK, Job, Sweeping, Idle
<1>2. /\ attempt[c] = "OPEN" => hold[c] = "HELD"
      /\ hold[c] = "COMMITTED" => attempt[c] = "APPROVED"
  BY <1>1 DEF LockInv, RowsAgree
<1>3. CASE job[t].kind = "attempt"
  <2>1. Eligible(t, c) /\ w = Write("PAYMENT_PENDING", "HELD", "OPEN", FALSE)
    BY <1>3 DEF Writes, Replays
  <2>. QED
    BY <2>1 DEF Eligible, Write, Outcome, State, Hold, Attempt
<1>4. CASE job[t].kind # "attempt"
  <2>1. w \in ReportWrites(c, job[t].report)
    BY <1>4 DEF Writes
  <2>2. job[t].swept = {}
    BY <1>1, <1>4 DEF LockInv, JobInv, Shape, Reported, Sweeping
  <2>3. \/ attempt[c] # "APPROVED" /\ w = Approved(c)
        \/ attempt[c] # "APPROVED" /\ w = Voided(c)
        \/ attempt[c] = "OPEN" /\ w \in {Write("PAYMENT_FAILED", "HELD", "FAILED", TRUE),
                                         Write("PAYMENT_FAILED", "RELEASED", "FAILED", FALSE),
                                         Write("PAYMENT_PENDING", hold[c], "OPEN", FALSE),
                                         Write("RESERVED", hold[c], "FREED", FALSE)}
    BY <2>1 DEF ReportWrites
  <2>4. CASE attempt[c] # "APPROVED" /\ w = Approved(c)
    BY <1>1, <1>2, <2>2, <2>4 DEF Approved, Released, Write, Outcome, State, Hold, Attempt
  <2>5. CASE attempt[c] # "APPROVED" /\ w = Voided(c)
    BY <1>1, <1>2, <2>2, <2>5 DEF Voided, Released, Write, Outcome, State, Hold, Attempt
  <2>6. ASSUME NEW s \in State, NEW h \in Hold, NEW a \in Attempt, NEW fresh \in BOOLEAN,
               w = Write(s, h, a, fresh), hold[c] = "HELD", s \notin {"NONE", "EXPIRED"},
               \/ h = "HELD" /\ a # "OPEN"
               \/ h = "HELD" /\ a = "OPEN" /\ s = "PAYMENT_PENDING"
               \/ h = "RELEASED" /\ a # "OPEN"
        PROVE  /\ Outcome(c, w)
               /\ w \in [state : State, hold : Hold, attempt : Attempt, fresh : BOOLEAN]
    BY <2>6 DEF Write, Outcome
  <2>7. CASE attempt[c] = "OPEN" /\ w \in {Write("PAYMENT_FAILED", "HELD", "FAILED", TRUE),
                                           Write("PAYMENT_FAILED", "RELEASED", "FAILED", FALSE),
                                           Write("PAYMENT_PENDING", hold[c], "OPEN", FALSE),
                                           Write("RESERVED", hold[c], "FREED", FALSE)}
    <3>1. hold[c] = "HELD"
      BY <1>2, <2>7
    <3>2. PICK s \in {"PAYMENT_FAILED", "PAYMENT_PENDING", "RESERVED"}, h \in {"HELD", "RELEASED"},
               a \in {"FAILED", "OPEN", "FREED"}, fresh \in BOOLEAN :
            /\ w = Write(s, h, a, fresh)
            /\ a = "OPEN" => h = "HELD" /\ s = "PAYMENT_PENDING"
      BY <2>7, <3>1
    <3>3. s \in State /\ h \in Hold /\ a \in Attempt
      BY DEF State, Hold, Attempt, Sweepables
    <3>. QED
      BY <2>2, <2>6, <3>1, <3>2, <3>3
  <2>. QED
    BY <2>3, <2>4, <2>5, <2>7
<1>. QED
  BY <1>3, <1>4

\* A decision is about the hold alone.
LEMMA OutcomeStays ==
  ASSUME UNCHANGED hold, NEW c, NEW w
  PROVE  Outcome(c, w)' <=> Outcome(c, w)
BY DEF Outcome

\* Deciding, under the locks of checkout, reservation and attempt.
LEMMA DecideKeeps ==
  ASSUME LockInv, NEW t \in Transactions, Decide(t)
  PROVE  LockInv'
<1>. DEFINE c == job[t].of
<1>1. /\ TypeOK /\ JobInv(t) /\ UNCHANGED rows /\ job[t] \in Job /\ job[t].visit = {}
      /\ job[t].step = "attempt" /\ job[t].kind \in Reported /\ c = IdOf(t) /\ Lock(t)
  BY DEF LockInv, TypeOK, Decide, Does, IdOf, JobInv, Shape, OwnSteps, Late, Reported, Commands,
         Job, Sweeping
<1>2. PICK w \in Writes(t, c) :
        job' = [job EXCEPT ![t].write = w,
                           ![t].step = IF w # NoWrite /\ w.hold # hold[c] THEN "product" ELSE "end"]
  BY <1>1 DEF Decide
<1>. DEFINE step == IF w # NoWrite /\ w.hold # hold[c] THEN "product" ELSE "end"
<1>3. w # NoWrite => /\ Outcome(c, w) /\ c \notin job[t].swept
                     /\ w \in [state : State, hold : Hold, attempt : Attempt, fresh : BOOLEAN]
  BY DecidesRight
<1>4. w \in [state : State, hold : Hold, attempt : Attempt, fresh : BOOLEAN]
  <2>1. NoWrite \in [state : State, hold : Hold, attempt : Attempt, fresh : BOOLEAN]
    BY DEF NoWrite, State, Hold, Attempt
  <2>. QED
    BY <1>3, <2>1
<1>5. job' = [job EXCEPT ![t].step = step, ![t].write = w]
  BY <1>1, <1>2 DEF TypeOK, Job
<1>6. step \in OwnSteps(job[t].kind) /\ Onward(job[t].step, step)
  BY <1>1 DEF OwnSteps, Late, Reported, Onward
<1>7. job'[t] = [job[t] EXCEPT !.step = step, !.write = w]
  BY <1>1, <1>5 DEF TypeOK
<1>8. WriteIsRight(t)'
  <2>1. /\ job'[t].write = w /\ job'[t].step = step /\ job'[t].kind = job[t].kind
        /\ job'[t].of = c /\ job'[t].swept = job[t].swept
    BY <1>1, <1>7 DEF Job
  <2>2. UNCHANGED hold
    BY <1>1 DEF rows
  <2>. QED
    BY <1>1, <1>3, <2>1, <2>2, OutcomeStays DEF WriteIsRight, Reported
<1>9. Unnoticed(t) /\ JobInv(t)'
  BY <1>1, <1>4, <1>5, <1>6, <1>8, OwnMoves
<1>. QED
  BY <1>9, UnnoticedKeeps

\* Locking the product, the last row of all.
LEMMA LockProductKeeps ==
  ASSUME LockInv, NEW t \in Transactions, LockProduct(t)
  PROVE  LockInv'
<1>. DEFINE c == job[t].of
            p == ProductOf[c]
<1>1. /\ TypeOK /\ JobInv(t) /\ UNCHANGED rows /\ job[t] \in Job /\ job[t].visit = {}
      /\ job[t].step = "product" /\ job[t].kind \in Commands /\ c = IdOf(t) /\ Lock(t)
      /\ c \in Checkouts /\ p \in Products
  BY ConstantsOK DEF LockInv, TypeOK, LockProduct, Does, IdOf, JobInv, Shape, OwnSteps, Late,
         Commands, Job, Sweeping
<1>2. Onward(job[t].step, "end") /\ "end" \in OwnSteps(job[t].kind)
  BY <1>1 DEF Onward, OwnSteps, Late, Commands
<1>3. owner'[<<"product", p>>] = t
  BY <1>1, LocksTaken DEF Taken, JobInv
<1>4. PICK w : /\ job' = [job EXCEPT ![t].step = "end", ![t].write = w]
               /\ job[t].kind = "create" => /\ w = Write("RESERVED", "HELD", "NONE", TRUE)
                                            /\ Available(t, p)
               /\ job[t].kind # "create" => w = job[t].write
  <2>1. CASE job[t].kind = "create"
    BY <1>1, <2>1 DEF LockProduct
  <2>2. CASE job[t].kind # "create"
    BY <1>1, <2>2, GoToMoves DEF LockProduct
  <2>. QED
    BY <2>1, <2>2
<1>5. w \in [state : State, hold : Hold, attempt : Attempt, fresh : BOOLEAN]
  <2>1. Write("RESERVED", "HELD", "NONE", TRUE)
          \in [state : State, hold : Hold, attempt : Attempt, fresh : BOOLEAN]
    BY DEF Write, State, Hold, Attempt, Sweepables
  <2>2. job[t].write \in [state : State, hold : Hold, attempt : Attempt, fresh : BOOLEAN]
    BY <1>1 DEF Job
  <2>. QED
    BY <1>4, <2>1, <2>2
<1>6. job'[t] = [job[t] EXCEPT !.step = "end", !.write = w]
  BY <1>1, <1>4 DEF TypeOK
<1>7. WriteIsRight(t)'
  <2>1. /\ job'[t].write = w /\ job'[t].step = "end" /\ job'[t].kind = job[t].kind
        /\ job'[t].of = c /\ job'[t].swept = job[t].swept
    BY <1>1, <1>6 DEF Job
  <2>2. UNCHANGED <<hold, reserved, physical>>
    BY <1>1 DEF rows
  <2>3. CASE job[t].kind = "create"
    <3>1. Available(t, p)'
      BY <1>4, <2>1, <2>2, <2>3 DEF Available, Returned
    <3>. QED
      BY <1>3, <1>4, <2>1, <2>3, <3>1 DEF WriteIsRight, Owner, Reported
  <2>4. CASE job[t].kind # "create"
    <3>1. w # NoWrite => Outcome(c, w) /\ c \notin job[t].swept
      BY <1>1, <1>4, <2>4 DEF JobInv, WriteIsRight, Reported, Commands
    <3>. QED
      BY <1>3, <2>1, <2>2, <2>4, <3>1, OutcomeStays DEF WriteIsRight, Owner
  <2>. QED
    BY <2>3, <2>4
<1>8. Unnoticed(t) /\ JobInv(t)'
  BY <1>1, <1>2, <1>4, <1>5, <1>7, OwnMoves
<1>. QED
  BY <1>8, UnnoticedKeeps

-------------------------------------------------------------------------------
(***************************************************************************)
(* Beginning, failing, and the passing of time.                            *)
(***************************************************************************)
\* A transaction that owns nothing and is at its first row.
LEMMA FreshKeeps ==
  ASSUME NEW t \in Transactions, NEW j \in Job, job'[t] = j, Shape(t)',
         \A r \in Rows : owner'[r] = t => r \in {"attempt"} \X Checkouts /\ j.kind = "pass",
         j.swept = {}, j.write = NoWrite,
         j.visit # {} => j.step = "checkout",
         j.step \notin {"reservation", "attempt", "product"}
  PROVE  JobInv(t)'
<1>1. LocksHaveReasons(t)'
  <2>1. ASSUME NEW c \in Checkouts
        PROVE  /\ owner'[<<"checkout", c>>] # t /\ owner'[<<"reservation", c>>] # t
               /\ owner'[<<"claim", c>>] # t
               /\ \A r \in Reports : owner'[<<"receipt", <<c, r>> >>] # t
               /\ owner'[<<"attempt", c>>] = t => j.kind = "pass"
    BY TablesAreRows
  <2>2. ASSUME NEW p \in Products PROVE owner'[<<"product", p>>] # t
    BY TablesAreRows
  <2>. QED
    BY <2>1, <2>2 DEF LocksHaveReasons, Owner
<1>2. SweptIsLocked(t)' /\ VisitedIsLocked(t)' /\ OwnIsLocked(t)' /\ WriteIsRight(t)'
  BY DEF SweptIsLocked, VisitedIsLocked, OwnIsLocked, WriteIsRight
<1>. QED
  BY <1>1, <1>2 DEF JobInv

\* A connection that runs no transaction holds no lock.
LEMMA IdleOwnsNothing ==
  ASSUME TypeOK, NEW t \in Transactions, JobInv(t), job[t].kind = "none", NEW r \in Rows
  PROVE  owner[r] # t
<1>1. job[t].swept = {} /\ job[t].kind \notin Sweeping \cup Commands \cup Reported \cup {"pass"}
  BY DEF JobInv, Shape, Idle, Sweeping, Commands, Reported
<1>2. CASE \E c \in Checkouts : r \in {<<"checkout", c>>, <<"reservation", c>>, <<"attempt", c>>,
                                       <<"claim", c>>}
  BY <1>1, <1>2 DEF JobInv, LocksHaveReasons, Owner, Sweeping, Commands, Reported
<1>3. CASE \E c \in Checkouts, k \in Reports : r = <<"receipt", <<c, k>> >>
  BY <1>1, <1>3 DEF JobInv, LocksHaveReasons, Owner, Sweeping, Commands, Reported
<1>4. CASE \E p \in Products : r = <<"product", p>>
  BY <1>1, <1>4 DEF JobInv, LocksHaveReasons, Owner, Sweeping, Commands, Reported
<1>. QED
  BY <1>2, <1>3, <1>4 DEF Rows

\* Beginning: what is listed has lapsed, and the checkout of a command exists.
LEMMA BeginKeeps ==
  ASSUME LockInv, NEW t \in Transactions, NEW kind \in Kinds, NEW c \in Checkouts \cup {None},
         NEW report \in Reports \cup {None}, Begin(t, kind, c, report),
         kind # "pass", kind # "read" => c \in Checkouts,
         kind \in {"event", "answer"} => report \in Reports
  PROVE  LockInv'
<1>. DEFINE due == IF kind \in Sweeping THEN Candidates ELSE {}
            j == [kind |-> kind, of |-> c, report |-> report, due |-> due, visit |-> due,
                  step |-> Entry(kind, due), swept |-> {}, write |-> NoWrite]
<1>1. TypeOK /\ JobInv(t) /\ UNCHANGED rows /\ UNCHANGED owner /\ job' = [job EXCEPT ![t] = j]
  BY DEF LockInv, Begin
<1>2. kind \in {"read", "create", "attempt", "event", "answer"}
  BY ConstantsOK DEF Sweeping
<1>3. due \in SUBSET Checkouts /\ due \subseteq {d \in Checkouts : lapsed[d]}
  BY DEF Candidates
<1>4. /\ due # {} => Entry(kind, due) = "checkout"
      /\ due = {} => Entry(kind, due) = FirstRow(kind)
      /\ FirstRow(kind) \in OwnSteps(kind) \cap {"claim", "receipt", "checkout", "end"}
  BY <1>2 DEF Entry, FirstRow, OwnSteps, Late
<1>5. j \in Job
  <2>1. NoWrite \in [state : State, hold : Hold, attempt : Attempt, fresh : BOOLEAN]
    BY DEF NoWrite, State, Hold, Attempt
  <2>. QED
    BY <1>2, <1>3, <1>4, <2>1 DEF Job, Sweeping
<1>6. job' \in [Transactions -> Job] /\ job'[t] = j
  BY <1>1, <1>5 DEF TypeOK
<1>7. Unnoticed(t)
  BY <1>1, <1>6 DEF Unnoticed, TypeOK
<1>8. Shape(t)'
  <2>1. kind \in Reported => state[c] # "NONE"
    <3>1. CASE kind = "attempt"
      BY <3>1 DEF Begin
    <3>2. CASE kind \in {"event", "answer"}
      BY <3>2 DEF Begin, LockInv, RowsAgree
    <3>. QED
      BY <3>1, <3>2 DEF Reported
  <2>2. kind \notin Sweeping => due = {}
    OBVIOUS
  <2>. QED
    BY <1>1, <1>2, <1>3, <1>4, <1>6, <2>1, <2>2 DEF Shape, rows, Sweeping, Commands, Reported
<1>9. \A r \in Rows : owner'[r] # t
  <2>1. job[t].kind = "none"
    BY DEF Begin, Idle
  <2>. QED
    BY <1>1, <2>1, IdleOwnsNothing
<1>10. JobInv(t)'
  BY <1>4, <1>5, <1>6, <1>8, <1>9, FreshKeeps
<1>. QED
  BY <1>7, <1>10, UnnoticedKeeps

\* Claiming attempts for reconciliation takes rows nobody has locked.
LEMMA BeginPassKeeps ==
  ASSUME LockInv, NEW t \in Transactions, BeginPass(t)
  PROVE  LockInv'
<1>. DEFINE free == {c \in Checkouts : attempt[c] = "OPEN" /\ owner[<<"attempt", c>>] = None}
            j == [Idle EXCEPT !.kind = "pass"]
<1>1. /\ TypeOK /\ JobInv(t) /\ UNCHANGED rows /\ job[t] = Idle
      /\ owner' = [r \in Rows |-> IF r \in {"attempt"} \X free THEN t ELSE owner[r]]
      /\ job' = [job EXCEPT ![t].kind = "pass"]
  BY DEF LockInv, BeginPass
<1>2. j \in Job
  <2>1. NoWrite \in [state : State, hold : Hold, attempt : Attempt, fresh : BOOLEAN]
    BY DEF NoWrite, State, Hold, Attempt
  <2>. QED
    BY <2>1 DEF Job, Idle
<1>3. /\ job' \in [Transactions -> Job] /\ job'[t] = j
      /\ \A u \in Transactions : u # t => job'[u] = job[u]
  BY <1>1, <1>2 DEF TypeOK
<1>4. ASSUME NEW u \in Transactions, u # t, NEW r \in Rows
      PROVE  owner'[r] = u <=> owner[r] = u
  BY <1>1, <1>4, ConstantsOK
<1>5. Unnoticed(t)
  BY <1>1, <1>3, <1>4 DEF Unnoticed, TypeOK
<1>6. \A r \in Rows : owner[r] # t
  BY <1>1, IdleOwnsNothing DEF Idle
<1>7. Shape(t)'
  BY <1>1, <1>3 DEF Shape, Idle, Sweeping, Commands, Reported, OwnSteps
<1>8. \A r \in Rows : owner'[r] = t => r \in {"attempt"} \X Checkouts
  BY <1>1, <1>6
<1>9. JobInv(t)'
  BY <1>2, <1>3, <1>7, <1>8, FreshKeeps DEF Idle
<1>. QED
  BY <1>5, <1>9, UnnoticedKeeps

\* Whatever begins.
LEMMA StartKeeps ==
  ASSUME LockInv, NEW t \in Transactions, Start(t)
  PROVE  LockInv'
BY BeginKeeps, BeginPassKeeps DEF Start

\* Rolling back lets go of every lock and writes nothing.
LEMMA RollbackKeeps ==
  ASSUME LockInv, NEW t \in Transactions, Rollback(t)
  PROVE  LockInv'
<1>1. /\ TypeOK /\ JobInv(t) /\ UNCHANGED rows /\ job' = [job EXCEPT ![t] = Idle]
      /\ owner' = [r \in Rows |-> IF owner[r] = t THEN None ELSE owner[r]]
  BY DEF LockInv, Rollback, ReleaseLocks
<1>2. Idle \in Job
  <2>1. NoWrite \in [state : State, hold : Hold, attempt : Attempt, fresh : BOOLEAN]
    BY DEF NoWrite, State, Hold, Attempt
  <2>. QED
    BY <2>1 DEF Job, Idle
<1>3. /\ job' \in [Transactions -> Job] /\ job'[t] = Idle
      /\ \A u \in Transactions : u # t => job'[u] = job[u]
  BY <1>1, <1>2 DEF TypeOK
<1>4. ASSUME NEW u \in Transactions, u # t, NEW r \in Rows
      PROVE  owner'[r] = u <=> owner[r] = u
  BY <1>1, <1>4, ConstantsOK
<1>5. Unnoticed(t)
  BY <1>1, <1>3, <1>4 DEF Unnoticed, TypeOK
<1>6. Shape(t)'
  BY <1>3 DEF Shape, Idle, Sweeping, Commands, Reported, OwnSteps
<1>7. \A r \in Rows : owner'[r] # t
  BY <1>1, ConstantsOK
<1>8. JobInv(t)'
  BY <1>2, <1>3, <1>6, <1>7, FreshKeeps DEF Idle
<1>. QED
  BY <1>5, <1>8, UnnoticedKeeps

\* A deadline that passes changes nothing a transaction relies on.
LEMMA LapseKeeps ==
  ASSUME LockInv, NEW c \in Checkouts, Lapse(c)
  PROVE  LockInv'
<1>1. /\ UNCHANGED <<state, hold, attempt, physical, reserved, received, owner, job>>
      /\ lapsed \in [Checkouts -> BOOLEAN] /\ lapsed' = [lapsed EXCEPT ![c] = TRUE]
  BY DEF LockInv, TypeOK, Lapse
<1>2. TypeOK'
  BY <1>1 DEF LockInv, TypeOK
<1>3. RowsAgree' /\ Balance'
  BY <1>1 DEF LockInv, RowsAgree, Balance, Ledger!Balanced, Ledger!Holding, Ledger!Committed
<1>4. ASSUME NEW t \in Transactions PROVE JobInv(t)'
  <2>1. JobInv(t)
    BY DEF LockInv
  <2>2. Shape(t)'
    BY <1>1, <2>1 DEF JobInv, Shape
  <2>3. LocksHaveReasons(t)' /\ SweptIsLocked(t)' /\ VisitedIsLocked(t)' /\ OwnIsLocked(t)'
    BY <1>1, <2>1 DEF JobInv, LocksHaveReasons, SweptIsLocked, VisitedIsLocked, OwnIsLocked, Owner
  <2>4. WriteIsRight(t)'
    <3>1. \A d, w : Outcome(d, w)' <=> Outcome(d, w)
      BY <1>1 DEF Outcome
    <3>2. \A p : Available(t, p)' <=> Available(t, p)
      BY <1>1 DEF Available, Returned
    <3>. QED
      BY <1>1, <2>1, <3>1, <3>2 DEF JobInv, WriteIsRight, Owner
  <2>. QED
    BY <2>2, <2>3, <2>4 DEF JobInv
<1>. QED
  BY <1>2, <1>3, <1>4 DEF LockInv

-------------------------------------------------------------------------------
(***************************************************************************)
(* Committing.                                                             *)
(***************************************************************************)
Own(t) == IF job[t].write = NoWrite THEN {} ELSE {job[t].of}

\* The checkout of a command that writes it: a new one, or one that is locked.
Made(t, c) ==
  /\ state[c] = "NONE" /\ hold[c] = "NONE" /\ attempt[c] = "NONE"
  /\ Owner("claim", c) = t
  /\ job[t].write = Write("RESERVED", "HELD", "NONE", TRUE)
  /\ Available(t, ProductOf[c])
  /\ Owner("product", ProductOf[c]) = t

Changed(t, c) ==
  /\ state[c] # "NONE" /\ hold[c] # "NONE"
  /\ Owner("checkout", c) = t
  /\ Outcome(c, job[t].write)
  /\ job[t].write.hold # hold[c] => Owner("product", ProductOf[c]) = t

\* A commit writes the checkouts swept and at most one other, all of them locked.
LEMMA WhatIsCommitted ==
  ASSUME LockInv, NEW t \in Transactions, Commit(t)
  PROVE  /\ job[t] \in Job /\ Own(t) \subseteq Checkouts /\ job[t].swept \subseteq Checkouts
         /\ Own(t) \cap job[t].swept = {}
         /\ \A c \in job[t].swept :
              /\ state[c] \in Sweepables /\ hold[c] = "HELD" /\ attempt[c] # "OPEN" /\ lapsed[c]
              /\ Owner("checkout", c) = t /\ Owner("product", ProductOf[c]) = t
         /\ \A c \in Own(t) : c = job[t].of /\ (Made(t, c) \/ Changed(t, c))
<1>1. JobInv(t) /\ job[t] \in Job /\ job[t].visit = {} /\ job[t].step = "end"
  BY DEF LockInv, TypeOK, Commit, JobInv, Shape
<1>2. job[t].swept \subseteq Checkouts
  BY <1>1 DEF Job
<1>3. ASSUME NEW c \in job[t].swept
      PROVE  /\ state[c] \in Sweepables /\ hold[c] = "HELD" /\ attempt[c] # "OPEN" /\ lapsed[c]
             /\ Owner("checkout", c) = t /\ Owner("product", ProductOf[c]) = t
  <2>1. /\ state[c] \in Sweepables /\ hold[c] = "HELD" /\ c \in job[t].due /\ c \in Checkouts
        /\ Owner("checkout", c) = t /\ Owner("product", ProductOf[c]) = t
    BY <1>1, <1>2 DEF JobInv, SweptIsLocked
  <2>2. lapsed[c]
    BY <1>1, <2>1 DEF JobInv, Shape
  <2>3. attempt[c] # "OPEN"
    BY <2>1 DEF LockInv, RowsAgree, Sweepables
  <2>. QED
    BY <2>1, <2>2, <2>3
<1>4. ASSUME NEW c \in Own(t)
      PROVE  /\ c \in Checkouts /\ c = job[t].of /\ c \notin job[t].swept
             /\ Made(t, c) \/ Changed(t, c)
  <2>1. c = job[t].of /\ c \in Checkouts /\ job[t].write # NoWrite /\ job[t].kind \in Commands
    BY <1>1 DEF Own, JobInv, Shape
  <2>2. CASE job[t].kind = "create"
    <3>1. /\ Owner("claim", c) = t /\ state[c] = "NONE"
          /\ job[t].write = Write("RESERVED", "HELD", "NONE", TRUE)
          /\ Available(t, ProductOf[c])
      BY <1>1, <2>1, <2>2 DEF JobInv, OwnIsLocked, WriteIsRight
    <3>2. hold[c] = "NONE" /\ attempt[c] = "NONE"
      BY <2>1, <3>1 DEF LockInv, RowsAgree
    <3>3. job[t].write.hold = "HELD"
      BY <3>1 DEF Write
    <3>4. Owner("product", ProductOf[c]) = t
      BY <1>1, <2>1, <3>2, <3>3 DEF JobInv, WriteIsRight
    <3>5. c \notin job[t].swept
      BY <1>3, <3>1 DEF Sweepables
    <3>. QED
      BY <2>1, <3>1, <3>2, <3>4, <3>5 DEF Made
  <2>3. CASE job[t].kind \in Reported
    <3>1. /\ Owner("checkout", c) = t /\ state[c] # "NONE"
          /\ Outcome(c, job[t].write) /\ c \notin job[t].swept
          /\ job[t].write.hold # hold[c] => Owner("product", ProductOf[c]) = t
      BY <1>1, <2>1, <2>3 DEF JobInv, Shape, OwnIsLocked, WriteIsRight
    <3>2. hold[c] # "NONE"
      BY <2>1, <3>1 DEF LockInv, RowsAgree
    <3>. QED
      BY <2>1, <3>1, <3>2 DEF Changed
  <2>. QED
    BY <2>1, <2>2, <2>3 DEF Commands, Reported
<1>. QED
  BY <1>1, <1>2, <1>3, <1>4

\* The rows a commit leaves as they were, and what it makes of the others.
LEMMA CommittedRows ==
  ASSUME LockInv, NEW t \in Transactions, Commit(t), NEW c \in Checkouts
  PROVE  /\ c \in Own(t) => /\ state'[c] = job[t].write.state /\ hold'[c] = job[t].write.hold
                            /\ attempt'[c] = job[t].write.attempt
         /\ c \in job[t].swept => /\ state'[c] = "EXPIRED" /\ hold'[c] = "RELEASED"
                                  /\ attempt'[c] = attempt[c]
         /\ c \notin Own(t) \cup job[t].swept =>
              state'[c] = state[c] /\ hold'[c] = hold[c] /\ attempt'[c] = attempt[c]
<1>1. Own(t) \cap job[t].swept = {}
  BY WhatIsCommitted
<1>. QED
  BY <1>1 DEF Commit, Own

\* What a commit writes of a checkout agrees.
LEMMA CommitAgrees ==
  ASSUME LockInv, NEW t \in Transactions, Commit(t)
  PROVE  RowsAgree'
<1>1. SUFFICES ASSUME NEW c \in Checkouts
               PROVE  /\ state'[c] = "NONE" <=> hold'[c] = "NONE"
                      /\ state'[c] = "NONE" => attempt'[c] = "NONE"
                      /\ attempt'[c] = "OPEN" => hold'[c] = "HELD" /\ state'[c] = "PAYMENT_PENDING"
                      /\ hold'[c] = "COMMITTED" => attempt'[c] = "APPROVED"
  BY DEF RowsAgree
<1>2. /\ state[c] = "NONE" <=> hold[c] = "NONE"
      /\ state[c] = "NONE" => attempt[c] = "NONE"
      /\ attempt[c] = "OPEN" => hold[c] = "HELD" /\ state[c] = "PAYMENT_PENDING"
      /\ hold[c] = "COMMITTED" => attempt[c] = "APPROVED"
  BY DEF LockInv, RowsAgree
<1>3. CASE c \in Own(t)
  <2>1. CASE Made(t, c)
    BY <1>3, <2>1, CommittedRows DEF Made, Write
  <2>2. CASE Changed(t, c)
    BY <1>3, <2>2, CommittedRows DEF Changed, Outcome
  <2>. QED
    BY <1>3, <2>1, <2>2, WhatIsCommitted
<1>4. CASE c \in job[t].swept
  BY <1>4, CommittedRows, WhatIsCommitted
<1>5. CASE c \notin Own(t) \cup job[t].swept
  BY <1>2, <1>5, CommittedRows
<1>. QED
  BY <1>3, <1>4, <1>5

\* There are finitely many checkouts.
LEMMA AllFinite ==
  ASSUME NEW S, S \subseteq Checkouts
  PROVE  IsFiniteSet(S) /\ Cardinality(S) \in Nat
BY ConstantsOK, FS_Subset, FS_CardinalityType

\* The counters a commit writes are the ones its holds call for.
LEMMA CommitBalances ==
  ASSUME LockInv, NEW t \in Transactions, Commit(t), NEW p \in Products
  PROVE  /\ reserved'[p] = Cardinality(Ledger!Holding(hold', p))
         /\ physical'[p] = Stock[p] - Cardinality(Ledger!Committed(hold', p))
         /\ reserved'[p] <= physical'[p]
         /\ reserved'[p] \in Nat /\ physical'[p] \in Nat
<1>. DEFINE H  == Ledger!Holding(hold, p)
            K  == Ledger!Committed(hold, p)
            H2 == Ledger!Holding(hold', p)
            K2 == Ledger!Committed(hold', p)
            S  == {d \in job[t].swept : ProductOf[d] = p}
            w  == job[t].write
            c  == job[t].of
<1>1. /\ H \subseteq Checkouts /\ K \subseteq Checkouts
      /\ H2 \subseteq Checkouts /\ K2 \subseteq Checkouts
  BY DEF Ledger!Holding, Ledger!Committed
<1>2. /\ reserved[p] = Cardinality(H) /\ physical[p] = Stock[p] - Cardinality(K)
      /\ reserved[p] <= physical[p]
      /\ reserved[p] \in Nat /\ physical[p] \in Nat /\ Stock[p] \in Nat
  BY ConstantsOK DEF LockInv, Balance, Ledger!Balanced, TypeOK
<1>3. S \subseteq H /\ S \cap K = {}
  BY WhatIsCommitted DEF Ledger!Holding, Ledger!Committed
<1>4. /\ IsFiniteSet(H \ S) /\ Cardinality(H \ S) = reserved[p] - Cardinality(S)
      /\ Cardinality(H \ S) \in Nat /\ Cardinality(S) \in Nat
      /\ IsFiniteSet(K) /\ Cardinality(K) \in Nat
  <2>1. H \cap S = S /\ S \subseteq Checkouts /\ H \ S \subseteq Checkouts
    BY <1>1, <1>3
  <2>2. /\ IsFiniteSet(H) /\ IsFiniteSet(H \ S) /\ Cardinality(H \ S) \in Nat
        /\ Cardinality(S) \in Nat /\ IsFiniteSet(K) /\ Cardinality(K) \in Nat
    BY <1>1, <2>1, AllFinite
  <2>3. Cardinality(H \ S) = Cardinality(H) - Cardinality(H \cap S)
    BY <2>2, FS_Difference
  <2>. QED
    BY <1>2, <2>1, <2>2, <2>3
<1>5. Returned(t, p) = Cardinality(S)
  BY DEF Returned
<1>6. /\ reserved'[p] = Cardinality(H \ S) + Change(t, p)
      /\ physical'[p] = physical[p] - (IF Moves(t, p, "COMMITTED") THEN 1 ELSE 0)
  <2>1. Change(t, p) \in {0, 1, -1}
    BY DEF Change
  <2>. QED
    BY <1>2, <1>4, <1>5, <2>1 DEF Commit
<1>7. \A d \in Checkouts : d \in job[t].swept =>
        d \notin Own(t) /\ hold[d] = "HELD" /\ hold'[d] = "RELEASED"
  BY WhatIsCommitted, CommittedRows
<1>8. \A d \in Checkouts : d \notin Own(t) \cup job[t].swept => hold'[d] = hold[d]
  BY CommittedRows
<1>9. CASE c \notin Own(t) \/ ProductOf[c] # p
  <2>1. ~ Moves(t, p, "HELD") /\ ~ Moves(t, p, "RELEASED") /\ ~ Moves(t, p, "COMMITTED")
    BY <1>9 DEF Moves, Own
  <2>2. \A d \in Checkouts : ProductOf[d] = p => d \notin Own(t)
    BY <1>9, WhatIsCommitted
  <2>3. H2 = H \ S /\ K2 = K
    BY <1>7, <1>8, <2>2 DEF Ledger!Holding, Ledger!Committed
  <2>. QED
    BY <1>2, <1>4, <1>6, <2>1, <2>3 DEF Change
<1>10. CASE c \in Own(t) /\ ProductOf[c] = p
  <2>1. /\ c \in Checkouts /\ c \notin job[t].swept /\ Own(t) = {c} /\ w # NoWrite
        /\ Made(t, c) \/ Changed(t, c)
        /\ hold'[c] = w.hold
    BY <1>10, WhatIsCommitted, CommittedRows DEF Own
  <2>2. \A from : Moves(t, p, from) <=> w.hold = from
    BY <1>10, <2>1 DEF Moves
  <2>3. CASE Made(t, c)
    <3>1. hold[c] = "NONE" /\ w.hold = "HELD" /\ reserved[p] - Cardinality(S) + 1 <= physical[p]
      BY <1>2, <1>4, <1>5, <1>10, <2>3 DEF Made, Write, Available
    <3>2. c \notin H /\ H2 = (H \ S) \cup {c} /\ K2 = K
      BY <1>7, <1>8, <1>10, <2>1, <3>1 DEF Ledger!Holding, Ledger!Committed
    <3>3. Cardinality(H2) = Cardinality(H \ S) + 1
      BY <1>4, <3>2, FS_AddElement
    <3>. QED
      BY <1>2, <1>4, <1>6, <2>2, <3>1, <3>2, <3>3 DEF Change
  <2>4. CASE Changed(t, c) /\ hold[c] = "HELD" /\ w.hold = "RELEASED"
    <3>1. c \in H \ S /\ H2 = (H \ S) \ {c} /\ K2 = K
      BY <1>7, <1>8, <1>10, <2>1, <2>4 DEF Ledger!Holding, Ledger!Committed
    <3>2. Cardinality(H2) = Cardinality(H \ S) - 1 /\ Cardinality(H2) \in Nat
      <4>1. Cardinality(H2) \in Nat
        BY <1>1, AllFinite
      <4>2. Cardinality((H \ S) \ {c}) = Cardinality(H \ S) - 1
        BY <1>4, <3>1, FS_RemoveElement
      <4>. QED
        BY <3>1, <4>1, <4>2
    <3>. QED
      BY <1>2, <1>4, <1>6, <2>2, <2>4, <3>1, <3>2 DEF Change
  <2>5. CASE Changed(t, c) /\ hold[c] = "HELD" /\ w.hold = "COMMITTED"
    <3>1. /\ c \in H \ S /\ H2 = (H \ S) \ {c}
          /\ c \notin K /\ K2 = K \cup {c}
      BY <1>7, <1>8, <1>10, <2>1, <2>5 DEF Ledger!Holding, Ledger!Committed
    <3>2. Cardinality(H2) = Cardinality(H \ S) - 1 /\ Cardinality(H2) \in Nat
      <4>1. Cardinality(H2) \in Nat
        BY <1>1, AllFinite
      <4>2. Cardinality((H \ S) \ {c}) = Cardinality(H \ S) - 1
        BY <1>4, <3>1, FS_RemoveElement
      <4>. QED
        BY <3>1, <4>1, <4>2
    <3>3. Cardinality(K2) = Cardinality(K) + 1
      BY <1>4, <3>1, FS_AddElement
    <3>. QED
      BY <1>2, <1>4, <1>6, <2>2, <2>5, <3>2, <3>3 DEF Change
  <2>6. CASE Changed(t, c) /\ w.hold = hold[c] /\ w.hold # "COMMITTED"
    <3>1. H2 = H \ S /\ K2 = K
      BY <1>7, <1>8, <1>10, <2>1, <2>6 DEF Ledger!Holding, Ledger!Committed
    <3>2. Change(t, p) = 0 /\ ~ Moves(t, p, "COMMITTED")
      BY <2>2, <2>6 DEF Change, Changed
    <3>. QED
      BY <1>2, <1>4, <1>6, <3>1, <3>2
  <2>7. Changed(t, c) => \/ hold[c] = "HELD" /\ w.hold \in {"RELEASED", "COMMITTED"}
                         \/ w.hold = hold[c] /\ w.hold # "COMMITTED"
    BY DEF Changed, Outcome
  <2>. QED
    BY <2>1, <2>3, <2>4, <2>5, <2>6, <2>7
<1>. QED
  BY <1>9, <1>10

\* What a commit does to the other transactions: their locks stay, and a new deadline
\* is one that none of them waits for.
LEMMA CommitLeavesOthers ==
  ASSUME LockInv, NEW t \in Transactions, Commit(t), NEW u \in Transactions, u # t
  PROVE  /\ job[u] \in Job
         /\ \/ job'[u] = job[u] /\ ~ job[t].write.fresh
            \/ job'[u] = [job[u] EXCEPT !.due = @ \ Own(t)]
         /\ \A r \in Rows : owner'[r] = u <=> owner[r] = u
         /\ \A c \in Checkouts : lapsed'[c] <=> lapsed[c] /\ ~(c \in Own(t) /\ job[t].write.fresh)
<1>1. TypeOK
  BY DEF LockInv
<1>2. \A r \in Rows : owner'[r] = u <=> owner[r] = u
  BY <1>1, ConstantsOK DEF Commit, ReleaseLocks
<1>3. \A c \in Checkouts : lapsed'[c] <=> lapsed[c] /\ ~(c \in Own(t) /\ job[t].write.fresh)
  BY DEF Commit, Own
<1>4. job[t].write.fresh \in BOOLEAN /\ job[u] \in Job
  BY <1>1 DEF TypeOK, Job
<1>5. job'[u] = IF job[t].write.fresh THEN [job[u] EXCEPT !.due = @ \ Own(t)] ELSE job[u]
  BY DEF Commit, Own
<1>. QED
  BY <1>2, <1>3, <1>4, <1>5

\* The rows another transaction has locked are not written.
LEMMA CommitSparesLocked ==
  ASSUME LockInv, NEW t \in Transactions, Commit(t), NEW u \in Transactions, u # t
  PROVE  /\ \A c \in Checkouts :
              \/ Owner("checkout", c) = u /\ state[c] # "NONE"
              \/ Owner("claim", c) = u /\ state[c] = "NONE"
              => /\ c \notin Own(t) \cup job[t].swept
                 /\ state'[c] = state[c] /\ hold'[c] = hold[c] /\ attempt'[c] = attempt[c]
         /\ \A c \in Checkouts : state[c] # "NONE" => state'[c] # "NONE"
         /\ \A p \in Products : Owner("product", p) = u =>
              reserved'[p] = reserved[p] /\ physical'[p] = physical[p]
<1>1. ASSUME NEW c \in Checkouts,
             \/ Owner("checkout", c) = u /\ state[c] # "NONE"
             \/ Owner("claim", c) = u /\ state[c] = "NONE"
      PROVE  c \notin Own(t) \cup job[t].swept
  <2>1. c \notin job[t].swept
    BY <1>1, WhatIsCommitted DEF Sweepables
  <2>2. ~ Made(t, c) /\ ~ Changed(t, c)
    BY <1>1 DEF Made, Changed
  <2>. QED
    BY <2>1, <2>2, WhatIsCommitted
<1>2. ASSUME NEW c \in Checkouts, state[c] # "NONE"
      PROVE  state'[c] # "NONE"
  <2>1. CASE c \in Own(t)
    <3>1. Changed(t, c)
      BY <1>2, <2>1, WhatIsCommitted DEF Made
    <3>. QED
      BY <2>1, <3>1, CommittedRows DEF Changed, Outcome
  <2>2. CASE c \notin Own(t)
    BY <1>2, <2>2, CommittedRows
  <2>. QED
    BY <2>1, <2>2
<1>3. ASSUME NEW p \in Products, Owner("product", p) = u
      PROVE  reserved'[p] = reserved[p] /\ physical'[p] = physical[p]
  <2>1. {d \in job[t].swept : ProductOf[d] = p} = {}
    BY <1>3, WhatIsCommitted
  <2>2. Returned(t, p) = 0
    BY <2>1, FS_EmptySet DEF Returned
  <2>3. \A from : Moves(t, p, from) => from = hold[job[t].of] /\ from \notin {"NONE", "COMMITTED"}
    <3>1. SUFFICES ASSUME NEW from, Moves(t, p, from)
                   PROVE  from = hold[job[t].of] /\ from \notin {"NONE", "COMMITTED"}
      OBVIOUS
    <3>2. job[t].of \in Own(t) /\ ProductOf[job[t].of] = p /\ job[t].write.hold = from
      BY <3>1 DEF Moves, Own
    <3>3. Changed(t, job[t].of)
      BY <1>3, <3>2, WhatIsCommitted DEF Made
    <3>4. job[t].write.hold = hold[job[t].of]
      BY <1>3, <3>2, <3>3 DEF Changed
    <3>. QED
      BY <3>2, <3>3, <3>4 DEF Changed, Outcome
  <2>4. Change(t, p) = 0 /\ ~ Moves(t, p, "COMMITTED")
    BY <2>3 DEF Change
  <2>5. reserved[p] \in Nat /\ physical[p] \in Nat
    BY DEF LockInv, TypeOK
  <2>. QED
    BY <2>2, <2>4, <2>5 DEF Commit
<1>. QED
  BY <1>1, <1>2, <1>3, CommittedRows

\* So a commit leaves what the other transactions rely on as it was.
LEMMA CommitSparesOthers ==
  ASSUME LockInv, NEW t \in Transactions, Commit(t), NEW u \in Transactions, u # t
  PROVE  JobInv(u)'
<1>. DEFINE i == job[u]
            j == job'[u]
<1>1. JobInv(u) /\ i \in Job
  BY CommitLeavesOthers DEF LockInv
<1>2. /\ j.kind = i.kind /\ j.of = i.of /\ j.report = i.report /\ j.visit = i.visit
      /\ j.step = i.step /\ j.swept = i.swept /\ j.write = i.write
      /\ j.due \subseteq i.due /\ i.due \subseteq j.due \cup Own(t)
      /\ i.due = {} => j = i
      /\ j \in Job
  <2>1. CASE j = i
    BY <1>1, <2>1
  <2>2. CASE j = [i EXCEPT !.due = i.due \ Own(t)]
    <3>1. j \in Job /\ j.due = i.due \ Own(t)
      BY <1>1, <2>2 DEF Job
    <3>2. i.due = {} => i.due \ Own(t) = i.due
      OBVIOUS
    <3>3. [i EXCEPT !.due = i.due] = i
      BY <1>1 DEF Job
    <3>4. i.due = {} => j = i
      BY <2>2, <3>2, <3>3
    <3>5. /\ j.kind = i.kind /\ j.of = i.of /\ j.report = i.report /\ j.visit = i.visit
          /\ j.step = i.step /\ j.swept = i.swept /\ j.write = i.write
      BY <1>1, <2>2 DEF Job
    <3>. QED
      BY <3>1, <3>4, <3>5
  <2>. QED
    BY <2>1, <2>2, CommitLeavesOthers
<1>3. /\ \A c \in Checkouts :
           /\ Owner("checkout", c)' = u <=> Owner("checkout", c) = u
           /\ Owner("reservation", c)' = u <=> Owner("reservation", c) = u
           /\ Owner("attempt", c)' = u <=> Owner("attempt", c) = u
           /\ Owner("claim", c)' = u <=> Owner("claim", c) = u
           /\ \A r \in Reports :
                Owner("receipt", <<c, r>>)' = u <=> Owner("receipt", <<c, r>>) = u
      /\ \A p \in Products : Owner("product", p)' = u <=> Owner("product", p) = u
  <2>1. \A r \in Rows : owner'[r] = u <=> owner[r] = u
    BY CommitLeavesOthers
  <2>2. \A p \in Products : Owner("product", p)' = u <=> Owner("product", p) = u
    BY <2>1, TablesAreRows DEF Owner
  <2>3. \A c \in Checkouts, r \in Reports :
          Owner("receipt", <<c, r>>)' = u <=> Owner("receipt", <<c, r>>) = u
    BY <2>1, TablesAreRows DEF Owner
  <2>4. \A c \in Checkouts :
           /\ Owner("checkout", c)' = u <=> Owner("checkout", c) = u
           /\ Owner("reservation", c)' = u <=> Owner("reservation", c) = u
           /\ Owner("attempt", c)' = u <=> Owner("attempt", c) = u
           /\ Owner("claim", c)' = u <=> Owner("claim", c) = u
    BY <2>1, TablesAreRows DEF Owner
  <2>. QED
    BY <2>2, <2>3, <2>4
<1>4. Shape(u)'
  <2>1. i.kind = "none" => j = Idle
    <3>1. i.kind = "none" => i.due = {}
      BY <1>1 DEF JobInv, Shape, Idle
    <3>. QED
      BY <1>1, <1>2, <3>1 DEF JobInv, Shape
  <2>2. i.kind \in Reported => state'[i.of] # "NONE"
    BY <1>1, CommitSparesLocked DEF JobInv, Shape, Reported, Commands
  <2>3. j.due \subseteq {c \in Checkouts : lapsed'[c]}
    <3>1. SUFFICES ASSUME NEW c \in j.due PROVE c \in Checkouts /\ lapsed'[c]
      OBVIOUS
    <3>2. c \in Checkouts /\ lapsed[c]
      BY <1>1, <1>2 DEF JobInv, Shape
    <3>3. ~ (c \in Own(t) /\ job[t].write.fresh)
      <4>1. CASE ~ job[t].write.fresh
        BY <4>1
      <4>2. CASE j = [i EXCEPT !.due = i.due \ Own(t)]
        <5>1. j.due = i.due \ Own(t)
          BY <1>1, <4>2 DEF Job
        <5>. QED
          BY <5>1
      <4>. QED
        BY <4>1, <4>2, CommitLeavesOthers
    <3>. QED
      BY <3>2, <3>3, CommitLeavesOthers
  <2>. QED
    BY <1>1, <1>2, <2>1, <2>2, <2>3 DEF JobInv, Shape
<1>5. LocksHaveReasons(u)'
  BY <1>1, <1>2, <1>3 DEF JobInv, LocksHaveReasons
<1>6. SweptIsLocked(u)'
  <2>1. SUFFICES ASSUME NEW c \in i.swept
                 PROVE  /\ Owner("checkout", c)' = u /\ Owner("product", ProductOf[c])' = u
                        /\ state'[c] \in Sweepables /\ hold'[c] = "HELD" /\ c \in j.due
    BY <1>2 DEF SweptIsLocked
  <2>2. /\ Owner("checkout", c) = u /\ Owner("product", ProductOf[c]) = u /\ c \in Checkouts
        /\ state[c] \in Sweepables /\ hold[c] = "HELD" /\ c \in i.due /\ ProductOf[c] \in Products
    BY <1>1, ConstantsOK DEF JobInv, SweptIsLocked, Job
  <2>3. c \notin Own(t) /\ state'[c] = state[c] /\ hold'[c] = hold[c]
    BY <2>2, CommitSparesLocked DEF Sweepables
  <2>. QED
    BY <1>2, <1>3, <2>2, <2>3
<1>7. VisitedIsLocked(u)'
  <2>. DEFINE c == First(i.visit)
  <2>1. SUFFICES ASSUME i.visit # {}, i.step # "checkout"
                 PROVE  /\ owner'[<<"checkout", c>>] = u /\ state'[c] \in Sweepables
                        /\ i.step = "product" => hold'[c] = "HELD" /\ c \in j.due
    BY <1>2 DEF VisitedIsLocked, Owner
  <2>2. /\ c \in Checkouts /\ Owner("checkout", c) = u /\ state[c] \in Sweepables
        /\ i.step = "product" => hold[c] = "HELD" /\ c \in i.due
    BY <1>1, <2>1, FirstIsIn DEF JobInv, VisitedIsLocked, Job
  <2>3. c \notin Own(t) /\ state'[c] = state[c] /\ hold'[c] = hold[c]
    BY <2>2, CommitSparesLocked DEF Sweepables
  <2>. QED
    BY <1>2, <1>3, <2>2, <2>3 DEF Owner
<1>8. ASSUME i.visit = {}, i.step \in {"reservation", "attempt", "product"} \/ i.write # NoWrite
      PROVE  /\ i.kind \in Reported => owner'[<<"checkout", i.of>>] = u
             /\ i.kind = "create" => owner'[<<"claim", i.of>>] = u /\ state'[i.of] = "NONE"
             /\ i.kind \in Commands => hold'[i.of] = hold[i.of]
  <2>1. /\ i.kind \in Reported => Owner("checkout", i.of) = u /\ state[i.of] # "NONE"
        /\ i.kind = "create" => Owner("claim", i.of) = u /\ state[i.of] = "NONE"
        /\ i.kind \in Commands => i.of \in Checkouts
    BY <1>1, <1>8 DEF JobInv, OwnIsLocked, Shape
  <2>2. i.kind \in Commands => state'[i.of] = state[i.of] /\ hold'[i.of] = hold[i.of]
    BY <2>1, CommitSparesLocked DEF Commands, Reported
  <2>3. i.kind \in Reported \cup {"create"} <=> i.kind \in Commands
    BY DEF Commands, Reported
  <2>4. i.of \in Checkouts =>
          /\ owner'[<<"checkout", i.of>>] = u <=> owner[<<"checkout", i.of>>] = u
          /\ owner'[<<"claim", i.of>>] = u <=> owner[<<"claim", i.of>>] = u
    <3>1. \A r \in Rows : owner'[r] = u <=> owner[r] = u
      BY CommitLeavesOthers
    <3>. QED
      BY <3>1, TablesAreRows
  <2>. QED
    BY <2>1, <2>2, <2>3, <2>4 DEF Owner
<1>9. OwnIsLocked(u)'
  BY <1>2, <1>8 DEF OwnIsLocked, Owner, Reported, Commands
<1>10. WriteIsRight(u)'
  <2>1. CASE i.write = NoWrite
    BY <1>2, <2>1 DEF WriteIsRight
  <2>2. CASE i.write # NoWrite
    <3>1. PICK c \in Checkouts, p \in Products : c = i.of /\ p = ProductOf[c]
      <4>1. i.of \in Checkouts
        BY <1>1, <2>2 DEF JobInv, Shape
      <4>2. ProductOf[i.of] \in Products
        BY <4>1, ConstantsOK
      <4>. QED
        BY <4>1, <4>2
    <3>2. i.kind \in Commands /\ i.visit = {}
      BY <1>1, <2>2 DEF JobInv, Shape
    <3>3. hold'[c] = hold[c]
      BY <1>8, <2>2, <3>1, <3>2
    <3>4. /\ i.kind = "create" => /\ i.write = Write("RESERVED", "HELD", "NONE", TRUE)
                                  /\ i.step = "end" /\ Available(u, p)
          /\ i.kind \in Reported => Outcome(c, i.write) /\ c \notin i.swept
          /\ i.step = "end" /\ i.write.hold # hold[c] => owner[<<"product", p>>] = u
      BY <1>1, <2>2, <3>1 DEF JobInv, WriteIsRight, Owner
    <3>5. owner[<<"product", p>>] = u => owner'[<<"product", p>>] = u
      BY <1>3 DEF Owner
    <3>6. i.kind = "create" => Available(u, p)'
      <4>1. SUFFICES ASSUME i.kind = "create" PROVE Available(u, p)'
        OBVIOUS
      <4>2. hold[c] = "NONE"
        BY <1>1, <2>2, <3>1, <3>2, <4>1 DEF JobInv, OwnIsLocked, LockInv, RowsAgree
      <4>3. owner[<<"product", p>>] = u
        BY <3>4, <4>1, <4>2 DEF Write
      <4>4. reserved'[p] = reserved[p] /\ physical'[p] = physical[p]
        BY <4>3, CommitSparesLocked DEF Owner
      <4>. QED
        BY <1>2, <3>4, <4>1, <4>4 DEF Available, Returned
    <3>7. i.kind \in Reported => Outcome(c, i.write)
      BY <3>4
    <3>8. \A v : Outcome(c, v) => Outcome(c, v)'
      BY <3>3 DEF Outcome
    <3>. QED
      BY <1>2, <3>1, <3>3, <3>4, <3>5, <3>6, <3>7, <3>8 DEF WriteIsRight, Owner
  <2>. QED
    BY <2>1, <2>2
<1>. QED
  BY <1>1, <1>4, <1>5, <1>6, <1>7, <1>9, <1>10 DEF JobInv

\* A commit writes values of the right type.
LEMMA CommitTypes ==
  ASSUME LockInv, NEW t \in Transactions, Commit(t)
  PROVE  TypeOK'
<1>. DEFINE w == job[t].write
<1>1. /\ job[t] \in Job /\ JobInv(t) /\ TypeOK
      /\ w.state \in State /\ w.hold \in Hold /\ w.attempt \in Attempt /\ w.fresh \in BOOLEAN
  BY DEF LockInv, TypeOK, Job
<1>2. state' \in [Checkouts -> State]
  BY <1>1 DEF Commit, TypeOK, State
<1>3. hold' \in [Checkouts -> Hold]
  BY <1>1 DEF Commit, TypeOK, Hold
<1>4. attempt' \in [Checkouts -> Attempt] /\ lapsed' \in [Checkouts -> BOOLEAN]
  BY <1>1 DEF Commit, TypeOK
<1>5. physical' \in [Products -> Nat] /\ reserved' \in [Products -> Nat]
  BY CommitBalances DEF Commit
<1>6. received' \subseteq Checkouts \X Reports
  <2>1. job[t].kind = "event" => job[t].of \in Checkouts /\ job[t].report \in Reports
    BY <1>1 DEF JobInv, Shape, Commands
  <2>. QED
    BY <1>1, <2>1 DEF Commit, TypeOK
<1>7. owner' \in [Rows -> Transactions \cup {None}]
  BY <1>1 DEF Commit, ReleaseLocks, TypeOK
<1>8. job' \in [Transactions -> Job]
  <2>1. Idle \in Job
    <3>1. NoWrite \in [state : State, hold : Hold, attempt : Attempt, fresh : BOOLEAN]
      BY DEF NoWrite, State, Hold, Attempt
    <3>. QED
      BY <3>1 DEF Job, Idle
  <2>2. ASSUME NEW u \in Transactions
        PROVE  job[u] \in Job /\ [job[u] EXCEPT !.due = @ \ Own(t)] \in Job
    BY <1>1 DEF TypeOK, Job
  <2>. QED
    BY <2>1, <2>2 DEF Commit, Own
<1>. QED
  BY <1>2, <1>3, <1>4, <1>5, <1>6, <1>7, <1>8 DEF TypeOK

\* Committing keeps the invariant.
LEMMA CommitKeeps ==
  ASSUME LockInv, NEW t \in Transactions, Commit(t)
  PROVE  LockInv'
<1>1. TypeOK'
  BY CommitTypes
<1>2. RowsAgree'
  BY CommitAgrees
<1>3. Balance'
  BY CommitBalances DEF Balance, Ledger!Balanced
<1>4. \A u \in Transactions : u # t => JobInv(u)'
  BY CommitSparesOthers
<1>5. JobInv(t)'
  <2>1. job'[t] = Idle /\ Idle \in Job
    BY <1>1 DEF Commit, TypeOK
  <2>2. Shape(t)'
    BY <2>1 DEF Shape, Idle, Sweeping, Commands, Reported, OwnSteps
  <2>3. \A r \in Rows : owner'[r] # t
    BY ConstantsOK DEF Commit, ReleaseLocks
  <2>. QED
    BY <2>1, <2>2, <2>3, FreshKeeps DEF Idle
<1>. QED
  BY <1>1, <1>2, <1>3, <1>4, <1>5 DEF LockInv
-------------------------------------------------------------------------------
\* At the start nothing is locked and the counters are those of the holds.
LEMMA LocksHoldAtFirst ==
  Init => LockInv
<1>1. SUFFICES ASSUME Init PROVE LockInv
  OBVIOUS
<1>2. Idle \in Job
  <2>1. NoWrite \in [state : State, hold : Hold, attempt : Attempt, fresh : BOOLEAN]
    BY DEF NoWrite, State, Hold, Attempt
  <2>. QED
    BY <2>1 DEF Job, Idle
<1>3. \A S \in SUBSET Checkouts : IsFiniteSet(S) /\ Cardinality(S) \in Nat
  BY AllFinite
<1>4. TypeOK
  <2>1. reserved \in [Products -> Nat]
    BY <1>1, <1>3, ConstantsOK DEF Init
  <2>. QED
    BY <1>1, <1>2, <2>1, ConstantsOK DEF Init, TypeOK, State, Hold, Attempt, Sweepables
<1>5. RowsAgree
  BY <1>1 DEF Init, RowsAgree
<1>6. Balance
  <2>1. SUFFICES ASSUME NEW p \in Products
                 PROVE  /\ reserved[p] = Cardinality(Ledger!Holding(hold, p))
                        /\ physical[p] = Stock[p] - Cardinality(Ledger!Committed(hold, p))
                        /\ reserved[p] <= physical[p]
    BY DEF Balance, Ledger!Balanced
  <2>2. /\ Ledger!Holding(hold, p) = {c \in Held : ProductOf[c] = p}
        /\ Ledger!Committed(hold, p) = {}
    BY <1>1, ConstantsOK DEF Init, Ledger!Holding, Ledger!Committed
  <2>3. reserved[p] = Cardinality({c \in Held : ProductOf[c] = p}) /\ physical[p] = Stock[p]
    BY <1>1 DEF Init
  <2>4. Cardinality({c \in Held : ProductOf[c] = p}) <= Stock[p] /\ Stock[p] \in Nat
    BY ConstantsOK
  <2>5. Cardinality(Ledger!Committed(hold, p)) = 0
    BY <2>2, FS_EmptySet
  <2>. QED
    BY <2>2, <2>3, <2>4, <2>5
<1>7. ASSUME NEW t \in Transactions PROVE JobInv(t)
  <2>1. job[t] = Idle
    BY <1>1 DEF Init
  <2>2. Shape(t)
    BY <2>1 DEF Shape, Idle, Sweeping, Commands, Reported, OwnSteps
  <2>3. \A r \in Rows : owner[r] # t
    BY <1>1, ConstantsOK DEF Init
  <2>4. LocksHaveReasons(t)
    BY <2>3, TablesAreRows DEF LocksHaveReasons, Owner
  <2>5. SweptIsLocked(t) /\ VisitedIsLocked(t) /\ OwnIsLocked(t) /\ WriteIsRight(t)
    BY <2>1 DEF SweptIsLocked, VisitedIsLocked, OwnIsLocked, WriteIsRight, Idle
  <2>. QED
    BY <2>2, <2>4, <2>5 DEF JobInv
<1>. QED
  BY <1>4, <1>5, <1>6, <1>7 DEF LockInv

-------------------------------------------------------------------------------
\* Nothing changes when nothing happens.
LEMMA StutterKeeps ==
  ASSUME LockInv, UNCHANGED vars
  PROVE  LockInv'
<1>1. UNCHANGED <<state, hold, lapsed, attempt, physical, reserved, received, owner, job>>
  BY DEF vars, rows
<1>2. TypeOK' /\ RowsAgree' /\ Balance'
  BY <1>1 DEF LockInv, TypeOK, RowsAgree, Balance, Ledger!Balanced, Ledger!Holding,
              Ledger!Committed
<1>3. ASSUME NEW t \in Transactions PROVE JobInv(t)'
  <2>1. JobInv(t)
    BY DEF LockInv
  <2>2. Shape(t)' /\ LocksHaveReasons(t)'
    BY <1>1, <2>1 DEF JobInv, Shape, LocksHaveReasons, Owner
  <2>3. SweptIsLocked(t)' /\ VisitedIsLocked(t)' /\ OwnIsLocked(t)'
    BY <1>1, <2>1 DEF JobInv, SweptIsLocked, VisitedIsLocked, OwnIsLocked, Owner
  <2>4. WriteIsRight(t)'
    BY <1>1, <2>1 DEF JobInv, WriteIsRight, Owner, Outcome, Available, Returned
  <2>. QED
    BY <2>2, <2>3, <2>4 DEF JobInv
<1>. QED
  BY <1>2, <1>3 DEF LockInv

\* The invariant is inductive: one case for each thing that can happen.
LEMMA StepKeeps ==
  ASSUME LockInv, [Next]_vars
  PROVE  LockInv'
<1>1. CASE UNCHANGED vars
  BY <1>1, StutterKeeps
<1>2. ASSUME NEW t \in Transactions, Start(t) PROVE LockInv'
  BY <1>2, StartKeeps
<1>3. ASSUME NEW t \in Transactions, Proceed(t) PROVE LockInv'
  BY <1>3, SweepKeeps, PassRowKeeps, DecideKeeps, LockProductKeeps, RollbackKeeps, CommitKeeps
     DEF Proceed, Refuse
<1>4. ASSUME NEW t \in Transactions, BreakDeadlock(t) \/ Fail(t) PROVE LockInv'
  BY <1>4, RollbackKeeps DEF BreakDeadlock, Fail
<1>5. ASSUME NEW c \in Checkouts, Lapse(c) PROVE LockInv'
  BY <1>5, LapseKeeps
<1>. QED
  BY <1>1, <1>2, <1>3, <1>4, <1>5 DEF Next

\* What a transaction relies on it has locked, in every reachable state (LockInv).
THEOREM LocksHold == Spec => []LockInv
<1>1. Init => LockInv
  BY LocksHoldAtFirst
<1>2. LockInv /\ [Next]_vars => LockInv'
  BY StepKeeps
<1>. QED
  BY <1>1, <1>2, PTL DEF Spec

\* Every variable keeps its type, and no counter goes below zero, whatever the
\* transactions under way (releaseExpired, adjustReservedStock and the CHECKs).
THEOREM RowTypes == Spec => []TypeOK
<1>1. LockInv => TypeOK
  BY DEF LockInv
<1>. QED
  BY <1>1, LocksHold, PTL

-------------------------------------------------------------------------------
\* Only a commit writes rows.
LEMMA OnlyCommitsWrite ==
  ASSUME [Next]_vars
  PROVE  \/ UNCHANGED <<state, hold, attempt, physical, reserved>>
         \/ \E t \in Transactions : Commit(t)
<1>1. CASE UNCHANGED vars
  BY <1>1 DEF vars, rows
<1>2. ASSUME NEW t \in Transactions, Start(t) PROVE UNCHANGED rows
  BY <1>2 DEF Start, Begin, BeginPass
<1>3. ASSUME NEW t \in Transactions, Proceed(t) PROVE UNCHANGED rows \/ Commit(t)
  BY <1>3 DEF Proceed, SweepCheckout, SweepReservation, SweepProduct, Claim, Receive, LockOwn,
              Decide, LockProduct, Refuse, Rollback
<1>4. ASSUME NEW t \in Transactions, BreakDeadlock(t) \/ Fail(t) PROVE UNCHANGED rows
  BY <1>4 DEF BreakDeadlock, Fail, Rollback
<1>5. ASSUME NEW c \in Checkouts, Lapse(c)
      PROVE  UNCHANGED <<state, hold, attempt, physical, reserved>>
  BY <1>5 DEF Lapse
<1>. QED
  BY <1>1, <1>2, <1>3, <1>4, <1>5 DEF Next, rows

\* A checkout that becomes expired has a deadline that has passed: a hold whose deadline
\* a decline has just moved is not swept by an older transaction (releaseExpired).
THEOREM NeverSweptBeforeItsDeadline == Spec => NeverSweptEarly
<1>1. ASSUME LockInv, [Next]_vars, NEW c \in Checkouts, state[c] # "EXPIRED", state'[c] = "EXPIRED"
      PROVE  lapsed[c]
  <2>1. PICK t \in Transactions : Commit(t)
    BY <1>1, OnlyCommitsWrite
  <2>2. CASE c \in job[t].swept
    BY <1>1, <2>1, <2>2, WhatIsCommitted
  <2>3. CASE c \in Own(t)
    <3>1. state'[c] # "EXPIRED"
      BY <1>1, <2>1, <2>3, WhatIsCommitted, CommittedRows DEF Made, Changed, Outcome, Write
    <3>. QED
      BY <1>1, <3>1
  <2>4. CASE c \notin Own(t) \cup job[t].swept
    BY <1>1, <2>1, <2>4, CommittedRows
  <2>. QED
    BY <2>2, <2>3, <2>4
<1>2. LockInv /\ [Next]_vars =>
        [\A c \in Checkouts : state[c] # "EXPIRED" /\ state'[c] = "EXPIRED" => lapsed[c]]_vars
  BY <1>1
<1>. QED
  BY <1>2, LocksHold, PTL DEF Spec, NeverSweptEarly
-------------------------------------------------------------------------------
(***************************************************************************)
(* The transactions implement HoldLedger.                                  *)
(***************************************************************************)
Paying == [c \in Checkouts |-> attempt[c] = "OPEN"]

\* What a commit does to a checkout it writes is one of the ledger's steps, or nothing.
LEMMA OwnStepOfLedger ==
  ASSUME LockInv, NEW t \in Transactions, Commit(t), NEW c \in Own(t)
  PROVE  \/ Ledger!Reserve(c) \/ Ledger!Open(c) \/ Ledger!Close(c) \/ Ledger!Settle(c)
         \/ hold'[c] = hold[c] /\ Paying'[c] = Paying[c]
<1>1. /\ c \in Checkouts
      /\ hold'[c] = job[t].write.hold /\ attempt'[c] = job[t].write.attempt
  BY WhatIsCommitted, CommittedRows
<1>2. CASE Made(t, c)
  <2>1. hold[c] = "NONE" /\ hold'[c] = "HELD" /\ attempt'[c] = "NONE"
    BY <1>1, <1>2 DEF Made, Write
  <2>. QED
    BY <1>1, <2>1 DEF Ledger!Reserve
<1>3. CASE Changed(t, c)
  BY <1>1, <1>3 DEF Changed, Outcome, Paying, Ledger!Open, Ledger!Close, Ledger!Settle
<1>. QED
  BY <1>2, <1>3, WhatIsCommitted

\* A commit that changes a hold or a payment is a transaction of the ledger.
LEMMA CommitIsLedgerStep ==
  ASSUME LockInv, NEW t \in Transactions, Commit(t)
  PROVE  Ledger!Next \/ UNCHANGED <<hold, Paying, physical, reserved>>
<1>. DEFINE S == job[t].swept
            still == {c \in Own(t) : hold'[c] = hold[c] /\ Paying'[c] = Paying[c]}
            own   == Own(t) \ still
<1>1. /\ S \in SUBSET Checkouts /\ own \subseteq Checkouts
      /\ \A c \in own : \A d \in own : c = d
  BY WhatIsCommitted
<1>2. LockInv'
  BY CommitKeeps
<1>3. Ledger!Sweepable(S)
  BY <1>1, WhatIsCommitted DEF Ledger!Sweepable
<1>4. \A s \in S : hold'[s] = "RELEASED" /\ ~ Paying'[s]
  <2>1. \A s \in S : s \in Checkouts /\ hold'[s] = "RELEASED" /\ attempt'[s] # "OPEN"
    BY <1>1, WhatIsCommitted, CommittedRows
  <2>. QED
    BY <2>1 DEF Paying
<1>5. \A c \in own : Ledger!Reserve(c) \/ Ledger!Open(c) \/ Ledger!Close(c) \/ Ledger!Settle(c)
  BY OwnStepOfLedger
<1>6. \A c \in Checkouts \ (S \cup own) : hold'[c] = hold[c] /\ Paying'[c] = Paying[c]
  BY CommittedRows DEF Paying
<1>7. /\ Ledger!Balanced(hold', physical', reserved')
      /\ hold' \in [Checkouts -> {"NONE", "HELD", "RELEASED", "COMMITTED"}]
      /\ Paying' \in [Checkouts -> BOOLEAN]
  BY <1>2 DEF LockInv, Balance, TypeOK, Hold, Paying
<1>8. ASSUME NEW c \in Checkouts, c \in S \/ c \in own, own \subseteq {c}
      PROVE  Ledger!Next
  BY <1>1, <1>3, <1>4, <1>5, <1>6, <1>7, <1>8 DEF Ledger!Next, Ledger!Transaction, Paying
<1>9. CASE own # {}
  BY <1>1, <1>8, <1>9
<1>10. CASE own = {} /\ S # {}
  BY <1>1, <1>8, <1>10
<1>11. CASE own = {} /\ S = {}
  <2>1. \A c \in Checkouts : hold'[c] = hold[c] /\ Paying'[c] = Paying[c]
    BY <1>6, <1>11
  <2>2. hold \in [Checkouts -> Hold] /\ hold' \in [Checkouts -> Hold]
    BY <1>2 DEF LockInv, TypeOK
  <2>3. hold' = hold
    BY <2>1, <2>2
  <2>4. Paying' = Paying
    BY <2>1 DEF Paying
  <2>5. \A p \in Products : reserved'[p] = reserved[p] /\ physical'[p] = physical[p]
    BY <1>7, <2>3 DEF LockInv, Balance, Ledger!Balanced
  <2>6. reserved' = reserved /\ physical' = physical
    BY <1>2, <2>5 DEF LockInv, TypeOK
  <2>. QED
    BY <2>3, <2>4, <2>6
<1>. QED
  BY <1>9, <1>10, <1>11

\* The transactions, lock by lock, implement the ledger: each takes effect as one step
\* that sweeps some holds, does one thing of its own and keeps the counters right.
THEOREM TransactionsAreAtomic == Spec => ImplementsHoldLedger
<1>1. LockInv => Ledger!Promised
  BY DEF LockInv, TypeOK, Balance, Hold, Ledger!Promised
<1>2. LockInv /\ [Next]_vars => [Ledger!Next]_(Ledger!ledgerVars)
  <2>1. SUFFICES ASSUME LockInv, [Next]_vars
                 PROVE  Ledger!Next \/ UNCHANGED <<hold, Paying, physical, reserved>>
    BY DEF Ledger!ledgerVars, Paying
  <2>2. CASE UNCHANGED <<state, hold, attempt, physical, reserved>>
    BY <2>2 DEF Paying
  <2>. QED
    BY <2>1, <2>2, OnlyCommitsWrite, CommitIsLedgerStep
<1>3. Init => LockInv
  BY LocksHoldAtFirst
<1>. QED
  BY <1>1, <1>2, <1>3, LocksHold, PTL DEF Spec, ImplementsHoldLedger, Ledger!Spec

-------------------------------------------------------------------------------
(***************************************************************************)
(* The lock order.  A transaction that holds no row of its sweep waits     *)
(* only for rows that come after those it holds.                           *)
(***************************************************************************)
Rank(table) == CASE table \in {"claim", "receipt"} -> 0
                 [] table = "checkout"             -> 1
                 [] table = "reservation"          -> 2
                 [] table = "attempt"              -> 3
                 [] table = "product"              -> 4

Waiting(t) == WaitsFor(t) # None

\* Who waits is at a row that somebody else has locked.
LEMMA WaitingIsAtARow ==
  ASSUME LockInv, NEW t \in Transactions, Waiting(t)
  PROVE  /\ job[t].step \in {"claim", "receipt", "checkout", "reservation", "attempt", "product"}
         /\ Rank(job[t].step) \in 0 .. 4
         /\ RowOf(t) \in Rows
         /\ WaitsFor(t) = owner[RowOf(t)] /\ WaitsFor(t) \in Transactions
         /\ owner[RowOf(t)] # t
<1>1. /\ job[t].step # "end" /\ WaitsFor(t) = owner[RowOf(t)] /\ ~ Free(t)
  BY DEF Waiting, WaitsFor
<1>2. TypeOK /\ Shape(t) /\ job[t] \in Job
  BY DEF LockInv, JobInv, TypeOK
<1>3. job[t].step \in {"claim", "receipt", "checkout", "reservation", "attempt", "product"}
  BY <1>1, <1>2 DEF Job
<1>4. RowOf(t) \in Rows
  BY <1>1, <1>2, RowIsRow
<1>5. owner[RowOf(t)] \in Transactions \cup {None}
  BY <1>2, <1>4 DEF TypeOK
<1>6. owner[RowOf(t)] # t /\ owner[RowOf(t)] # None
  BY <1>1 DEF Free
<1>7. Rank(job[t].step) \in 0 .. 4
  BY <1>3 DEF Rank
<1>. QED
  BY <1>1, <1>3, <1>4, <1>5, <1>6, <1>7

\* A transaction that waits, and holds no row of its sweep, is past every row it holds.
LEMMA PastWhatItHolds ==
  ASSUME LockInv, NEW u \in Transactions, Waiting(u), ~ HoldsSweptRow(u),
         NEW table, NEW id, <<table, id>> \in Rows, owner[<<table, id>>] = u
  PROVE  Rank(table) < Rank(job[u].step)
<1>1. /\ TypeOK /\ JobInv(u) /\ job[u] \in Job /\ owner[RowOf(u)] # u
      /\ job[u].step \in {"claim", "receipt", "checkout", "reservation", "attempt", "product"}
  BY WaitingIsAtARow DEF LockInv, TypeOK
<1>2. ASSUME NEW c \in Checkouts, owner[<<"checkout", c>>] = u
      PROVE  /\ job[u].kind \in Reported /\ c = job[u].of /\ job[u].visit = {}
             /\ job[u].step \in Late
  <2>1. CASE job[u].kind \in Sweeping
    <3>1. job[u].kind = "attempt" /\ c = job[u].of /\ job[u].visit = {}
      BY <1>2, <2>1 DEF HoldsSweptRow, Sweeping
    <3>2. IdOf(u) = c /\ job[u].step \in {"checkout"} \cup Late
      BY <1>1, <3>1 DEF IdOf, JobInv, Shape, OwnSteps
    <3>3. job[u].step = "checkout" => RowOf(u) = <<"checkout", c>>
      BY <3>2 DEF RowOf
    <3>. QED
      BY <1>1, <1>2, <3>1, <3>2, <3>3 DEF Reported
  <2>2. CASE job[u].kind \notin Sweeping
    BY <1>1, <1>2, <2>2 DEF JobInv, LocksHaveReasons, Owner, Shape, Reported
  <2>. QED
    BY <2>1, <2>2
<1>3. CASE table = "checkout"
  <2>1. id \in Checkouts
    BY <1>3 DEF Rows
  <2>2. job[u].step \in {"reservation", "attempt", "product"}
    BY <1>1, <1>2, <1>3, <2>1 DEF Late
  <2>. QED
    BY <1>3, <2>2 DEF Rank
<1>4. CASE table = "reservation"
  <2>1. id \in Checkouts
    BY <1>4 DEF Rows
  <2>2. owner[<<"checkout", id>>] = u
    BY <1>1, <1>4, <2>1 DEF JobInv, LocksHaveReasons, Owner
  <2>3. /\ job[u].step \in {"reservation", "attempt", "product"}
        /\ id = job[u].of /\ job[u].visit = {}
    BY <1>1, <1>2, <2>1, <2>2 DEF Late
  <2>4. job[u].step # "reservation"
    <3>1. job[u].step = "reservation" => RowOf(u) = <<"reservation", id>>
      BY <2>3 DEF RowOf, IdOf
    <3>. QED
      BY <1>1, <1>4, <3>1
  <2>. QED
    BY <1>4, <2>3, <2>4 DEF Rank
<1>5. CASE table = "attempt"
  <2>1. id \in Checkouts
    BY <1>5 DEF Rows
  <2>2. job[u].kind # "pass"
    BY <1>1 DEF JobInv, Shape, OwnSteps, Sweeping
  <2>3. job[u].step = "product"
    BY <1>1, <1>5, <2>1, <2>2 DEF JobInv, LocksHaveReasons, Owner
  <2>. QED
    BY <1>5, <2>3 DEF Rank
<1>6. CASE table = "claim"
  <2>1. id \in Checkouts
    BY <1>6 DEF Rows
  <2>2. job[u].step = "product"
    BY <1>1, <1>6, <2>1 DEF JobInv, LocksHaveReasons, Owner
  <2>. QED
    BY <1>6, <2>2 DEF Rank
<1>7. CASE table = "receipt"
  <2>1. PICK c \in Checkouts, r \in Reports : id = <<c, r>>
    BY <1>7 DEF Rows
  <2>2. job[u].kind = "event" /\ job[u].step # "receipt"
    BY <1>1, <1>7, <2>1 DEF JobInv, LocksHaveReasons, Owner
  <2>3. job[u].step \in {"checkout", "reservation", "attempt", "product"}
    BY <1>1, <2>2 DEF JobInv, Shape, OwnSteps, Late, Sweeping
  <2>. QED
    BY <1>7, <2>3 DEF Rank
<1>8. table # "product"
  <2>1. SUFFICES ASSUME table = "product" PROVE FALSE
    OBVIOUS
  <2>2. id \in Products
    BY <2>1 DEF Rows
  <2>3. PICK c \in job[u].swept : ProductOf[c] = id
    BY <1>1, <2>1, <2>2 DEF JobInv, LocksHaveReasons, Owner
  <2>4. c \in Checkouts /\ owner[<<"checkout", c>>] = u /\ job[u].kind \in Sweeping
    BY <1>1, <2>3 DEF JobInv, SweptIsLocked, Shape, Owner, Job
  <2>. QED
    BY <2>3, <2>4 DEF HoldsSweptRow, Sweeping
<1>. QED
  BY <1>3, <1>4, <1>5, <1>6, <1>7, <1>8 DEF Rows

\* Whoever is waited for by a transaction ahead of t is ahead of t.
LEMMA AheadIsClosed ==
  ASSUME LockInv, NEW t \in Transactions, NEW v \in Ahead(t) \cup {t}, Waiting(v)
  PROVE  WaitsFor(v) \in Ahead(t)
<1>1. v \in Transactions /\ WaitsFor(v) \in Transactions
  BY WaitingIsAtARow DEF Ahead
<1>2. ASSUME NEW S \in SUBSET Transactions, \A x \in S \cup {t} : WaitsFor(x) \in S \cup {None}
      PROVE  WaitsFor(v) \in S
  <2>1. v \in S \cup {t}
    BY <1>2 DEF Ahead
  <2>. QED
    BY <1>2, <2>1 DEF Waiting
<1>. QED
  BY <1>1, <1>2 DEF Ahead

\* Were there a cycle without such a row in it, the later transactions of it, those at
\* rows after the first one's, would wait for each other alone, and it would be none.
LEMMA CyclesHaveASweep ==
  ASSUME LockInv
  PROVE  DeadlockNeedsASweep
<1>1. SUFFICES ASSUME NEW t \in Transactions, Deadlocked(t),
                      \A u \in Ahead(t) : ~ HoldsSweptRow(u)
               PROVE  FALSE
  BY DEF DeadlockNeedsASweep
<1>2. t \in Ahead(t)
  BY <1>1 DEF Deadlocked
<1>. DEFINE later == {u \in Ahead(t) : Waiting(u) => Rank(job[t].step) < Rank(job[u].step)}
<1>3. CASE ~ Waiting(t)
  <2>1. \A x \in {} \cup {t} : WaitsFor(x) \in {} \cup {None}
    BY <1>3 DEF Waiting
  <2>2. {} \in SUBSET Transactions /\ t \notin {}
    OBVIOUS
  <2>. QED
    BY <1>2, <2>1, <2>2 DEF Ahead
<1>4. CASE Waiting(t)
  <2>1. Rank(job[t].step) \in 0 .. 4
    BY <1>4, WaitingIsAtARow
  <2>2. t \notin later
    BY <1>4, <2>1
  <2>3. ASSUME NEW v \in later \cup {t}, Waiting(v)
        PROVE  WaitsFor(v) \in later
    <3>. DEFINE u == WaitsFor(v)
    <3>1. v \in Transactions /\ v \in Ahead(t) \cup {t}
      BY <1>2 DEF Ahead
    <3>2. u \in Ahead(t) /\ u \in Transactions
      BY <2>3, <3>1, AheadIsClosed, WaitingIsAtARow
    <3>3. SUFFICES ASSUME Waiting(u) PROVE Rank(job[t].step) < Rank(job[u].step)
      BY <3>2
    <3>4. Rank(job[t].step) <= Rank(job[v].step)
      BY <2>1, <2>3, <3>1, WaitingIsAtARow
    <3>5. /\ owner[RowOf(v)] = u /\ RowOf(v) \in Rows /\ RowOf(v)[1] = job[v].step
          /\ Rank(job[v].step) \in 0 .. 4
      BY <2>3, <3>1, WaitingIsAtARow DEF RowOf
    <3>6. PICK id : RowOf(v) = <<job[v].step, id>>
      BY DEF RowOf
    <3>7. Rank(job[v].step) < Rank(job[u].step)
      BY <1>1, <3>2, <3>3, <3>5, <3>6, PastWhatItHolds
    <3>8. Rank(job[u].step) \in 0 .. 4
      BY <3>2, <3>3, WaitingIsAtARow
    <3>. QED
      BY <2>1, <3>4, <3>5, <3>7, <3>8
  <2>4. \A x \in later \cup {t} : WaitsFor(x) \in later \cup {None}
    BY <2>3 DEF Waiting
  <2>5. later \in SUBSET Transactions
    BY DEF Ahead
  <2>. QED
    BY <1>2, <2>2, <2>4, <2>5 DEF Ahead
<1>. QED
  BY <1>3, <1>4

\* Every cycle of waits has a transaction in it that holds rows of its sweep: events,
\* answers, payment commands and passes lock in one order and never deadlock among
\* themselves (lockAttemptContext, lockCheckoutForAttempt), however many there are.
THEOREM OnlySweepsDeadlock == Spec => []DeadlockNeedsASweep
<1>1. LockInv => DeadlockNeedsASweep
  BY CyclesHaveASweep
<1>. QED
  BY <1>1, LocksHold, PTL
===============================================================================
