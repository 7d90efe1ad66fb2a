----------------------------- MODULE Reconciler -----------------------------
(***************************************************************************)
(* The background pass over unresolved payment attempts: every instance of *)
(* the API runs one on a timer, claims the attempts that waited longest    *)
(* under a lease, looks up the ones with a transaction, closes the ones    *)
(* whose dispatch went silent (payments.service.ts, reconcileDueAttempts). *)
(* A client that polls an attempt looks it up too, without a lease         *)
(* (getAttempt).                                                           *)
(*                                                                         *)
(* PaymentLifecycle assumes that unresolved attempts are looked up and     *)
(* silent dispatches are closed; this module shows why.                    *)
(*                                                                         *)
(* Time passes in units (of ten seconds, in the program) between the       *)
(* steps; a pass and a poll are shorter than a unit but for their lookups. *)
(* A claim is one transaction.  That it skips a row which another          *)
(* transaction has locked at that moment (SKIP LOCKED) is left out, and so *)
(* is the mark for manual review, which no step here reads.                *)
(***************************************************************************)
EXTENDS Naturals, Sequences, FiniteSets, SequencesExt

CONSTANTS
  Attempts,    \* places for unresolved attempts
  Instances,   \* API processes
  Clients,     \* requests for the state of an attempt that are handled at a time
  Batch,       \* LIMIT of the claim
  PassEvery,   \* RECONCILIATION_INTERVAL_MS
  RestFor,     \* an attempt reconciled this recently is left alone by a pass
  PollAfter,   \* and one reconciled this recently, by a client's poll
  LeaseFor,    \* duration of a lease
  StaleAfter,  \* DISPATCH_STALE_SECONDS
  LookupFor,   \* time-out of a lookup
  MaxCrashes   \* bound: processes that die

ASSUME ReconcilerConstants ==
  /\ {Batch, PassEvery, RestFor, StaleAfter, LeaseFor, LookupFor} \subseteq Nat \ {0}
  /\ PollAfter \in Nat
  /\ LookupFor < LeaseFor /\ LookupFor < RestFor
  /\ MaxCrashes \in Nat

VARIABLES
  kind,        \* per attempt: what the row says of it
  waiting,     \* attempts by COALESCE(last_reconciled_at, created_at)
  rest,        \* units since last_reconciled_at, one more than RestFor if NULL
  lease,       \* units left of reconciliation_lease_until, 0 if NULL or past
  silent,      \* units since dispatch_started_at
  timer,       \* per instance: units to its next pass
  work,        \* per instance: the candidates of its pass under way
  poll,        \* per request: the lookup it waits for, if any
  crashes

vars == <<kind, waiting, rest, lease, silent, timer, work, poll, crashes>>
rows == <<kind, waiting, rest, lease, silent>>

\* DISPATCHED, no answer recorded; UNKNOWN, without a transaction id; KNOWN,
\* unresolved with a transaction id.  A resolved attempt is no candidate any more
\* and never becomes one: its columns are forgotten and its place is FREE.
Kind == {"FREE", "DISPATCHED", "UNKNOWN", "KNOWN"}
Due  == {"DISPATCHED", "UNKNOWN", "KNOWN"}

\* A candidate as its pass read it, how long it has been looked up, and whether
\* only its lease is left to clear.
Candidate == [attempt : Attempts, kind : Due, for : 0..LookupFor, last : BOOLEAN]

\* The lookup of a client's poll, and how long it has taken.
Lookup == [attempt : Attempts, for : 0..LookupFor]

TypeOK ==
  /\ kind \in [Attempts -> Kind]
  /\ waiting \in Seq(Attempts) /\ IsInjective(waiting)
  /\ ToSet(waiting) = {a \in Attempts : kind[a] \in Due}
  /\ rest \in [Attempts -> 0..RestFor + 1]
  /\ lease \in [Attempts -> 0..LeaseFor]
  /\ silent \in [Attempts -> 0..StaleAfter]
  /\ timer \in [Instances -> 0..PassEvery]
  /\ work \in [Instances -> SUBSET Candidate]
  /\ poll \in [Clients -> SUBSET Lookup]
  /\ crashes \in 0..MaxCrashes

Init ==
  /\ kind = [a \in Attempts |-> "FREE"]
  /\ waiting = <<>>
  /\ rest = [a \in Attempts |-> RestFor + 1]
  /\ lease = [a \in Attempts |-> 0]
  /\ silent = [a \in Attempts |-> 0]
  /\ timer \in [Instances -> 0..PassEvery - 1]
  /\ work = [i \in Instances |-> {}]
  /\ poll = [q \in Clients |-> {}]
  /\ crashes = 0
-----------------------------------------------------------------------------
(***************************************************************************)
(* What the other transactions do to the columns of the reconciler.        *)
(***************************************************************************)

\* Everyone who waits, but for a.
Without(a) == RemoveAt(waiting, CHOOSE n \in DOMAIN waiting : waiting[n] = a)

\* Seeded fault: the visit clears the lease and leaves last_reconciled_at alone.
StampLeaseOnly(a) == lease' = [lease EXCEPT ![a] = 0] /\ UNCHANGED <<waiting, rest, silent>>

\* last_reconciled_at = now(), reconciliation_lease_until = NULL.
Stamp(a) ==
  /\ waiting' = Append(Without(a), a)
  /\ rest' = [rest EXCEPT ![a] = 0]
  /\ lease' = [lease EXCEPT ![a] = 0]
  /\ UNCHANGED silent

\* reconciliation_lease_until = NULL alone.
DropLease(a) ==
  /\ lease' = [lease EXCEPT ![a] = 0]
  /\ UNCHANGED <<waiting, rest, silent>>

\* Seeded fault: a resolved attempt stays among those that wait.
ResolveListed(a) ==
  /\ kind' = [kind EXCEPT ![a] = "FREE"]
  /\ UNCHANGED <<waiting, rest, lease, silent>>

Resolve(a) ==
  /\ kind' = [kind EXCEPT ![a] = "FREE"]
  /\ waiting' = Without(a)
  /\ rest' = [rest EXCEPT ![a] = RestFor + 1]
  /\ lease' = [lease EXCEPT ![a] = 0]
  /\ silent' = [silent EXCEPT ![a] = 0]

\* createAttempt: a row without last_reconciled_at, behind those that wait.
Open(a) ==
  /\ kind[a] = "FREE"
  /\ \A i \in Instances : \A c \in work[i] : c.attempt # a
  /\ \A q \in Clients : \A l \in poll[q] : l.attempt # a
  /\ kind' = [kind EXCEPT ![a] = "DISPATCHED"]
  /\ waiting' = Append(waiting, a)
  /\ UNCHANGED <<rest, lease, silent, timer, work, poll, crashes>>

\* The provider's status is applied, whether by an answer, an event or a lookup: a
\* final one, PENDING, or one that does not match the attempt.
Apply(a) ==
  \/ Resolve(a)
  \/ kind' = [kind EXCEPT ![a] = "KNOWN"] /\ Stamp(a)
  \/ kind' = [kind EXCEPT ![a] = IF @ = "KNOWN" THEN @ ELSE "UNKNOWN"] /\ Stamp(a)

\* reconcileById, once its lookup has ended: the status is applied, or the failure
\* stamped.
Reconcile(a) ==
  IF kind[a] = "FREE" THEN UNCHANGED rows ELSE Apply(a) \/ (Stamp(a) /\ UNCHANGED kind)

\* By the call that opened the attempt, or an event.
Report(a) ==
  /\ kind[a] \in Due
  /\ Apply(a)
  /\ UNCHANGED <<timer, work, poll, crashes>>

\* The call that opened the attempt ends without an answer it can use: nothing
\* was charged, or nobody knows.
DispatchFails(a) ==
  /\ kind[a] = "DISPATCHED"
  /\ \/ Resolve(a)
     \/ kind' = [kind EXCEPT ![a] = "UNKNOWN"] /\ DropLease(a)
  /\ UNCHANGED <<timer, work, poll, crashes>>

\* getAttempt: a client asks for an unresolved attempt with a transaction that was not
\* reconciled a moment ago.  Whether anybody looks it up already is not asked, and
\* no lease is taken.
StartPoll(q, a) ==
  /\ poll[q] = {}
  /\ kind[a] = "KNOWN" /\ rest[a] >= PollAfter
  /\ poll' = [poll EXCEPT ![q] = {[attempt |-> a, for |-> 0]}]
  /\ UNCHANGED <<rows, timer, work, crashes>>

\* And leaves no lease to the pass that may be looking it up.
EndPoll(q) ==
  /\ \E l \in poll[q] : Reconcile(l.attempt)
  /\ poll' = [poll EXCEPT ![q] = {}]
  /\ UNCHANGED <<timer, work, crashes>>
-----------------------------------------------------------------------------
(***************************************************************************)
(* The pass.                                                               *)
(***************************************************************************)

\* Seeded fault: a dispatch without an answer is no candidate.
ClaimableAnswered(a) == kind[a] \in {"UNKNOWN", "KNOWN"} /\ lease[a] = 0

Claimable(a) == kind[a] \in Due /\ lease[a] = 0

\* Stamped a whole interval ago, to the unit: either side of thirty seconds.
Rested(a) == rest[a] > RestFor
OnTheEdge(a) == rest[a] = RestFor

\* Seeded fault: in an order that the visits of the pass do not change.
Places == SetToSeq(Attempts)
ByAge == SelectSeq(Places, LAMBDA a : kind[a] \in Due)

\* ORDER BY COALESCE(last_reconciled_at, created_at), id.
ByWait == waiting

WaitsLonger(b, a) ==
  \E m, n \in DOMAIN ByWait : m < n /\ ByWait[m] = b /\ ByWait[n] = a

\* LIMIT: the rows of a set that wait longest.
First(due) == {a \in due : Cardinality({b \in due : WaitsLonger(b, a)}) < Batch}

\* claimReconciliationCandidates: the first rows that are due, with a lease.
Claim(i) ==
  \E edge \in SUBSET {a \in Attempts : OnTheEdge(a)} :
    LET first == First({a \in Attempts : Claimable(a) /\ (Rested(a) \/ a \in edge)})
    IN /\ lease' = [a \in Attempts |-> IF a \in first THEN LeaseFor ELSE lease[a]]
       /\ work' = [work EXCEPT ![i] =
                     {[attempt |-> a, kind |-> kind[a], for |-> 0, last |-> FALSE] : a \in first}]

\* scheduleReconciliation: one pass at a time; a tick during a pass is dropped.
Pass(i) ==
  /\ timer[i] = 0
  /\ timer' = [timer EXCEPT ![i] = PassEvery]
  /\ \/ work[i] = {} /\ Claim(i)
     \/ work[i] # {} /\ UNCHANGED <<lease, work>>
  /\ UNCHANGED <<kind, waiting, rest, silent, poll, crashes>>

Finish(i, c) == work' = [work EXCEPT ![i] = @ \ {c}]

\* A candidate with a transaction.
LookUp(i, c) ==
  /\ c \in work[i] /\ c.kind = "KNOWN"
  /\ Reconcile(c.attempt)
  /\ Finish(i, c)
  /\ UNCHANGED <<timer, poll, crashes>>

\* Did the call that opened the attempt go silent?
Silent(a) == silent[a] >= StaleAfter

\* markUnknown, for a candidate without a transaction.
CloseSilent(i, c) ==
  /\ c \in work[i] /\ c.kind # "KNOWN" /\ ~c.last
  /\ IF c.kind = "DISPATCHED" /\ Silent(c.attempt) /\ kind[c.attempt] = "DISPATCHED"
     THEN kind' = [kind EXCEPT ![c.attempt] = "UNKNOWN"] /\ DropLease(c.attempt)
     ELSE UNCHANGED rows
  /\ work' = [work EXCEPT ![i] = (@ \ {c}) \cup {[c EXCEPT !.last = TRUE]}]
  /\ UNCHANGED <<timer, poll, crashes>>

\* clearCandidateLease.
Release(a) == Stamp(a)

ClearLease(i, c) ==
  /\ c \in work[i] /\ c.last
  /\ IF kind[c.attempt] = "FREE" THEN UNCHANGED rows
     ELSE Release(c.attempt) /\ UNCHANGED kind
  /\ Finish(i, c)
  /\ UNCHANGED <<timer, poll, crashes>>

\* An instance dies in the middle of its pass, with the requests it was handling, and
\* is started again.
Crash(i) ==
  /\ crashes < MaxCrashes
  /\ crashes' = crashes + 1
  /\ work' = [work EXCEPT ![i] = {}]
  /\ timer' = [timer EXCEPT ![i] = PassEvery]
  /\ \E lost \in SUBSET Clients :
       poll' = [q \in Clients |-> IF q \in lost THEN {} ELSE poll[q]]
  /\ UNCHANGED rows

\* A unit of time.  Timers fire when they are due, lookups end by their time-out,
\* and what needs no lookup takes no time.
Tick ==
  /\ \A i \in Instances : /\ timer[i] > 0
                          /\ \A c \in work[i] : c.kind = "KNOWN" /\ c.for < LookupFor
  /\ \A q \in Clients : \A l \in poll[q] : l.for < LookupFor
  /\ rest' = [a \in Attempts |-> IF Rested(a) THEN rest[a] ELSE rest[a] + 1]
  /\ lease' = [a \in Attempts |-> IF lease[a] = 0 THEN 0 ELSE lease[a] - 1]
  /\ silent' = [a \in Attempts |->
                  IF kind[a] # "DISPATCHED" THEN 0
                  ELSE IF Silent(a) THEN silent[a] ELSE silent[a] + 1]
  /\ timer' = [i \in Instances |-> timer[i] - 1]
  /\ work' = [i \in Instances |-> {[c EXCEPT !.for = @ + 1] : c \in work[i]}]
  /\ poll' = [q \in Clients |-> {[l EXCEPT !.for = @ + 1] : l \in poll[q]}]
  /\ UNCHANGED <<kind, waiting, crashes>>

Work(i) == \E c \in work[i] : LookUp(i, c) \/ CloseSilent(i, c) \/ ClearLease(i, c)

Next ==
  \/ \E a \in Attempts : Open(a) \/ Report(a) \/ DispatchFails(a)
  \/ \E q \in Clients : EndPoll(q) \/ \E a \in Attempts : StartPoll(q, a)
  \/ \E i \in Instances : Pass(i) \/ Work(i) \/ Crash(i)
  \/ Tick

Spec == Init /\ [][Next]_vars

FairSpec ==
  /\ Spec /\ WF_vars(Tick)
  /\ \A q \in Clients : WF_vars(EndPoll(q))
  /\ \A i \in Instances : WF_vars(Pass(i)) /\ WF_vars(Work(i))
-----------------------------------------------------------------------------
(***************************************************************************)
(* No two passes look the same attempt up at once, although a client's     *)
(* poll, an event or the call that opened the attempt may clear the lease  *)
(* of a pass in the middle of its lookup: whatever clears the lease of an  *)
(* attempt with a transaction stamps the visit with it, and the rest after *)
(* a visit outlasts the lookup.  It is said of passes alone: polls take no *)
(* lease, and may look an attempt up together with a pass or with each     *)
(* other.                                                                  *)
(***************************************************************************)
PassesLookUpApart ==
  \A i, j \in Instances : \A c \in work[i], d \in work[j] :
    c.attempt = d.attempt /\ c.kind = "KNOWN" /\ d.kind = "KNOWN" => i = j

(***************************************************************************)
(* No unresolved transaction waits for ever, from whenever it is due:      *)
(* attempts that nothing can resolve, which stay candidates for ever, do   *)
(* not crowd it out of the batch, and a crash does not keep its lease.     *)
(***************************************************************************)
NoStarvation == \A a \in Attempts : []<>~(kind[a] = "KNOWN" /\ Rested(a))

(***************************************************************************)
(* No dispatch stays open for ever: one whose process died is closed, and  *)
(* its checkout is told that the outcome is unknown.                       *)
(***************************************************************************)
SilenceEnds == \A a \in Attempts : []<>(kind[a] # "DISPATCHED")
=============================================================================
