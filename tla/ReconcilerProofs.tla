--------------------------- MODULE ReconcilerProofs ---------------------------
(***************************************************************************)
(* No two passes look one attempt up at a time, for any number of          *)
(* instances, attempts and polling clients, any batch and any crashes, as  *)
(* long as a lookup is shorter than a lease and than the rest after a      *)
(* visit; and every unresolved attempt waits exactly once.                 *)
(***************************************************************************)
EXTENDS Reconciler, SequenceTheorems, TLAPS

RowTypes ==
  /\ kind \in [Attempts -> Kind]
  /\ rest \in [Attempts -> Nat]
  /\ lease \in [Attempts -> Nat]
  /\ work \in [Instances -> SUBSET Candidate]

(***************************************************************************)
(* While an attempt is looked up, either the lease taken for the lookup    *)
(* covers what is left of it, or the attempt was visited since the lookup  *)
(* began (by an event or a client), or it is resolved: and nobody can      *)
(* claim it.                                                               *)
(***************************************************************************)
Covered(c) ==
  /\ kind[c.attempt] \in {"KNOWN", "FREE"}
  /\ kind[c.attempt] = "KNOWN" =>
       lease[c.attempt] + c.for >= LeaseFor \/ rest[c.attempt] <= c.for

LookUpsCovered == \A i \in Instances : \A c \in work[i] : c.kind = "KNOWN" => Covered(c)

\* One candidate for an attempt in each pass.
OnePerPass ==
  \A i \in Instances : \A c, d \in work[i] : c.attempt = d.attempt => c = d

LookUpInv == RowTypes /\ LookUpsCovered /\ OnePerPass /\ PassesLookUpApart

LEMMA Constants ==
  /\ {Batch, PassEvery, RestFor, StaleAfter, LeaseFor, LookupFor} \subseteq Nat \ {0}
  /\ LookupFor < LeaseFor /\ LookupFor < RestFor
  BY ReconcilerConstants

LEMMA LookUpInit == Init => LookUpInv
  BY Constants DEF Init, LookUpInv, RowTypes, LookUpsCovered, OnePerPass, PassesLookUpApart, Kind
-----------------------------------------------------------------------------
\* A step that leaves the passes alone and covers every lookup keeps the invariant.
LEMMA WorkKeeps ==
  ASSUME LookUpInv, RowTypes', \A i \in Instances : work'[i] \subseteq work[i],
         \A i \in Instances : \A c \in work'[i] : c.kind = "KNOWN" => Covered(c)'
  PROVE  LookUpInv'
<1>1. LookUpsCovered'
  BY DEF LookUpsCovered
<1>2. OnePerPass' /\ PassesLookUpApart'
  BY DEF LookUpInv, OnePerPass, PassesLookUpApart
<1> QED
  BY <1>1, <1>2 DEF LookUpInv

\* What the transactions of others do to one row.
Touches(a) ==
  /\ \A b \in Attempts : b # a => kind'[b] = kind[b] /\ lease'[b] = lease[b] /\ rest'[b] = rest[b]
  /\ \/ kind'[a] = "FREE"
     \/ kind'[a] = kind[a] /\ lease'[a] = lease[a] /\ rest'[a] = rest[a]
     \/ rest'[a] = 0 /\ kind'[a] \in {"KNOWN", kind[a]}
     \/ kind[a] \in {"DISPATCHED", "UNKNOWN"}

LEMMA TouchCovers ==
  ASSUME LookUpInv, RowTypes', NEW a \in Attempts, Touches(a),
         NEW i \in Instances, NEW c \in work[i], c.kind = "KNOWN"
  PROVE  Covered(c)'
<1>1. c.attempt \in Attempts /\ c.for \in Nat /\ Covered(c)
  BY Constants DEF LookUpInv, RowTypes, Candidate, LookUpsCovered
<1>2. CASE c.attempt # a
  BY <1>1, <1>2 DEF Touches, Covered
<1>3. CASE c.attempt = a
  BY <1>1, <1>3 DEF Touches, Covered, RowTypes
<1> QED
  BY <1>2, <1>3

LEMMA StampTouches ==
  ASSUME RowTypes, NEW a \in Attempts, Stamp(a)
  PROVE  /\ rest' \in [Attempts -> Nat] /\ lease' \in [Attempts -> Nat] /\ rest'[a] = 0
         /\ \A b \in Attempts : b # a => lease'[b] = lease[b] /\ rest'[b] = rest[b]
  BY DEF RowTypes, Stamp

LEMMA DropTouches ==
  ASSUME RowTypes, NEW a \in Attempts, DropLease(a)
  PROVE  /\ rest' = rest /\ lease' \in [Attempts -> Nat]
         /\ \A b \in Attempts : b # a => lease'[b] = lease[b]
  BY DEF RowTypes, DropLease

LEMMA ResolveTouches ==
  ASSUME RowTypes, NEW a \in Attempts, Resolve(a), work' \in [Instances -> SUBSET Candidate]
  PROVE  RowTypes' /\ Touches(a)
  BY Constants DEF RowTypes, Resolve, Touches, Kind

LEMMA ApplyTouches ==
  ASSUME RowTypes, NEW a \in Attempts, kind[a] \in Due, Apply(a),
         work' \in [Instances -> SUBSET Candidate]
  PROVE  RowTypes' /\ Touches(a)
<1>1. CASE Resolve(a)
  BY <1>1, ResolveTouches
<1>2. CASE kind' = [kind EXCEPT ![a] = "KNOWN"] /\ Stamp(a)
  BY <1>2, StampTouches DEF RowTypes, Touches, Kind
<1>3. CASE kind' = [kind EXCEPT ![a] = IF @ = "KNOWN" THEN @ ELSE "UNKNOWN"] /\ Stamp(a)
  BY <1>3, StampTouches DEF RowTypes, Touches, Kind, Due
<1> QED
  BY <1>1, <1>2, <1>3 DEF Apply
-----------------------------------------------------------------------------
(***************************************************************************)
(* The claim.                                                              *)
(***************************************************************************)

\* What may be claimed is not being looked up.
LEMMA ClaimableIsFree ==
  ASSUME LookUpInv, NEW a \in Attempts, Claimable(a), Rested(a) \/ OnTheEdge(a),
         NEW i \in Instances, NEW c \in work[i], c.kind = "KNOWN"
  PROVE  c.attempt # a
<1> SUFFICES ASSUME c.attempt = a PROVE FALSE
  OBVIOUS
<1>1. Covered(c) /\ c.for \in 0..LookupFor
  BY DEF LookUpInv, LookUpsCovered, RowTypes, Candidate
<1>2. kind[a] = "KNOWN" /\ lease[a] = 0
  BY <1>1 DEF Claimable, Covered, Due
<1>3. rest[a] >= RestFor /\ rest[a] \in Nat
  BY Constants DEF Rested, OnTheEdge, LookUpInv, RowTypes
<1>4. c.for >= LeaseFor \/ rest[a] <= c.for
  BY <1>1, <1>2, Constants DEF Covered
<1> QED
  BY <1>1, <1>3, <1>4, Constants

LEMMA ClaimKeeps ==
  ASSUME LookUpInv, NEW i \in Instances, work[i] = {}, Claim(i), UNCHANGED <<kind, rest>>
  PROVE  LookUpInv'
<1>1. PICK edge \in SUBSET {a \in Attempts : OnTheEdge(a)} :
        LET first == First({a \in Attempts : Claimable(a) /\ (Rested(a) \/ a \in edge)})
        IN /\ lease' = [a \in Attempts |-> IF a \in first THEN LeaseFor ELSE lease[a]]
           /\ work' = [work EXCEPT ![i] =
                         {[attempt |-> a, kind |-> kind[a], for |-> 0, last |-> FALSE] : a \in first}]
  BY DEF Claim
<1> DEFINE first == First({a \in Attempts : Claimable(a) /\ (Rested(a) \/ a \in edge)})
           new(a) == [attempt |-> a, kind |-> kind[a], for |-> 0, last |-> FALSE]
           fresh == {new(a) : a \in first}
<1>2. \A a \in first : a \in Attempts /\ Claimable(a) /\ (Rested(a) \/ OnTheEdge(a))
  BY DEF First
<1> HIDE DEF first
<1>3. work'[i] = fresh /\ \A j \in Instances : j # i => work'[j] = work[j]
  BY <1>1 DEF first, LookUpInv, RowTypes
<1>4. \A a \in Attempts : lease'[a] = IF a \in first THEN LeaseFor ELSE lease[a]
  BY <1>1 DEF first
<1>5. RowTypes'
  <2>1. fresh \subseteq Candidate
    <3> SUFFICES ASSUME NEW a \in first PROVE new(a) \in Candidate
      OBVIOUS
    <3>1. a \in Attempts /\ kind[a] \in Due /\ 0 \in 0..LookupFor
      BY <1>2, Constants DEF Claimable
    <3> QED
      BY <3>1 DEF Candidate
  <2>2. work' \in [Instances -> SUBSET Candidate]
    BY <1>1, <2>1 DEF first, LookUpInv, RowTypes
  <2>3. lease' \in [Attempts -> Nat]
    BY <1>1, Constants DEF first, LookUpInv, RowTypes
  <2> QED
    BY <2>2, <2>3 DEF LookUpInv, RowTypes
<1>6. \A c \in fresh : /\ c.attempt \in first /\ c.for = 0 /\ c.last = FALSE
                       /\ c.kind = kind[c.attempt]
  OBVIOUS
<1>7. ASSUME NEW j \in Instances, j # i, NEW c \in work[j], c.kind = "KNOWN"
      PROVE  c.attempt \in Attempts /\ c.attempt \notin first
  BY <1>2, <1>7, ClaimableIsFree DEF LookUpInv, RowTypes, Candidate
<1>8. LookUpsCovered'
  <2>1. ASSUME NEW j \in Instances, j # i, NEW c \in work[j], c.kind = "KNOWN" PROVE Covered(c)'
    BY <1>4, <1>7, <2>1 DEF LookUpInv, LookUpsCovered, Covered
  <2>2. ASSUME NEW c \in fresh, c.kind = "KNOWN" PROVE Covered(c)'
    BY <1>2, <1>4, <1>6, <2>2, Constants DEF Covered
  <2> QED
    BY <1>3, <2>1, <2>2 DEF LookUpsCovered
<1>9. OnePerPass'
  <2>1. \A c \in fresh : c = new(c.attempt)
    OBVIOUS
  <2> QED
    BY <1>3, <2>1 DEF LookUpInv, OnePerPass
<1>10. PassesLookUpApart'
  BY <1>3, <1>6, <1>7 DEF LookUpInv, PassesLookUpApart
<1> QED
  BY <1>5, <1>8, <1>9, <1>10 DEF LookUpInv
-----------------------------------------------------------------------------
(***************************************************************************)
(* The other steps.                                                        *)
(***************************************************************************)
\* What a lookup brings touches one row, and stamps the visit.
LEMMA ReconcileTouches ==
  ASSUME RowTypes, NEW a \in Attempts, Reconcile(a), work' \in [Instances -> SUBSET Candidate]
  PROVE  RowTypes' /\ Touches(a)
<1>1. CASE UNCHANGED rows
  BY <1>1 DEF rows, RowTypes, Touches
<1>2. CASE kind[a] # "FREE" /\ Apply(a)
  BY <1>2, ApplyTouches DEF RowTypes, Kind, Due
<1>3. CASE Stamp(a) /\ UNCHANGED kind
  BY <1>3, StampTouches DEF RowTypes, Touches
<1> QED
  BY <1>1, <1>2, <1>3 DEF Reconcile

\* A poll leaves the passes alone, whatever it finds.
LEMMA PollKeeps ==
  ASSUME LookUpInv, poll \in [Clients -> SUBSET Lookup], NEW q \in Clients,
         EndPoll(q) \/ \E a \in Attempts : StartPoll(q, a)
  PROVE  LookUpInv'
<1>1. work' = work /\ RowTypes /\ work' \in [Instances -> SUBSET Candidate]
  BY DEF EndPoll, StartPoll, LookUpInv, RowTypes
<1>2. CASE EndPoll(q)
  <2>1. PICK l \in poll[q] : Reconcile(l.attempt)
    BY <1>2 DEF EndPoll
  <2>2. l.attempt \in Attempts
    BY DEF Lookup
  <2>3. RowTypes' /\ Touches(l.attempt)
    BY <1>1, <2>1, <2>2, ReconcileTouches
  <2> QED
    BY <1>1, <2>2, <2>3, TouchCovers, WorkKeeps
<1>3. CASE \E a \in Attempts : StartPoll(q, a)
  <2>1. UNCHANGED <<kind, rest, lease, work>>
    BY <1>3 DEF StartPoll, rows
  <2> QED
    BY <2>1 DEF LookUpInv, RowTypes, LookUpsCovered, Covered, OnePerPass, PassesLookUpApart
<1> QED
  BY <1>2, <1>3

LEMMA OthersKeep ==
  ASSUME LookUpInv, NEW a \in Attempts, Open(a) \/ Report(a) \/ DispatchFails(a)
  PROVE  LookUpInv'
<1>1. work' = work /\ RowTypes
  BY DEF Open, Report, DispatchFails, LookUpInv
<1>2. work' \in [Instances -> SUBSET Candidate]
  BY <1>1 DEF RowTypes
<1>3. CASE Open(a)
  <2>1. /\ lease' = lease /\ rest' = rest /\ kind' = [kind EXCEPT ![a] = "DISPATCHED"]
        /\ \A i \in Instances : \A c \in work[i] : c.attempt # a
    BY <1>3 DEF Open
  <2>2. RowTypes'
    BY <1>1, <2>1 DEF RowTypes, Kind
  <2>3. ASSUME NEW i \in Instances, NEW c \in work[i], c.kind = "KNOWN" PROVE Covered(c)'
    <3>1. kind'[c.attempt] = kind[c.attempt]
      BY <2>1 DEF LookUpInv, RowTypes, Candidate
    <3> QED
      BY <2>1, <2>3, <3>1 DEF LookUpInv, LookUpsCovered, Covered
  <2> QED
    BY <1>1, <2>2, <2>3, WorkKeeps
<1>4. CASE Report(a)
  BY <1>1, <1>2, <1>4, ApplyTouches, TouchCovers, WorkKeeps DEF Report
<1>5. CASE DispatchFails(a)
  <2>1. RowTypes' /\ Touches(a)
    <3>1. CASE Resolve(a)
      BY <1>1, <1>2, <3>1, ResolveTouches
    <3>2. CASE kind' = [kind EXCEPT ![a] = "UNKNOWN"] /\ DropLease(a)
      BY <1>1, <1>2, <1>5, <3>2, DropTouches DEF DispatchFails, RowTypes, Touches, Kind
    <3> QED
      BY <1>5, <3>1, <3>2 DEF DispatchFails
  <2> QED
    BY <1>1, <2>1, TouchCovers, WorkKeeps
<1> QED
  BY <1>3, <1>4, <1>5

LEMMA PassKeeps ==
  ASSUME LookUpInv, NEW i \in Instances, Pass(i)
  PROVE  LookUpInv'
<1>1. CASE work[i] = {} /\ Claim(i)
  BY <1>1, ClaimKeeps DEF Pass
<1>2. CASE UNCHANGED <<lease, work>>
  BY <1>2 DEF Pass, LookUpInv, RowTypes, LookUpsCovered, Covered, OnePerPass, PassesLookUpApart
<1> QED
  BY <1>1, <1>2 DEF Pass

LEMMA CrashKeeps ==
  ASSUME LookUpInv, NEW i \in Instances, Crash(i)
  PROVE  LookUpInv'
<1>1. /\ kind' = kind /\ rest' = rest /\ lease' = lease
      /\ work' = [work EXCEPT ![i] = {}]
  BY DEF Crash, rows
<1>2. RowTypes' /\ \A j \in Instances : work'[j] \subseteq work[j]
  BY <1>1 DEF LookUpInv, RowTypes
<1> QED
  BY <1>1, <1>2, WorkKeeps DEF LookUpInv, LookUpsCovered, Covered

LEMMA FinishLess ==
  ASSUME RowTypes, NEW i \in Instances, NEW c, Finish(i, c)
  PROVE  /\ work' \in [Instances -> SUBSET Candidate]
         /\ \A j \in Instances : work'[j] \subseteq work[j]
  BY DEF Finish, RowTypes

LEMMA LookUpKeeps ==
  ASSUME LookUpInv, NEW i \in Instances, NEW c \in work[i], LookUp(i, c) \/ ClearLease(i, c)
  PROVE  LookUpInv'
<1>1. RowTypes /\ c.attempt \in Attempts
  BY DEF LookUpInv, RowTypes, Candidate
<1>2. /\ work' \in [Instances -> SUBSET Candidate]
      /\ \A j \in Instances : work'[j] \subseteq work[j]
  BY <1>1, FinishLess DEF LookUp, ClearLease
<1>3. RowTypes' /\ Touches(c.attempt)
  <2>1. Reconcile(c.attempt)
    BY DEF LookUp, ClearLease, Release, Reconcile
  <2> QED
    BY <1>1, <1>2, <2>1, ReconcileTouches
<1> QED
  BY <1>1, <1>2, <1>3, TouchCovers, WorkKeeps

LEMMA CloseSilentKeeps ==
  ASSUME LookUpInv, NEW i \in Instances, NEW c \in work[i], CloseSilent(i, c)
  PROVE  LookUpInv'
<1> DEFINE d == [c EXCEPT !.last = TRUE]
<1>1. RowTypes /\ c \in Candidate
  BY DEF LookUpInv, RowTypes
<1>2. /\ work' = [work EXCEPT ![i] = (@ \ {c}) \cup {d}]
      /\ c.kind # "KNOWN"
  BY DEF CloseSilent
<1>3. d \in Candidate /\ d.kind = c.kind /\ d.attempt = c.attempt
  BY <1>1 DEF Candidate
<1>4. /\ work' \in [Instances -> SUBSET Candidate]
      /\ work'[i] = (work[i] \ {c}) \cup {d}
      /\ \A j \in Instances : j # i => work'[j] = work[j]
  BY <1>1, <1>2, <1>3 DEF RowTypes
<1> HIDE DEF d
<1>5. RowTypes' /\ Touches(c.attempt)
  <2>1. CASE UNCHANGED rows
    BY <1>1, <1>4, <2>1 DEF rows, RowTypes, Touches
  <2>2. CASE /\ kind[c.attempt] = "DISPATCHED"
             /\ kind' = [kind EXCEPT ![c.attempt] = "UNKNOWN"] /\ DropLease(c.attempt)
    BY <1>1, <1>4, <2>2, DropTouches DEF RowTypes, Touches, Kind, Candidate
  <2> QED
    BY <2>1, <2>2 DEF CloseSilent
<1>6. \A j \in Instances : \A e \in work'[j] : e.kind = "KNOWN" => e \in work[j]
  BY <1>2, <1>3, <1>4
<1>7. LookUpsCovered'
  BY <1>1, <1>5, <1>6, TouchCovers DEF LookUpsCovered, Candidate
<1>8. OnePerPass'
  BY <1>3, <1>4 DEF LookUpInv, OnePerPass
<1>9. PassesLookUpApart'
  BY <1>6 DEF LookUpInv, PassesLookUpApart
<1> QED
  BY <1>5, <1>7, <1>8, <1>9 DEF LookUpInv

LEMMA TickKeeps == LookUpInv /\ Tick => LookUpInv'
<1> SUFFICES ASSUME LookUpInv, Tick PROVE LookUpInv'
  OBVIOUS
<1> DEFINE later(c) == [c EXCEPT !.for = @ + 1]
<1>1. \A i \in Instances : \A c \in work[i] :
        /\ c \in Candidate /\ c.kind = "KNOWN" /\ c.for < LookupFor
        /\ later(c) \in Candidate /\ later(c).attempt = c.attempt /\ later(c).kind = c.kind
        /\ later(c).for = c.for + 1
  BY Constants DEF Tick, LookUpInv, RowTypes, Candidate
<1>2. work' = [i \in Instances |-> {later(c) : c \in work[i]}] /\ kind' = kind
  BY DEF Tick
<1> HIDE DEF later
<1>3. RowTypes'
  <2>1. work' \in [Instances -> SUBSET Candidate]
    BY <1>1, <1>2
  <2>2. rest' \in [Attempts -> Nat] /\ lease' \in [Attempts -> Nat]
    BY DEF Tick, LookUpInv, RowTypes
  <2> QED
    BY <1>2, <2>1, <2>2 DEF LookUpInv, RowTypes
<1>4. \A i \in Instances : \A d \in work'[i] : \E c \in work[i] : d = later(c)
  BY <1>2
<1>5. LookUpsCovered'
  <2>1. ASSUME NEW i \in Instances, NEW c \in work[i] PROVE Covered(later(c))'
    <3>1. Covered(c) /\ c.attempt \in Attempts /\ c.for \in Nat
      BY <1>1, Constants DEF LookUpInv, LookUpsCovered, Candidate
    <3>2. lease[c.attempt] \in Nat /\ rest[c.attempt] \in Nat
      BY <3>1 DEF LookUpInv, RowTypes
    <3>3. /\ lease'[c.attempt] = IF lease[c.attempt] = 0 THEN 0 ELSE lease[c.attempt] - 1
          /\ \/ rest'[c.attempt] = rest[c.attempt]
             \/ rest'[c.attempt] = rest[c.attempt] + 1
      BY <3>1 DEF Tick
    <3> QED
      BY <1>1, <1>2, <3>1, <3>2, <3>3, Constants DEF Covered
  <2> QED
    BY <1>4, <2>1 DEF LookUpsCovered
<1>6. OnePerPass' /\ PassesLookUpApart'
  BY <1>1, <1>4 DEF LookUpInv, OnePerPass, PassesLookUpApart
<1> QED
  BY <1>3, <1>5, <1>6 DEF LookUpInv

LEMMA LookUpNext == LookUpInv /\ TypeOK /\ [Next]_vars => LookUpInv'
<1> SUFFICES ASSUME LookUpInv, TypeOK, [Next]_vars PROVE LookUpInv'
  OBVIOUS
<1>1. ASSUME NEW i \in Instances, Work(i) PROVE LookUpInv'
  BY <1>1, LookUpKeeps, CloseSilentKeeps DEF Work
<1>2. CASE UNCHANGED vars
  BY <1>2 DEF vars, LookUpInv, RowTypes, LookUpsCovered, Covered, OnePerPass, PassesLookUpApart
<1> QED
  BY <1>1, <1>2, OthersKeep, PollKeeps, PassKeeps, CrashKeeps, TickKeeps DEF Next, TypeOK
-----------------------------------------------------------------------------
(***************************************************************************)
(* Who waits: every unresolved attempt once, and nobody else.              *)
(***************************************************************************)
LEMMA RemovedAt ==
  ASSUME NEW S, NEW s \in Seq(S), NEW n \in 1..Len(s)
  PROVE  /\ RemoveAt(s, n) \in Seq(S)
         /\ Len(RemoveAt(s, n)) = Len(s) - 1
         /\ \A m \in 1..Len(s) - 1 : RemoveAt(s, n)[m] = IF m < n THEN s[m] ELSE s[m + 1]
<1> DEFINE front == SubSeq(s, 1, n - 1)
           back  == SubSeq(s, n + 1, Len(s))
<1>1. /\ n \in Nat /\ Len(s) \in Nat /\ n - 1 \in Int /\ n + 1 \in Int /\ 1 \in Int
      /\ \A m \in 1..Len(s) : s[m] \in S
  OBVIOUS
<1>2. /\ front \in Seq(S) /\ Len(front) = n - 1
      /\ \A m \in 1..n - 1 : front[m] = s[m]
  <2>1. \A m \in 1..n - 1 : s[m] \in S
    BY <1>1
  <2>2. /\ front \in Seq(S) /\ Len(front) = IF 1 <= n - 1 THEN n - 1 - 1 + 1 ELSE 0
        /\ \A m \in 1..n - 1 - 1 + 1 : front[m] = s[1 + m - 1]
    BY <1>1, <2>1, SubSeqProperties
  <2> QED
    BY <1>1, <2>2
<1>3. /\ back \in Seq(S) /\ Len(back) = Len(s) - n
      /\ \A m \in 1..Len(s) - n : back[m] = s[n + m]
  <2>1. \A m \in n + 1..Len(s) : s[m] \in S
    BY <1>1
  <2>2. /\ back \in Seq(S)
        /\ Len(back) = IF n + 1 <= Len(s) THEN Len(s) - (n + 1) + 1 ELSE 0
        /\ \A m \in 1..Len(s) - (n + 1) + 1 : back[m] = s[n + 1 + m - 1]
    BY <1>1, <2>1, SubSeqProperties
  <2> QED
    BY <1>1, <2>2
<1>4. RemoveAt(s, n) = front \o back
  BY DEF RemoveAt
<1> HIDE DEF front, back
<1>5. /\ front \o back \in Seq(S)
      /\ Len(front \o back) = Len(front) + Len(back)
      /\ \A m \in 1..Len(front) + Len(back) :
           (front \o back)[m] = IF m <= Len(front) THEN front[m] ELSE back[m - Len(front)]
  BY <1>2, <1>3, ConcatProperties
<1>6. ASSUME NEW m \in 1..Len(s) - 1
      PROVE  (front \o back)[m] = IF m < n THEN s[m] ELSE s[m + 1]
  <2>1. m \in 1..Len(front) + Len(back)
    BY <1>1, <1>2, <1>3
  <2>2. CASE m < n
    BY <1>1, <1>2, <1>5, <2>1, <2>2
  <2>3. CASE ~ (m < n)
    <3>1. m - Len(front) \in 1..Len(s) - n /\ n + (m - Len(front)) = m + 1 /\ ~ (m <= Len(front))
      BY <1>1, <1>2, <2>3
    <3> QED
      BY <1>3, <1>5, <2>1, <2>3, <3>1
  <2> QED
    BY <2>2, <2>3
<1>7. Len(front \o back) = Len(s) - 1
  BY <1>1, <1>2, <1>3, <1>5
<1> QED
  BY <1>4, <1>5, <1>6, <1>7

\* An attempt that waits is taken out, and nobody else.
LEMMA LeftOut ==
  ASSUME TypeOK, NEW a \in Attempts, kind[a] \in Due
  PROVE  /\ Without(a) \in Seq(Attempts) /\ IsInjective(Without(a))
         /\ ToSet(Without(a)) = ToSet(waiting) \ {a}
<1> DEFINE n == CHOOSE n \in DOMAIN waiting : waiting[n] = a
           w == Without(a)
           skip(m) == IF m < n THEN m ELSE m + 1
<1>1. /\ waiting \in Seq(Attempts) /\ DOMAIN waiting = 1..Len(waiting) /\ Len(waiting) \in Nat
      /\ \A m, k \in 1..Len(waiting) : waiting[m] = waiting[k] => m = k
      /\ ToSet(waiting) = {waiting[m] : m \in 1..Len(waiting)}
  <2>1. waiting \in Seq(Attempts)
    BY DEF TypeOK
  <2>2. DOMAIN waiting = 1..Len(waiting) /\ Len(waiting) \in Nat
    BY <2>1
  <2> QED
    BY <2>1, <2>2 DEF TypeOK, IsInjective, ToSet
<1>2. n \in 1..Len(waiting) /\ waiting[n] = a
  <2>1. a \in ToSet(waiting)
    BY DEF TypeOK
  <2>2. \E m \in DOMAIN waiting : waiting[m] = a
    BY <1>1, <2>1
  <2> QED
    BY <1>1, <2>2
<1>3. w = RemoveAt(waiting, n)
  BY DEF Without
<1> HIDE DEF n, w
<1>4. /\ w \in Seq(Attempts) /\ Len(w) = Len(waiting) - 1
      /\ \A m \in 1..Len(waiting) - 1 : w[m] = IF m < n THEN waiting[m] ELSE waiting[m + 1]
  BY <1>1, <1>2, <1>3, RemovedAt
<1>5. \A m \in 1..Len(w) : /\ skip(m) \in 1..Len(waiting) /\ skip(m) # n
                           /\ w[m] = waiting[skip(m)]
  BY <1>1, <1>2, <1>4
<1>6. \A m, k \in 1..Len(w) : skip(m) = skip(k) => m = k
  BY <1>1, <1>2, <1>4
<1>7. DOMAIN w = 1..Len(w)
  BY <1>4
<1>8. IsInjective(w)
  BY <1>1, <1>5, <1>6, <1>7 DEF IsInjective
<1>9. ASSUME NEW k \in 1..Len(waiting), waiting[k] # a
      PROVE  waiting[k] \in ToSet(w)
  <2>1. PICK m \in 1..Len(w) : skip(m) = k
    <3>1. k # n
      BY <1>2, <1>9
    <3>2. CASE k < n
      BY <1>1, <1>2, <1>4, <3>2
    <3>3. CASE k > n
      <4>1. k - 1 \in 1..Len(w) /\ skip(k - 1) = k
        BY <1>1, <1>2, <1>4, <3>3
      <4> QED
        BY <4>1
    <3> QED
      BY <1>2, <3>1, <3>2, <3>3
  <2>2. w[m] = waiting[k]
    BY <1>5, <2>1
  <2> QED
    BY <1>7, <2>2 DEF ToSet
<1>10. ASSUME NEW m \in 1..Len(w) PROVE w[m] \in ToSet(waiting) \ {a}
  BY <1>1, <1>2, <1>5
<1>11. ToSet(w) = ToSet(waiting) \ {a}
  <2>1. ToSet(w) \subseteq ToSet(waiting) \ {a}
    BY <1>7, <1>10 DEF ToSet
  <2>2. ToSet(waiting) \ {a} \subseteq ToSet(w)
    BY <1>1, <1>9
  <2> QED
    BY <2>1, <2>2
<1> QED
  BY <1>4, <1>8, <1>11 DEF w

\* Who has not waited yet is put behind the others.
LEMMA PutBehind ==
  ASSUME NEW s \in Seq(Attempts), IsInjective(s), NEW a \in Attempts, a \notin ToSet(s)
  PROVE  /\ Append(s, a) \in Seq(Attempts) /\ IsInjective(Append(s, a))
         /\ ToSet(Append(s, a)) = ToSet(s) \cup {a}
<1> DEFINE r == Append(s, a)
<1>1. /\ Len(s) \in Nat /\ DOMAIN s = 1..Len(s)
      /\ \A m, k \in 1..Len(s) : s[m] = s[k] => m = k
      /\ \A m \in 1..Len(s) : s[m] # a
  BY DEF IsInjective, ToSet
<1>2. /\ r \in Seq(Attempts) /\ Len(r) = Len(s) + 1 /\ DOMAIN r = 1..Len(s) + 1
      /\ \A m \in 1..Len(s) : r[m] = s[m]
      /\ r[Len(s) + 1] = a
  BY AppendProperties
<1> HIDE DEF r
<1>3. \A m \in 1..Len(s) + 1 : m \in 1..Len(s) \/ m = Len(s) + 1
  BY <1>1
<1>4. IsInjective(r)
  BY <1>1, <1>2, <1>3 DEF IsInjective
<1>5. ToSet(r) = ToSet(s) \cup {a}
  <2>1. \A m \in 1..Len(s) + 1 : r[m] \in ToSet(s) \cup {a}
    BY <1>1, <1>2, <1>3 DEF ToSet
  <2>2. a \in ToSet(r)
    BY <1>1, <1>2 DEF ToSet
  <2>3. \A m \in 1..Len(s) : s[m] \in ToSet(r)
    BY <1>1, <1>2 DEF ToSet
  <2> QED
    BY <1>1, <1>2, <2>1, <2>2, <2>3 DEF ToSet
<1> QED
  BY <1>2, <1>4, <1>5 DEF r
-----------------------------------------------------------------------------
(***************************************************************************)
(* The columns of the rows, and the passes, keep their type.               *)
(***************************************************************************)
RowsOK ==
  /\ kind \in [Attempts -> Kind]
  /\ waiting \in Seq(Attempts) /\ IsInjective(waiting)
  /\ ToSet(waiting) = {a \in Attempts : kind[a] \in Due}
  /\ rest \in [Attempts -> 0..RestFor + 1]
  /\ lease \in [Attempts -> 0..LeaseFor]
  /\ silent \in [Attempts -> 0..StaleAfter]

PassesOK ==
  /\ timer \in [Instances -> 0..PassEvery]
  /\ work \in [Instances -> SUBSET Candidate]
  /\ poll \in [Clients -> SUBSET Lookup]
  /\ crashes \in 0..MaxCrashes

LEMMA TypeParts == TypeOK <=> RowsOK /\ PassesOK
  BY DEF TypeOK, RowsOK, PassesOK

LEMMA StampTypes ==
  ASSUME TypeOK, NEW a \in Attempts, kind[a] \in Due, Stamp(a),
         NEW k \in Due, kind' = [kind EXCEPT ![a] = k]
  PROVE  RowsOK'
<1>1. kind' \in [Attempts -> Kind] /\ \A b \in Attempts : kind'[b] = IF b = a THEN k ELSE kind[b]
  BY DEF TypeOK, Kind, Due
<1>2. /\ Without(a) \in Seq(Attempts) /\ IsInjective(Without(a))
      /\ ToSet(Without(a)) = ToSet(waiting) \ {a}
  BY LeftOut
<1>3. waiting' = Append(Without(a), a)
  BY DEF Stamp
<1>4. /\ waiting' \in Seq(Attempts) /\ IsInjective(waiting')
      /\ ToSet(waiting') = (ToSet(waiting) \ {a}) \cup {a}
  BY <1>2, <1>3, PutBehind
<1>5. ToSet(waiting') = {b \in Attempts : kind'[b] \in Due}
  BY <1>1, <1>4 DEF TypeOK
<1>6. /\ rest' \in [Attempts -> 0..RestFor + 1] /\ lease' \in [Attempts -> 0..LeaseFor]
      /\ silent' \in [Attempts -> 0..StaleAfter]
  BY Constants DEF Stamp, TypeOK
<1> QED
  BY <1>1, <1>4, <1>5, <1>6 DEF RowsOK

LEMMA ResolveTypes ==
  ASSUME TypeOK, NEW a \in Attempts, kind[a] \in Due, Resolve(a)
  PROVE  RowsOK'
<1>1. /\ kind' \in [Attempts -> Kind]
      /\ \A b \in Attempts : kind'[b] = IF b = a THEN "FREE" ELSE kind[b]
  BY DEF TypeOK, Kind, Resolve
<1>2. /\ Without(a) \in Seq(Attempts) /\ IsInjective(Without(a))
      /\ ToSet(Without(a)) = ToSet(waiting) \ {a}
  BY LeftOut
<1>3. waiting' = Without(a)
  BY DEF Resolve
<1>4. ToSet(waiting') = {b \in Attempts : kind'[b] \in Due}
  BY <1>1, <1>2, <1>3 DEF TypeOK, Due
<1>5. /\ rest' \in [Attempts -> 0..RestFor + 1] /\ lease' \in [Attempts -> 0..LeaseFor]
      /\ silent' \in [Attempts -> 0..StaleAfter]
  BY Constants DEF Resolve, TypeOK
<1> QED
  BY <1>1, <1>2, <1>3, <1>4, <1>5 DEF RowsOK

LEMMA ApplyTypes ==
  ASSUME TypeOK, NEW a \in Attempts, kind[a] \in Due, Apply(a)
  PROVE  RowsOK'
<1>1. CASE Resolve(a)
  BY <1>1, ResolveTypes
<1>2. CASE kind' = [kind EXCEPT ![a] = "KNOWN"] /\ Stamp(a)
  BY <1>2, StampTypes DEF Due
<1>3. CASE kind' = [kind EXCEPT ![a] = IF @ = "KNOWN" THEN @ ELSE "UNKNOWN"] /\ Stamp(a)
  <2>1. PICK k \in Due : kind' = [kind EXCEPT ![a] = k]
    BY <1>3 DEF Due
  <2> QED
    BY <1>3, <2>1, StampTypes
<1> QED
  BY <1>1, <1>2, <1>3 DEF Apply

LEMMA SilenceTypes ==
  ASSUME TypeOK, NEW a \in Attempts, kind[a] = "DISPATCHED",
         kind' = [kind EXCEPT ![a] = "UNKNOWN"], DropLease(a)
  PROVE  RowsOK'
<1>1. kind' \in [Attempts -> Kind] /\ \A b \in Attempts : kind'[b] \in Due <=> kind[b] \in Due
  BY DEF TypeOK, Kind, Due
<1>2. UNCHANGED <<waiting, rest, silent>> /\ lease' \in [Attempts -> 0..LeaseFor]
  BY Constants DEF DropLease, TypeOK
<1>3. ToSet(waiting') = {b \in Attempts : kind'[b] \in Due}
  BY <1>1, <1>2 DEF TypeOK
<1> QED
  BY <1>1, <1>2, <1>3 DEF RowsOK, TypeOK

\* What a lookup brings.
LEMMA ReconcileTypes ==
  ASSUME TypeOK, NEW a \in Attempts, Reconcile(a)
  PROVE  RowsOK'
<1>1. CASE UNCHANGED rows
  BY <1>1 DEF TypeOK, RowsOK, rows
<1>2. CASE kind[a] # "FREE" /\ Apply(a)
  BY <1>2, ApplyTypes DEF TypeOK, Kind, Due
<1>3. CASE kind[a] # "FREE" /\ Stamp(a) /\ UNCHANGED kind
  <2>1. kind[a] \in Due /\ kind' = [kind EXCEPT ![a] = kind[a]]
    BY <1>3 DEF TypeOK, Kind, Due
  <2> QED
    BY <1>3, <2>1, StampTypes
<1> QED
  BY <1>1, <1>2, <1>3 DEF Reconcile

LEMMA OpenTypes ==
  ASSUME TypeOK, NEW a \in Attempts, Open(a)
  PROVE  TypeOK'
<1>1. /\ kind' \in [Attempts -> Kind]
      /\ \A b \in Attempts : kind'[b] = IF b = a THEN "DISPATCHED" ELSE kind[b]
  BY DEF TypeOK, Kind, Open
<1>2. a \notin ToSet(waiting) /\ waiting \in Seq(Attempts) /\ IsInjective(waiting)
  BY DEF TypeOK, Open, Due
<1>3. waiting' = Append(waiting, a) /\ UNCHANGED <<rest, lease, silent, timer, work, poll, crashes>>
  BY DEF Open
<1>4. /\ waiting' \in Seq(Attempts) /\ IsInjective(waiting')
      /\ ToSet(waiting') = ToSet(waiting) \cup {a}
  BY <1>2, <1>3, PutBehind
<1>5. ToSet(waiting') = {b \in Attempts : kind'[b] \in Due}
  BY <1>1, <1>4 DEF TypeOK, Due
<1> QED
  BY <1>1, <1>3, <1>4, <1>5 DEF TypeOK

LEMMA SameRows ==
  ASSUME TypeOK, UNCHANGED rows
  PROVE  RowsOK'
BY DEF TypeOK, RowsOK, rows

LEMMA ClaimTypes ==
  ASSUME TypeOK, NEW i \in Instances, Claim(i)
  PROVE  /\ lease' \in [Attempts -> 0..LeaseFor]
         /\ work' \in [Instances -> SUBSET Candidate]
<1>1. PICK edge \in SUBSET {a \in Attempts : OnTheEdge(a)} :
        LET first == First({a \in Attempts : Claimable(a) /\ (Rested(a) \/ a \in edge)})
        IN /\ lease' = [a \in Attempts |-> IF a \in first THEN LeaseFor ELSE lease[a]]
           /\ work' = [work EXCEPT ![i] =
                         {[attempt |-> a, kind |-> kind[a], for |-> 0, last |-> FALSE] : a \in first}]
  BY DEF Claim
<1> DEFINE first == First({a \in Attempts : Claimable(a) /\ (Rested(a) \/ a \in edge)})
<1>2. \A a \in first : a \in Attempts /\ kind[a] \in Due
  BY DEF First, Claimable
<1> HIDE DEF first
<1>3. LeaseFor \in 0..LeaseFor /\ 0 \in 0..LookupFor
  BY Constants
<1>4. {[attempt |-> a, kind |-> kind[a], for |-> 0, last |-> FALSE] : a \in first}
        \subseteq Candidate
  <2>1. \A a \in first : [attempt |-> a, kind |-> kind[a], for |-> 0, last |-> FALSE] \in Candidate
    BY <1>2, <1>3 DEF Candidate
  <2> QED
    BY <2>1
<1> QED
  BY <1>1, <1>3, <1>4 DEF first, TypeOK

LEMMA PassTypes ==
  ASSUME TypeOK, NEW i \in Instances, Pass(i)
  PROVE  TypeOK'
<1>1. /\ timer' \in [Instances -> 0..PassEvery]
      /\ UNCHANGED <<kind, waiting, rest, silent, poll, crashes>>
  BY Constants DEF Pass, TypeOK
<1>2. lease' \in [Attempts -> 0..LeaseFor] /\ work' \in [Instances -> SUBSET Candidate]
  BY ClaimTypes DEF Pass, TypeOK
<1> QED
  BY <1>1, <1>2 DEF TypeOK

LEMMA WorkTypes ==
  ASSUME TypeOK, NEW i \in Instances, NEW c \in work[i],
         LookUp(i, c) \/ CloseSilent(i, c) \/ ClearLease(i, c)
  PROVE  TypeOK'
<1>1. c \in Candidate /\ c.attempt \in Attempts /\ UNCHANGED <<timer, poll, crashes>>
  BY DEF TypeOK, Candidate, LookUp, CloseSilent, ClearLease
<1>4. CASE LookUp(i, c)
  <2>1. RowsOK'
    BY <1>1, <1>4, ReconcileTypes DEF LookUp
  <2>2. work' \in [Instances -> SUBSET Candidate]
    BY <1>4 DEF LookUp, Finish, TypeOK
  <2> QED
    BY <1>1, <2>1, <2>2, TypeParts DEF PassesOK, RowsOK, TypeOK
<1>5. CASE CloseSilent(i, c)
  <2>1. RowsOK'
    BY <1>1, <1>5, SameRows, SilenceTypes DEF CloseSilent
  <2>2. [c EXCEPT !.last = TRUE] \in Candidate
    BY <1>1 DEF Candidate
  <2>3. work' \in [Instances -> SUBSET Candidate]
    BY <1>5, <2>2 DEF CloseSilent, TypeOK
  <2> QED
    BY <1>1, <2>1, <2>3, TypeParts DEF PassesOK, RowsOK, TypeOK
<1>6. CASE ClearLease(i, c)
  <2>1. RowsOK'
    <3>1. Reconcile(c.attempt)
      BY <1>6 DEF ClearLease, Release, Reconcile
    <3> QED
      BY <1>1, <3>1, ReconcileTypes
  <2>2. work' \in [Instances -> SUBSET Candidate]
    BY <1>6 DEF ClearLease, Finish, TypeOK
  <2> QED
    BY <1>1, <2>1, <2>2, TypeParts DEF PassesOK, RowsOK, TypeOK
<1> QED
  BY <1>4, <1>5, <1>6

LEMMA TickTypes ==
  ASSUME TypeOK, Tick
  PROVE  TypeOK'
<1>1. UNCHANGED <<kind, waiting, crashes>>
  BY DEF Tick
<1>2. /\ rest' \in [Attempts -> 0..RestFor + 1] /\ lease' \in [Attempts -> 0..LeaseFor]
      /\ silent' \in [Attempts -> 0..StaleAfter]
  BY Constants DEF Tick, TypeOK, Rested, Silent
<1>3. timer' \in [Instances -> 0..PassEvery]
  BY Constants DEF Tick, TypeOK
<1>4. work' \in [Instances -> SUBSET Candidate]
  <2>1. ASSUME NEW i \in Instances, NEW c \in work[i]
        PROVE  [c EXCEPT !.for = @ + 1] \in Candidate
    <3>1. c \in Candidate /\ c.for < LookupFor
      BY <2>1 DEF Tick, TypeOK
    <3>2. c.for + 1 \in 0..LookupFor
      BY <3>1, Constants DEF Candidate
    <3> QED
      BY <3>1, <3>2 DEF Candidate
  <2> QED
    BY <2>1 DEF Tick
<1>5. poll' \in [Clients -> SUBSET Lookup]
  <2>1. ASSUME NEW q \in Clients, NEW l \in poll[q]
        PROVE  [l EXCEPT !.for = @ + 1] \in Lookup
    <3>1. l \in Lookup /\ l.for < LookupFor
      BY <2>1 DEF Tick, TypeOK
    <3>2. l.for + 1 \in 0..LookupFor
      BY <3>1, Constants DEF Lookup
    <3> QED
      BY <3>1, <3>2 DEF Lookup
  <2> QED
    BY <2>1 DEF Tick
<1> QED
  BY <1>1, <1>2, <1>3, <1>4, <1>5 DEF TypeOK

LEMMA PollTypes ==
  ASSUME TypeOK, NEW q \in Clients, EndPoll(q) \/ \E a \in Attempts : StartPoll(q, a)
  PROVE  TypeOK'
<1>1. CASE EndPoll(q)
  <2>1. PICK l \in poll[q] : Reconcile(l.attempt)
    BY <1>1 DEF EndPoll
  <2>2. l.attempt \in Attempts
    BY DEF TypeOK, Lookup
  <2>3. RowsOK'
    BY <2>1, <2>2, ReconcileTypes
  <2>4. poll' \in [Clients -> SUBSET Lookup]
    BY <1>1 DEF EndPoll, TypeOK
  <2> QED
    BY <1>1, <2>3, <2>4, TypeParts DEF EndPoll, PassesOK, RowsOK, TypeOK
<1>2. ASSUME NEW a \in Attempts, StartPoll(q, a) PROVE TypeOK'
  <2>1. [attempt |-> a, for |-> 0] \in Lookup
    BY Constants DEF Lookup
  <2>2. poll' \in [Clients -> SUBSET Lookup]
    BY <1>2, <2>1 DEF StartPoll, TypeOK
  <2> QED
    BY <1>2, <2>2 DEF StartPoll, rows, TypeOK
<1> QED
  BY <1>1, <1>2

LEMMA NextTypes ==
  ASSUME TypeOK, [Next]_vars
  PROVE  TypeOK'
<1>1. ASSUME NEW a \in Attempts, Report(a) \/ DispatchFails(a) PROVE TypeOK'
  <2>1. RowsOK'
    BY <1>1, ApplyTypes, ResolveTypes, SilenceTypes DEF Report, DispatchFails, Due
  <2> QED
    BY <1>1, <2>1, TypeParts DEF Report, DispatchFails, PassesOK, RowsOK, TypeOK
<1>2. ASSUME NEW i \in Instances, Crash(i) PROVE TypeOK'
  <2>1. /\ crashes' \in 0..MaxCrashes /\ timer' \in [Instances -> 0..PassEvery]
        /\ work' \in [Instances -> SUBSET Candidate]
    BY <1>2, Constants, ReconcilerConstants DEF Crash, TypeOK
  <2>2. poll' \in [Clients -> SUBSET Lookup]
    BY <1>2 DEF Crash, TypeOK
  <2> QED
    BY <1>2, <2>1, <2>2, SameRows DEF Crash, RowsOK, TypeOK
<1>3. ASSUME NEW i \in Instances, Work(i) PROVE TypeOK'
  BY <1>3, WorkTypes DEF Work
<1>4. CASE UNCHANGED vars
  BY <1>4 DEF vars, TypeOK
<1> QED
  BY <1>1, <1>2, <1>3, <1>4, OpenTypes, PollTypes, PassTypes, TickTypes DEF Next

(***************************************************************************)
(* Every unresolved attempt waits exactly once, and nobody else does, so   *)
(* that ORDER BY with LIMIT has one answer; times keep to their bounds     *)
(* (claimReconciliationCandidates, clearReconciliationAfterFailure).       *)
(***************************************************************************)
THEOREM ReconcilerTypes == Spec => []TypeOK
<1>1. Init => TypeOK
  <2>1. SUFFICES ASSUME Init PROVE TypeOK
    OBVIOUS
  <2>2. waiting = <<>> /\ <<>> \in Seq(Attempts) /\ DOMAIN <<>> = {}
    BY <2>1 DEF Init
  <2>3. IsInjective(waiting) /\ ToSet(waiting) = {a \in Attempts : kind[a] \in Due}
    BY <2>1, <2>2 DEF Init, IsInjective, ToSet, Due
  <2> QED
    BY <2>1, <2>2, <2>3, Constants, ReconcilerConstants DEF Init, TypeOK, Kind
<1>2. TypeOK /\ [Next]_vars => TypeOK'
  BY NextTypes
<1> QED
  BY <1>1, <1>2, PTL DEF Spec

(***************************************************************************)
(* No two passes look the same attempt up at once, for any number of       *)
(* instances, attempts and polling clients: the lease outlives the lookup  *)
(* it was taken for, and whoever clears it in the meantime, a poll         *)
(* without a lease of its own included, leaves the attempt to rest for     *)
(* longer than what is left of the lookup (claimReconciliationCandidates,  *)
(* getAttempt).                                                            *)
(***************************************************************************)
THEOREM PassesNeverMeet == Spec => []PassesLookUpApart
<1>1. LookUpInv => PassesLookUpApart
  BY DEF LookUpInv
<1> QED
  BY <1>1, LookUpInit, LookUpNext, ReconcilerTypes, PTL DEF Spec
=============================================================================
