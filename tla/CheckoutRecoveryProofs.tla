----------------------- MODULE CheckoutRecoveryProofs -----------------------
(***************************************************************************)
(* Theorems of CheckoutRecovery, for any number of keys, orders and page   *)
(* loads: no checkout is orphaned, and no key is used for a second order.  *)
(*                                                                         *)
(* NeverOrphaned is not inductive: it says nothing of the requests on the  *)
(* network.  What an awaited request asks about must be the stored key, or *)
(* its answer would clear another command's key; and a creation nobody     *)
(* waits for must still be covered when the API handles it at last.        *)
(***************************************************************************)
EXTENDS CheckoutRecovery, TLAPS

AwaitedIsStored == \A r \in requests : r.page = page => r.key = stored

OneAwaited == \A r, s \in requests : r.page = page /\ s.page = page => r = s

NoLaterPage == \A r \in requests : r.page <= page

PendingIsCovered ==
  \A r \in requests : r.step = "create" /\ r.answer = "NONE" =>
    r.key = stored \/ r.key \in opened \/ records[r.key] = "REDACTED"

GoneIsRedacted == \A r \in requests : r.answer = "GONE" => records[r.key] = "REDACTED"

RecoveryInv ==
  /\ TypeOK /\ NeverOrphaned /\ SpentKeysStaySpent
  /\ AwaitedIsStored /\ OneAwaited /\ NoLaterPage
  /\ PendingIsCovered /\ GoneIsRedacted

\* A new request has the type of one.
LEMMA NewRequestType ==
  ASSUME NEW step \in Steps, NEW k \in Keys, NEW d \in Details \cup {"NONE"},
         page \in 1..MaxPages, MaxPages \in Nat
  PROVE  NewRequest(step, k, d) \in Request
BY DEF NewRequest, Request

LEMMA RecoveryInit == Init => RecoveryInv
BY CheckoutRecoveryConstants
DEF Init, RecoveryInv, TypeOK, NeverOrphaned, SpentKeysStaySpent, AwaitedIsStored,
    OneAwaited, NoLaterPage, PendingIsCovered, GoneIsRedacted
-----------------------------------------------------------------------------
\* Facts of the invariant that every step uses.
LEMMA Facts ==
  ASSUME RecoveryInv
  PROVE  /\ MaxPages \in Nat /\ page \in Nat \ {0} /\ requests \in SUBSET Request
         /\ "NONE" \notin Keys /\ "NONE" \notin Details /\ "REDACTED" \notin Details
BY CheckoutRecoveryConstants DEF RecoveryInv, TypeOK

\* The page waits for one request, and that one is about the stored key.
LEMMA TheAwaited ==
  ASSUME RecoveryInv, NEW r \in Awaited
  PROVE  /\ Awaited = {r} /\ r \in requests /\ r \in Request
         /\ r.key = stored /\ stored \in Keys
<1>1. r \in requests /\ r \in Request /\ r.key = stored
  BY Facts DEF RecoveryInv, Awaited, AwaitedIsStored
<1>2. Awaited = {r}
  BY DEF RecoveryInv, Awaited, OneAwaited
<1>. QED
  BY <1>1, <1>2 DEF Request

\* What stays on the network when the page stops waiting keeps the invariant's
\* clauses about requests.
LEMMA UnawaitedRequests ==
  ASSUME RecoveryInv, NEW q \in Unawaited
  PROVE  /\ q \in Request /\ q.page # page /\ q.page <= page
         /\ q.step = "create" /\ q.answer = "NONE" =>
              q.key = stored \/ q.key \in opened \/ records[q.key] = "REDACTED"
         /\ q.answer = "GONE" => records[q.key] = "REDACTED"
<1>1. CASE q \in requests \ Awaited
  BY <1>1, Facts DEF RecoveryInv, Awaited, NoLaterPage, PendingIsCovered, GoneIsRedacted
<1>2. CASE q \notin requests \ Awaited
  <2>1. PICK s \in Awaited : s.answer = "NONE" /\ q = [s EXCEPT !.page = 0]
    BY <1>2 DEF Unawaited
  <2>2. s \in Request /\ s.key = stored
    BY TheAwaited
  <2>3. q \in Request /\ q.page = 0 /\ q.answer = "NONE" /\ q.key = stored
    BY <2>1, <2>2, Facts DEF Request
  <2>. QED
    BY <2>3, Facts
<1>. QED
  BY <1>1, <1>2
-----------------------------------------------------------------------------
LEMMA SubmitKeeps ==
  ASSUME RecoveryInv, NEW d \in Details, Submit(d)
  PROVE  RecoveryInv'
<1>1. PICK k \in CommandKey : /\ stored' = k
                             /\ requests' = requests \cup {NewRequest("create", k, d)}
  BY DEF Submit
<1>2. k \in Keys /\ k \notin opened /\ (stored # "NONE" => k = stored)
  BY <1>1, Facts DEF CommandKey, Used, RecoveryInv, TypeOK, SpentKeysStaySpent
<1>3. NewRequest("create", k, d) \in Request
  BY <1>2, Facts, NewRequestType DEF Steps, RecoveryInv, TypeOK
<1>4. UNCHANGED <<records, url, page, checked, opened>> /\ Awaited = {}
  BY DEF Submit
<1>5. TypeOK'
  BY <1>1, <1>2, <1>3, <1>4 DEF RecoveryInv, TypeOK
<1>6. NeverOrphaned' /\ SpentKeysStaySpent'
  BY <1>1, <1>2, <1>4, Facts DEF RecoveryInv, NeverOrphaned, SpentKeysStaySpent, TypeOK
<1>7. AwaitedIsStored' /\ OneAwaited' /\ NoLaterPage'
  BY <1>1, <1>4, Facts DEF RecoveryInv, AwaitedIsStored, OneAwaited, NoLaterPage,
     Awaited, NewRequest
<1>8. PendingIsCovered' /\ GoneIsRedacted'
  BY <1>1, <1>2, <1>4, Facts DEF RecoveryInv, PendingIsCovered, GoneIsRedacted,
     NewRequest, Request, TypeOK
<1>. QED
  BY <1>5, <1>6, <1>7, <1>8 DEF RecoveryInv

\* The page stops waiting and its key, if it is given up, is covered otherwise.
LEMMA WaitEnds ==
  ASSUME RecoveryInv, requests' = Unawaited, records' = records,
         page' \in 1..MaxPages, page' >= page, \A q \in Unawaited : q.page # page',
         url' \in Keys \cup {"NONE"}, checked' \in BOOLEAN,
         opened' \in SUBSET Keys, opened \subseteq opened',
         stored' \in {stored, "NONE"}, stored' \notin opened',
         stored' # stored => stored \in opened' \/ records[stored] = "REDACTED"
  PROVE  RecoveryInv'
<1>1. TypeOK'
  BY UnawaitedRequests DEF RecoveryInv, TypeOK
<1>2. AwaitedIsStored' /\ OneAwaited'
  BY DEF AwaitedIsStored, OneAwaited
<1>3. NoLaterPage'
  <2>. SUFFICES ASSUME NEW q \in Unawaited PROVE q.page <= page'
    BY DEF NoLaterPage
  <2>. QED
    BY UnawaitedRequests, Facts DEF Request
<1>4. PendingIsCovered' /\ GoneIsRedacted'
  BY UnawaitedRequests DEF PendingIsCovered, GoneIsRedacted
<1>5. NeverOrphaned'
  BY Facts DEF RecoveryInv, NeverOrphaned
<1>6. SpentKeysStaySpent'
  BY DEF SpentKeysStaySpent
<1>. QED
  BY <1>1, <1>2, <1>3, <1>4, <1>5, <1>6 DEF RecoveryInv

\* The page stops waiting to ask for the stored command instead.
LEMMA AskAgain ==
  ASSUME RecoveryInv, NEW step \in {"recover", "mount"}, stored \in Keys,
         requests' = Unawaited \cup {NewRequest(step, stored, "NONE")},
         UNCHANGED <<records, tab>>
  PROVE  RecoveryInv'
<1>. DEFINE n == NewRequest(step, stored, "NONE")
<1>1. /\ n \in Request /\ n.key = stored /\ n.page = page
      /\ n.step # "create" /\ n.answer = "NONE"
  BY Facts, NewRequestType DEF Steps, NewRequest, RecoveryInv, TypeOK
<1>2. /\ UNCHANGED <<records, stored, url, page, checked, opened>>
      /\ requests' = Unawaited \cup {n}
  BY DEF tab
<1>. HIDE DEF n
<1>3. TypeOK'
  BY <1>1, <1>2, UnawaitedRequests DEF RecoveryInv, TypeOK
<1>4. AwaitedIsStored' /\ OneAwaited'
  BY <1>1, <1>2, UnawaitedRequests DEF AwaitedIsStored, OneAwaited
<1>5. NoLaterPage'
  BY <1>1, <1>2, UnawaitedRequests, Facts DEF NoLaterPage
<1>6. PendingIsCovered' /\ GoneIsRedacted'
  BY <1>1, <1>2, UnawaitedRequests DEF PendingIsCovered, GoneIsRedacted
<1>7. NeverOrphaned' /\ SpentKeysStaySpent'
  BY <1>2 DEF RecoveryInv, NeverOrphaned, SpentKeysStaySpent
<1>. QED
  BY <1>3, <1>4, <1>5, <1>6, <1>7 DEF RecoveryInv
-----------------------------------------------------------------------------
LEMMA TabKeeps ==
  ASSUME RecoveryInv,
         \/ Await \/ RecoverOnMount \/ Reload
  PROVE  RecoveryInv'
<1>1. ASSUME NEW r \in requests, CheckoutCreated(r) PROVE RecoveryInv'
  <2>1. r \in Awaited /\ requests' = Unawaited /\ UNCHANGED <<records, page>>
    BY <1>1 DEF CheckoutCreated
  <2>2. r.key = stored /\ stored \in Keys
    BY <2>1, TheAwaited
  <2>3. /\ stored' = "NONE" /\ url' = stored /\ checked' = TRUE
        /\ opened' = opened \cup {stored}
    BY <1>1, <2>2 DEF CheckoutCreated, OpenCheckout
  <2>. QED
    BY <2>1, <2>2, <2>3, Facts, UnawaitedRequests, WaitEnds DEF RecoveryInv, TypeOK
<1>2. ASSUME NEW r \in requests, CreationFails(r) PROVE RecoveryInv'
  BY <1>2, TheAwaited, AskAgain DEF CreationFails
<1>3. ASSUME NEW r \in requests, NEW a \in {r.answer, "NONE"}, RecoveryAnswered(r, a)
      PROVE  RecoveryInv'
  <2>1. /\ r \in Awaited /\ requests' = Unawaited /\ UNCHANGED <<records, page>>
        /\ stored' = IF a \in {"OPENED", "GONE"} THEN "NONE" ELSE stored
    BY <1>3 DEF RecoveryAnswered, ForgetKey
  <2>2. r.key = stored /\ stored \in Keys /\ r \in requests
    BY <2>1, TheAwaited
  <2>3. checked' \in BOOLEAN
    BY <1>3 DEF RecoveryAnswered, OpenCheckout, Settled
  <2>4. CASE a = "OPENED"
    <3>1. url' = stored /\ opened' = opened \cup {stored} /\ stored' = "NONE"
      BY <1>3, <2>1, <2>2, <2>4 DEF RecoveryAnswered, OpenCheckout
    <3>. QED
      BY <2>1, <2>2, <2>3, <3>1, Facts, UnawaitedRequests, WaitEnds DEF RecoveryInv, TypeOK
  <2>5. CASE a # "OPENED"
    <3>1. url' = url /\ opened' = opened
      BY <1>3, <2>5 DEF RecoveryAnswered
    <3>2. stored' # stored => records[stored] = "REDACTED"
      BY <2>1, <2>2, <2>5 DEF RecoveryInv, GoneIsRedacted
    <3>3. stored' \in {stored, "NONE"} /\ stored' \notin opened'
      BY <2>1, <3>1, Facts DEF RecoveryInv, TypeOK, SpentKeysStaySpent
    <3>. QED
      BY <2>1, <2>3, <3>1, <3>2, <3>3, Facts, UnawaitedRequests, WaitEnds
      DEF RecoveryInv, TypeOK
  <2>. QED
    BY <2>4, <2>5
<1>4. CASE RecoverOnMount
  BY <1>4, AskAgain DEF RecoverOnMount, RecoveryInv, TypeOK
<1>5. ASSUME NEW to \in {url, "NONE"} \cup opened, Load(to) PROVE RecoveryInv'
  <2>1. /\ requests' = Unawaited /\ UNCHANGED <<records, stored, opened>>
        /\ page < MaxPages /\ page' = page + 1 /\ url' = to
        /\ checked' = (to # "NONE" \/ stored = "NONE")
    BY <1>5 DEF Load
  <2>2. \A q \in Unawaited : q.page # page'
    BY <2>1, Facts, UnawaitedRequests DEF Request
  <2>3. page' \in 1..MaxPages /\ page' >= page
    BY <2>1, Facts
  <2>. QED
    BY <2>1, <2>2, <2>3, WaitEnds DEF RecoveryInv, TypeOK, SpentKeysStaySpent
<1>. QED
  BY <1>1, <1>2, <1>3, <1>4, <1>5 DEF Await, Reload

LEMMA BrowseKeeps == RecoveryInv /\ BrowseCatalog => RecoveryInv'
BY DEF BrowseCatalog, RecoveryInv, TypeOK, NeverOrphaned, SpentKeysStaySpent, AwaitedIsStored,
       OneAwaited, NoLaterPage, PendingIsCovered, GoneIsRedacted

\* The API answers a request: every other request stays, and the answered one
\* keeps its key and its page, or is dropped.
LEMMA ReplyFacts ==
  ASSUME RecoveryInv, NEW r \in requests, NEW a \in Answers, Reply(r, a)
  PROVE  \A q \in requests' :
           \/ q \in requests /\ q # r
           \/ q \in Request /\ q.key = r.key /\ q.page = r.page /\ q.answer = a
<1>1. r \in Request
  BY Facts
<1>. QED
  BY <1>1 DEF Reply, Request

LEMMA CreateKeeps ==
  ASSUME RecoveryInv, NEW r \in requests, Create(r)
  PROVE  RecoveryInv'
<1>1. /\ r \in Request /\ r.key \in Keys /\ r.step = "create" /\ r.answer = "NONE"
      /\ UNCHANGED <<stored, url, page, checked, opened>>
  BY Facts DEF Create, tab, Request
<1>2. PICK a \in Answers :
        /\ Reply(r, a)
        /\ a = "GONE" => records' = records /\ records[r.key] = "REDACTED"
        /\ \/ records' = records
           \/ /\ records[r.key] = "NONE"
              /\ records' = [records EXCEPT ![r.key] = r.details]
  BY DEF Create, Answers
<1>3. \A k \in Keys : records[k] = "REDACTED" => records'[k] = "REDACTED"
  BY <1>1, <1>2 DEF RecoveryInv, TypeOK
<1>4. TypeOK'
  BY <1>1, <1>2, ReplyFacts, Facts DEF RecoveryInv, TypeOK, Request
<1>5. NeverOrphaned'
  BY <1>1, <1>2, Facts DEF RecoveryInv, TypeOK, NeverOrphaned, PendingIsCovered
<1>6. AwaitedIsStored' /\ NoLaterPage'
  BY <1>1, <1>2, ReplyFacts DEF RecoveryInv, AwaitedIsStored, NoLaterPage
<1>7. OneAwaited'
  BY <1>1, <1>2 DEF RecoveryInv, OneAwaited, Reply, Request
<1>8. PendingIsCovered' /\ GoneIsRedacted'
  BY <1>1, <1>2, <1>3, ReplyFacts, Facts
  DEF RecoveryInv, PendingIsCovered, GoneIsRedacted, Answers, Request
<1>9. SpentKeysStaySpent'
  BY <1>1 DEF RecoveryInv, SpentKeysStaySpent
<1>. QED
  BY <1>4, <1>5, <1>6, <1>7, <1>8, <1>9 DEF RecoveryInv

LEMMA RecoverKeeps ==
  ASSUME RecoveryInv, NEW r \in requests, Recover(r)
  PROVE  RecoveryInv'
<1>1. r \in Request /\ UNCHANGED <<records, stored, url, page, checked, opened>>
  BY Facts DEF Recover, tab
<1>2. PICK a \in Answers : Reply(r, a) /\ (a = "GONE" => records[r.key] = "REDACTED")
  BY DEF Recover, Answers
<1>3. TypeOK' /\ NeverOrphaned' /\ SpentKeysStaySpent'
  BY <1>1, <1>2, ReplyFacts, Facts
  DEF RecoveryInv, TypeOK, NeverOrphaned, SpentKeysStaySpent
<1>4. AwaitedIsStored' /\ NoLaterPage'
  BY <1>1, <1>2, ReplyFacts DEF RecoveryInv, AwaitedIsStored, NoLaterPage
<1>5. OneAwaited'
  BY <1>1, <1>2 DEF RecoveryInv, OneAwaited, Reply, Request
<1>6. PendingIsCovered' /\ GoneIsRedacted'
  BY <1>1, <1>2, ReplyFacts DEF RecoveryInv, PendingIsCovered, GoneIsRedacted, Answers
<1>. QED
  BY <1>3, <1>4, <1>5, <1>6 DEF RecoveryInv

LEMMA RedactKeeps ==
  ASSUME RecoveryInv, NEW k \in Keys, Redact(k)
  PROVE  RecoveryInv'
<1>1. /\ records' = [records EXCEPT ![k] = "REDACTED"]
      /\ UNCHANGED <<requests, stored, url, page, checked, opened>>
  BY DEF Redact, tab
<1>2. TypeOK' /\ NeverOrphaned' /\ SpentKeysStaySpent'
  BY <1>1, Facts DEF RecoveryInv, TypeOK, NeverOrphaned, SpentKeysStaySpent
<1>3. AwaitedIsStored' /\ OneAwaited' /\ NoLaterPage'
  BY <1>1 DEF RecoveryInv, AwaitedIsStored, OneAwaited, NoLaterPage
<1>4. PendingIsCovered' /\ GoneIsRedacted'
  BY <1>1, Facts DEF RecoveryInv, TypeOK, PendingIsCovered, GoneIsRedacted, Request
<1>. QED
  BY <1>2, <1>3, <1>4 DEF RecoveryInv
-----------------------------------------------------------------------------
\* No step of the tab, the network or the API breaks the invariant.
THEOREM RecoveryInvariant == Spec => []RecoveryInv
<1>1. RecoveryInv /\ [Next]_vars => RecoveryInv'
  <2>. SUFFICES ASSUME RecoveryInv, [Next]_vars PROVE RecoveryInv'
    OBVIOUS
  <2>1. CASE Next
    BY <2>1, SubmitKeeps, TabKeeps, BrowseKeeps, CreateKeeps, RecoverKeeps, RedactKeeps DEF Next
  <2>2. CASE UNCHANGED vars
    BY <2>2
    DEF vars, RecoveryInv, TypeOK, NeverOrphaned, SpentKeysStaySpent, AwaitedIsStored,
        OneAwaited, NoLaterPage, PendingIsCovered, GoneIsRedacted
  <2>. QED
    BY <2>1, <2>2
<1>. QED
  BY <1>1, RecoveryInit, PTL DEF Spec

\* The tab's storage and page, the requests and the API's records keep their types.
THEOREM RecoveryTypes == Spec => []TypeOK
BY RecoveryInvariant, PTL DEF RecoveryInv

\* The tab never loses a checkout that holds units (App.tsx: submitCheckout and
\* the recovery effect clear the key only on an answer that settles it).
THEOREM NoOrphans == Spec => []NeverOrphaned
BY RecoveryInvariant, PTL DEF RecoveryInv

\* A stored key is never that of a checkout the tab has shown.
THEOREM KeysAreSpent == Spec => []SpentKeysStaySpent
BY RecoveryInvariant, PTL DEF RecoveryInv
=============================================================================
