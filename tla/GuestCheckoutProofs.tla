------------------------ MODULE GuestCheckoutProofs ------------------------
(***************************************************************************)
(* Theorems of GuestCheckout, for any sessions, requests, keys and terms:  *)
(* a command key opens one checkout, sessions keep their checkouts, only a *)
(* retry outlives a redaction, and answers are faithful.                   *)
(*                                                                         *)
(* None of these is inductive.  A second claim of a command key would open *)
(* a second checkout (OneClaim); a cookie that was never issued would open *)
(* one without a session (CookiesWereIssued); and a first payment could    *)
(* write a fingerprint back if a redacted checkout could still be held,    *)
(* which the age of a redacted checkout excludes (RedactedIsOld) unless an *)
(* attempt that failed prolonged the hold (ProlongedByFailure).            *)
(***************************************************************************)
EXTENDS GuestCheckout, FiniteSetTheorems, TLAPS

\* A request carries what its operation needs, and is answered only at its end.
CommandsAreWhole ==
  \A r \in Requests :
    /\ req[r].op \in {"create", "recover"} => req[r].key \in Keys
    /\ req[r].op = "pay" => req[r].key \in PaymentKeys
    /\ req[r].op \in {"create", "pay"} => req[r].payload \in Payloads
    /\ req[r].op = "pay" => req[r].of \in Requests
    /\ req[r].at \in {"IN", "CLAIMED", "READ"} => req[r].cookie \in Sessions
    /\ req[r].answer = "OPENED" => req[r].at = "DONE"

CookiesWereIssued ==
  \A r \in Requests : req[r].cookie \in Sessions => until[req[r].cookie] # Unissued

\* A checkout is that of an answered request.
OpenedIsAnswered == \A r \in Requests : r \in Opened => req[r].at = "DONE"

OneClaim ==
  \A q, r \in Requests :
    /\ At(q, "create", "CLAIMED") /\ At(r, "create", "CLAIMED")
    /\ req[q].cookie = req[r].cookie /\ req[q].key = req[r].key
    => q = r

\* A request past its first read is about a checkout of its session, a recovery about
\* that of its command.
ReadIsOwn ==
  \A r \in Requests :
    /\ At(r, "pay", "READ") =>
         req[r].of \in Opened /\ checkout[req[r].of].session = req[r].cookie
    /\ At(r, "recover", "FOUND") =>
         req[r].of \in Opened /\ checkout[req[r].of].key = req[r].key

RedactedIsOld == \A c \in Opened : checkout[c].print = "REDACTED" => Old(c)

\* A hold longer than its first term was prolonged by an attempt that failed, and whose
\* fingerprint is gone once the checkout is redacted.
ProlongedByFailure ==
  \A c \in Opened :
    \/ checkout[c].due <= checkout[c].since + HoldFor
    \/ \E k \in InState(c, {"FAILED", "CLOSED"}) :
         checkout[c].print = "REDACTED" => checkout[c].attempt[k].print = "REDACTED"

\* OneCheckoutPerCommand, without the sets it is stated with.
CommandsDiffer ==
  /\ \A b, c \in Opened :
       checkout[b].session = checkout[c].session /\ checkout[b].key = checkout[c].key => b = c
  /\ \A r \in Requests, c \in Opened : At(r, "create", "CLAIMED") =>
       ~(checkout[c].session = req[r].cookie /\ checkout[c].key = req[r].key)

GuestInv ==
  /\ TypeOK /\ CommandsAreWhole /\ CookiesWereIssued
  /\ OpenedIsAnswered /\ OneClaim /\ ReadIsOwn /\ RedactedIsOld
  /\ CommandsDiffer /\ SessionsKeepTheirCheckouts
  /\ OnlyRetriesOutliveRedaction /\ ProlongedByFailure

\* What the constants are assumed to be.
LEMMA Terms ==
  /\ HoldFor \in Nat /\ RetryFor \in Nat /\ SessionFor \in Nat /\ RetainFor \in Nat /\ BatchSize \in Nat
  /\ HoldFor < RetainFor /\ MaxDay \in Nat /\ MaxFailures \in Nat
BY GuestCheckoutConstants

LEMMA LongerTerm ==
  ASSUME NEW a \in Int, NEW b \in Int, NEW t \in Int, a <= b, NEW n \in 0..(a + t)
  PROVE  n \in 0..(b + t)
OBVIOUS

LEMMA UnsentType == Unsent \in Request
BY Terms DEF Unsent, Request, Stages, Answers

LEMMA GuestInit == Init => GuestInv
<1>. SUFFICES ASSUME Init PROVE GuestInv
  OBVIOUS
<1>1. TypeOK
  <2>1. Unsent \in Request
    BY UnsentType
  <2>2. day \in 0..MaxDay /\ failures \in 0..MaxFailures
    BY Terms DEF Init
  <2>3. \A s \in Sessions : until[s] \in {Unissued, SessionFor}
    BY DEF Init
  <2>4. SessionFor \in 0..(day + SessionFor)
    BY Terms DEF Init
  <2>5. until \in [Sessions -> {Unissued, Deleted} \cup 0..(day + SessionFor)]
    BY <2>3, <2>4 DEF Init
  <2>. QED
    BY <2>1, <2>2, <2>5 DEF Init, TypeOK
<1>2. Opened = {} /\ \A r \in Requests : req[r] = Unsent
  BY DEF Init, Opened
<1>3. CommandsAreWhole /\ CookiesWereIssued /\ OneClaim /\ ReadIsOwn
  BY <1>2, GuestCheckoutConstants
  DEF CommandsAreWhole, CookiesWereIssued, OneClaim, ReadIsOwn, At, Unsent
<1>4. /\ OpenedIsAnswered /\ RedactedIsOld /\ CommandsDiffer
      /\ OnlyRetriesOutliveRedaction /\ ProlongedByFailure
  BY <1>2 DEF OpenedIsAnswered, RedactedIsOld, CommandsDiffer, OnlyRetriesOutliveRedaction,
     ProlongedByFailure
<1>5. SessionsKeepTheirCheckouts
  BY <1>2 DEF SessionsKeepTheirCheckouts, Owns, LockedByClaim, At, Unsent
<1>. QED
  BY <1>1, <1>3, <1>4, <1>5 DEF GuestInv
-----------------------------------------------------------------------------
\* An answered request has the type of one and asks for nothing any more.
LEMMA Answered ==
  ASSUME NEW a \in Answers, NEW c \in Requests \cup {"NONE"}
  PROVE  /\ Done(a, c) \in Request
         /\ Done(a, c).op = "NONE" /\ Done(a, c).cookie = "NONE" /\ Done(a, c).at = "DONE"
         /\ Done(a, c).answer = a /\ Done(a, c).of = c
BY UnsentType DEF Done, Unsent, Request, Stages

\* What request r may turn into without anything else changing.
MayBecome(r, q) ==
  /\ req[r].at = "DONE" \/ r \in Opened => q.at = "DONE"
  /\ q.op \in {"create", "recover"} => q.key \in Keys
  /\ q.op = "pay" => q.key \in PaymentKeys
  /\ q.op \in {"create", "pay"} => q.payload \in Payloads
  /\ q.op = "pay" => q.of \in Requests
  /\ q.at \in {"IN", "CLAIMED", "READ"} => q.cookie \in Sessions
  /\ q.answer = "OPENED" => q.at = "DONE"
  /\ q.cookie \in Sessions => until[q.cookie] # Unissued
  /\ q.op = "create" /\ q.at = "CLAIMED" =>
       /\ until[q.cookie] # Deleted
       /\ Recorded(q.cookie, q.key) = {}
       /\ \A p \in Requests \ {r} :
            At(p, "create", "CLAIMED") => ~(req[p].cookie = q.cookie /\ req[p].key = q.key)
  /\ q.op = "pay" /\ q.at = "READ" =>
       q.of \in Opened /\ checkout[q.of].session = q.cookie
  /\ q.op = "recover" /\ q.at = "FOUND" =>
       q.of \in Opened /\ checkout[q.of].key = q.key

\* Sessions may be created, and deleted while nothing refers to them.
SessionsMoveOn ==
  /\ until' \in [Sessions -> {Unissued, Deleted} \cup 0..(day + SessionFor)]
  /\ \A s \in Sessions :
       /\ until[s] # Unissued => until'[s] # Unissued
       /\ Owns(s) \/ LockedByClaim(s) => until'[s] = until[s]

\* A step that moves one request, and sessions unless it claims a key.
LEMMA RequestOrSessionMoves ==
  ASSUME GuestInv, NEW r \in Requests, NEW q \in Request, MayBecome(r, q), SessionsMoveOn,
         q.at = "CLAIMED" => until' = until,
         req' = [req EXCEPT ![r] = q], UNCHANGED <<day, checkout, running, failures>>
  PROVE  GuestInv'
<1>. USE DEF GuestInv, MayBecome
<1>1. req' \in [Requests -> Request] /\ req'[r] = q /\ \A p \in Requests \ {r} : req'[p] = req[p]
  BY DEF TypeOK
<1>2. TypeOK'
  BY <1>1 DEF TypeOK, SessionsMoveOn
<1>3. CommandsAreWhole'
  BY <1>1 DEF CommandsAreWhole
<1>4. CookiesWereIssued'
  BY <1>1 DEF CookiesWereIssued, SessionsMoveOn
<1>5. Opened' = Opened
  BY DEF Opened
<1>6. OpenedIsAnswered'
  BY <1>1, <1>5 DEF OpenedIsAnswered
<1>7. OneClaim'
  BY <1>1 DEF OneClaim, At
<1>8. ReadIsOwn'
  BY <1>1, <1>5 DEF ReadIsOwn, At
<1>9. RedactedIsOld' /\ OnlyRetriesOutliveRedaction' /\ ProlongedByFailure'
  BY <1>5 DEF RedactedIsOld, Old, OnlyRetriesOutliveRedaction, RetriedAfterRedaction,
     ProlongedByFailure, InState
<1>10. CommandsDiffer'
  BY <1>1, <1>5 DEF CommandsDiffer, At, Recorded
<1>11. SessionsKeepTheirCheckouts'
  <2>. SUFFICES ASSUME NEW s \in Sessions, Owns(s)' \/ LockedByClaim(s)' PROVE until'[s] >= 0
    BY DEF SessionsKeepTheirCheckouts
  <2>1. CASE Owns(s)'
    BY <2>1, <1>5 DEF SessionsKeepTheirCheckouts, Owns, SessionsMoveOn
  <2>2. CASE LockedByClaim(s)'
    <3>1. PICK p \in Requests : At(p, "create", "CLAIMED")' /\ req'[p].cookie = s
      BY <2>2 DEF LockedByClaim
    <3>2. CASE p = r
      BY <3>1, <3>2, <1>1 DEF At, TypeOK, Unissued, Deleted
    <3>3. CASE p # r
      BY <3>1, <3>3, <1>1 DEF At, SessionsKeepTheirCheckouts, LockedByClaim, SessionsMoveOn
    <3>. QED
      BY <3>2, <3>3
  <2>. QED
    BY <2>1, <2>2
<1>. QED
  BY <1>2, <1>3, <1>4, <1>6, <1>7, <1>8, <1>9, <1>10, <1>11

LEMMA RequestMoves ==
  ASSUME GuestInv, NEW r \in Requests, NEW q \in Request, MayBecome(r, q),
         req' = [req EXCEPT ![r] = q], UNCHANGED <<day, until, checkout, running, failures>>
  PROVE  GuestInv'
<1>1. SessionsMoveOn
  BY DEF SessionsMoveOn, GuestInv, TypeOK
<1>. QED
  BY <1>1, RequestOrSessionMoves
-----------------------------------------------------------------------------
\* The steps of a request that change nothing else.
LEMMA SentIsUnanswered ==
  ASSUME GuestInv, NEW r \in Requests, Send(r)
  PROVE  req'[r].answer = req[r].answer
<1>1. PICK op \in Ops, k \in CommandKeys \cup {"NONE"}, p \in Payloads \cup {"NONE"},
          c \in Opened \cup {"NONE"}, s \in {t \in Sessions : until[t] # Unissued} \cup {"NONE"} :
        /\ (op = "init") = (k = "NONE")
        /\ op \in {"create", "recover"} => k \in Keys
        /\ op = "pay" => k \in PaymentKeys
        /\ (op \in {"create", "pay"}) = (p # "NONE")
        /\ (op = "pay") = (c # "NONE")
        /\ req' = [req EXCEPT ![r] = [@ EXCEPT !.op = op, !.cookie = s, !.key = k,
                                              !.payload = p, !.of = c, !.at = "SENT"]]
  BY DEF Send
<1>2. req'[r] = [req[r] EXCEPT !.op = op, !.cookie = s, !.key = k,
                               !.payload = p, !.of = c, !.at = "SENT"]
  BY <1>1 DEF GuestInv, TypeOK
<1>3. req[r] \in Request
  BY DEF GuestInv, TypeOK
<1>. QED
  BY <1>2, <1>3 DEF Request

LEMMA SendKeeps ==
  ASSUME GuestInv, NEW r \in Requests, Send(r)
  PROVE  GuestInv'
<1>1. PICK op \in Ops, k \in CommandKeys \cup {"NONE"}, p \in Payloads \cup {"NONE"},
          c \in Opened \cup {"NONE"}, s \in {t \in Sessions : until[t] # Unissued} \cup {"NONE"} :
        /\ (op = "init") = (k = "NONE")
        /\ op \in {"create", "recover"} => k \in Keys
        /\ op = "pay" => k \in PaymentKeys
        /\ (op \in {"create", "pay"}) = (p # "NONE")
        /\ (op = "pay") = (c # "NONE")
        /\ req' = [req EXCEPT ![r] = [@ EXCEPT !.op = op, !.cookie = s, !.key = k,
                                              !.payload = p, !.of = c, !.at = "SENT"]]
  BY DEF Send
<1>. DEFINE q == [req[r] EXCEPT !.op = op, !.cookie = s, !.key = k,
                                !.payload = p, !.of = c, !.at = "SENT"]
<1>2. req[r] \in Request /\ req[r].at = "UNSENT" /\ Opened \subseteq Requests
  BY DEF GuestInv, TypeOK, Send, Opened
<1>3. /\ q \in Request /\ q.op = op /\ q.cookie = s /\ q.key = k /\ q.payload = p
      /\ q.of = c /\ q.at = "SENT" /\ q.answer = req[r].answer
  BY <1>1, <1>2 DEF Request, Stages
<1>4. UNCHANGED <<day, until, checkout, running, failures>>
  BY DEF Send
<1>5. r \notin Opened /\ req[r].answer # "OPENED"
  BY <1>2 DEF GuestInv, OpenedIsAnswered, CommandsAreWhole
<1>6. (op \in {"create", "recover"} => k \in Keys) /\ (op = "pay" => k \in PaymentKeys)
  BY <1>1
<1>7. op \in {"create", "pay"} => p \in Payloads
  BY <1>1
<1>8. op = "pay" => c \in Requests
  BY <1>1, <1>2
<1>9. s \in Sessions => until[s] # Unissued
  BY <1>1, GuestCheckoutConstants
<1>10. req' = [req EXCEPT ![r] = q]
  BY <1>1
<1>. HIDE DEF q
<1>11. MayBecome(r, q)
  BY <1>2, <1>3, <1>5, <1>6, <1>7, <1>8, <1>9 DEF MayBecome
<1>. QED
  BY <1>3, <1>4, <1>10, <1>11, RequestMoves

\* A request moves on to a stage without claiming or reading a checkout.
LEMMA StageMoves ==
  ASSUME GuestInv, NEW r \in Requests, NEW stage \in Stages, NEW d \in SUBSET Sessions,
         req' = [req EXCEPT ![r] = [@ EXCEPT !.at = stage, !.doomed = d]],
         UNCHANGED <<day, until, checkout, running, failures>>,
         req[r].at # "DONE",
         stage = "IN" => req[r].cookie \in Sessions,
         stage \in {"IN", "DELETING", "DELETED"}
  PROVE  GuestInv'
<1>. DEFINE q == [req[r] EXCEPT !.at = stage, !.doomed = d]
<1>1. req[r] \in Request
  BY DEF GuestInv, TypeOK
<1>2. /\ q \in Request /\ q.op = req[r].op /\ q.cookie = req[r].cookie /\ q.key = req[r].key
      /\ q.payload = req[r].payload /\ q.of = req[r].of /\ q.at = stage
      /\ q.answer = req[r].answer
  BY <1>1 DEF Request
<1>3. r \notin Opened /\ req[r].answer # "OPENED"
  BY DEF GuestInv, OpenedIsAnswered, CommandsAreWhole
<1>4. /\ req[r].op \in {"create", "recover"} => req[r].key \in Keys
      /\ req[r].op = "pay" => req[r].key \in PaymentKeys
      /\ req[r].op \in {"create", "pay"} => req[r].payload \in Payloads
      /\ req[r].op = "pay" => req[r].of \in Requests
      /\ req[r].cookie \in Sessions => until[req[r].cookie] # Unissued
  BY DEF GuestInv, CommandsAreWhole, CookiesWereIssued
<1>5. req' = [req EXCEPT ![r] = q]
  OBVIOUS
<1>. HIDE DEF q
<1>6. MayBecome(r, q)
  BY <1>2, <1>3, <1>4 DEF MayBecome
<1>. QED
  BY <1>2, <1>5, <1>6, RequestMoves

\* A request is answered.
LEMMA AnswerKeeps ==
  ASSUME GuestInv, NEW r \in Requests, NEW a \in Answers, NEW c \in Requests \cup {"NONE"},
         Answer(r, a, c), UNCHANGED <<day, until, checkout, running, failures>>
  PROVE  GuestInv'
<1>1. MayBecome(r, Done(a, c))
  BY Answered, GuestCheckoutConstants DEF MayBecome
<1>. QED
  BY <1>1, Answered, RequestMoves DEF Answer

LEMMA SelectDoomedKeeps ==
  ASSUME GuestInv, NEW r \in Requests, SelectDoomed(r)
  PROVE  GuestInv'
<1>. DEFINE d == {s \in Sessions : Expired(s) /\ ~Owns(s)}
<1>1. req' = [req EXCEPT ![r] = [@ EXCEPT !.at = "DELETING", !.doomed = d]]
  BY DEF SelectDoomed, GuestInv, TypeOK
<1>2. d \in SUBSET Sessions /\ "DELETING" \in Stages
  BY DEF Stages
<1>. HIDE DEF d
<1>. QED
  BY <1>1, <1>2, StageMoves DEF SelectDoomed, At

LEMMA RequireSessionKeeps ==
  ASSUME GuestInv, NEW r \in Requests, RequireSession(r)
  PROVE  GuestInv'
<1>1. CASE Active(req[r].cookie)
  <2>1. MoveTo(r, "IN") /\ req[r].cookie \in Sessions
    BY <1>1 DEF RequireSession, Active
  <2>2. req' = [req EXCEPT ![r] = [@ EXCEPT !.at = "IN", !.doomed = req[r].doomed]]
    BY <2>1 DEF MoveTo, GuestInv, TypeOK, Request
  <2>. QED
    BY <2>1, <2>2, StageMoves DEF RequireSession, GuestInv, TypeOK, Request, Stages
<1>2. CASE ~Active(req[r].cookie)
  BY <1>2, AnswerKeeps DEF RequireSession, Answers
<1>. QED
  BY <1>1, <1>2

LEMMA ClaimKeeps ==
  ASSUME GuestInv, NEW r \in Requests, Claim(r)
  PROVE  GuestInv'
<1>. DEFINE prior == Recorded(req[r].cookie, req[r].key)
<1>1. UNCHANGED <<day, until, checkout, running, failures>> /\ prior \subseteq Requests
  BY DEF Claim, Recorded, Opened
<1>2. CASE \E c \in prior : Answer(r, Replay(checkout[c].print, req[r].payload), c)
  <2>1. PICK c \in prior : Answer(r, Replay(checkout[c].print, req[r].payload), c)
    BY <1>2
  <2>2. Replay(checkout[c].print, req[r].payload) \in Answers
    BY DEF Replay, Answers
  <2>. QED
    BY <1>1, <2>1, <2>2, AnswerKeeps
<1>3. CASE Answer(r, "FAILED", "NONE")
  BY <1>1, <1>3, AnswerKeeps DEF Answers
<1>4. CASE /\ prior = {} /\ until[req[r].cookie] # Deleted
           /\ req' = [req EXCEPT ![r].at = "CLAIMED", ![r].since = day]
  <2>. DEFINE q == [req[r] EXCEPT !.at = "CLAIMED", !.since = day]
  <2>1. req[r] \in Request /\ day \in 0..MaxDay
    BY DEF GuestInv, TypeOK
  <2>2. /\ q \in Request /\ q.op = req[r].op /\ q.cookie = req[r].cookie
        /\ q.key = req[r].key /\ q.payload = req[r].payload /\ q.of = req[r].of
        /\ q.at = "CLAIMED" /\ q.answer = req[r].answer
    BY <2>1 DEF Request, Stages
  <2>3. req' = [req EXCEPT ![r] = q]
    BY <1>4 DEF GuestInv, TypeOK
  <2>4. req[r].op = "create" /\ req[r].at = "IN"
    BY DEF Claim, At
  <2>5. r \notin Opened /\ req[r].answer # "OPENED" /\ req[r].cookie \in Sessions
    BY <2>4 DEF GuestInv, OpenedIsAnswered, CommandsAreWhole
  <2>6. /\ req[r].key \in Keys /\ req[r].payload \in Payloads
        /\ until[req[r].cookie] # Unissued
    BY <2>4, <2>5 DEF GuestInv, CommandsAreWhole, CookiesWereIssued
  <2>7. \A p \in Requests \ {r} : At(p, "create", "CLAIMED") =>
          ~(req[p].cookie = req[r].cookie /\ req[p].key = req[r].key)
    BY DEF Claim, ClaimOpen
  <2>. HIDE DEF q
  <2>8. MayBecome(r, q)
    BY <1>4, <2>2, <2>4, <2>5, <2>6, <2>7 DEF MayBecome
  <2>. QED
    BY <1>1, <2>2, <2>3, <2>8, RequestMoves
<1>. QED
  BY <1>2, <1>3, <1>4 DEF Claim

LEMMA FindRecordKeeps ==
  ASSUME GuestInv, NEW r \in Requests, FindRecord(r)
  PROVE  GuestInv'
<1>. DEFINE prior == Recorded(req[r].cookie, req[r].key)
<1>1. UNCHANGED <<day, until, checkout, running, failures>>
  BY DEF FindRecord
<1>2. req[r].op = "recover" /\ req[r].at = "IN" /\ req[r] \in Request
  BY DEF FindRecord, At, GuestInv, TypeOK
<1>3. CASE \E a \in Answers, c \in Requests \cup {"NONE"} : Answer(r, a, c)
  BY <1>1, <1>3, AnswerKeeps
<1>4. CASE \E c \in prior : req' = [req EXCEPT ![r].at = "FOUND", ![r].of = c]
  <2>1. PICK c \in prior : req' = [req EXCEPT ![r].at = "FOUND", ![r].of = c]
    BY <1>4
  <2>2. c \in Requests /\ c \in Opened /\ checkout[c].key = req[r].key
    BY DEF Recorded, Opened
  <2>. DEFINE q == [req[r] EXCEPT !.at = "FOUND", !.of = c]
  <2>3. req' = [req EXCEPT ![r] = q]
    BY <2>1 DEF GuestInv, TypeOK
  <2>4. /\ q \in Request /\ q.op = "recover" /\ q.cookie = req[r].cookie
        /\ q.key = req[r].key /\ q.of = c /\ q.at = "FOUND" /\ q.answer = req[r].answer
    BY <1>2, <2>2 DEF Request, Stages
  <2>5. /\ r \notin Opened /\ req[r].answer # "OPENED" /\ req[r].cookie \in Sessions
        /\ req[r].key \in Keys
    BY <1>2 DEF GuestInv, OpenedIsAnswered, CommandsAreWhole
  <2>6. until[req[r].cookie] # Unissued
    BY <2>5 DEF GuestInv, CookiesWereIssued
  <2>. HIDE DEF q
  <2>7. MayBecome(r, q)
    BY <1>2, <2>2, <2>4, <2>5, <2>6 DEF MayBecome
  <2>. QED
    BY <1>1, <2>3, <2>4, <2>7, RequestMoves
<1>. QED
  <2>1. prior \subseteq Requests /\ {"NOT_FOUND", "GONE"} \subseteq Answers
    BY DEF Recorded, Opened, Answers
  <2>. QED
    BY <1>3, <1>4, <2>1 DEF FindRecord

LEMMA RecoverKeeps ==
  ASSUME GuestInv, NEW r \in Requests, Recover(r)
  PROVE  GuestInv'
<1>1. UNCHANGED <<day, until, checkout, running, failures>>
  BY DEF Recover
<1>2. PICK a \in Answers, c \in Requests \cup {"NONE"} : Answer(r, a, c)
  BY DEF Recover, Opened, Answers
<1>. QED
  BY <1>1, <1>2, AnswerKeeps

LEMMA ReadCheckoutKeeps ==
  ASSUME GuestInv, NEW r \in Requests, ReadCheckout(r)
  PROVE  GuestInv'
<1>1. UNCHANGED <<day, until, checkout, running, failures>>
  BY DEF ReadCheckout
<1>2. req[r].op = "pay" /\ req[r].at = "IN" /\ req[r] \in Request
  BY DEF ReadCheckout, At, GuestInv, TypeOK
<1>3. CASE req[r].of \in Opened /\ checkout[req[r].of].session = req[r].cookie
  <2>. DEFINE e == checkout[req[r].of].personal
              q == [req[r] EXCEPT !.at = "READ", !.email = e]
  <2>1. req' = [req EXCEPT ![r] = q]
    BY <1>3 DEF ReadCheckout, GuestInv, TypeOK
  <2>2. e \in BOOLEAN
    BY <1>3 DEF GuestInv, TypeOK, Opened, Checkout
  <2>3. /\ q \in Request /\ q.op = "pay" /\ q.cookie = req[r].cookie
        /\ q.key = req[r].key /\ q.payload = req[r].payload /\ q.of = req[r].of
        /\ q.at = "READ" /\ q.answer = req[r].answer
    BY <1>2, <2>2 DEF Request, Stages
  <2>4. /\ r \notin Opened /\ req[r].answer # "OPENED" /\ req[r].cookie \in Sessions
        /\ req[r].key \in PaymentKeys /\ req[r].payload \in Payloads /\ req[r].of \in Requests
    BY <1>2 DEF GuestInv, OpenedIsAnswered, CommandsAreWhole
  <2>5. until[req[r].cookie] # Unissued
    BY <2>4 DEF GuestInv, CookiesWereIssued
  <2>. HIDE DEF q
  <2>6. MayBecome(r, q)
    BY <1>2, <1>3, <2>3, <2>4, <2>5 DEF MayBecome
  <2>. QED
    BY <1>1, <2>1, <2>3, <2>6, RequestMoves
<1>4. CASE ~(req[r].of \in Opened /\ checkout[req[r].of].session = req[r].cookie)
  BY <1>1, <1>2, <1>4, AnswerKeeps DEF ReadCheckout, Request, Answers
<1>. QED
  BY <1>3, <1>4
-----------------------------------------------------------------------------
\* The steps that create or delete sessions.
LEMMA DeleteDoomedKeeps ==
  ASSUME GuestInv, NEW r \in Requests, DeleteDoomed(r)
  PROVE  GuestInv'
<1>1. CASE \E s \in req[r].doomed : Owns(s)
  BY <1>1, AnswerKeeps DEF DeleteDoomed, Answers
<1>2. CASE ~\E s \in req[r].doomed : Owns(s)
  <2>. DEFINE q == [req[r] EXCEPT !.at = "DELETED"]
  <2>1. /\ UNCHANGED <<day, checkout, running, failures>> /\ req' = [req EXCEPT ![r] = q]
        /\ until' = [s \in Sessions |-> IF s \in req[r].doomed THEN Deleted ELSE until[s]]
    BY <1>2 DEF DeleteDoomed, MoveTo
  <2>2. SessionsMoveOn
    BY <1>2, <2>1 DEF SessionsMoveOn, DeleteDoomed, GuestInv, TypeOK, Deleted, Unissued
  <2>3. req[r] \in Request /\ req[r].op = "init" /\ req[r].at = "DELETING"
    BY DEF DeleteDoomed, At, GuestInv, TypeOK
  <2>4. /\ q \in Request /\ q.op = "init" /\ q.cookie = req[r].cookie /\ q.at = "DELETED"
        /\ q.answer = req[r].answer
    BY <2>3 DEF Request, Stages
  <2>5. r \notin Opened /\ q.answer # "OPENED" /\ (q.cookie \in Sessions => until[q.cookie] # Unissued)
    BY <2>3, <2>4 DEF GuestInv, OpenedIsAnswered, CommandsAreWhole, CookiesWereIssued
  <2>. HIDE DEF q
  <2>6. MayBecome(r, q)
    BY <2>3, <2>4, <2>5 DEF MayBecome
  <2>. QED
    BY <2>1, <2>2, <2>4, <2>6, RequestOrSessionMoves
<1>. QED
  BY <1>1, <1>2

LEMMA ReuseOrCreateKeeps ==
  ASSUME GuestInv, NEW r \in Requests, ReuseOrCreate(r)
  PROVE  GuestInv'
<1>1. CASE Answer(r, "REUSED", "NONE") /\ UNCHANGED until
  BY <1>1, AnswerKeeps DEF ReuseOrCreate, Answers
<1>2. CASE /\ \E s \in Sessions : until[s] = Unissued /\ until' = [until EXCEPT ![s] = day + SessionFor]
           /\ Answer(r, "CREATED", "NONE")
  <2>1. PICK s \in Sessions : until[s] = Unissued /\ until' = [until EXCEPT ![s] = day + SessionFor]
    BY <1>2
  <2>2. day + SessionFor \in 0..(day + SessionFor)
    BY Terms DEF GuestInv, TypeOK
  <2>3. ~(Owns(s) \/ LockedByClaim(s))
    BY <2>1 DEF GuestInv, SessionsKeepTheirCheckouts, Unissued
  <2>4. SessionsMoveOn
    BY <2>1, <2>2, <2>3 DEF SessionsMoveOn, GuestInv, TypeOK, Unissued
  <2>5. MayBecome(r, Done("CREATED", "NONE"))
    BY Answered, GuestCheckoutConstants DEF MayBecome, Answers
  <2>. QED
    BY <1>2, <2>4, <2>5, Answered, RequestOrSessionMoves DEF ReuseOrCreate, Answer, Answers
<1>. QED
  BY <1>1, <1>2 DEF ReuseOrCreate
-----------------------------------------------------------------------------
\* The steps that change checkouts.
LEMMA OpenKeeps ==
  ASSUME GuestInv, NEW r \in Requests, Open(r)
  PROVE  GuestInv'
<1>. DEFINE new == [session |-> req[r].cookie, key |-> req[r].key, print |-> req[r].payload,
                    since |-> req[r].since, personal |-> TRUE,
                    due |-> req[r].since + HoldFor, attempt |-> Unpaid]
<1>1. /\ req[r] \in Request /\ req[r].op = "create" /\ req[r].at = "CLAIMED"
      /\ checkout' = [checkout EXCEPT ![r] = new] /\ req' = [req EXCEPT ![r] = Done("OPENED", r)]
      /\ UNCHANGED <<day, until, running, failures>>
  BY DEF Open, At, Answer, GuestInv, TypeOK
<1>2. req[r].cookie \in Sessions /\ req[r].key \in Keys /\ req[r].payload \in Payloads
  BY <1>1 DEF GuestInv, CommandsAreWhole
<1>3. /\ new \in Checkout /\ new # NoCheckout /\ new.print # "REDACTED"
      /\ new.session = req[r].cookie /\ new.key = req[r].key
      /\ new.due = new.since + HoldFor /\ new.since \in Nat
  <2>1. req[r].since \in 0..MaxDay /\ Unpaid \in [PaymentKeys -> Attempt \cup {NoAttempt}]
    BY <1>1 DEF Request, Unpaid
  <2>2. req[r].since + HoldFor \in 0..(MaxDay + HoldFor + RetryFor)
    BY <2>1, Terms
  <2>. QED
    BY <1>2, <2>1, <2>2, Terms, GuestCheckoutConstants DEF Checkout, NoCheckout
<1>. HIDE DEF new
<1>4. /\ checkout'[r] = new /\ \A c \in Requests \ {r} : checkout'[c] = checkout[c]
      /\ req'[r] = Done("OPENED", r) /\ \A p \in Requests \ {r} : req'[p] = req[p]
      /\ Done("OPENED", r) \in Request
  BY <1>1, Answered DEF GuestInv, TypeOK, Answers
<1>5. r \notin Opened /\ Opened' = Opened \cup {r}
  BY <1>1, <1>3, <1>4 DEF GuestInv, OpenedIsAnswered, Opened
<1>6. TypeOK'
  BY <1>1, <1>3, <1>4 DEF GuestInv, TypeOK
<1>7. CommandsAreWhole' /\ CookiesWereIssued' /\ OpenedIsAnswered' /\ OneClaim'
  BY <1>1, <1>4, <1>5, Answered, GuestCheckoutConstants
  DEF GuestInv, CommandsAreWhole, CookiesWereIssued, OpenedIsAnswered, OneClaim, At, Answers
<1>8. /\ ReadIsOwn' /\ RedactedIsOld'
      /\ OnlyRetriesOutliveRedaction' /\ ProlongedByFailure'
  <2>1. ReadIsOwn' /\ RedactedIsOld'
    BY <1>1, <1>3, <1>4, <1>5, Answered DEF GuestInv, ReadIsOwn, RedactedIsOld, Old, At, Answers
  <2>2. OnlyRetriesOutliveRedaction'
    BY <1>3, <1>4, <1>5
    DEF GuestInv, OnlyRetriesOutliveRedaction, RetriedAfterRedaction, InState, Opened
  <2>3. new.due <= new.since + HoldFor
    BY <1>3, Terms
  <2>4. ProlongedByFailure'
    BY <1>4, <1>5, <2>3 DEF GuestInv, ProlongedByFailure, InState, Opened
  <2>. QED
    BY <2>1, <2>2, <2>4
<1>9. ASSUME NEW c \in Opened
      PROVE  ~(checkout[c].session = req[r].cookie /\ checkout[c].key = req[r].key)
  BY <1>1 DEF GuestInv, CommandsDiffer, At
<1>10. CommandsDiffer'
  <2>1. \A b, c \in Opened' :
          checkout'[b].session = checkout'[c].session /\ checkout'[b].key = checkout'[c].key => b = c
    BY <1>3, <1>4, <1>5, <1>9 DEF GuestInv, CommandsDiffer, Opened
  <2>2. ASSUME NEW p \in Requests, NEW c \in Opened', At(p, "create", "CLAIMED")'
        PROVE  ~(checkout'[c].session = req'[p].cookie /\ checkout'[c].key = req'[p].key)
    <3>1. p # r /\ req'[p] = req[p] /\ At(p, "create", "CLAIMED")
      BY <2>2, <1>4, Answered DEF At, Answers
    <3>2. CASE c = r
      BY <3>1, <3>2, <1>1, <1>3, <1>4 DEF GuestInv, OneClaim, At
    <3>3. CASE c # r
      BY <3>1, <3>3, <1>4, <1>5 DEF GuestInv, CommandsDiffer, Opened
    <3>. QED
      BY <3>2, <3>3
  <2>. QED
    BY <2>1, <2>2 DEF CommandsDiffer
<1>11. SessionsKeepTheirCheckouts'
  BY <1>1, <1>3, <1>4, <1>5, Answered
  DEF GuestInv, SessionsKeepTheirCheckouts, Owns, LockedByClaim, At, Answers
<1>. QED
  BY <1>6, <1>7, <1>8, <1>10, <1>11 DEF GuestInv

\* What a replay answers: "OPENED" only for the payload the fingerprint is of.
LEMMA ReplayAnswers ==
  ASSUME NEW print, NEW payload \in Payloads
  PROVE  /\ Replay(print, payload) \in Answers
         /\ Replay(print, payload) = "OPENED" => print = payload /\ print # "REDACTED"
<1>1. CASE print = "REDACTED"
  BY <1>1, GuestCheckoutConstants DEF Replay, Answers
<1>2. CASE print # "REDACTED" /\ print = payload
  BY <1>2 DEF Replay, Answers
<1>3. CASE print # "REDACTED" /\ print # payload
  BY <1>3 DEF Replay, Answers
<1>. QED
  BY <1>1, <1>2, <1>3

\* A step that rewrites rows of checkouts without moving them to another command, and
\* at most answers a request.
LEMMA RowsRewritten ==
  ASSUME GuestInv, UNCHANGED <<day, until>>,
         running' \in BOOLEAN, failures' \in 0..MaxFailures,
         \/ req' = req
         \/ \E r \in Requests, c \in Requests : Answer(r, "OPENED", c),
         checkout' \in [Requests -> Checkout \cup {NoCheckout}],
         \A c \in Requests : checkout'[c] = NoCheckout <=> checkout[c] = NoCheckout,
         \A c \in Opened :
           /\ checkout'[c].session = checkout[c].session
           /\ checkout'[c].key = checkout[c].key
           /\ checkout'[c].since = checkout[c].since
           /\ checkout'[c].print = "REDACTED" => Old(c),
         OnlyRetriesOutliveRedaction', ProlongedByFailure'
  PROVE  GuestInv'
<1>1. Opened' = Opened /\ Opened \subseteq Requests
  BY DEF Opened
<1>2. /\ req' \in [Requests -> Request]
      /\ \A p \in Requests :
           \/ req'[p] = req[p]
           \/ req'[p].op = "NONE" /\ req'[p].cookie = "NONE" /\ req'[p].at = "DONE"
  <2>1. CASE req' = req
    BY <2>1 DEF GuestInv, TypeOK
  <2>2. CASE \E r \in Requests, c \in Requests : Answer(r, "OPENED", c)
    <3>1. PICK r \in Requests, c \in Requests : req' = [req EXCEPT ![r] = Done("OPENED", c)]
      BY <2>2 DEF Answer
    <3>2. "OPENED" \in Answers
      BY DEF Answers
    <3>. QED
      BY <3>1, <3>2, Answered DEF GuestInv, TypeOK
  <2>. QED
    BY <2>1, <2>2
<1>3. TypeOK'
  BY <1>2 DEF GuestInv, TypeOK
<1>4. CommandsAreWhole' /\ CookiesWereIssued' /\ OpenedIsAnswered' /\ OneClaim'
  BY <1>1, <1>2, GuestCheckoutConstants
  DEF GuestInv, CommandsAreWhole, CookiesWereIssued, OpenedIsAnswered, OneClaim, At
<1>5. ReadIsOwn' /\ CommandsDiffer'
  BY <1>1, <1>2 DEF GuestInv, ReadIsOwn, CommandsDiffer, At
<1>6. RedactedIsOld'
  BY <1>1 DEF RedactedIsOld, Old
<1>7. SessionsKeepTheirCheckouts'
  BY <1>1, <1>2 DEF GuestInv, SessionsKeepTheirCheckouts, Owns, LockedByClaim, At
<1>. QED
  BY <1>3, <1>4, <1>5, <1>6, <1>7 DEF GuestInv

\* The attempts of a checkout are rewritten, and the day its hold is due.
LEMMA AttemptsRewritten ==
  ASSUME GuestInv, NEW c \in Opened, UNCHANGED <<day, until, running, failures>>,
         \/ req' = req
         \/ \E r \in Requests : Answer(r, "OPENED", c),
         NEW rows \in [PaymentKeys -> Attempt \cup {NoAttempt}],
         NEW due \in 0..(MaxDay + HoldFor + RetryFor),
         checkout' = [checkout EXCEPT ![c].attempt = rows, ![c].due = due],
         checkout[c].print = "REDACTED" =>
           \A k \in PaymentKeys : rows[k].print \in Payloads =>
             \E j \in PaymentKeys :
               rows[j].state \in {"FAILED", "CLOSED"} /\ rows[j].print = "REDACTED",
         \/ due <= checkout[c].since + HoldFor
         \/ \E k \in PaymentKeys :
              /\ rows[k].state \in {"FAILED", "CLOSED"}
              /\ checkout[c].print = "REDACTED" => rows[k].print = "REDACTED"
  PROVE  GuestInv'
<1>. DEFINE row == [checkout[c] EXCEPT !.attempt = rows, !.due = due]
<1>1. c \in Requests /\ checkout[c] \in Checkout
  BY DEF GuestInv, TypeOK, Opened
<1>2. /\ row \in Checkout /\ row.session = checkout[c].session /\ row.key = checkout[c].key
      /\ row.since = checkout[c].since /\ row.print = checkout[c].print
      /\ row.personal = checkout[c].personal /\ row.attempt = rows /\ row.due = due
  BY <1>1 DEF Checkout
<1>3. checkout' = [checkout EXCEPT ![c] = row]
  BY <1>1 DEF GuestInv, TypeOK
<1>4. row # NoCheckout
  BY <1>2, GuestCheckoutConstants DEF Checkout, NoCheckout
<1>. HIDE DEF row
<1>5. checkout' \in [Requests -> Checkout \cup {NoCheckout}]
  BY <1>2, <1>3 DEF GuestInv, TypeOK
<1>6. /\ checkout'[c] = row
      /\ \A d \in Requests \ {c} : checkout'[d] = checkout[d]
  BY <1>1, <1>3 DEF GuestInv, TypeOK
<1>7. \A d \in Requests : checkout'[d] = NoCheckout <=> checkout[d] = NoCheckout
  BY <1>4, <1>6 DEF Opened
<1>8. Opened' = Opened /\ Opened \subseteq Requests
  BY <1>7 DEF Opened
<1>9. \A d \in Opened :
        /\ checkout'[d].session = checkout[d].session
        /\ checkout'[d].key = checkout[d].key
        /\ checkout'[d].since = checkout[d].since
        /\ checkout'[d].print = "REDACTED" => Old(d)
  BY <1>2, <1>6, <1>8 DEF GuestInv, RedactedIsOld
<1>10. \A k \in PaymentKeys : rows[k].state \in {"FAILED", "CLOSED"} =>
         k \in InState(c, {"FAILED", "CLOSED"})' /\ checkout'[c].attempt[k] = rows[k]
  BY <1>2, <1>6 DEF InState
<1>11. OnlyRetriesOutliveRedaction'
  <2>. SUFFICES ASSUME NEW d \in Opened, checkout'[d].print = "REDACTED"
                PROVE  /\ ~checkout'[d].personal
                       /\ \A k \in PaymentKeys :
                            checkout'[d].attempt[k].print \in Payloads => RetriedAfterRedaction(d)'
    BY <1>8 DEF OnlyRetriesOutliveRedaction
  <2>1. CASE d = c
    <3>1. checkout[c].print = "REDACTED" /\ ~checkout'[c].personal
      BY <2>1, <1>2, <1>6 DEF GuestInv, OnlyRetriesOutliveRedaction
    <3>2. ASSUME NEW k \in PaymentKeys, rows[k].print \in Payloads
          PROVE  RetriedAfterRedaction(c)'
      <4>1. PICK j \in PaymentKeys :
              rows[j].state \in {"FAILED", "CLOSED"} /\ rows[j].print = "REDACTED"
        BY <3>1, <3>2
      <4>. QED
        BY <4>1, <1>10 DEF RetriedAfterRedaction
    <3>. QED
      BY <2>1, <3>1, <3>2, <1>2, <1>6
  <2>2. CASE d # c
    BY <2>2, <1>6, <1>8
    DEF GuestInv, OnlyRetriesOutliveRedaction, RetriedAfterRedaction, InState
  <2>. QED
    BY <2>1, <2>2
<1>12. ProlongedByFailure'
  <2>. SUFFICES ASSUME NEW d \in Opened
                PROVE  \/ checkout'[d].due <= checkout'[d].since + HoldFor
                       \/ \E k \in InState(d, {"FAILED", "CLOSED"})' :
                            checkout'[d].print = "REDACTED" => checkout'[d].attempt[k].print = "REDACTED"
    BY <1>8 DEF ProlongedByFailure
  <2>1. CASE d = c
    <3>1. CASE due <= checkout[c].since + HoldFor
      BY <2>1, <3>1, <1>2, <1>6
    <3>2. CASE \E k \in PaymentKeys :
                 /\ rows[k].state \in {"FAILED", "CLOSED"}
                 /\ checkout[c].print = "REDACTED" => rows[k].print = "REDACTED"
      <4>1. PICK k \in PaymentKeys :
              /\ rows[k].state \in {"FAILED", "CLOSED"}
              /\ checkout[c].print = "REDACTED" => rows[k].print = "REDACTED"
        BY <3>2
      <4>2. /\ k \in InState(d, {"FAILED", "CLOSED"})'
            /\ checkout'[d].print = "REDACTED" => checkout'[d].attempt[k].print = "REDACTED"
        BY <2>1, <4>1, <1>2, <1>6, <1>10
      <4>. QED
        BY <4>2
    <3>. QED
      BY <3>1, <3>2
  <2>2. CASE d # c
    BY <2>2, <1>6, <1>8 DEF GuestInv, ProlongedByFailure, InState
  <2>. QED
    BY <2>1, <2>2
<1>13. running' \in BOOLEAN /\ failures' \in 0..MaxFailures
  BY DEF GuestInv, TypeOK
<1>. QED
  BY <1>1, <1>5, <1>7, <1>9, <1>11, <1>12, <1>13, RowsRewritten

\* A payment that opens an attempt on a redacted checkout is a retry.
LEMMA PayKeeps ==
  ASSUME GuestInv, NEW r \in Requests, Pay(r)
  PROVE  GuestInv'
<1>. DEFINE c == req[r].of
            k == req[r].key
            new == [state |-> "OPEN", print |-> req[r].payload]
<1>1. /\ req[r].op = "pay" /\ req[r].at = "READ" /\ c \in Requests /\ c \in Opened
      /\ k \in PaymentKeys /\ req[r].payload \in Payloads
      /\ UNCHANGED <<day, until, running, failures>>
  BY DEF Pay, At, GuestInv, CommandsAreWhole, ReadIsOwn
<1>2. CASE UNCHANGED checkout /\ \E a \in Answers : Answer(r, a, c)
  BY <1>1, <1>2, AnswerKeeps
<1>3. CASE /\ checkout[c].attempt[k] = NoAttempt /\ Held(c) /\ Answer(r, "OPENED", c)
           /\ checkout' = [checkout EXCEPT ![c].attempt[k] = new]
  <2>. DEFINE rows == [checkout[c].attempt EXCEPT ![k] = new]
  <2>1. /\ checkout[c] \in Checkout /\ day \in Nat
        /\ checkout[c].attempt \in [PaymentKeys -> Attempt \cup {NoAttempt}]
        /\ checkout[c].due \in 0..(MaxDay + HoldFor + RetryFor) /\ checkout[c].since \in Nat
    BY <1>1, Terms DEF GuestInv, TypeOK, Opened, Checkout
  <2>2. checkout' = [checkout EXCEPT ![c].attempt = rows, ![c].due = checkout[c].due]
    BY <1>3, <1>1, <2>1 DEF GuestInv, TypeOK, Checkout
  <2>3. rows \in [PaymentKeys -> Attempt \cup {NoAttempt}]
    BY <1>1, <2>1 DEF Attempt
  <2>4. /\ rows[k] = new /\ checkout[c].attempt[k].state = "NONE"
        /\ \A j \in PaymentKeys : j # k => rows[j] = checkout[c].attempt[j]
    BY <1>1, <1>3, <2>1 DEF NoAttempt
  <2>. HIDE DEF rows
  <2>5. \A j \in InState(c, {"FAILED", "CLOSED"}) :
          j \in PaymentKeys /\ rows[j] = checkout[c].attempt[j]
                            /\ rows[j].state \in {"FAILED", "CLOSED"}
    BY <2>4 DEF InState
  <2>6. ASSUME checkout[c].print = "REDACTED"
        PROVE  \E j \in InState(c, {"FAILED", "CLOSED"}) : rows[j].print = "REDACTED"
    <3>1. checkout[c].since + RetainFor <= day /\ day < checkout[c].due
      BY <1>1, <1>3, <2>6 DEF GuestInv, RedactedIsOld, Old, Held
    <3>2. ~(checkout[c].due <= checkout[c].since + HoldFor)
      BY <2>1, <3>1, Terms
    <3>. QED
      BY <1>1, <2>5, <2>6, <3>2 DEF GuestInv, ProlongedByFailure
  <2>7. \/ checkout[c].due <= checkout[c].since + HoldFor
        \/ \E j \in PaymentKeys :
             /\ rows[j].state \in {"FAILED", "CLOSED"}
             /\ checkout[c].print = "REDACTED" => rows[j].print = "REDACTED"
    BY <1>1, <2>5 DEF GuestInv, ProlongedByFailure
  <2>8. checkout[c].print = "REDACTED" =>
          \A i \in PaymentKeys : rows[i].print \in Payloads =>
            \E j \in PaymentKeys :
              rows[j].state \in {"FAILED", "CLOSED"} /\ rows[j].print = "REDACTED"
    BY <2>5, <2>6
  <2>. HIDE DEF c, k, new
  <2>. QED
    BY <1>1, <1>3, <2>1, <2>2, <2>3, <2>7, <2>8, AttemptsRewritten
<1>. QED
  <2>1. Replay(checkout[c].attempt[k].print, req[r].payload) \in Answers /\ "REFUSED" \in Answers
    BY <1>1, ReplayAnswers DEF Answers
  <2>. QED
    BY <2>1, <1>2, <1>3 DEF Pay, Payable

\* Two attempts of one checkout that count are two.
LEMMA TwoCharged ==
  ASSUME NEW c, NEW j \in Charged(c), NEW k \in Charged(c), j # k
  PROVE  Cardinality(Charged(c)) >= 2
<1>1. IsFiniteSet(Charged(c))
  BY GuestCheckoutConstants, FS_Subset DEF Charged, InState
<1>2. IsFiniteSet({j}) /\ Cardinality({j}) = 1
  BY FS_Singleton
<1>3. IsFiniteSet({j} \cup {k}) /\ Cardinality({j} \cup {k}) = 2
  BY <1>2, FS_AddElement
<1>4. {j} \cup {k} \subseteq Charged(c)
  OBVIOUS
<1>. QED
  <2>. HIDE DEF Charged
  <2>. QED
    BY <1>1, <1>3, <1>4, FS_Subset

\* An attempt is decided: a failure prolongs the hold when it is the first.
LEMMA SettleKeeps ==
  ASSUME GuestInv, NEW c \in Requests, NEW k \in PaymentKeys, Settle(c, k)
  PROVE  GuestInv'
<1>. DEFINE old == checkout[c].attempt
<1>1. PICK new \in {"FREED", "FAILED", "CLOSED"}, due \in Int :
        /\ checkout' = [checkout EXCEPT ![c].attempt[k].state = new, ![c].due = due]
        /\ \/ old[k].state = "OPEN" /\ new = "FREED" /\ due = checkout[c].due
           \/ /\ old[k].state = "OPEN" /\ new = "FAILED"
              /\ \/ due = 0
                 \/ due = day + RetryFor /\ Cardinality(Charged(c)) < 2
           \/ old[k].state \in {"OPEN", "FAILED"} /\ new = "CLOSED" /\ due = 0
  <2>1. checkout[c].due \in Int /\ day + RetryFor \in Int /\ Cardinality(Charged(c)) \in Nat
    <3>1. IsFiniteSet(Charged(c))
      BY GuestCheckoutConstants, FS_Subset DEF Charged, InState
    <3>2. NoCheckout.due \in Int
      BY DEF NoCheckout
    <3>. QED
      BY <3>1, <3>2, FS_CardinalityType, Terms DEF GuestInv, TypeOK, Checkout
  <2>. QED
    BY <2>1 DEF Settle
<1>2. UNCHANGED <<day, until, req, running, failures>>
  BY DEF Settle
<1>3. c \in Opened
  <2>1. NoCheckout.attempt[k].state = "NONE"
    BY DEF NoCheckout, Unpaid, NoAttempt
  <2>. QED
    BY <1>1, <2>1 DEF Opened
<1>4. /\ checkout[c] \in Checkout /\ day \in 0..MaxDay
      /\ old \in [PaymentKeys -> Attempt \cup {NoAttempt}]
      /\ checkout[c].due \in 0..(MaxDay + HoldFor + RetryFor) /\ checkout[c].since \in Nat
  BY <1>3, Terms DEF GuestInv, TypeOK, Opened, Checkout
<1>5. old[k] \in Attempt
  BY <1>1, <1>4 DEF NoAttempt
<1>. DEFINE rows == [old EXCEPT ![k] = [@ EXCEPT !.state = new]]
<1>6. checkout' = [checkout EXCEPT ![c].attempt = rows, ![c].due = due]
  BY <1>1, <1>3, <1>4 DEF GuestInv, TypeOK, Checkout
<1>7. [old[k] EXCEPT !.state = new] \in Attempt /\ rows \in [PaymentKeys -> Attempt \cup {NoAttempt}]
  BY <1>4, <1>5 DEF Attempt
<1>8. /\ rows[k].state = new /\ rows[k].print = old[k].print
      /\ \A j \in PaymentKeys : j # k => rows[j] = old[j]
  BY <1>4, <1>5 DEF Attempt
<1>. HIDE DEF rows
<1>9. \A j \in InState(c, {"FAILED", "CLOSED"}) :
        j \in PaymentKeys /\ rows[j].print = old[j].print
                          /\ rows[j].state \in {"FAILED", "CLOSED"}
  BY <1>1, <1>8 DEF InState
<1>10. due \in 0..(MaxDay + HoldFor + RetryFor)
  BY <1>1, <1>4, Terms
<1>11. checkout[c].print = "REDACTED" =>
         \A i \in PaymentKeys : rows[i].print \in Payloads =>
           \E j \in PaymentKeys :
             rows[j].state \in {"FAILED", "CLOSED"} /\ rows[j].print = "REDACTED"
  <2>. SUFFICES ASSUME checkout[c].print = "REDACTED", NEW i \in PaymentKeys, rows[i].print \in Payloads
                PROVE  \E j \in PaymentKeys :
                         rows[j].state \in {"FAILED", "CLOSED"} /\ rows[j].print = "REDACTED"
    OBVIOUS
  <2>1. old[i].print \in Payloads
    BY <1>8
  <2>2. PICK j \in InState(c, {"FAILED", "CLOSED"}) : old[j].print = "REDACTED"
    BY <1>3, <2>1 DEF GuestInv, OnlyRetriesOutliveRedaction, RetriedAfterRedaction
  <2>. QED
    BY <1>9, <2>2
<1>12. \/ due <= checkout[c].since + HoldFor
       \/ \E j \in PaymentKeys :
            /\ rows[j].state \in {"FAILED", "CLOSED"}
            /\ checkout[c].print = "REDACTED" => rows[j].print = "REDACTED"
  <2>1. CASE due = 0
    BY <2>1, <1>4, Terms
  <2>2. CASE due = checkout[c].due
    BY <2>2, <1>3, <1>9 DEF GuestInv, ProlongedByFailure
  <2>3. CASE old[k].state = "OPEN" /\ new = "FAILED" /\ Cardinality(Charged(c)) < 2
    <3>1. checkout[c].print = "REDACTED" => old[k].print = "REDACTED"
      <4>. SUFFICES ASSUME checkout[c].print = "REDACTED", old[k].print # "REDACTED" PROVE FALSE
        OBVIOUS
      <4>1. old[k].print \in Payloads
        BY <1>5 DEF Attempt
      <4>2. PICK j \in InState(c, {"FAILED", "CLOSED"}) : old[j].print = "REDACTED"
        BY <1>3, <4>1 DEF GuestInv, OnlyRetriesOutliveRedaction, RetriedAfterRedaction
      <4>3. j \in Charged(c) /\ k \in Charged(c) /\ j # k
        BY <2>3, <4>2 DEF Charged, InState
      <4>4. IsFiniteSet(Charged(c)) /\ Cardinality(Charged(c)) >= 2
        BY <4>3, TwoCharged, GuestCheckoutConstants, FS_Subset DEF Charged, InState
      <4>5. Cardinality(Charged(c)) \in Nat
        BY <4>4, FS_CardinalityType
      <4>. QED
        BY <2>3, <4>4, <4>5
    <3>. QED
      BY <2>3, <3>1, <1>8
  <2>. QED
    BY <1>1, <2>1, <2>2, <2>3
<1>. QED
  BY <1>2, <1>3, <1>6, <1>7, <1>10, <1>11, <1>12, AttemptsRewritten

LEMMA RedactBatchKeeps ==
  ASSUME GuestInv, RedactBatch
  PROVE  GuestInv'
<1>1. PICK batch \in SUBSET Candidates :
        /\ checkout' = [c \in Requests |-> IF c \in batch THEN Redacted(c) ELSE checkout[c]]
        /\ running' = (Cardinality(batch) >= BatchSize)
  BY DEF RedactBatch
<1>2. UNCHANGED <<day, until, req>> /\ failures' \in 0..MaxFailures
  BY DEF RedactBatch, GuestInv, TypeOK
<1>3. running' \in BOOLEAN
  BY <1>1
<1>4. ASSUME NEW c \in batch
      PROVE  /\ c \in Requests /\ checkout[c] \in Checkout /\ checkout[c] # NoCheckout /\ Old(c)
             /\ Redacted(c) \in Checkout
             /\ Redacted(c).session = checkout[c].session /\ Redacted(c).key = checkout[c].key
             /\ Redacted(c).since = checkout[c].since /\ Redacted(c).due = checkout[c].due
             /\ ~Redacted(c).personal
             /\ \A k \in PaymentKeys :
                  /\ Redacted(c).attempt[k].state = checkout[c].attempt[k].state
                  /\ Redacted(c).attempt[k].print \notin Payloads
                  /\ Redacted(c).attempt[k].state # "NONE" => Redacted(c).attempt[k].print = "REDACTED"
  <2>1. c \in Requests /\ checkout[c] \in Checkout /\ checkout[c] # NoCheckout /\ Old(c)
    BY <1>1 DEF Candidates, Old, Opened, GuestInv, TypeOK
  <2>. DEFINE rows == [k \in PaymentKeys |-> IF checkout[c].attempt[k] = NoAttempt THEN NoAttempt
                         ELSE [checkout[c].attempt[k] EXCEPT !.print = "REDACTED"]]
  <2>2. ASSUME NEW k \in PaymentKeys
        PROVE  /\ rows[k] \in Attempt \cup {NoAttempt}
               /\ rows[k].state = checkout[c].attempt[k].state
               /\ rows[k].print \notin Payloads
               /\ rows[k].state # "NONE" => rows[k].print = "REDACTED"
    <3>1. "NONE" \notin Payloads /\ "REDACTED" \notin Payloads
      BY GuestCheckoutConstants
    <3>2. CASE checkout[c].attempt[k] = NoAttempt
      BY <3>1, <3>2 DEF NoAttempt
    <3>3. CASE checkout[c].attempt[k] # NoAttempt
      <4>1. checkout[c].attempt[k] \in Attempt
        BY <2>1, <3>3 DEF Checkout
      <4>. QED
        BY <3>1, <3>3, <4>1 DEF Attempt
    <3>. QED
      BY <3>2, <3>3
  <2>3. rows \in [PaymentKeys -> Attempt \cup {NoAttempt}]
    BY <2>2
  <2>4. Redacted(c) = [checkout[c] EXCEPT !.personal = FALSE, !.print = "REDACTED", !.attempt = rows]
    BY <2>1 DEF Redacted, Checkout
  <2>. HIDE DEF rows
  <2>. QED
    BY <2>1, <2>2, <2>3, <2>4 DEF Checkout
<1>5. "NONE" \notin Sessions
  BY GuestCheckoutConstants
<1>6. \A c \in batch : Redacted(c) # NoCheckout
  BY <1>4, <1>5 DEF Checkout, NoCheckout
<1>7. checkout' \in [Requests -> Checkout \cup {NoCheckout}]
  BY <1>1, <1>4 DEF GuestInv, TypeOK
<1>8. \A c \in Requests : checkout'[c] = NoCheckout <=> checkout[c] = NoCheckout
  BY <1>1, <1>4, <1>6
<1>9. \A c \in Opened :
        /\ checkout'[c].session = checkout[c].session
        /\ checkout'[c].key = checkout[c].key
        /\ checkout'[c].since = checkout[c].since
        /\ checkout'[c].print = "REDACTED" => Old(c)
  BY <1>1, <1>4 DEF GuestInv, RedactedIsOld, Opened
<1>10. Opened' = Opened /\ Opened \subseteq Requests
  BY <1>8 DEF Opened
<1>11. ASSUME NEW c \in Opened
       PROVE  c \in batch \/ checkout'[c] = checkout[c]
  BY <1>1, <1>10
<1>12. OnlyRetriesOutliveRedaction'
  BY <1>1, <1>4, <1>10, <1>11
  DEF GuestInv, OnlyRetriesOutliveRedaction, RetriedAfterRedaction, InState
<1>13. ProlongedByFailure'
  <2>. SUFFICES ASSUME NEW c \in Opened
                PROVE  \/ checkout'[c].due <= checkout'[c].since + HoldFor
                       \/ \E k \in InState(c, {"FAILED", "CLOSED"})' :
                            checkout'[c].print = "REDACTED" => checkout'[c].attempt[k].print = "REDACTED"
    BY <1>10 DEF ProlongedByFailure
  <2>1. CASE checkout'[c] = checkout[c]
    BY <2>1 DEF GuestInv, ProlongedByFailure, InState
  <2>2. CASE c \in batch
    BY <2>2, <1>1, <1>4 DEF GuestInv, ProlongedByFailure, InState
  <2>. QED
    BY <1>11, <2>1, <2>2
<1>. QED
  BY <1>2, <1>3, <1>7, <1>8, <1>9, <1>12, <1>13, RowsRewritten

\* What the timer, the failures and the days do to the invariant: nothing.
LEMMA RunsAndDaysKeep ==
  ASSUME GuestInv, StartRun \/ RunFails \/ Tick
  PROVE  GuestInv'
<1>1. UNCHANGED <<until, req, checkout>>
  BY DEF StartRun, RunFails, Tick
<1>2. /\ day \in Nat /\ day' \in 0..MaxDay /\ day' >= day
      /\ running' \in BOOLEAN /\ failures' \in 0..MaxFailures
  <2>. USE DEF GuestInv, TypeOK
  <2>1. day \in Nat /\ day' \in 0..MaxDay /\ day' >= day
    BY Terms DEF StartRun, RunFails, Tick
  <2>2. running' \in BOOLEAN
    BY DEF StartRun, RunFails, Tick
  <2>3. failures' \in 0..MaxFailures
    BY Terms DEF StartRun, RunFails, Tick
  <2>. QED
    BY <2>1, <2>2, <2>3
<1>3. TypeOK'
  <2>1. ASSUME NEW n \in 0..(day + SessionFor) PROVE n \in 0..(day' + SessionFor)
    <3>1. day \in Int /\ day' \in Int /\ SessionFor \in Int /\ day <= day'
      BY <1>2, Terms
    <3>. QED
      BY <3>1, LongerTerm
  <2>. QED
    BY <1>1, <1>2, <2>1 DEF GuestInv, TypeOK
<1>4. RedactedIsOld'
  <2>1. \A c \in Opened : checkout[c].since \in Nat
    BY Terms DEF GuestInv, TypeOK, Opened, Checkout
  <2>. QED
    BY <1>1, <1>2, <2>1, Terms DEF GuestInv, RedactedIsOld, Old, Opened
<1>5. CommandsAreWhole' /\ CookiesWereIssued' /\ OpenedIsAnswered' /\ OneClaim' /\ ReadIsOwn'
  BY <1>1 DEF GuestInv, CommandsAreWhole, CookiesWereIssued, OpenedIsAnswered, OneClaim,
     ReadIsOwn, At, Opened
<1>6. /\ CommandsDiffer' /\ SessionsKeepTheirCheckouts'
      /\ OnlyRetriesOutliveRedaction' /\ ProlongedByFailure'
  BY <1>1 DEF GuestInv, CommandsDiffer, SessionsKeepTheirCheckouts, OnlyRetriesOutliveRedaction,
     RetriedAfterRedaction, ProlongedByFailure, InState, Owns, LockedByClaim, At, Opened
<1>. QED
  BY <1>3, <1>4, <1>5, <1>6 DEF GuestInv

LEMMA RollBackKeeps ==
  ASSUME GuestInv, NEW r \in Requests, RollBack(r)
  PROVE  GuestInv'
BY AnswerKeeps DEF RollBack, Answers

LEMMA GuestNext == GuestInv /\ [Next]_vars => GuestInv'
<1>. SUFFICES ASSUME GuestInv, [Next]_vars PROVE GuestInv'
  OBVIOUS
<1>1. ASSUME NEW r \in Requests, Send(r) \/ SelectDoomed(r) \/ RequireSession(r)
      PROVE  GuestInv'
  BY <1>1, SendKeeps, SelectDoomedKeeps, RequireSessionKeeps
<1>2. ASSUME NEW r \in Requests, DeleteDoomed(r) \/ ReuseOrCreate(r)
      PROVE  GuestInv'
  BY <1>2, DeleteDoomedKeeps, ReuseOrCreateKeeps
<1>3. ASSUME NEW r \in Requests, Claim(r) \/ Open(r) \/ RollBack(r) \/ FindRecord(r) \/ Recover(r)
      PROVE  GuestInv'
  BY <1>3, ClaimKeeps, OpenKeeps, RollBackKeeps, FindRecordKeeps, RecoverKeeps
<1>4. ASSUME NEW r \in Requests,
             ReadCheckout(r) \/ Pay(r) \/ \E k \in PaymentKeys : Settle(r, k)
      PROVE  GuestInv'
  BY <1>4, ReadCheckoutKeeps, PayKeeps, SettleKeeps
<1>5. CASE UNCHANGED vars
  BY <1>5 DEF vars, GuestInv, TypeOK, CommandsAreWhole, CookiesWereIssued, OpenedIsAnswered,
     OneClaim, ReadIsOwn, RedactedIsOld, CommandsDiffer, SessionsKeepTheirCheckouts,
     OnlyRetriesOutliveRedaction, RetriedAfterRedaction, ProlongedByFailure, InState,
     At, Opened, Old, Owns, LockedByClaim
<1>. QED
  BY <1>1, <1>2, <1>3, <1>4, <1>5, RedactBatchKeeps, RunsAndDaysKeep DEF Next

LEMMA GuestAlways == Spec => []GuestInv
BY GuestInit, GuestNext, PTL DEF Spec
-----------------------------------------------------------------------------
\* A step answers requests with success faithfully.
LEMMA FaithfulStep ==
  ASSUME GuestInv, GuestInv', [Next]_vars, NEW r \in Requests,
         req[r].at # "DONE", req'[r].answer = "OPENED"
  PROVE  Faithful(r, req'[r].of)
<1>1. req[r] \in Request /\ req[r].answer # "OPENED"
  BY DEF GuestInv, TypeOK, CommandsAreWhole
<1>2. req'[r] # req[r]
  BY <1>1
<1>3. PICK p \in Requests :
        \/ Send(p) \/ SelectDoomed(p) \/ DeleteDoomed(p) \/ ReuseOrCreate(p)
        \/ RequireSession(p) \/ Claim(p) \/ Open(p) \/ RollBack(p) \/ FindRecord(p)
        \/ Recover(p) \/ ReadCheckout(p) \/ Pay(p)
  BY <1>2 DEF Next, vars, Settle, StartRun, RedactBatch, RunFails, Tick
<1>4. p = r
  BY <1>2, <1>3 DEF GuestInv, TypeOK, Send, SelectDoomed, DeleteDoomed, ReuseOrCreate,
     RequireSession, Claim, Open, RollBack, FindRecord, Recover, ReadCheckout, Pay, Answer, MoveTo
<1>5. ASSUME NEW a, NEW c, Answer(r, a, c)
      PROVE  req'[r].answer = a /\ req'[r].of = c
  BY <1>5 DEF Answer, Done, Unsent, GuestInv, TypeOK
<1>6. \/ Claim(r) \/ Open(r) \/ Recover(r) \/ Pay(r)
  <2>1. ~Send(r)
    BY <1>1, SentIsUnanswered
  <2>4. ~SelectDoomed(r)
    BY <1>1 DEF SelectDoomed, GuestInv, TypeOK, Request
  <2>2. ~(DeleteDoomed(r) \/ ReuseOrCreate(r) \/ RequireSession(r))
    BY <1>1, <1>5 DEF DeleteDoomed, ReuseOrCreate, RequireSession, MoveTo, GuestInv, TypeOK, Request
  <2>3. ~(RollBack(r) \/ ReadCheckout(r))
    BY <1>1, <1>5 DEF RollBack, ReadCheckout, GuestInv, TypeOK, Request
  <2>5. ~FindRecord(r)
    BY <1>1, <1>5 DEF FindRecord, GuestInv, TypeOK, Request
  <2>. QED
    BY <1>3, <1>4, <2>1, <2>2, <2>3, <2>4, <2>5
<1>7. CASE Claim(r)
  <2>1. PICK c \in Recorded(req[r].cookie, req[r].key) :
          Answer(r, Replay(checkout[c].print, req[r].payload), c)
    BY <1>1, <1>5, <1>7 DEF Claim, GuestInv, TypeOK, Request
  <2>2. checkout[c].print = req[r].payload /\ req'[r].of = c
    <3>1. req[r].payload \in Payloads
      BY <1>7 DEF Claim, At, GuestInv, CommandsAreWhole
    <3>. QED
      BY <1>5, <2>1, <3>1, ReplayAnswers
  <2>. QED
    BY <1>7, <2>1, <2>2 DEF Faithful, Claim, Recorded, At
<1>8. CASE Open(r)
  BY <1>5, <1>8 DEF Open, Faithful, At, GuestInv, TypeOK
<1>9. CASE Recover(r)
  <2>1. req'[r].of = req[r].of /\ checkout[req[r].of].session = req[r].cookie
    BY <1>5, <1>9 DEF Recover
  <2>2. req[r].op = "recover" /\ checkout[req[r].of].key = req[r].key
    BY <1>9 DEF Recover, At, GuestInv, ReadIsOwn
  <2>. QED
    BY <1>9, <2>1, <2>2 DEF Faithful, Recover
<1>10. CASE Pay(r)
  <2>. DEFINE c == req[r].of
              prior == checkout[c].attempt[req[r].key]
              made == [state |-> "OPEN", print |-> req[r].payload]
  <2>1. /\ req[r].op = "pay" /\ c \in Requests /\ checkout[c].session = req[r].cookie
        /\ checkout[c] \in Checkout /\ req[r].key \in PaymentKeys /\ req[r].payload \in Payloads
    BY <1>10 DEF Pay, At, GuestInv, CommandsAreWhole, ReadIsOwn, Opened, TypeOK
  <2>2. CASE UNCHANGED checkout /\ Answer(r, Replay(prior.print, req[r].payload), c)
    <3>1. prior.print = req[r].payload /\ req'[r].of = c
      BY <1>5, <2>1, <2>2, ReplayAnswers
    <3>. QED
      BY <2>1, <2>2, <3>1 DEF Faithful
  <2>3. CASE Answer(r, "REFUSED", c)
    BY <1>5, <2>3
  <2>4. CASE /\ checkout' = [checkout EXCEPT ![c].attempt[req[r].key] = made]
             /\ Answer(r, "OPENED", c)
    <3>1. req'[r].of = c
      BY <1>5, <2>4
    <3>2. /\ checkout'[c].session = checkout[c].session
          /\ checkout'[c].attempt[req[r].key] = made
      BY <2>1, <2>4 DEF GuestInv, TypeOK, Checkout
    <3>. QED
      BY <2>1, <3>1, <3>2 DEF Faithful
  <2>. QED
    BY <1>10, <2>2, <2>3, <2>4 DEF Pay
<1>. QED
  BY <1>6, <1>7, <1>8, <1>9, <1>10
-----------------------------------------------------------------------------
(***************************************************************************)
(* The types of the model hold: every checkout that exists has an owner, a *)
(* command key and a fingerprint, and nobody's session outlives its TTL.   *)
(***************************************************************************)
THEOREM GuestTypes == Spec => []TypeOK
BY GuestAlways, PTL DEF GuestInv

(***************************************************************************)
(* However many requests race with one key, one checkout is opened         *)
(* (CheckoutsService.create with its claim).                               *)
(***************************************************************************)
THEOREM CommandsAreSingle == Spec => []OneCheckoutPerCommand
<1>1. GuestInv => OneCheckoutPerCommand
  <2>. SUFFICES ASSUME GuestInv, NEW r \in Requests, NEW c \in Opened
                PROVE  /\ Recorded(checkout[c].session, checkout[c].key) = {c}
                       /\ At(r, "create", "CLAIMED") => c \notin Recorded(req[r].cookie, req[r].key)
    BY DEF OneCheckoutPerCommand
  <2>1. Recorded(checkout[c].session, checkout[c].key) = {c}
    BY DEF GuestInv, CommandsDiffer, Recorded
  <2>2. At(r, "create", "CLAIMED") => c \notin Recorded(req[r].cookie, req[r].key)
    BY DEF GuestInv, CommandsDiffer, Recorded
  <2>. QED
    BY <2>1, <2>2
<1>. QED
  BY <1>1, GuestAlways, PTL

(***************************************************************************)
(* The clean-up of GuestSessionsService never deletes a session that owns  *)
(* a checkout or is about to.                                              *)
(***************************************************************************)
THEOREM OwnersStay == Spec => []SessionsKeepTheirCheckouts
BY GuestAlways, PTL DEF GuestInv

(***************************************************************************)
(* The retention job leaves nothing of a person behind, and of the payment *)
(* commands that race it only a retry, after a failure that prolonged the  *)
(* hold, brings a fingerprint back.                                        *)
(***************************************************************************)
THEOREM RedactionIsFinal == Spec => []OnlyRetriesOutliveRedaction
BY GuestAlways, PTL DEF GuestInv

(***************************************************************************)
(* A command is answered with success only for its session, its key and    *)
(* its payload.                                                            *)
(***************************************************************************)
THEOREM AnswersAreFaithful == Spec => FaithfulAnswers
<1>. DEFINE Answers1 ==
       \A r \in Requests : req[r].at # "DONE" /\ req'[r].answer = "OPENED" => Faithful(r, req'[r].of)
<1>1. GuestInv /\ GuestInv' /\ [Next]_vars => [Answers1]_vars
  BY FaithfulStep
<1>. QED
  BY <1>1, GuestAlways, PTL DEF Spec, FaithfulAnswers
=============================================================================
