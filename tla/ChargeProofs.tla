----------------------------- MODULE ChargeProofs -----------------------------
(***************************************************************************)
(* What the attempts of a checkout know of the provider's transactions:    *)
(* nothing is charged behind a local failure, never two charges, never     *)
(* three attempts that reached the provider, reports applied in order.     *)
(***************************************************************************)
EXTENDS PaymentLifecycleProofs

Failing == {"DECLINED", "ERROR", "VOIDED"}
Local   == {"FAILED_LOCAL", "REJECTED_NO_TRANSACTION"}

\* The provider created a transaction and, if s is a failure, signed that it ended.
Seen(a, s) == tx[a] \in Status /\ (s \in Failing => Ended(a))

(***************************************************************************)
(* What a row may say: a status is the last one that was reported, a       *)
(* failure was signed, a local failure and a missing row have no           *)
(* transaction.                                                            *)
(***************************************************************************)
RowEvidence(a) ==
  /\ att[a].state = "NONE" => tx[a] = "NONE" /\ att[a].providerStatus = "NONE"
  /\ att[a].state \in Local => tx[a] \in {"REFUSED", "NEVER"}
  /\ att[a].state \in Terminal => att[a].providerStatus = att[a].state /\ att[a].responded
  /\ att[a].state \in Failing => Ended(a)

(***************************************************************************)
(* What an answer in memory and an event may say.                          *)
(***************************************************************************)
MemoryEvidence(a) ==
  /\ call[a] = "CONFIG" => tx[a] = "NEVER"
  /\ call[a] = "REJECTED" => tx[a] = "REFUSED"
  /\ call[a] = "MISMATCH" => tx[a] \in Status
  /\ call[a] \in Status => Seen(a, call[a])
  /\ \A s \in Status, at \in Nat : <<a, s, at>> \in lookups => Seen(a, s)

EventEvidence(a) ==
  /\ \A e \in events : e.attempt = a => tx[a] \in Status
  /\ tx[a] \in Failing => Ended(a)

Evidence == \A a \in Attempts : RowEvidence(a) /\ MemoryEvidence(a) /\ EventEvidence(a)
-------------------------------------------------------------------------------
\* A step that only forgets what the process knew.
Forgets == /\ \A a \in Attempts : call'[a] \in {call[a], "DONE"}
           /\ lookups' \subseteq lookups
           /\ UNCHANGED provider

LEMMA WordsApart ==
  /\ "DONE" \notin Answer /\ "OPEN" \notin Answer /\ "NONE" \notin Answer
  /\ "ASKED" \notin Status /\ "NONE" \notin Status
  /\ \A s \in Status : s \notin {"CONFIG", "REJECTED", "MISMATCH", "UNKNOWN", "REQUESTED", "REFUSED", "NEVER"}
  BY DEF Answer, Status

LEMMA ForgetsKeeps ==
  ASSUME Forgets, NEW a \in Attempts, MemoryEvidence(a), EventEvidence(a)
  PROVE  MemoryEvidence(a)' /\ EventEvidence(a)'
<1>1. tx' = tx /\ events' = events /\ (Ended(a)' <=> Ended(a))
  BY DEF Forgets, provider, Ended
<1>2. \A s : Seen(a, s)' <=> Seen(a, s)
  BY <1>1 DEF Seen
<1>3. EventEvidence(a)'
  BY <1>1 DEF EventEvidence
<1>4. call'[a] \in {call[a], "DONE"} /\ lookups' \subseteq lookups
  BY DEF Forgets
<1>5. call'[a] \in Status => call'[a] = call[a]
  BY <1>4, WordsApart DEF Answer
<1> QED
  BY <1>1, <1>2, <1>3, <1>4, <1>5 DEF MemoryEvidence

\* What the rows say stays true while the provider does nothing.
LEMMA RowKeeps ==
  ASSUME NEW a \in Attempts, RowEvidence(a), UNCHANGED provider,
         att'[a].state = att[a].state, att'[a].providerStatus = att[a].providerStatus,
         att[a].responded => att'[a].responded
  PROVE  RowEvidence(a)'
  BY DEF RowEvidence, provider, Ended
-------------------------------------------------------------------------------
(***************************************************************************)
(* The transactions that write a row.                                      *)
(***************************************************************************)
LEMMA AcceptEvidence ==
  ASSUME TypeOK, NEW a \in Attempts, NEW s \in Status, NEW at \in Int,
         Seen(a, s), UNCHANGED provider, AcceptStatus(a, s, at)
  PROVE  RowEvidence(a)'
<1>1. /\ att'[a].state = s /\ att'[a].providerStatus = s /\ att'[a].responded
  BY DEF AcceptStatus, TypeOK, AttemptRecord
<1>2. tx'[a] \in Status /\ (s \in Failing => Ended(a)')
  BY DEF Seen, provider, Ended
<1> QED
  BY <1>1, <1>2 DEF RowEvidence, Status, Local

\* What a report, a mismatch or the end of a dispatch does to the other rows, and
\* to its own row when nothing is accepted.
Reviews(a) ==
  /\ \A b \in Attempts : b # a => att'[b] = att[b]
  /\ att'[a].state = att[a].state /\ att'[a].providerStatus = att[a].providerStatus
  /\ att'[a].responded = att[a].responded /\ att'[a].stamp = att[a].stamp

LEMMA ReviewReviews ==
  ASSUME TypeOK, NEW a \in Attempts, NEW r, att' = [att EXCEPT ![a].review = r]
  PROVE  Reviews(a) /\ att'[a].review = r
  BY DEF Reviews, TypeOK, AttemptRecord

LEMMA ApplyReviewsOrAccepts ==
  ASSUME TypeOK, NEW a \in Attempts, NEW s \in Status, NEW at \in Int, ApplyStatus(a, s, at)
  PROVE  \/ Reviews(a) /\ UNCHANGED ledger
         \/ /\ ~IsStale(a, at) /\ ~Repeats(a, s) /\ ~Contradicts(a, s)
            /\ AcceptStatus(a, s, at)
<1>1. CASE \E conflict : RecordStale(a, conflict)
  BY <1>1, ReviewReviews DEF RecordStale
<1>2. CASE UNCHANGED <<ledger, att>>
  BY <1>2 DEF Reviews
<1> QED
  BY <1>1, <1>2 DEF ApplyStatus

LEMMA ApplyEvidence ==
  ASSUME TypeOK, Evidence, NEW a \in Attempts, NEW s \in Status, NEW at \in Int,
         Seen(a, s), Forgets, ApplyStatus(a, s, at)
  PROVE  Evidence'
<1>1. UNCHANGED provider
  BY DEF Forgets
<1>2. CASE Reviews(a)
  BY <1>1, <1>2, RowKeeps, ForgetsKeeps DEF Reviews, Evidence
<1>3. CASE AcceptStatus(a, s, at)
  <2>1. \A b \in Attempts : b # a => att'[b] = att[b]
    BY <1>3, AcceptFrame
  <2> QED
    BY <1>1, <1>3, <2>1, AcceptEvidence, RowKeeps, ForgetsKeeps DEF Evidence
<1> QED
  BY <1>2, <1>3, ApplyReviewsOrAccepts

LEMMA MismatchRow ==
  ASSUME TypeOK, NEW a \in Attempts, RecordMismatch(a)
  PROVE  /\ \A b \in Attempts : b # a => att'[b] = att[b]
         /\ att'[a].state = IF att[a].responded THEN att[a].state ELSE "UNKNOWN_OUTCOME"
         /\ att'[a].providerStatus = att[a].providerStatus /\ att'[a].stamp = att[a].stamp
         /\ att'[a].responded /\ att'[a].review
  BY DEF RecordMismatch, TypeOK, AttemptRecord

LEMMA MismatchEvidence ==
  ASSUME TypeOK, Evidence, NEW a \in Attempts, tx[a] \in Status, Forgets, RecordMismatch(a)
  PROVE  Evidence'
<1>1. UNCHANGED provider /\ tx'[a] \in Status
  BY DEF Forgets, provider
<1>2. \A b \in Attempts : b # a => RowEvidence(b)'
  BY <1>1, MismatchRow, RowKeeps DEF Evidence
<1>3. RowEvidence(a)'
  <2>1. CASE att[a].responded
    BY <1>1, <2>1, MismatchRow, RowKeeps DEF Evidence
  <2>2. CASE ~att[a].responded
    BY <1>1, <2>2, MismatchRow DEF RowEvidence, Terminal, Local, Failing, Status
  <2> QED
    BY <2>1, <2>2
<1> QED
  BY <1>2, <1>3, ForgetsKeeps DEF Evidence

LEMMA CloseRow ==
  ASSUME TypeOK, NEW a \in Attempts, NEW s \in AttemptState, NEW k \in CheckoutState,
         CloseDispatch(a, s, k)
  PROVE  \/ ~InFlight(a) /\ UNCHANGED <<ledger, att>>
         \/ /\ InFlight(a)
            /\ \A b \in Attempts : b # a => att'[b] = att[b]
            /\ att' = [att EXCEPT ![a].state = s]
            /\ att'[a].state = s /\ att'[a].providerStatus = att[a].providerStatus
            /\ att'[a].responded = att[a].responded /\ att'[a].stamp = att[a].stamp
            /\ checkout' = [checkout EXCEPT ![a[1]] = IF @ = "PAYMENT_PENDING" THEN k ELSE @]
            /\ UNCHANGED <<stock, hold, lapsed, fulfillment>>
  BY DEF CloseDispatch, TypeOK, AttemptRecord

LEMMA CloseEvidence ==
  ASSUME TypeOK, Evidence, NEW a \in Attempts, NEW s \in Local \cup {"UNKNOWN_OUTCOME"},
         NEW k \in CheckoutState, s \in Local => tx[a] \in {"REFUSED", "NEVER"},
         Forgets, CloseDispatch(a, s, k)
  PROVE  Evidence'
<1>1. UNCHANGED provider
  BY DEF Forgets
<1>2. s \in AttemptState
  BY DEF Local, AttemptState, Chargeable, Unresolved
<1>3. CASE UNCHANGED att
  BY <1>1, <1>3, RowKeeps, ForgetsKeeps DEF Evidence
<1>4. CASE /\ InFlight(a) /\ att'[a].state = s /\ \A b \in Attempts : b # a => att'[b] = att[b]
  <2>1. RowEvidence(a)'
    BY <1>1, <1>4 DEF RowEvidence, Local, Terminal, Failing, Status, provider
  <2> QED
    BY <1>1, <1>4, <2>1, RowKeeps, ForgetsKeeps DEF Evidence
<1> QED
  BY <1>2, <1>3, <1>4, CloseRow
-------------------------------------------------------------------------------
(***************************************************************************)
(* The steps that change what is in memory or at the provider.             *)
(***************************************************************************)
LEMMA EndedStays ==
  ASSUME NEW a \in Attempts, events \subseteq events', Ended(a)
  PROVE  Ended(a)'
  BY DEF Ended

\* One call or lookup of attempt a learns something, and no row changes.
LEMMA LearnEvidence ==
  ASSUME TypeOK, Evidence, NEW a \in Attempts, UNCHANGED <<att, events>>,
         \A b \in Attempts : b # a => tx'[b] = tx[b] /\ call'[b] = call[b],
         \A b \in Attempts, s \in Status, at \in Nat :
           b # a /\ <<b, s, at>> \in lookups' => <<b, s, at>> \in lookups,
         MemoryEvidence(a)', EventEvidence(a)', RowEvidence(a)'
  PROVE  Evidence'
<1>1. ASSUME NEW b \in Attempts, b # a
      PROVE  RowEvidence(b)' /\ MemoryEvidence(b)' /\ EventEvidence(b)'
  <2>1. tx'[b] = tx[b] /\ call'[b] = call[b] /\ att'[b] = att[b] /\ (Ended(b)' <=> Ended(b))
    BY <1>1 DEF Ended
  <2>2. \A s : Seen(b, s)' <=> Seen(b, s)
    BY <2>1 DEF Seen
  <2> QED
    BY <1>1, <2>1, <2>2 DEF Evidence, RowEvidence, MemoryEvidence, EventEvidence
<1> QED
  BY <1>1 DEF Evidence

LEMMA CreateAttemptEvidence ==
  ASSUME TypeOK, Evidence, NEW c \in Checkouts, NEW n \in Numbers, CreateAttempt(c, n)
  PROVE  Evidence'
<1> DEFINE a == <<c, n>>
<1>1. a \in Attempts
  BY DEF Attempts
<1>2. att[a].state = "NONE"
  BY ConstantsOK DEF CreateAttempt, NextNumber, Numbers
<1>3. tx[a] = "NONE"
  BY <1>1, <1>2 DEF Evidence, RowEvidence
<1>4. /\ att'[a].state = "PENDING" /\ \A b \in Attempts : b # a => att'[b] = att[b]
      /\ tx'[a] = "REQUESTED" /\ \A b \in Attempts : b # a => tx'[b] = tx[b]
      /\ call'[a] = "OPEN" /\ \A b \in Attempts : b # a => call'[b] = call[b]
      /\ events' = events /\ lookups' = lookups
  BY <1>1 DEF CreateAttempt, TypeOK, NoAttempt
<1>5. RowEvidence(a)'
  BY <1>4 DEF RowEvidence, Local, Terminal, Failing, Status
<1>6. \A e \in events : e.attempt # a
  BY <1>1, <1>3, WordsApart DEF Evidence, EventEvidence, Status
<1>7. \A s \in Status, at \in Nat : <<a, s, at>> \notin lookups
  BY <1>1, <1>3, WordsApart DEF Evidence, MemoryEvidence, Seen
<1>8. MemoryEvidence(a)' /\ EventEvidence(a)'
  BY <1>4, <1>6, <1>7, WordsApart DEF MemoryEvidence, EventEvidence, Failing, Answer
<1>9. ASSUME NEW b \in Attempts, b # a
      PROVE  RowEvidence(b)' /\ MemoryEvidence(b)' /\ EventEvidence(b)'
  <2>1. tx'[b] = tx[b] /\ call'[b] = call[b] /\ att'[b] = att[b] /\ (Ended(b)' <=> Ended(b))
    BY <1>4, <1>9 DEF Ended
  <2>2. \A s : Seen(b, s)' <=> Seen(b, s)
    BY <2>1 DEF Seen
  <2> QED
    BY <1>4, <1>9, <2>1, <2>2 DEF Evidence, RowEvidence, MemoryEvidence, EventEvidence
<1> QED
  BY <1>5, <1>8, <1>9 DEF Evidence

LEMMA CallEvidence ==
  ASSUME TypeOK, Evidence, NEW a \in Attempts,
         FailBeforeSending(a) \/ \E answer \in Answer : AnswerCall(a, answer)
  PROVE  Evidence'
<1>1. RowEvidence(a) /\ MemoryEvidence(a) /\ EventEvidence(a)
  BY DEF Evidence
<1>2. CASE FailBeforeSending(a)
  <2>1. /\ tx[a] = "REQUESTED" /\ tx'[a] = "NEVER" /\ call'[a] = "CONFIG"
        /\ \A b \in Attempts : b # a => tx'[b] = tx[b] /\ call'[b] = call[b]
        /\ UNCHANGED <<att, events, lookups>>
    BY <1>2 DEF FailBeforeSending, TypeOK
  <2>2. RowEvidence(a)'
    BY <1>1, <2>1 DEF RowEvidence, Ended, Local
  <2>3. MemoryEvidence(a)' /\ EventEvidence(a)'
    BY <1>1, <2>1, WordsApart DEF MemoryEvidence, EventEvidence, Seen, Failing
  <2> QED
    BY <2>1, <2>2, <2>3, LearnEvidence
<1>3. ASSUME NEW answer \in Answer, AnswerCall(a, answer) PROVE Evidence'
  <2>1. /\ call'[a] = answer
        /\ \A b \in Attempts : b # a => tx'[b] = tx[b] /\ call'[b] = call[b]
        /\ UNCHANGED <<att, events, lookups, tx>>
    BY <1>3 DEF AnswerCall, TypeOK, provider
  <2>2. /\ answer \in Status => tx[a] = answer
        /\ answer = "MISMATCH" => tx[a] \in Status
        /\ answer = "REJECTED" => tx[a] = "REFUSED"
        /\ answer # "CONFIG"
    BY <1>3, WordsApart DEF AnswerCall
  <2>3. RowEvidence(a)' /\ EventEvidence(a)'
    BY <1>1, <2>1 DEF RowEvidence, EventEvidence, Ended
  <2>4. MemoryEvidence(a)'
    BY <1>1, <2>1, <2>2 DEF MemoryEvidence, EventEvidence, Seen, Ended
  <2> QED
    BY <2>1, <2>3, <2>4, LearnEvidence
<1> QED
  BY <1>2, <1>3

LEMMA LookUpEvidence ==
  ASSUME TypeOK, Evidence, NEW a \in Attempts, LookUp(a) \/ AnswerLookUp(a)
  PROVE  Evidence'
<1>1. RowEvidence(a) /\ MemoryEvidence(a) /\ EventEvidence(a)
  BY DEF Evidence
<1>2. UNCHANGED <<att, call, tx, events>>
  BY DEF LookUp, AnswerLookUp, provider
<1>3. \A b \in Attempts, s \in Status, at \in Nat :
        <<b, s, at>> \in lookups' => <<b, s, at>> \in lookups \/ (b = a /\ s = tx[a])
  BY WordsApart DEF LookUp, AnswerLookUp
<1>4. RowEvidence(a)' /\ EventEvidence(a)'
  BY <1>1, <1>2 DEF RowEvidence, EventEvidence, Ended
<1>5. MemoryEvidence(a)'
  BY <1>1, <1>2, <1>3 DEF MemoryEvidence, EventEvidence, Seen, Ended
<1> QED
  BY <1>2, <1>3, <1>4, <1>5, LearnEvidence

LEMMA SignEvidence ==
  ASSUME TypeOK, Evidence, NEW a \in Attempts, NEW s \in Status,
         tx[a] \in Status \cup {"REQUESTED"}, SignStatus(a, s)
  PROVE  Evidence'
<1>1. /\ tx'[a] = s /\ \A b \in Attempts : b # a => tx'[b] = tx[b]
      /\ events' = events \cup {Event(a, s)} /\ UNCHANGED <<att, call, lookups>>
  BY DEF SignStatus, TypeOK, memory
<1>2. Event(a, s).attempt = a /\ Event(a, s).status = s
  BY DEF Event
<1>3. s \in Failing => Ended(a)'
  BY <1>1, <1>2 DEF Ended, Failing, Terminal, Status
<1>4. ASSUME NEW b \in Attempts
      PROVE  RowEvidence(b)' /\ MemoryEvidence(b)' /\ EventEvidence(b)'
  <2>1. Ended(b) => Ended(b)'
    BY <1>1, EndedStays
  <2>2. tx[b] \in Status => tx'[b] \in Status
    BY <1>1
  <2>3. tx[b] \in {"NONE", "REFUSED", "NEVER"} => tx'[b] = tx[b]
    BY <1>1, WordsApart
  <2>4. \A t : Seen(b, t) => Seen(b, t)'
    BY <2>1, <2>2 DEF Seen
  <2>5. RowEvidence(b)'
    BY <1>1, <2>1, <2>3 DEF Evidence, RowEvidence
  <2>6. MemoryEvidence(b)'
    BY <1>1, <2>2, <2>3, <2>4 DEF Evidence, MemoryEvidence
  <2>7. EventEvidence(b)'
    BY <1>1, <1>2, <1>3, <2>1, <2>2 DEF Evidence, EventEvidence
  <2> QED
    BY <2>5, <2>6, <2>7
<1> QED
  BY <1>4 DEF Evidence

LEMMA RefuseEvidence ==
  ASSUME TypeOK, Evidence, NEW a \in Attempts, ProviderRefuses(a)
  PROVE  Evidence'
<1>1. /\ tx[a] = "REQUESTED" /\ tx'[a] = "REFUSED"
      /\ \A b \in Attempts : b # a => tx'[b] = tx[b]
      /\ UNCHANGED <<att, call, lookups, events>>
  BY DEF ProviderRefuses, TypeOK, memory
<1>2. RowEvidence(a) /\ MemoryEvidence(a) /\ EventEvidence(a)
  BY DEF Evidence
<1>3. RowEvidence(a)'
  BY <1>1, <1>2 DEF RowEvidence, Ended, Local
<1>4. MemoryEvidence(a)' /\ EventEvidence(a)'
  BY <1>1, <1>2, WordsApart DEF MemoryEvidence, EventEvidence, Seen, Failing
<1> QED
  BY <1>1, <1>3, <1>4, LearnEvidence
-------------------------------------------------------------------------------
(***************************************************************************)
(* Every transaction that writes the ledger because of a provider: an      *)
(* accepted report, a mismatch, the end of a dispatch, or a review.  The   *)
(* other invariants look at the steps through this list.                   *)
(***************************************************************************)
Writes(a) ==
  \/ Reviews(a) /\ UNCHANGED ledger
  \/ /\ tx[a] \in Status
     /\ \E s \in Status, at \in Int : /\ Seen(a, s) /\ AcceptStatus(a, s, at)
                                      /\ ~IsStale(a, at) /\ ~Repeats(a, s) /\ ~Contradicts(a, s)
  \/ tx[a] \in Status /\ RecordMismatch(a)
  \/ \E s \in Local \cup {"UNKNOWN_OUTCOME"} :
       /\ CloseDispatch(a, s, IF s \in Local THEN "RESERVED" ELSE "UNKNOWN_OUTCOME")
       /\ s \in Local => tx[a] \in {"REFUSED", "NEVER"}

LEMMA ApplyWrites ==
  ASSUME TypeOK, NEW a \in Attempts, NEW s \in Status, NEW at \in Int,
         Seen(a, s), ApplyStatus(a, s, at)
  PROVE  Writes(a)
  BY ApplyReviewsOrAccepts DEF Writes, Seen

LEMMA CloseWrites ==
  ASSUME NEW a \in Attempts, NEW s \in Local \cup {"UNKNOWN_OUTCOME"},
         CloseDispatch(a, s, IF s \in Local THEN "RESERVED" ELSE "UNKNOWN_OUTCOME"),
         s \in Local => tx[a] \in {"REFUSED", "NEVER"}
  PROVE  Writes(a)
  BY DEF Writes

LEMMA WritesEvidence ==
  ASSUME TypeOK, Evidence, NEW a \in Attempts, Forgets, Writes(a)
  PROVE  Evidence'
<1>1. CASE Reviews(a)
  BY <1>1, RowKeeps, ForgetsKeeps DEF Reviews, Evidence, Forgets
<1>2. ASSUME NEW s \in Status, NEW at \in Int, Seen(a, s), AcceptStatus(a, s, at),
             ~IsStale(a, at), ~Repeats(a, s), ~Contradicts(a, s)
      PROVE  Evidence'
  BY <1>2, ApplyEvidence DEF ApplyStatus
<1>3. CASE tx[a] \in Status /\ RecordMismatch(a)
  BY <1>3, MismatchEvidence
<1>4. ASSUME NEW s \in Local \cup {"UNKNOWN_OUTCOME"},
             CloseDispatch(a, s, IF s \in Local THEN "RESERVED" ELSE "UNKNOWN_OUTCOME"),
             s \in Local => tx[a] \in {"REFUSED", "NEVER"}
      PROVE  Evidence'
  <2>1. (IF s \in Local THEN "RESERVED" ELSE "UNKNOWN_OUTCOME") \in CheckoutState
    BY DEF CheckoutState
  <2> QED
    BY <1>4, <2>1, CloseEvidence
<1> QED
  BY <1>1, <1>2, <1>3, <1>4 DEF Writes

\* The steps that write a row, one lemma per handler.
LEMMA RecordAnswerWrites ==
  ASSUME TypeOK, Evidence, NEW a \in Attempts, RecordAnswer(a)
  PROVE  Forgets /\ Writes(a)
<1>1. MemoryEvidence(a) /\ arrived[a] \in Int
  BY DEF Evidence, TypeOK
<1>2. Forgets
  BY DEF RecordAnswer, Forget, Forgets, TypeOK
<1>3. ASSUME call[a] = "CONFIG", CloseDispatch(a, "FAILED_LOCAL", "RESERVED") PROVE Writes(a)
  BY <1>1, <1>3, CloseWrites DEF MemoryEvidence, Local
<1>4. ASSUME call[a] = "REJECTED", CloseDispatch(a, "REJECTED_NO_TRANSACTION", "RESERVED")
      PROVE  Writes(a)
  BY <1>1, <1>4, CloseWrites DEF MemoryEvidence, Local
<1>5. ASSUME CloseDispatch(a, "UNKNOWN_OUTCOME", "UNKNOWN_OUTCOME") PROVE Writes(a)
  BY <1>5, CloseWrites DEF Local
<1>6. ASSUME call[a] = "MISMATCH", RecordMismatch(a) PROVE Writes(a)
  BY <1>1, <1>6 DEF MemoryEvidence, Writes
<1>7. ASSUME call[a] \in Status, ApplyStatus(a, call[a], arrived[a]) PROVE Writes(a)
  BY <1>1, <1>7, ApplyWrites DEF MemoryEvidence
<1> QED
  BY <1>2, <1>3, <1>4, <1>5, <1>6, <1>7 DEF RecordAnswer

LEMMA InboxWrites ==
  ASSUME TypeOK, Evidence, Inbox, ~PurgeReceipts
  PROVE  \E a \in Attempts : Forgets /\ Writes(a)
<1>1. ASSUME NEW e \in events, ReceiveEvent(e)
      PROVE  \E a \in Attempts : Forgets /\ Writes(a)
  <2>1. e.attempt \in Attempts /\ e.status \in Status /\ e.at \in Int
    BY DEF TypeOK, EventRecord
  <2>2. Seen(e.attempt, e.status)
    BY <2>1 DEF Evidence, EventEvidence, Seen, Ended, Failing, Terminal, Status
  <2>3. Forgets
    BY <1>1 DEF ReceiveEvent, Forgets, memory
  <2> QED
    BY <1>1, <2>1, <2>2, <2>3, ApplyWrites DEF ReceiveEvent
<1>2. ASSUME NEW a \in Attempts, ReportMismatch(a) PROVE Forgets /\ Writes(a)
  BY <1>2 DEF ReportMismatch, Forgets, Writes, memory
<1> QED
  BY <1>1, <1>2 DEF Inbox

LEMMA ReconcilerWrites ==
  ASSUME TypeOK, Evidence, NEW a \in Attempts,
         \/ RecoverDispatch(a) \/ MarkManualReview(a)
         \/ \E s \in Status, at \in 0..MaxNow : ApplyLookUp(a, s, at)
  PROVE  Forgets /\ Writes(a)
<1>1. ASSUME NEW s \in Status, NEW at \in 0..MaxNow, ApplyLookUp(a, s, at)
      PROVE  Forgets /\ Writes(a)
  <2>1. Seen(a, s) /\ at \in Int
    BY <1>1, ConstantsOK DEF ApplyLookUp, Evidence, MemoryEvidence
  <2> QED
    BY <1>1, <2>1, ApplyWrites DEF ApplyLookUp, Forgets
<1>2. CASE RecoverDispatch(a)
  BY <1>2, CloseWrites DEF RecoverDispatch, Forgets, memory, Local
<1>3. CASE MarkManualReview(a)
  BY <1>3, ReviewReviews DEF MarkManualReview, Forgets, memory, Writes
<1> QED
  BY <1>1, <1>2, <1>3

(***************************************************************************)
(* Every step is a client's, one that writes a row for what is known of    *)
(* the provider, or one that touches neither the ledger nor a row.         *)
(***************************************************************************)
Silent == UNCHANGED <<ledger, att>>

LEMMA Steps ==
  ASSUME TypeOK, Evidence, [Next]_vars
  PROVE  \/ Client
         \/ \E a \in Attempts : Forgets /\ Writes(a)
         \/ Silent
<1>1. CASE Dispatch
  BY <1>1, RecordAnswerWrites DEF Dispatch, FailBeforeSending, AnswerCall, LoseCall, Silent
<1>2. CASE Inbox
  BY <1>2, InboxWrites DEF PurgeReceipts, Silent
<1>3. CASE Reconciler
  BY <1>3, ReconcilerWrites DEF Reconciler, LookUp, AnswerLookUp, LoseLookUp, Silent
<1>4. CASE Provider \/ Tick \/ UNCHANGED vars
  BY <1>4 DEF Provider, ProviderCreates, ProviderChanges, ProviderRefuses, SignStatus, Tick,
     Silent, vars
<1> QED
  BY <1>1, <1>2, <1>3, <1>4 DEF Next

LEMMA EvidenceNext == TypeOK /\ Evidence /\ [Next]_vars => Evidence'
<1> SUFFICES ASSUME TypeOK, Evidence, [Next]_vars PROVE Evidence'
  OBVIOUS
<1>1. ASSUME UNCHANGED att, Forgets PROVE Evidence'
  BY <1>1, RowKeeps, ForgetsKeeps DEF Evidence, Forgets
<1>2. CASE Client
  BY <1>1, <1>2, CreateAttemptEvidence
  DEF Client, Sweep, CreateCheckout, HoldLapses, Forgets, memory
<1>3. CASE Dispatch
  <2>1. ASSUME NEW a \in Attempts, LoseCall(a) PROVE Forgets /\ UNCHANGED att
    BY <2>1 DEF LoseCall, Forget, Forgets, TypeOK
  <2> QED
    BY <1>1, <1>3, <2>1, CallEvidence, RecordAnswerWrites, WritesEvidence DEF Dispatch
<1>4. CASE PurgeReceipts \/ Tick \/ UNCHANGED vars
  BY <1>1, <1>4 DEF PurgeReceipts, Tick, vars, Forgets, memory, provider
<1>5. CASE Inbox
  BY <1>4, <1>5, InboxWrites, WritesEvidence
<1>6. CASE Reconciler
  <2>1. ASSUME NEW a \in Attempts, LoseLookUp(a) PROVE Forgets /\ UNCHANGED att
    BY <2>1 DEF LoseLookUp, Forgets
  <2> QED
    BY <1>1, <1>6, <2>1, LookUpEvidence, ReconcilerWrites, WritesEvidence DEF Reconciler
<1>7. CASE Provider
  <2>1. ASSUME NEW a \in Attempts, NEW s \in Status, ProviderCreates(a, s) \/ ProviderChanges(a, s)
        PROVE  Evidence'
    BY <2>1, ConstantsOK, SignEvidence DEF ProviderCreates, ProviderChanges
  <2> QED
    BY <1>7, <2>1, RefuseEvidence DEF Provider
<1> QED
  BY <1>2, <1>3, <1>4, <1>5, <1>6, <1>7 DEF Next

LEMMA EvidenceInit == Init => Evidence
  BY WordsApart DEF Init, Evidence, RowEvidence, MemoryEvidence, EventEvidence, NoAttempt, Local,
     Terminal, Status, Failing

LEMMA EvidenceAlways == Spec => [](TypeOK /\ SaleInv /\ Evidence)
  BY SaleInvariant, EvidenceInit, EvidenceNext, PTL DEF Spec

(***************************************************************************)
(* FAILED_LOCAL and REJECTED_NO_TRANSACTION keep their promise: no         *)
(* transaction exists or ever will, for any provider and any number of     *)
(* attempts (markLocalFailure, markRejected).                              *)
(***************************************************************************)
THEOREM NothingIsCharged == Spec => []NoChargeBehindFailure
<1>1. Evidence => NoChargeBehindFailure
  BY DEF Evidence, RowEvidence, Local, NoChargeBehindFailure
<1> QED
  BY <1>1, EvidenceAlways, PTL
-------------------------------------------------------------------------------
(***************************************************************************)
(* No double charge.  A transaction that may still charge has an attempt   *)
(* that is unresolved or approved, and only a new attempt makes another.   *)
(***************************************************************************)
Charging(a) == tx[a] \in Alive /\ ~Ended(a)

LEMMA ChargingIsOpen ==
  ASSUME TypeOK, Evidence, NEW a \in Attempts, Charging(a)
  PROVE  att[a].state \in Unresolved \cup {"APPROVED"}
<1>1. RowEvidence(a) /\ att[a].state \in AttemptState
  BY DEF Evidence, TypeOK, AttemptRecord
<1>2. att[a].state \notin Local \cup Failing \cup {"NONE"}
  BY <1>1 DEF RowEvidence, Charging, Alive
<1> QED
  BY <1>1, <1>2 DEF AttemptState, Local, Failing, Chargeable, Terminal, Status

LEMMA ChargingShrinks ==
  ASSUME TypeOK, Evidence, [Next]_vars,
         \A c \in Checkouts, n \in Numbers : ~CreateAttempt(c, n),
         NEW a \in Attempts, Charging(a)'
  PROVE  Charging(a)
<1>1. CASE UNCHANGED provider
  BY <1>1 DEF Charging, Ended, provider
<1>2. ASSUME NEW b \in Attempts, FailBeforeSending(b) PROVE Charging(a)
  BY <1>2 DEF FailBeforeSending, TypeOK, Charging, Ended, Alive
<1>3. ASSUME NEW b \in Attempts, NEW s \in Status, SignStatus(b, s),
             tx[b] \in Status \cup {"REQUESTED"}
      PROVE  Charging(a)
  <2>1. ~Ended(a)
    BY <1>3, EndedStays DEF SignStatus, Charging
  <2>2. CASE a = b
    <3>1. tx[a] \notin Failing
      BY <2>1 DEF Evidence, EventEvidence
    <3> QED
      BY <1>3, <2>1, <2>2, <3>1 DEF Charging, Alive, Status, Failing
  <2>3. CASE a # b
    BY <1>3, <2>1, <2>3 DEF SignStatus, TypeOK, Charging
  <2> QED
    BY <2>2, <2>3
<1>4. ASSUME NEW b \in Attempts, ProviderRefuses(b) PROVE Charging(a)
  BY <1>4 DEF ProviderRefuses, TypeOK, Charging, Ended, Alive
<1>5. CASE Provider
  <2>1. ASSUME NEW b \in Attempts, NEW s \in Status, ProviderCreates(b, s) \/ ProviderChanges(b, s)
        PROVE  Charging(a)
    BY <1>3, <2>1, ConstantsOK DEF ProviderCreates, ProviderChanges
  <2> QED
    BY <1>4, <1>5, <2>1 DEF Provider
<1>6. CASE Client
  BY <1>1, <1>6 DEF Client, Sweep, CreateCheckout, HoldLapses
<1>7. CASE Dispatch
  BY <1>1, <1>2, <1>7 DEF Dispatch, AnswerCall, RecordAnswer, LoseCall
<1>8. CASE Inbox \/ Reconciler \/ Tick \/ UNCHANGED vars
  BY <1>1, <1>8 DEF Inbox, ReceiveEvent, PurgeReceipts, ReportMismatch, Reconciler, LookUp,
     AnswerLookUp, ApplyLookUp, LoseLookUp, RecoverDispatch, MarkManualReview, Tick, vars, provider
<1> QED
  BY <1>5, <1>6, <1>7, <1>8 DEF Next

LEMMA OneCharge == TypeOK /\ Evidence /\ AtMostOneCharge /\ [Next]_vars => AtMostOneCharge'
<1> SUFFICES ASSUME TypeOK, Evidence, AtMostOneCharge, [Next]_vars,
                    NEW c \in Checkouts, NEW m \in Numbers, NEW n \in Numbers,
                    Charging(<<c, m>>)', Charging(<<c, n>>)'
             PROVE  m = n
  BY DEF AtMostOneCharge, Charging
<1>1. <<c, m>> \in Attempts /\ <<c, n>> \in Attempts
  BY DEF Attempts
<1>2. CASE \A d \in Checkouts, k \in Numbers : ~CreateAttempt(d, k)
  BY <1>1, <1>2, ChargingShrinks DEF AtMostOneCharge, Charging
<1>3. ASSUME NEW d \in Checkouts, NEW k \in Numbers, CreateAttempt(d, k) PROVE m = n
  <2>1. \A b \in Attempts : b # <<d, k>> => tx'[b] = tx[b]
    BY <1>3 DEF CreateAttempt, TypeOK
  <2>2. \A b \in Attempts : b # <<d, k>> /\ Charging(b)' => Charging(b)
    BY <1>3, <2>1 DEF CreateAttempt, Charging, Ended
  <2>3. \A i \in Numbers : ~Charging(<<d, i>>)
    <3>1. \A i \in Numbers : /\ <<d, i>> \in Attempts
                             /\ att[<<d, i>>].state \notin Unresolved \cup {"APPROVED", "VOIDED"}
      BY <1>3 DEF CreateAttempt, Eligible, Attempts
    <3> QED
      BY <3>1, ChargingIsOpen
  <2>4. CASE c = d
    BY <1>1, <2>2, <2>3, <2>4
  <2>5. CASE c # d
    BY <1>1, <2>2, <2>5 DEF AtMostOneCharge, Charging
  <2> QED
    BY <2>4, <2>5
<1> QED
  BY <1>2, <1>3

(***************************************************************************)
(* No double charge: at most one attempt of a checkout has a provider      *)
(* transaction that is approved or still can be, whatever is lost, crashes *)
(* or times out, for any number of attempts (createAttempt,                *)
(* isEligibleForPayment).                                                  *)
(***************************************************************************)
THEOREM ChargedOnce == Spec => []AtMostOneCharge
<1>1. Init => AtMostOneCharge
  <2>1. \A c \in Checkouts, n \in Numbers : <<c, n>> \in Attempts
    BY DEF Attempts
  <2> QED
    BY <2>1 DEF Init, AtMostOneCharge, Alive
<1> QED
  BY <1>1, OneCharge, EvidenceAlways, PTL DEF Spec
-------------------------------------------------------------------------------
(***************************************************************************)
(* Reports in the order of their stamps.                                   *)
(***************************************************************************)
LEMMA StampStep ==
  ASSUME TypeOK, Evidence, [Next]_vars, NEW a \in Attempts, att[a].providerStatus # "NONE"
  PROVE  att'[a].stamp >= att[a].stamp
<1>1. att[a].stamp \in Int
  BY DEF TypeOK, AttemptRecord
<1>2. CASE att'[a].stamp = att[a].stamp
  BY <1>1, <1>2
<1>3. ASSUME NEW b \in Attempts, Writes(b) PROVE att'[a].stamp >= att[a].stamp
  <2>1. CASE Reviews(b)
    BY <1>2, <2>1 DEF Reviews
  <2>2. ASSUME NEW s \in Status, NEW at \in Int, AcceptStatus(b, s, at), ~IsStale(b, at)
        PROVE  att'[a].stamp >= att[a].stamp
    <3>1. CASE a # b
      BY <1>2, <2>2, <3>1, AcceptFrame
    <3>2. CASE a = b
      <4>1. att'[a].stamp = at
        BY <2>2, <3>2 DEF AcceptStatus, TypeOK, AttemptRecord
      <4> QED
        BY <1>1, <2>2, <3>2, <4>1 DEF IsStale
    <3> QED
      BY <3>1, <3>2
  <2>3. CASE RecordMismatch(b)
    BY <1>2, <2>3, MismatchRow
  <2>4. ASSUME NEW s \in Local \cup {"UNKNOWN_OUTCOME"},
               CloseDispatch(b, s, IF s \in Local THEN "RESERVED" ELSE "UNKNOWN_OUTCOME")
        PROVE  att'[a].stamp >= att[a].stamp
    <3>1. att'[a].stamp = att[a].stamp
      BY <2>4 DEF CloseDispatch, TypeOK, AttemptRecord
    <3> QED
      BY <1>2, <3>1
  <2> QED
    BY <1>3, <2>1, <2>2, <2>3, <2>4 DEF Writes
<1>4. CASE Client
  <2>1. ASSUME NEW c \in Checkouts, NEW n \in Numbers, CreateAttempt(c, n)
        PROVE  att'[a] = att[a]
    <3>1. <<c, n>> \in Attempts /\ att[<<c, n>>].state = "NONE"
      BY <2>1, ConstantsOK DEF CreateAttempt, NextNumber, Numbers, Attempts
    <3>2. a # <<c, n>>
      BY <3>1 DEF Evidence, RowEvidence
    <3> QED
      BY <2>1, <3>2 DEF CreateAttempt, TypeOK
  <2> QED
    BY <1>2, <1>4, <2>1 DEF Client, Sweep, CreateCheckout, HoldLapses
<1> QED
  BY <1>2, <1>3, <1>4, Steps DEF Silent

(***************************************************************************)
(* Reports are applied in the order of their stamps, however far apart the *)
(* clocks are and whatever order events and answers arrive in              *)
(* (applyTransactionInTransaction).                                        *)
(***************************************************************************)
THEOREM StampsOnlyGrow == Spec => StampsMonotone
<1>1. TypeOK /\ Evidence /\ [Next]_vars
      => [\A a \in Attempts : att[a].providerStatus # "NONE" => att'[a].stamp >= att[a].stamp]_vars
  BY StampStep
<1> QED
  BY <1>1, EvidenceAlways, PTL DEF Spec, StampsMonotone

LEMMA FlagStep ==
  ASSUME TypeOK, Evidence, [Next]_vars, NEW e \in receipts' \ receipts,
         att[e.attempt].state = "APPROVED", e.status # "APPROVED",
         e.status \in Terminal \/ ~IsStale(e.attempt, e.at)
  PROVE  att'[e.attempt].review
<1> DEFINE a == e.attempt
<1>1. ReceiveEvent(e)
  BY DEF Next, Client, Sweep, CreateCheckout, HoldLapses, CreateAttempt, Dispatch,
     FailBeforeSending, AnswerCall, RecordAnswer, LoseCall, Inbox, ReceiveEvent, PurgeReceipts,
     ReportMismatch, Reconciler, LookUp, AnswerLookUp, ApplyLookUp, LoseLookUp, RecoverDispatch,
     MarkManualReview, Provider, ProviderCreates, ProviderChanges, ProviderRefuses, SignStatus,
     Tick, vars
<1>2. a \in Attempts /\ e.status \in Status /\ att[a].providerStatus = "APPROVED"
  BY <1>1 DEF ReceiveEvent, TypeOK, EventRecord, Evidence, RowEvidence, Terminal, Status
<1>3. ~Repeats(a, e.status) /\ Contradicts(a, e.status)
  BY DEF Repeats, Contradicts
<1>4. RecordStale(a, TRUE) \/ RecordStale(a, att[a].state \in Terminal /\ att[a].providerStatus # e.status)
  BY <1>1, <1>3 DEF ReceiveEvent, ApplyStatus
<1>5. att[a].state \in Terminal /\ att[a].providerStatus # e.status
  BY <1>2 DEF Terminal, Status
<1>6. RecordStale(a, TRUE)
  BY <1>4, <1>5
<1> QED
  BY <1>2, <1>6 DEF RecordStale, TypeOK, AttemptRecord

(***************************************************************************)
(* An event that contradicts a recorded approval is never dropped in       *)
(* silence: another terminal status, late or not, or any other status that *)
(* is not older than the recorded one, marks the attempt for review        *)
(* (applyTransactionInTransaction, recordStaleTransaction).                *)
(***************************************************************************)
THEOREM ContradictionsAreFlagged == Spec => ContradictionFlagged
<1>1. TypeOK /\ Evidence /\ [Next]_vars
      => [\A e \in receipts' \ receipts :
            /\ att[e.attempt].state = "APPROVED" /\ e.status # "APPROVED"
            /\ e.status \in Terminal \/ ~IsStale(e.attempt, e.at)
            => att'[e.attempt].review]_vars
  BY FlagStep
<1> QED
  BY <1>1, EvidenceAlways, PTL DEF Spec, ContradictionFlagged
-------------------------------------------------------------------------------
(***************************************************************************)
(* The open attempts of one checkout, and what the checkout says of them.  *)
(* Beside PaymentInProgress this takes: one attempt is open at a time, an  *)
(* unknown outcome is no dispatch under way, a cancelled checkout holds    *)
(* nothing, and no attempt comes before its checkout.                      *)
(***************************************************************************)
Open(c, n) == att[<<c, n>>].state \in Unresolved

Progress(c) ==
  /\ \A m, n \in Numbers : Open(c, m) /\ Open(c, n) => m = n
  /\ checkout[c] = "NONE" => \A n \in Numbers : att[<<c, n>>].state = "NONE"
  /\ checkout[c] \in {"PAYMENT_PENDING", "UNKNOWN_OUTCOME"} =>
       hold[c] = "HELD" /\ \E n \in Numbers : Open(c, n)
  /\ checkout[c] \in {"RESERVED", "PAYMENT_FAILED", "EXPIRED"} => \A n \in Numbers : ~Open(c, n)
  /\ checkout[c] = "UNKNOWN_OUTCOME" => \A n \in Numbers : ~InFlight(<<c, n>>)
  /\ checkout[c] = "CANCELLED" => hold[c] # "HELD"

\* The retry limit: two charges at most, and two failures let the units go.
Failed(c, n)  == att[<<c, n>>].state \in {"DECLINED", "ERROR"}
Reached(c, n) == att[<<c, n>>].state \in Chargeable

Retries(c) ==
  /\ \A k, m, n \in Numbers : Reached(c, k) /\ Reached(c, m) /\ Reached(c, n)
                             => k = m \/ k = n \/ m = n
  /\ hold[c] = "HELD" => \A m, n \in Numbers : Failed(c, m) /\ Failed(c, n) => m = n

Orderly == \A c \in Checkouts : Progress(c) /\ Retries(c)

\* A checkout whose row, hold and attempts a step leaves alone.
SameAttempts(c) ==
  \A n \in Numbers : /\ att'[<<c, n>>].state = att[<<c, n>>].state
                     /\ att'[<<c, n>>].responded = att[<<c, n>>].responded

LEMMA SameOrder ==
  ASSUME NEW c \in Checkouts, Progress(c), Retries(c), SameAttempts(c),
         checkout'[c] = checkout[c], hold'[c] = hold[c]
  PROVE  Progress(c)' /\ Retries(c)'
<1>1. \A n \in Numbers : /\ Open(c, n)' <=> Open(c, n)
                         /\ Failed(c, n)' <=> Failed(c, n)
                         /\ Reached(c, n)' <=> Reached(c, n)
                         /\ InFlight(<<c, n>>)' <=> InFlight(<<c, n>>)
  BY DEF SameAttempts, Open, Failed, Reached, InFlight
<1>2. Progress(c)'
  BY <1>1 DEF Progress, SameAttempts
<1> QED
  BY <1>1, <1>2 DEF Retries

\* A sweep that releases an unpaid hold.
LEMMA SweptOrder ==
  ASSUME TypeOK, NEW c \in Checkouts, Progress(c), Retries(c), SameAttempts(c),
         checkout'[c] = SweptCheckout[c], hold'[c] = SweptHold[c]
  PROVE  Progress(c)' /\ Retries(c)'
<1>1. CASE c \notin Expired
  BY <1>1, SameOrder DEF SweptCheckout, SweptHold
<1>2. CASE c \in Expired
  <2>1. \A n \in Numbers : (Open(c, n)' <=> Open(c, n)) /\ (Reached(c, n)' <=> Reached(c, n))
    BY DEF SameAttempts, Open, Reached
  <2>2. checkout[c] \in Sweepable /\ checkout'[c] = "EXPIRED" /\ hold'[c] = "RELEASED"
    BY <1>2 DEF SweptCheckout, SweptHold, Expired
  <2>3. Progress(c)'
    BY <2>1, <2>2 DEF Progress, Sweepable
  <2> QED
    BY <2>1, <2>2, <2>3 DEF Retries
<1> QED
  BY <1>1, <1>2
-------------------------------------------------------------------------------
(***************************************************************************)
(* The client's steps.                                                     *)
(***************************************************************************)
LEMMA CreateCheckoutOrder ==
  ASSUME TypeOK, Orderly, NEW c \in Checkouts, CreateCheckout(c)
  PROVE  Orderly'
<1>1. att' = att /\ \A d \in Checkouts : SameAttempts(d)
  BY DEF CreateCheckout, SameAttempts
<1>2. ASSUME NEW d \in Checkouts, d # c PROVE Progress(d)' /\ Retries(d)'
  <2>1. checkout'[d] = SweptCheckout[d] /\ hold'[d] = SweptHold[d]
    BY <1>2 DEF CreateCheckout, SweptCheckout, SweptHold
  <2> QED
    BY <1>1, <2>1, SweptOrder DEF Orderly
<1>3. checkout'[c] = "RESERVED" /\ \A n \in Numbers : att'[<<c, n>>].state = "NONE"
  BY <1>1 DEF CreateCheckout, SweptCheckout, Orderly, Progress
<1>4. \A n \in Numbers : ~Open(c, n)' /\ ~Failed(c, n)' /\ ~Reached(c, n)'
  BY <1>3 DEF Open, Failed, Reached, Chargeable, Terminal, Status, Unresolved
<1>5. Progress(c)'
  BY <1>3, <1>4 DEF Progress
<1>6. Retries(c)'
  BY <1>4 DEF Retries
<1> QED
  BY <1>2, <1>5, <1>6 DEF Orderly

LEMMA CreateAttemptOrder ==
  ASSUME TypeOK, Orderly, NEW c \in Checkouts, NEW n \in Numbers, CreateAttempt(c, n)
  PROVE  Orderly'
<1> DEFINE a == <<c, n>>
<1>1. a \in Attempts /\ \A m \in Numbers : <<c, m>> \in Attempts
  BY DEF Attempts
<1>2. att'[a].state = "PENDING" /\ \A b \in Attempts : b # a => att'[b] = att[b]
  BY <1>1 DEF CreateAttempt, TypeOK, NoAttempt
<1>3. ASSUME NEW d \in Checkouts, d # c PROVE Progress(d)' /\ Retries(d)'
  <2>1. checkout'[d] = SweptCheckout[d] /\ hold'[d] = SweptHold[d]
    BY <1>3 DEF CreateAttempt, SweptCheckout, SweptHold
  <2>2. SameAttempts(d)
    BY <1>2, <1>3 DEF SameAttempts, Attempts
  <2> QED
    BY <2>1, <2>2, SweptOrder DEF Orderly
<1>4. SweptCheckout[c] \in Sweepable /\ hold[c] = "HELD" /\ c \notin Expired
  BY DEF CreateAttempt, Eligible, Expired
<1>5. checkout'[c] = "PAYMENT_PENDING" /\ hold'[c] = "HELD"
  BY <1>4 DEF CreateAttempt, SweptCheckout, SweptHold
<1>6. \A m \in Numbers : ~Open(c, m)
  BY DEF CreateAttempt, Eligible, Open
<1>7. Open(c, n)' /\ \A m \in Numbers : m # n => ~Open(c, m)'
  BY <1>1, <1>2, <1>6 DEF Open, Unresolved
<1>8. Progress(c)'
  BY <1>5, <1>7 DEF Progress
<1>9. \A m, k \in Numbers : Reached(c, m) /\ Reached(c, k) => m = k
  BY DEF CreateAttempt, Eligible, TwoCharges, Reached
<1>10. \A m \in Numbers : /\ Failed(c, m)' => Failed(c, m)
                          /\ m # n => (Reached(c, m)' <=> Reached(c, m))
  BY <1>1, <1>2 DEF Failed, Reached
<1>11. Retries(c)'
  BY <1>4, <1>9, <1>10 DEF Retries, Orderly
<1> QED
  BY <1>3, <1>8, <1>11 DEF Orderly

LEMMA ClientOrder ==
  ASSUME TypeOK, Orderly, Client
  PROVE  Orderly'
<1>1. CASE Sweep
  BY <1>1, SweptOrder DEF Sweep, Orderly, SameAttempts
<1>2. ASSUME NEW c \in Checkouts, HoldLapses(c) PROVE Orderly'
  BY <1>2, SameOrder DEF HoldLapses, Orderly, SameAttempts
<1> QED
  BY <1>1, <1>2, CreateCheckoutOrder, CreateAttemptOrder DEF Client
-------------------------------------------------------------------------------
(***************************************************************************)
(* The steps that record what is known of the provider.                    *)
(***************************************************************************)

\* A row that knows of a transaction reached the provider.
LEMMA ReachedIfCreated ==
  ASSUME TypeOK, Evidence, NEW a \in Attempts, tx[a] \in Status
  PROVE  att[a].state \in Chargeable
<1>1. RowEvidence(a) /\ att[a].state \in AttemptState
  BY DEF Evidence, TypeOK, AttemptRecord
<1> QED
  BY <1>1, WordsApart DEF RowEvidence, AttemptState, Local

\* What a report may still change.
LEMMA AcceptedFrom ==
  ASSUME TypeOK, Evidence, NEW a \in Attempts, NEW s \in Status, tx[a] \in Status,
         ~Repeats(a, s), ~Contradicts(a, s), s \in {"PENDING", "DECLINED", "ERROR"}
  PROVE  att[a].state \in Unresolved
<1>1. RowEvidence(a) /\ att[a].state \in Chargeable
  BY ReachedIfCreated DEF Evidence
<1> QED
  BY <1>1 DEF RowEvidence, Repeats, Contradicts, Chargeable, Unresolved, Terminal, Status

\* What an accepted report does to the ledger of its checkout.
LEMMA AcceptedLedger ==
  ASSUME TypeOK, NEW a \in Attempts, NEW s \in Status, NEW at \in Int, AcceptStatus(a, s, at)
  PROVE  LET c == a[1] IN
         \/ /\ s = "PENDING" /\ hold'[c] = hold[c]
            /\ checkout'[c] = IF checkout[c] \in {"EXPIRED", "CANCELLED", "PAID", "FULFILLMENT_EXCEPTION"}
                              THEN checkout[c] ELSE "PAYMENT_PENDING"
         \/ /\ s \in {"APPROVED", "VOIDED"} /\ hold'[c] # "HELD"
            /\ checkout'[c] \in {"PAID", "FULFILLMENT_EXCEPTION", "CANCELLED"}
         \/ /\ s \in {"DECLINED", "ERROR"}
            /\ hold[c] = "HELD" /\ checkout[c] \notin {"PAID", "CANCELLED"}
            /\ checkout'[c] = "PAYMENT_FAILED"
            /\ TwoCharges(c)' => hold'[c] # "HELD"
         \/ /\ s \in {"DECLINED", "ERROR"}
            /\ ~(hold[c] = "HELD" /\ checkout[c] \notin {"PAID", "CANCELLED"})
            /\ hold'[c] = hold[c] /\ checkout'[c] = checkout[c]
<1> DEFINE c == a[1]
<1>1. c \in Checkouts
  BY AttemptParts
<1>2. CASE s = "PENDING" /\ KeepPending(c)
  BY <1>1, <1>2 DEF KeepPending, TypeOK, LedgerTypeOK
<1>3. CASE s = "APPROVED" /\ CommitSale(c)
  BY <1>1, <1>3 DEF CommitSale, TypeOK, LedgerTypeOK
<1>4. CASE s = "APPROVED" /\ RaiseException(c)
  BY <1>1, <1>4 DEF RaiseException, ReleaseHold, TypeOK, LedgerTypeOK
<1>5. CASE s \in {"DECLINED", "ERROR"} /\ RecordFailure(c)
  BY <1>1, <1>5 DEF RecordFailure, ReleaseHold, ledger, TypeOK, LedgerTypeOK
<1>6. CASE s = "VOIDED" /\ CloseVoided(c)
  BY <1>1, <1>6 DEF CloseVoided, ReleaseHold, TypeOK, LedgerTypeOK
<1> QED
  BY <1>2, <1>3, <1>4, <1>5, <1>6 DEF AcceptStatus

LEMMA AcceptOrder ==
  ASSUME TypeOK, SaleInv, Evidence, Orderly, NEW a \in Attempts, NEW s \in Status, NEW at \in Int,
         tx[a] \in Status, ~Repeats(a, s), ~Contradicts(a, s), AcceptStatus(a, s, at)
  PROVE  Progress(a[1])' /\ Retries(a[1])'
<1> DEFINE c == a[1]
           m == a[2]
<1>1. c \in Checkouts /\ m \in Numbers /\ a = <<c, m>>
  BY AttemptParts
<1>2. Progress(c) /\ Retries(c)
  BY <1>1 DEF Orderly
<1>3. /\ att'[a].state = s /\ att'[a].responded
      /\ \A n \in Numbers : n # m => att'[<<c, n>>] = att[<<c, n>>]
  BY <1>1, AcceptFrame DEF Attempts
<1>4. Reached(c, m) /\ \A n \in Numbers : Reached(c, n)' <=> Reached(c, n)
  <2>1. att[a].state \in Chargeable
    BY ReachedIfCreated
  <2>2. s \in Chargeable
    BY DEF Chargeable, Terminal, Status, Unresolved
  <2>3. Reached(c, m) /\ Reached(c, m)'
    BY <1>1, <1>3, <2>1, <2>2 DEF Reached
  <2> QED
    BY <1>3, <2>3 DEF Reached
<1>5. s \in {"PENDING", "DECLINED", "ERROR"} => Open(c, m)
  BY <1>1, AcceptedFrom DEF Open
<1>6. \A n \in Numbers : n # m => /\ Open(c, n)' <=> Open(c, n)
                                  /\ Failed(c, n)' <=> Failed(c, n)
                                  /\ InFlight(<<c, n>>)' <=> InFlight(<<c, n>>)
  BY <1>3 DEF Open, Failed, InFlight
<1>7. /\ Open(c, m)' <=> s = "PENDING"
      /\ Failed(c, m)' <=> s \in {"DECLINED", "ERROR"}
      /\ ~InFlight(<<c, m>>)'
  BY <1>1, <1>3 DEF Open, Failed, InFlight, Unresolved, Status
<1>8. checkout[c] # "NONE"
  BY <1>1, <1>2, <1>4 DEF Progress, Reached, Chargeable, Terminal, Status, Unresolved
<1>9. checkout[c] = "PAID" => hold[c] # "HELD"
  BY <1>1 DEF SaleInv, SaleIsConsistent, ConsistentSale
<1>10. checkout[c] = "FULFILLMENT_EXCEPTION" => hold[c] # "HELD"
  BY <1>1 DEF SaleInv, NoExceptionHolds
<1>11. checkout[c] \in CheckoutState
  BY <1>1 DEF TypeOK, LedgerTypeOK
<1>12. CASE /\ s = "PENDING" /\ hold'[c] = hold[c]
            /\ checkout'[c] = IF checkout[c] \in {"EXPIRED", "CANCELLED", "PAID", "FULFILLMENT_EXCEPTION"}
                              THEN checkout[c] ELSE "PAYMENT_PENDING"
  <2>1. checkout[c] \in {"PAYMENT_PENDING", "UNKNOWN_OUTCOME", "CANCELLED", "PAID", "FULFILLMENT_EXCEPTION"}
    BY <1>1, <1>2, <1>5, <1>8, <1>11, <1>12 DEF Progress, CheckoutState
  <2>2. \A n \in Numbers : Open(c, n) => n = m
    BY <1>1, <1>2, <1>5, <1>12 DEF Progress
  <2>3. Progress(c)'
    BY <1>1, <1>2, <1>6, <1>7, <1>12, <2>1, <2>2 DEF Progress
  <2>4. Retries(c)'
    BY <1>2, <1>4, <1>6, <1>7, <1>12 DEF Retries
  <2> QED
    BY <2>3, <2>4
<1>13. CASE /\ s \in {"APPROVED", "VOIDED"} /\ hold'[c] # "HELD"
            /\ checkout'[c] \in {"PAID", "FULFILLMENT_EXCEPTION", "CANCELLED"}
  <2>1. Progress(c)'
    BY <1>2, <1>6, <1>7, <1>13 DEF Progress
  <2>2. Retries(c)'
    BY <1>2, <1>4, <1>13 DEF Retries
  <2> QED
    BY <2>1, <2>2
<1>14. CASE /\ s \in {"DECLINED", "ERROR"}
            /\ hold[c] = "HELD" /\ checkout[c] \notin {"PAID", "CANCELLED"}
            /\ checkout'[c] = "PAYMENT_FAILED"
            /\ TwoCharges(c)' => hold'[c] # "HELD"
  <2>1. \A n \in Numbers : ~Open(c, n)'
    BY <1>1, <1>2, <1>5, <1>6, <1>7, <1>14 DEF Progress
  <2>2. Progress(c)'
    BY <1>14, <2>1 DEF Progress
  <2>3. ASSUME hold'[c] = "HELD", NEW k \in Numbers, NEW n \in Numbers, Failed(c, k)', Failed(c, n)'
        PROVE  k = n
    <3>1. ~TwoCharges(c)'
      BY <1>14, <2>3
    <3>2. Reached(c, k)' /\ Reached(c, n)'
      BY <2>3 DEF Failed, Reached, Chargeable, Terminal, Status
    <3> QED
      BY <3>1, <3>2 DEF TwoCharges, Reached
  <2>4. Retries(c)'
    BY <1>2, <1>4, <2>3 DEF Retries
  <2> QED
    BY <2>2, <2>4
<1>15. CASE /\ s \in {"DECLINED", "ERROR"}
            /\ ~(hold[c] = "HELD" /\ checkout[c] \notin {"PAID", "CANCELLED"})
            /\ hold'[c] = hold[c] /\ checkout'[c] = checkout[c]
  <2>1. checkout[c] \in {"CANCELLED", "PAID", "FULFILLMENT_EXCEPTION"} /\ hold[c] # "HELD"
    BY <1>1, <1>2, <1>5, <1>8, <1>9, <1>11, <1>15 DEF Progress, CheckoutState
  <2>2. Progress(c)'
    BY <1>2, <1>6, <1>7, <1>15, <2>1 DEF Progress
  <2>3. Retries(c)'
    BY <1>2, <1>4, <1>15, <2>1 DEF Retries
  <2> QED
    BY <2>2, <2>3
<1> QED
  BY <1>12, <1>13, <1>14, <1>15, AcceptedLedger

LEMMA MismatchOrder ==
  ASSUME TypeOK, Evidence, Orderly, NEW a \in Attempts, tx[a] \in Status, RecordMismatch(a)
  PROVE  Progress(a[1])' /\ Retries(a[1])'
<1> DEFINE c == a[1]
           m == a[2]
<1>1. c \in Checkouts /\ m \in Numbers /\ a = <<c, m>>
  BY AttemptParts
<1>2. Progress(c) /\ Retries(c) /\ RowEvidence(a)
  BY <1>1 DEF Orderly, Evidence
<1>3. /\ \A n \in Numbers : n # m => att'[<<c, n>>] = att[<<c, n>>]
      /\ att'[a].state = IF att[a].responded THEN att[a].state ELSE "UNKNOWN_OUTCOME"
      /\ att'[a].responded
  BY <1>1, MismatchRow DEF Attempts
<1>4. /\ hold' = hold
      /\ checkout'[c] = IF ~att[a].responded /\ checkout[c] = "PAYMENT_PENDING"
                        THEN "UNKNOWN_OUTCOME" ELSE checkout[c]
  BY <1>1 DEF RecordMismatch, TypeOK, LedgerTypeOK
<1>5. \A n \in Numbers : n # m => /\ Open(c, n)' <=> Open(c, n)
                                  /\ Failed(c, n)' <=> Failed(c, n)
                                  /\ Reached(c, n)' <=> Reached(c, n)
                                  /\ InFlight(<<c, n>>)' <=> InFlight(<<c, n>>)
  BY <1>3 DEF Open, Failed, Reached, InFlight
<1>6. att[a].state \in Chargeable /\ (~att[a].responded => att[a].state \in Unresolved)
  BY <1>2, ReachedIfCreated DEF RowEvidence, Chargeable
<1>7. /\ Open(c, m)' <=> Open(c, m)
      /\ Failed(c, m)' => Failed(c, m)
      /\ Reached(c, m)' <=> Reached(c, m)
      /\ ~InFlight(<<c, m>>)'
  BY <1>1, <1>3, <1>6 DEF Open, Failed, Reached, InFlight, Chargeable, Unresolved
<1>8. ~att[a].responded => Open(c, m)
  BY <1>1, <1>6 DEF Open
<1>9. \A n \in Numbers : (Open(c, n)' <=> Open(c, n)) /\ (Reached(c, n)' <=> Reached(c, n))
                         /\ (Failed(c, n)' => Failed(c, n))
  BY <1>5, <1>7
<1>10. checkout'[c] = "UNKNOWN_OUTCOME" => \A n \in Numbers : ~InFlight(<<c, n>>)'
  <2>1. CASE checkout[c] = "UNKNOWN_OUTCOME"
    BY <1>2, <1>5, <1>7, <2>1 DEF Progress
  <2>2. CASE ~att[a].responded /\ checkout[c] = "PAYMENT_PENDING"
    BY <1>1, <1>2, <1>5, <1>7, <1>8, <2>2 DEF Progress, InFlight, Open, Unresolved
  <2> QED
    BY <1>4, <2>1, <2>2
<1>11. \A n \in Numbers : att'[<<c, n>>].state = "NONE" <=> att[<<c, n>>].state = "NONE"
  BY <1>1, <1>3, <1>6 DEF Chargeable, Unresolved, Terminal, Status
<1>12. Progress(c)'
  BY <1>2, <1>4, <1>9, <1>10, <1>11 DEF Progress
<1>13. Retries(c)'
  BY <1>2, <1>4, <1>9 DEF Retries
<1> QED
  BY <1>12, <1>13

LEMMA CloseOrder ==
  ASSUME TypeOK, Orderly, NEW a \in Attempts, NEW s \in Local \cup {"UNKNOWN_OUTCOME"}, InFlight(a),
         CloseDispatch(a, s, IF s \in Local THEN "RESERVED" ELSE "UNKNOWN_OUTCOME")
  PROVE  Progress(a[1])' /\ Retries(a[1])'
<1> DEFINE c == a[1]
           m == a[2]
           k == IF s \in Local THEN "RESERVED" ELSE "UNKNOWN_OUTCOME"
<1>1. c \in Checkouts /\ m \in Numbers /\ a = <<c, m>>
  BY AttemptParts
<1>2. Progress(c) /\ Retries(c) /\ Open(c, m)
  BY <1>1 DEF Orderly, Open, InFlight, Unresolved
<1>3. /\ \A n \in Numbers : n # m => att'[<<c, n>>] = att[<<c, n>>]
      /\ att'[a].state = s
  BY <1>1 DEF CloseDispatch, TypeOK, AttemptRecord, Attempts
<1>4. hold' = hold /\ checkout'[c] = IF checkout[c] = "PAYMENT_PENDING" THEN k ELSE checkout[c]
  BY <1>1 DEF CloseDispatch, TypeOK, LedgerTypeOK
<1>5. \A n \in Numbers : n # m => ~Open(c, n) /\ ~Open(c, n)' /\ ~InFlight(<<c, n>>)'
  BY <1>1, <1>2, <1>3 DEF Progress, Open, InFlight, Unresolved
<1>6. /\ Open(c, m)' <=> s = "UNKNOWN_OUTCOME"
      /\ ~InFlight(<<c, m>>)' /\ ~Failed(c, m)'
  BY <1>1, <1>3 DEF Open, InFlight, Failed, Unresolved, Local
<1>7. \A n \in Numbers : (Reached(c, n)' => Reached(c, n)) /\ (Failed(c, n)' => Failed(c, n))
  BY <1>1, <1>2, <1>3, <1>6 DEF Reached, Failed, Open, Chargeable
<1>8. checkout[c] # "UNKNOWN_OUTCOME" /\ checkout[c] \notin {"NONE", "RESERVED", "PAYMENT_FAILED", "EXPIRED"}
  BY <1>1, <1>2 DEF Progress, Open, Unresolved
<1>9. Progress(c)'
  BY <1>1, <1>2, <1>4, <1>5, <1>6, <1>8 DEF Progress, Local
<1>10. Retries(c)'
  BY <1>2, <1>4, <1>7 DEF Retries
<1> QED
  BY <1>9, <1>10

LEMMA WritesOrder ==
  ASSUME TypeOK, SaleInv, Evidence, Orderly, NEW a \in Attempts, Writes(a)
  PROVE  Orderly'
<1>1. ASSUME \A b \in Attempts : b # a => att'[b] = att[b],
             \A c \in Checkouts : c # a[1] => checkout'[c] = checkout[c] /\ hold'[c] = hold[c],
             Progress(a[1])', Retries(a[1])'
      PROVE  Orderly'
  <2>1. ASSUME NEW c \in Checkouts, c # a[1] PROVE Progress(c)' /\ Retries(c)'
    <3>1. SameAttempts(c)
      BY <1>1, <2>1, OtherAttempts DEF SameAttempts
    <3> QED
      BY <1>1, <2>1, <3>1, SameOrder DEF Orderly
  <2> QED
    BY <1>1, <2>1 DEF Orderly
<1>2. CASE Reviews(a) /\ UNCHANGED ledger
  <2>1. \A c \in Checkouts : SameAttempts(c)
    BY <1>2 DEF Reviews, SameAttempts, Attempts
  <2> QED
    BY <1>2, <2>1, SameOrder DEF Orderly, ledger
<1>3. ASSUME NEW s \in Status, NEW at \in Int, tx[a] \in Status, AcceptStatus(a, s, at),
             ~Repeats(a, s), ~Contradicts(a, s)
      PROVE  Orderly'
  BY <1>1, <1>3, AcceptFrame, AcceptOrder
<1>4. CASE tx[a] \in Status /\ RecordMismatch(a)
  <2>1. hold' = hold /\ \A c \in Checkouts : c # a[1] => checkout'[c] = checkout[c]
    BY <1>4 DEF RecordMismatch, TypeOK, LedgerTypeOK
  <2> QED
    BY <1>1, <1>4, <2>1, MismatchRow, MismatchOrder
<1>5. ASSUME NEW s \in Local \cup {"UNKNOWN_OUTCOME"},
             CloseDispatch(a, s, IF s \in Local THEN "RESERVED" ELSE "UNKNOWN_OUTCOME")
      PROVE  Orderly'
  <2>1. CASE ~InFlight(a)
    BY <1>5, <2>1, SameOrder DEF CloseDispatch, Orderly, SameAttempts, ledger
  <2>2. CASE InFlight(a)
    <3>1. /\ hold' = hold /\ \A c \in Checkouts : c # a[1] => checkout'[c] = checkout[c]
          /\ \A b \in Attempts : b # a => att'[b] = att[b]
      BY <1>5, <2>2 DEF CloseDispatch, TypeOK, LedgerTypeOK
    <3> QED
      BY <1>1, <1>5, <2>2, <3>1, CloseOrder
  <2> QED
    BY <2>1, <2>2
<1> QED
  BY <1>2, <1>3, <1>4, <1>5 DEF Writes

LEMMA OrderNext == TypeOK /\ SaleInv /\ Evidence /\ Orderly /\ [Next]_vars => Orderly'
<1> SUFFICES ASSUME TypeOK, SaleInv, Evidence, Orderly, [Next]_vars PROVE Orderly'
  OBVIOUS
<1>1. CASE Silent
  BY <1>1, SameOrder DEF Silent, ledger, Orderly, SameAttempts
<1> QED
  BY <1>1, Steps, ClientOrder, WritesOrder

LEMMA OrderInit == Init => Orderly
<1> SUFFICES ASSUME Init, NEW c \in Checkouts PROVE Progress(c) /\ Retries(c)
  BY DEF Orderly
<1>1. \A n \in Numbers : att[<<c, n>>] = NoAttempt
  BY DEF Init, Attempts
<1>2. \A n \in Numbers : ~Open(c, n) /\ ~Failed(c, n) /\ ~Reached(c, n)
  BY <1>1 DEF NoAttempt, Open, Failed, Reached, Chargeable, Unresolved, Terminal, Status
<1>3. checkout[c] = "NONE" /\ hold[c] = "NONE"
  BY DEF Init
<1>4. \A n \in Numbers : att[<<c, n>>].state = "NONE"
  BY <1>1 DEF NoAttempt
<1> QED
  BY <1>2, <1>3, <1>4 DEF Progress, Retries

LEMMA OrderAlways == Spec => [](TypeOK /\ SaleInv /\ Evidence /\ Orderly)
  BY EvidenceAlways, OrderInit, OrderNext, PTL DEF Spec
-------------------------------------------------------------------------------
(***************************************************************************)
(* While a payment is in progress the checkout says so and keeps its hold, *)
(* and a checkout that says so has an attempt that will end it, for any    *)
(* number of checkouts and attempts (applyTransactionInTransaction,        *)
(* markUnknown, releaseExpired).                                           *)
(***************************************************************************)
THEOREM ProgressIsTold == Spec => []PaymentInProgress
<1>1. Orderly => PaymentInProgress
  BY DEF Orderly, Progress, Open, PaymentInProgress, AttemptsIn
<1> QED
  BY <1>1, OrderAlways, PTL

(***************************************************************************)
(* Every event the provider signed can be recorded and acknowledged: the   *)
(* index of unresolved attempts never makes its transaction fail           *)
(* (receiveEvent).                                                         *)
(***************************************************************************)
THEOREM EventsAreRecorded == Spec => []EventsAcknowledged
<1>1. TypeOK /\ Evidence /\ Orderly => EventsAcknowledged
  <2> SUFFICES ASSUME TypeOK, Evidence, Orderly, NEW e \in events, e.status = "PENDING",
                      ~Contradicts(e.attempt, "PENDING"), ~Repeats(e.attempt, "PENDING")
               PROVE  IndexAllows(e.attempt, "PENDING")
    BY DEF EventsAcknowledged, IndexAllows
  <2> DEFINE a == e.attempt
  <2>1. a \in Attempts /\ tx[a] \in Status
    BY DEF TypeOK, EventRecord, Evidence, EventEvidence
  <2>2. att[a].state \in Unresolved
    BY <2>1, AcceptedFrom DEF Status
  <2>3. a[1] \in Checkouts /\ a[2] \in Numbers /\ a = <<a[1], a[2]>>
    BY <2>1, AttemptParts
  <2>4. \A n \in Numbers : Open(a[1], n) => n = a[2]
    BY <2>2, <2>3 DEF Orderly, Progress, Open
  <2> QED
    BY <2>3, <2>4 DEF IndexAllows, Open
<1> QED
  BY <1>1, OrderAlways, PTL

\* A set of numbers without three different members has at most two.
LEMMA AtMostTwo ==
  ASSUME NEW S, \A k, m, n \in S : k = m \/ k = n \/ m = n
  PROVE  /\ Cardinality(S) <= 2
         /\ Cardinality(S) = 2 => \E m, n \in S : m # n
<1>1. CASE S = {}
  BY <1>1, FS_EmptySet
<1>2. ASSUME NEW m \in S, S = {m} PROVE Cardinality(S) = 1
  BY <1>2, FS_Singleton
<1>3. ASSUME NEW m \in S, NEW n \in S, m # n PROVE Cardinality(S) = 2
  <2>1. S = {m} \cup {n}
    BY <1>3
  <2>2. IsFiniteSet({m}) /\ Cardinality({m}) = 1
    BY FS_Singleton
  <2>3. Cardinality({m} \cup {n}) = Cardinality({m}) + 1
    BY <1>3, <2>2, FS_AddElement
  <2> QED
    BY <2>1, <2>2, <2>3
<1>4. CASE S # {} /\ \A m, n \in S : m = n
  <2>1. PICK m \in S : S = {m}
    BY <1>4
  <2> QED
    BY <1>2, <2>1
<1>5. CASE \E m, n \in S : m # n
  BY <1>3, <1>5
<1> QED
  BY <1>1, <1>4, <1>5

(***************************************************************************)
(* One explicit retry: no checkout ever has three attempts that reached    *)
(* the provider, and two confirmed failures free its units, for any        *)
(* MaxAttempts (isEligibleForPayment, recordFailure).                      *)
(***************************************************************************)
THEOREM RetriesAreLimited == Spec => []RetryLimit
<1>1. Orderly => RetryLimit
  <2> SUFFICES ASSUME Orderly, NEW c \in Checkouts
               PROVE  /\ Cardinality(AttemptsIn(c, Chargeable)) <= 2
                      /\ Cardinality(AttemptsIn(c, {"DECLINED", "ERROR"})) = 2 => hold[c] # "HELD"
    BY DEF RetryLimit
  <2>1. Retries(c)
    BY DEF Orderly
  <2>2. Cardinality(AttemptsIn(c, Chargeable)) <= 2
    BY <2>1, AtMostTwo DEF AttemptsIn, Retries, Reached
  <2>3. AttemptsIn(c, {"DECLINED", "ERROR"}) \subseteq AttemptsIn(c, Chargeable)
    BY DEF AttemptsIn, Chargeable, Terminal, Status
  <2>4. Cardinality(AttemptsIn(c, {"DECLINED", "ERROR"})) = 2
        => \E m, n \in AttemptsIn(c, {"DECLINED", "ERROR"}) : m # n
    <3>1. \A k, m, n \in AttemptsIn(c, {"DECLINED", "ERROR"}) : k = m \/ k = n \/ m = n
      BY <2>1, <2>3 DEF AttemptsIn, Retries, Reached
    <3> QED
      BY <3>1, AtMostTwo
  <2>5. hold[c] = "HELD" => \A m, n \in AttemptsIn(c, {"DECLINED", "ERROR"}) : m = n
    BY <2>1 DEF AttemptsIn, Retries, Failed
  <2> QED
    BY <2>2, <2>4, <2>5
<1> QED
  BY <1>1, OrderAlways, PTL
=============================================================================
