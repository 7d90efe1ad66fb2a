--------------------------- MODULE PaymentPanelProofs ---------------------------
(***************************************************************************)
(* Theorems of PaymentPanel, for any number of commands and reloads, any   *)
(* shops and any provider: what the API believes is true at the provider,  *)
(* a command is one attempt, and none is sent blindly after another.       *)
(***************************************************************************)
EXTENDS PaymentPanel, TLAPS

LEMMA NoViewType == NoView \in ViewRecord /\ NoView.number = 0 /\ Loading \notin OrderRecord
BY DEF NoView, ViewRecord, AttemptState, Loading, OrderRecord, OrderState

\* A view of an attempt has the type of one, and is never the empty one.
LEMMA ViewType ==
  ASSUME TypeOK, NEW n \in Numbers
  PROVE  /\ View(n) \in ViewRecord /\ View(n) # NoView /\ View(n).number = n
         /\ n \in Nat \ {0} /\ attempts[n] \in AttemptRecord /\ attempts # <<>>
         /\ n \in DOMAIN tx /\ n \in 1..Len(attempts)
<1>1. /\ n \in Nat \ {0} /\ attempts[n] \in AttemptRecord /\ attempts # <<>>
      /\ n \in DOMAIN tx /\ n \in 1..Len(attempts)
  BY DEF TypeOK, Numbers
<1>2. Stage(attempts[n].state, attempts[n].heard) \in 0..6
  BY DEF Stage
<1>. QED
  BY <1>1, <1>2 DEF View, ViewRecord, NoView, AttemptRecord

LEMMA LatestType ==
  ASSUME TypeOK
  PROVE  Latest \in ViewRecord /\ (Latest = NoView <=> attempts = <<>>)
<1>1. CASE attempts = <<>>
  BY <1>1, NoViewType DEF Latest
<1>2. CASE attempts # <<>>
  <2>1. Len(attempts) \in Numbers
    BY <1>2 DEF TypeOK, Numbers
  <2>. QED
    BY <1>2, <2>1, ViewType DEF Latest
<1>. QED
  BY <1>1, <1>2

\* What a render does to the panel's own state.
LEMMA RenderType ==
  ASSUME NEW mark \in BOOLEAN, NEW ask \in BOOLEAN, mark => ask,
         NEW busy \in {"NONE", "REFRESH", "FIRST", "LATER"}, Render(mark, ask, busy)
  PROVE  /\ marked' \in BOOLEAN /\ asked' \in BOOLEAN
         /\ submitting' \in {"NONE", "REFRESH", "FIRST", "LATER"}
         /\ marked' => asked'
BY DEF Render
-------------------------------------------------------------------------------
(***************************************************************************)
(* Types.  A page step leaves the API and the provider alone, and an API   *)
(* or provider step leaves the page alone.                                 *)
(***************************************************************************)
PageTypes ==
  /\ token \in {"NONE", "NEW", "SENT"}
  /\ marked \in BOOLEAN /\ asked \in BOOLEAN /\ age \in {"NONE", "FRESH", "OLD"}
  /\ submitting \in {"NONE", "REFRESH", "FIRST", "LATER"}
  /\ local \in ViewRecord /\ shown \in ViewRecord
  /\ lookup \in {"LOADING", "FOUND", "NOT_FOUND", "ERROR"}
  /\ seen \in OrderRecord \cup {Loading} /\ looked \in BOOLEAN /\ reloads \in Nat
  /\ marked => asked
  /\ lookup = "FOUND" => shown # NoView

WireTypes ==
  /\ post \in [Commands -> {"UNUSED", "SENT", "ANSWERED", "DONE"}]
  /\ answer \in [Commands -> ViewRecord]

ApiTypes ==
  /\ attempts \in Seq(AttemptRecord) /\ order \in OrderRecord /\ shop \in DOMAIN Shop
  /\ tx \in Seq(TransactionStatus \cup {"REQUESTED", "REFUSED", "NEVER"})
  /\ events \subseteq Nat \X TransactionStatus
  /\ Len(tx) = Len(attempts)

LEMMA TypeParts ==
  /\ TypeOK <=> PageTypes /\ WireTypes /\ ApiTypes
  /\ TypeOK' <=> PageTypes' /\ WireTypes' /\ ApiTypes'
BY DEF TypeOK, PageTypes, WireTypes, ApiTypes

LEMMA ApiUnchanged == ASSUME ApiTypes, UNCHANGED <<api, shop, remote>> PROVE ApiTypes'
BY DEF ApiTypes, api, remote

LEMMA BrowserUnchanged == ASSUME PageTypes, UNCHANGED browser PROVE PageTypes'
BY DEF PageTypes, browser, memory, panel, reading

LEMMA WireUnchanged == ASSUME WireTypes, UNCHANGED wire PROVE WireTypes'
BY DEF WireTypes, wire

LEMMA SettledType ==
  ASSUME TypeOK PROVE Settled(submitting) \in {"NONE", "REFRESH", "FIRST", "LATER"}
BY DEF TypeOK, Settled

LEMMA EnterCardType == ASSUME TypeOK, EnterCard PROVE TypeOK'
<1>1. /\ token' = "NEW" /\ UNCHANGED <<local, reading, age, reloads, wire, api, shop, remote>>
      /\ Render(marked, asked, submitting)
  BY DEF EnterCard
<1>2. PageTypes'
  BY <1>1, RenderType DEF TypeOK, PageTypes, reading
<1>. QED
  BY <1>1, <1>2, ApiUnchanged, WireUnchanged, TypeParts

LEMMA SubmitType == ASSUME TypeOK, NEW k \in Commands, Submit(k) PROVE TypeOK'
<1>1. /\ post' = [post EXCEPT ![k] = "SENT"] /\ token' = "SENT" /\ age' = "FRESH" /\ looked' = FALSE
      /\ UNCHANGED <<local, shown, lookup, seen, reloads, answer, api, shop, remote>>
      /\ Render(TRUE, TRUE, Busy(k))
  BY DEF Submit
<1>2. PageTypes'
  BY <1>1, RenderType DEF TypeOK, PageTypes, Busy
<1>3. WireTypes'
  BY <1>1 DEF TypeOK, WireTypes
<1>. QED
  BY <1>1, <1>2, <1>3, ApiUnchanged, TypeParts

LEMMA PostSucceedsType == ASSUME TypeOK, NEW k \in Commands, PostSucceeds(k) PROVE TypeOK'
<1>. DEFINE busy == IF submitting = Busy(k) THEN "REFRESH" ELSE submitting
<1>1. /\ post' = [post EXCEPT ![k] = "DONE"] /\ answer' = [answer EXCEPT ![k] = NoView]
      /\ local' = answer[k] /\ token' = "NONE" /\ Refresh
      /\ UNCHANGED <<age, reloads, api, shop, remote>> /\ Render(FALSE, FALSE, busy)
  BY DEF PostSucceeds
<1>2. busy \in {"NONE", "REFRESH", "FIRST", "LATER"}
  BY DEF TypeOK
<1>. HIDE DEF busy
<1>3. PageTypes'
  BY <1>1, <1>2, RenderType DEF TypeOK, PageTypes, Refresh
<1>4. WireTypes'
  BY <1>1, NoViewType DEF TypeOK, WireTypes
<1>. QED
  BY <1>1, <1>3, <1>4, ApiUnchanged, TypeParts

LEMMA PostFailsType == ASSUME TypeOK, NEW k \in Commands, PostFails(k) PROVE TypeOK'
<1>. DEFINE busy == IF submitting = Busy(k) THEN "REFRESH" ELSE submitting
<1>1. /\ post' = [post EXCEPT ![k] = "DONE"] /\ answer' = [answer EXCEPT ![k] = NoView] /\ Refresh
      /\ UNCHANGED <<memory, age, reloads, api, shop, remote>> /\ Render(marked, TRUE, busy)
  BY DEF PostFails
<1>2. busy \in {"NONE", "REFRESH", "FIRST", "LATER"}
  BY DEF TypeOK
<1>. HIDE DEF busy
<1>3. PageTypes'
  BY <1>1, <1>2, RenderType DEF TypeOK, PageTypes, Refresh, memory
<1>4. WireTypes'
  BY <1>1, NoViewType DEF TypeOK, WireTypes
<1>. QED
  BY <1>1, <1>3, <1>4, ApiUnchanged, TypeParts

LEMMA AnswerLookupType == ASSUME TypeOK, AnswerLookup PROVE TypeOK'
<1>1. /\ shown' = Latest /\ seen' = order /\ looked' = ~UnderWay
      /\ lookup' = IF Latest = NoView THEN "NOT_FOUND" ELSE "FOUND"
      /\ UNCHANGED <<memory, age, reloads, wire, api, shop, remote>>
      /\ Render(marked, asked, Settled(submitting))
  BY DEF AnswerLookup
<1>2. PageTypes'
  BY <1>1, RenderType, LatestType, SettledType DEF TypeOK, PageTypes, memory
<1>. QED
  BY <1>1, <1>2, ApiUnchanged, WireUnchanged, TypeParts

LEMMA LookupFailsType == ASSUME TypeOK, LookupFails PROVE TypeOK'
<1>1. /\ lookup' = "ERROR" /\ UNCHANGED <<memory, shown, seen, looked, age, reloads>>
      /\ UNCHANGED <<wire, api, shop, remote>>
      /\ Render(marked, asked, Settled(submitting))
  BY DEF LookupFails
<1>2. PageTypes'
  BY <1>1, RenderType, SettledType DEF TypeOK, PageTypes, memory
<1>. QED
  BY <1>1, <1>2, ApiUnchanged, WireUnchanged, TypeParts

LEMMA TimersType == ASSUME TypeOK, GiveUp \/ TenSeconds PROVE TypeOK'
<1>1. CASE GiveUp
  <2>1. /\ UNCHANGED <<memory, reading, age, reloads, wire, api, shop, remote>>
        /\ Render(FALSE, FALSE, submitting)
    BY <1>1 DEF GiveUp
  <2>2. PageTypes'
    BY <2>1, RenderType DEF TypeOK, PageTypes, memory, reading
  <2>. QED
    BY <2>1, <2>2, ApiUnchanged, WireUnchanged, TypeParts
<1>2. CASE TenSeconds
  <2>1. age' = "OLD" /\ UNCHANGED <<memory, panel, reading, reloads, wire, api, shop, remote>>
    BY <1>2 DEF TenSeconds
  <2>2. PageTypes'
    BY <2>1 DEF TypeOK, PageTypes, memory, panel, reading
  <2>. QED
    BY <2>1, <2>2, ApiUnchanged, WireUnchanged, TypeParts
<1>. QED
  BY <1>1, <1>2

LEMMA ReloadType == ASSUME TypeOK, Reload PROVE TypeOK'
<1>1. /\ reloads' = reloads + 1 /\ looked' = FALSE /\ token' = "NONE"
      /\ local' = NoView /\ shown' = NoView /\ lookup' = "LOADING" /\ seen' = Loading
      /\ post' = [k \in Commands |-> IF post[k] = "UNUSED" THEN "UNUSED" ELSE "DONE"]
      /\ answer' = [k \in Commands |-> NoView] /\ UNCHANGED <<age, api, shop, remote>>
      /\ Render(marked, marked, "NONE")
  BY DEF Reload
<1>2. reloads' \in Nat
  BY <1>1 DEF TypeOK
<1>3. PageTypes'
  BY <1>1, <1>2, RenderType, NoViewType DEF TypeOK, PageTypes
<1>4. WireTypes'
  BY <1>1, NoViewType DEF WireTypes
<1>. QED
  BY <1>1, <1>3, <1>4, ApiUnchanged, TypeParts

LEMMA PageKeepsType == ASSUME TypeOK, Page PROVE TypeOK'
BY EnterCardType, SubmitType, PostSucceedsType, PostFailsType, AnswerLookupType,
   LookupFailsType, TimersType, ReloadType
DEF Page, FirstLookup, AskAgain, Poll, Recheck

\* The attempts of the API after one is added, or one is rewritten.
LEMMA OpenAttemptType == ASSUME TypeOK, NEW k \in Commands, Deliver(k) PROVE TypeOK'
<1>1. /\ attempts' = Append(attempts, [key |-> k, state |-> "PENDING", heard |-> FALSE])
      /\ order' = [order EXCEPT !.state = "PAYMENT_PENDING"]
      /\ tx' = Append(tx, IF MayCreate(Deployed, Amount) THEN "REQUESTED" ELSE "NEVER")
      /\ UNCHANGED <<browser, wire, shop, events>>
  BY DEF Deliver, OpenAttempt
<1>2. [key |-> k, state |-> "PENDING", heard |-> FALSE] \in AttemptRecord
  BY DEF AttemptRecord, AttemptState, Unresolved
<1>3. order' \in OrderRecord
  BY <1>1 DEF TypeOK, OrderRecord, OrderState
<1>4. attempts' \in Seq(AttemptRecord) /\ Len(attempts') = Len(attempts) + 1
  BY <1>1, <1>2 DEF TypeOK
<1>5. /\ tx' \in Seq(TransactionStatus \cup {"REQUESTED", "REFUSED", "NEVER"})
      /\ Len(tx') = Len(tx) + 1
  BY <1>1 DEF TypeOK
<1>6. ApiTypes'
  BY <1>1, <1>3, <1>4, <1>5 DEF TypeOK, ApiTypes
<1>. QED
  BY <1>1, <1>6, TypeParts, BrowserUnchanged, WireUnchanged

LEMMA AnswerPostType == ASSUME TypeOK, NEW k \in Commands, AnswerPost(k) PROVE TypeOK'
<1>1. PICK n \in Numbers : answer' = [answer EXCEPT ![k] = View(n)]
  BY DEF AnswerPost
<1>2. post' = [post EXCEPT ![k] = "ANSWERED"] /\ UNCHANGED <<browser, api, shop, remote>>
  BY DEF AnswerPost
<1>3. WireTypes'
  BY <1>1, <1>2, ViewType DEF TypeOK, WireTypes
<1>. QED
  BY <1>2, <1>3, TypeParts, BrowserUnchanged, ApiUnchanged

LEMMA WriteType ==
  ASSUME TypeOK, NEW n \in Numbers, NEW s \in AttemptState, NEW heard \in BOOLEAN,
         Write(n, s, heard), order' \in OrderRecord, UNCHANGED <<browser, wire, shop, remote>>
  PROVE  TypeOK'
<1>. DEFINE row == [attempts[n] EXCEPT !.state = s, !.heard = heard]
<1>1. n \in 1..Len(attempts) /\ attempts[n] \in AttemptRecord /\ attempts \in Seq(AttemptRecord)
  BY ViewType DEF TypeOK
<1>2. attempts' = [attempts EXCEPT ![n] = row] /\ row \in AttemptRecord
  BY <1>1 DEF Write, AttemptRecord
<1>. HIDE DEF row
<1>3. attempts' \in Seq(AttemptRecord) /\ Len(attempts') = Len(attempts)
  BY <1>1, <1>2
<1>4. ApiTypes'
  BY <1>3 DEF TypeOK, ApiTypes, remote
<1>. QED
  BY <1>4, TypeParts, BrowserUnchanged, WireUnchanged

\* The states the API's handlers write.
LEMMA CloseDispatchType ==
  ASSUME TypeOK, NEW n \in Numbers, NEW s \in NotSent \cup {"UNKNOWN_OUTCOME"},
         NEW t \in OrderState, CloseDispatch(n, s, t), UNCHANGED <<browser, wire, shop, remote>>
  PROVE  TypeOK'
<1>1. s \in AttemptState /\ Write(n, s, FALSE)
  BY DEF CloseDispatch, AttemptState, Unresolved
<1>2. order' = [order EXCEPT !.state = IF @ = "PAYMENT_PENDING" THEN t ELSE @]
  BY DEF CloseDispatch
<1>3. order' \in OrderRecord
  BY <1>2 DEF TypeOK, OrderRecord
<1>. QED
  BY <1>1, <1>3, WriteType

LEMMA OrdersAfterType ==
  ASSUME TypeOK, NEW n, NEW s \in TransactionStatus
  PROVE  OrdersAfter(n, s) \subseteq OrderRecord
<1>1. order \in OrderRecord /\ order.hold \in {"HELD", "COMMITTED", "RELEASED"}
      /\ order.state \in OrderState
  BY DEF TypeOK, OrderRecord
<1>2. s \in {"PENDING", "APPROVED", "VOIDED"} \cup Failed
  BY DEF TransactionStatus, Failed
<1>3. CASE s = "PENDING"
  BY <1>1, <1>3 DEF OrdersAfter, OrderRecord, OrderState
<1>4. CASE s = "APPROVED"
  BY <1>1, <1>4 DEF OrdersAfter, OrderRecord, OrderState
<1>5. CASE s \in Failed
  BY <1>1, <1>5 DEF OrdersAfter, OrderRecord, OrderState, Failed
<1>6. CASE s = "VOIDED"
  BY <1>1, <1>6 DEF OrdersAfter, OrderRecord, OrderState, Failed
<1>. QED
  BY <1>2, <1>3, <1>4, <1>5, <1>6

LEMMA SettleType ==
  ASSUME TypeOK, NEW n \in Numbers, NEW s \in TransactionStatus, Settle(n, s),
         UNCHANGED <<browser, wire, shop, remote>>
  PROVE  TypeOK'
<1>1. s \in AttemptState
  BY DEF TransactionStatus, AttemptState, Unresolved, Terminal
<1>. QED
  BY <1>1, OrdersAfterType, WriteType DEF Settle
-------------------------------------------------------------------------------
(***************************************************************************)
(* What the API believes.                                                  *)
(***************************************************************************)
\* Whatever arrives of an event, only what the provider signed is accepted: every
\* field is under the checksum, the status among them.
LEMMA AcceptedIsSigned ==
  ASSUME NEW s \in TransactionStatus, NEW d, NEW age1,
         NEW e \in Copies(s, d.eventsSecret), Accepted(d, e, age1)
  PROVE  e.transaction.status = s
<1>. DEFINE secret  == d.eventsSecret
            genuine == Signed(s, AllFields, secret)
            partial == Signed(s, FieldsButStatus, secret)
            forged  == Signed(s, AllFields, "LIVE")
<1>1. Verified(e, secret, "test")
  BY DEF Accepted
<1>2. CASE e \in {genuine, forged, [genuine EXCEPT !.illFormed = {"status"}]}
  BY <1>2 DEF Signed, Transaction
<1>3. CASE \E t \in TransactionStatus : e = [genuine EXCEPT !.transaction.status = t]
  <2>1. PICK t \in TransactionStatus : e = [genuine EXCEPT !.transaction.status = t]
    BY <1>3
  <2>2. /\ e.transaction = [id |-> "ID", reference |-> "REFERENCE", amount_in_cents |-> "TOTAL",
                            currency |-> "COP", status |-> t]
        /\ e.properties = AllFields /\ e.timestamp = 1
        /\ e.checksum = Checksum(Transaction(s), AllFields, 1, secret)
    BY <2>1 DEF Signed, Transaction
  <2>3. Checksum(e.transaction, AllFields, 1, secret) = Checksum(Transaction(s), AllFields, 1, secret)
    BY <1>1, <2>2 DEF Verified
  <2>4. [i \in DOMAIN AllFields |-> e.transaction[AllFields[i]]]
          = [i \in DOMAIN AllFields |-> Transaction(s)[AllFields[i]]]
    BY <2>3 DEF Checksum
  <2>5. 5 \in DOMAIN AllFields /\ AllFields[5] = "status"
    BY DEF AllFields
  <2>6. e.transaction["status"] = Transaction(s)["status"]
    BY <2>4, <2>5
  <2>. QED
    BY <2>2, <2>6 DEF Transaction
<1>4. CASE \E t \in TransactionStatus : e = [partial EXCEPT !.transaction.status = t]
  <2>1. e.properties = FieldsButStatus
    BY <1>4 DEF Signed
  <2>2. "status" \in ElementsOf(FieldsButStatus)
    BY <1>1, <2>1 DEF Verified, TransactionFields
  <2>3. "status" \notin ElementsOf(FieldsButStatus)
    BY DEF ElementsOf, FieldsButStatus
  <2>. QED
    BY <2>2, <2>3
<1>. QED
  BY <1>2, <1>3, <1>4 DEF Copies

LEMMA BelievedIsTrue ==
  ASSUME NEW c \in DOMAIN Shop, NEW s \in TransactionStatus, NEW t \in Believed[c][s]
  PROVE  t = s
<1>1. PICK e \in Copies(s, Shop[c].deployment.eventsSecret), seconds \in {0, 172801} :
        e.transaction.status = t /\ Accepted(Shop[c].deployment, e, seconds)
  BY DEF Believed
<1>. QED
  BY <1>1, AcceptedIsSigned

\* What a reply proves, by createTransaction's own reading of it.
LEMMA OutcomeIsTrue ==
  ASSUME TypeOK, NEW n \in Numbers, NEW reply, PossibleReply(n, reply),
         tx[n] = "NEVER" <=> ~MayCreate(Deployed, Amount)
  PROVE  LET outcome == CreateOutcome(Deployed, Amount, reply)
         IN  /\ outcome = "FAILED_LOCAL" => tx[n] = "NEVER"
             /\ outcome = "REJECTED_NO_TRANSACTION" => tx[n] = "REFUSED"
             /\ outcome \in TransactionStatus => tx[n] = outcome
<1>1. CASE MayCreate(Deployed, Amount)
  <2>1. CreateOutcome(Deployed, Amount, reply) = Outcome(reply)
    BY <1>1 DEF CreateOutcome
  <2>2. CASE reply \in TransactionStatus
    BY <2>1, <2>2 DEF Outcome, PossibleReply, TransactionStatus, Refusal
  <2>3. CASE reply \in Refusal
    BY <2>1, <2>3 DEF Outcome, PossibleReply, TransactionStatus, Refusal
  <2>4. CASE reply \notin TransactionStatus \cup Refusal
    BY <2>1, <2>4 DEF Outcome, TransactionStatus
  <2>. QED
    BY <2>2, <2>3, <2>4
<1>2. CASE ~MayCreate(Deployed, Amount)
  BY <1>2 DEF CreateOutcome, TransactionStatus
<1>. QED
  BY <1>1, <1>2
-------------------------------------------------------------------------------
(***************************************************************************)
(* ProviderFacts is not inductive: a terminal state stays true although    *)
(* the transaction goes on to another status only because every status it  *)
(* had was signed (SignedWhenReached), and a request is never sent because *)
(* of the shop alone (NeverByTheShop).                                     *)
(***************************************************************************)
NeverByTheShop == \A n \in Numbers : tx[n] = "NEVER" <=> ~MayCreate(Deployed, Amount)

SignedWhenReached == \A n \in Numbers : tx[n] \in TransactionStatus => <<n, tx[n]>> \in events

StateIsTrue(n, s) ==
  /\ s = "FAILED_LOCAL" => tx[n] = "NEVER"
  /\ s = "REJECTED_NO_TRANSACTION" => tx[n] = "REFUSED"
  /\ s \in Terminal => <<n, s>> \in events

StatesAreTrue == \A n \in Numbers : StateIsTrue(n, attempts[n].state)

ApiInv == TypeOK /\ OneAttemptPerCommand /\ NeverByTheShop /\ SignedWhenReached /\ StatesAreTrue

LEMMA DeliverKeeps == ASSUME ApiInv, NEW k \in Commands, Deliver(k) PROVE ApiInv'
<1>1. TypeOK /\ TypeOK'
  BY OpenAttemptType DEF ApiInv
<1>. DEFINE new == [key |-> k, state |-> "PENDING", heard |-> FALSE]
            m   == Len(attempts) + 1
            t   == IF MayCreate(Deployed, Amount) THEN "REQUESTED" ELSE "NEVER"
<1>2. /\ attempts' = Append(attempts, new) /\ tx' = Append(tx, t) /\ UNCHANGED <<shop, events>>
      /\ \A n \in Numbers : attempts[n].key # k
  BY DEF Deliver, OpenAttempt
<1>3. /\ Numbers = 1..Len(attempts) /\ Len(attempts) \in Nat /\ Len(tx) = Len(attempts)
      /\ attempts \in Seq(AttemptRecord)
      /\ tx \in Seq(TransactionStatus \cup {"REQUESTED", "REFUSED", "NEVER"})
  BY <1>1 DEF TypeOK, Numbers
<1>4. /\ Numbers' = 1..m /\ attempts'[m] = new /\ tx'[m] = t
      /\ \A n \in Numbers : attempts'[n] = attempts[n] /\ tx'[n] = tx[n]
  BY <1>2, <1>3 DEF Numbers
<1>5. \A n \in Numbers' : n = m \/ n \in Numbers
  BY <1>3, <1>4
<1>6. new.key = k /\ new.state = "PENDING"
  OBVIOUS
<1>. HIDE DEF new
<1>7. OneAttemptPerCommand'
  BY <1>2, <1>4, <1>5, <1>6 DEF ApiInv, OneAttemptPerCommand
<1>8. MayCreate(Deployed, Amount)' = MayCreate(Deployed, Amount)
  BY <1>2 DEF Deployed, Amount
<1>9. NeverByTheShop'
  BY <1>4, <1>5, <1>8 DEF ApiInv, NeverByTheShop
<1>10. SignedWhenReached'
  BY <1>2, <1>4, <1>5 DEF ApiInv, SignedWhenReached, TransactionStatus
<1>11. StatesAreTrue'
  BY <1>2, <1>4, <1>5, <1>6 DEF ApiInv, StatesAreTrue, StateIsTrue, Terminal
<1>. QED
  BY <1>1, <1>7, <1>9, <1>10, <1>11 DEF ApiInv

\* An attempt is rewritten with a state that is true of its transaction.
LEMMA WriteKeeps ==
  ASSUME ApiInv, TypeOK', NEW n \in Numbers, NEW s, NEW heard, Write(n, s, heard),
         StateIsTrue(n, s), UNCHANGED <<shop, remote>>
  PROVE  ApiInv'
<1>1. /\ attempts \in Seq(AttemptRecord) /\ \A m \in Numbers : attempts[m] \in AttemptRecord
      /\ UNCHANGED <<tx, events>>
  BY DEF ApiInv, TypeOK, Numbers, remote
<1>2. /\ Numbers' = Numbers
      /\ \A m \in Numbers : /\ attempts'[m].key = attempts[m].key
                            /\ attempts'[m].state = IF m = n THEN s ELSE attempts[m].state
  BY <1>1 DEF Write, Numbers, AttemptRecord
<1>3. MayCreate(Deployed, Amount)' = MayCreate(Deployed, Amount)
  BY DEF Deployed, Amount
<1>4. OneAttemptPerCommand' /\ NeverByTheShop' /\ SignedWhenReached'
  BY <1>1, <1>2, <1>3 DEF ApiInv, OneAttemptPerCommand, NeverByTheShop, SignedWhenReached
<1>5. StatesAreTrue'
  BY <1>1, <1>2 DEF ApiInv, StatesAreTrue, StateIsTrue
<1>. QED
  BY <1>4, <1>5 DEF ApiInv

LEMMA RecordReplyKeeps ==
  ASSUME ApiInv, NEW n \in Numbers, NEW reply, RecordReply(n, reply)
  PROVE  ApiInv'
<1>. DEFINE outcome == CreateOutcome(Deployed, Amount, reply)
<1>1. /\ UNCHANGED <<browser, wire, shop, remote>> /\ TypeOK
      /\ outcome = "FAILED_LOCAL" => tx[n] = "NEVER"
      /\ outcome = "REJECTED_NO_TRANSACTION" => tx[n] = "REFUSED"
      /\ outcome \in TransactionStatus => tx[n] = outcome
  BY OutcomeIsTrue DEF RecordReply, ApiInv, NeverByTheShop
<1>2. CASE outcome \in NotSent /\ CloseDispatch(n, outcome, "RESERVED")
  <2>1. TypeOK' /\ Write(n, outcome, FALSE)
    BY <1>1, <1>2, CloseDispatchType DEF CloseDispatch, OrderState
  <2>2. StateIsTrue(n, outcome)
    BY <1>1, <1>2 DEF StateIsTrue, NotSent, Terminal
  <2>. QED
    BY <1>1, <2>1, <2>2, WriteKeeps
<1>3. CASE outcome = "UNKNOWN_OUTCOME" /\ CloseDispatch(n, outcome, outcome)
  <2>1. TypeOK' /\ Write(n, outcome, FALSE)
    BY <1>1, <1>3, CloseDispatchType DEF CloseDispatch, OrderState
  <2>2. StateIsTrue(n, outcome)
    BY <1>3 DEF StateIsTrue, Terminal
  <2>. QED
    BY <1>1, <2>1, <2>2, WriteKeeps
<1>4. CASE outcome \in TransactionStatus /\ Settle(n, outcome)
  <2>1. TypeOK' /\ Write(n, outcome, TRUE)
    BY <1>1, <1>4, SettleType DEF Settle
  <2>2. StateIsTrue(n, outcome)
    BY <1>1, <1>4 DEF StateIsTrue, TransactionStatus, ApiInv, SignedWhenReached
  <2>. QED
    BY <1>1, <2>1, <2>2, WriteKeeps
<1>. QED
  BY <1>2, <1>3, <1>4 DEF RecordReply

LEMMA RecoverDispatchKeeps ==
  ASSUME ApiInv, NEW n \in Numbers, RecoverDispatch(n)
  PROVE  ApiInv'
<1>1. /\ UNCHANGED <<browser, wire, shop, remote>> /\ TypeOK
      /\ CloseDispatch(n, "UNKNOWN_OUTCOME", "UNKNOWN_OUTCOME")
  BY DEF RecoverDispatch, ApiInv
<1>2. TypeOK' /\ Write(n, "UNKNOWN_OUTCOME", FALSE)
  BY <1>1, CloseDispatchType DEF CloseDispatch, OrderState
<1>3. StateIsTrue(n, "UNKNOWN_OUTCOME")
  BY DEF StateIsTrue, Terminal
<1>. QED
  BY <1>1, <1>2, <1>3, WriteKeeps

\* A status that was signed is applied, from a lookup or from an event.
LEMMA SettleKeeps ==
  ASSUME ApiInv, NEW n \in Numbers, NEW s \in TransactionStatus, Settle(n, s),
         <<n, s>> \in events, UNCHANGED <<browser, wire, shop, remote>>
  PROVE  ApiInv'
<1>1. TypeOK' /\ Write(n, s, TRUE)
  BY SettleType DEF Settle, ApiInv
<1>2. StateIsTrue(n, s)
  BY DEF StateIsTrue, TransactionStatus
<1>. QED
  BY <1>1, <1>2, WriteKeeps

LEMMA ReconcileKeeps == ASSUME ApiInv, NEW n \in Numbers, Reconcile(n) PROVE ApiInv'
<1>1. PICK s \in TransactionStatus : tx[n] = s /\ Settle(n, s)
  BY DEF Reconcile
<1>2. <<n, s>> \in events /\ UNCHANGED <<browser, wire, shop, remote>>
  BY <1>1 DEF Reconcile, ApiInv, SignedWhenReached
<1>. QED
  BY <1>1, <1>2, SettleKeeps

LEMMA ReceiveEventKeeps ==
  ASSUME ApiInv, NEW n \in Numbers, NEW s \in TransactionStatus, ReceiveEvent(n, s)
  PROVE  ApiInv'
<1>1. /\ <<n, s>> \in events /\ UNCHANGED <<browser, wire, shop, remote>>
      /\ \E t \in Believed[shop][s] : Settle(n, t)
  BY DEF ReceiveEvent
<1>2. Settle(n, s)
  BY <1>1, BelievedIsTrue DEF ApiInv, TypeOK
<1>. QED
  BY <1>1, <1>2, SettleKeeps

LEMMA ExpireKeeps == ASSUME ApiInv, Expire PROVE ApiInv'
<1>1. /\ order' = [state |-> "EXPIRED", hold |-> "RELEASED"]
      /\ UNCHANGED <<browser, wire, attempts, shop, remote>>
  BY DEF Expire
<1>2. ApiTypes'
  BY <1>1 DEF ApiInv, TypeOK, ApiTypes, remote, OrderRecord, OrderState
<1>3. TypeOK'
  BY <1>1, <1>2, TypeParts, BrowserUnchanged, WireUnchanged DEF ApiInv
<1>. QED
  BY <1>1, <1>3 DEF ApiInv, OneAttemptPerCommand, NeverByTheShop, SignedWhenReached, StatesAreTrue,
     StateIsTrue, Numbers, Deployed, Amount, remote

\* The provider signs a status, or refuses the request, of a request it received.
LEMMA ProviderKeeps == ASSUME ApiInv, Provider PROVE ApiInv'
<1>1. PICK n \in Numbers, u \in TransactionStatus \cup {"REFUSED"} :
        /\ tx[n] \in TransactionStatus \cup {"REQUESTED"}
        /\ tx' = [tx EXCEPT ![n] = u]
        /\ events \subseteq events' /\ events' \subseteq events \cup ({n} \X TransactionStatus)
        /\ u \in TransactionStatus => <<n, u>> \in events'
        /\ UNCHANGED <<browser, wire, api, shop>>
  <2>1. ASSUME NEW n \in Numbers, NEW s \in TransactionStatus, Sign(n, s)
        PROVE  /\ tx' = [tx EXCEPT ![n] = s]
               /\ events \subseteq events' /\ events' \subseteq events \cup ({n} \X TransactionStatus)
               /\ <<n, s>> \in events' /\ UNCHANGED <<browser, wire, api, shop>>
    BY <2>1 DEF Sign
  <2>2. CASE \E n \in Numbers, s \in TransactionStatus : ProviderCreates(n, s)
    BY <2>1, <2>2 DEF ProviderCreates
  <2>3. CASE \E n \in Numbers, s \in TransactionStatus : ProviderChanges(n, s)
    <3>1. PICK n \in Numbers, s \in TransactionStatus : ProviderChanges(n, s)
      BY <2>3
    <3>2. Sign(n, s) /\ tx[n] \in TransactionStatus
      BY <3>1, PanelBounds DEF ProviderChanges, ApiInv, TypeOK
    <3>. QED
      BY <2>1, <3>2
  <2>4. CASE \E n \in Numbers : ProviderRefuses(n)
    <3>1. PICK n \in Numbers : ProviderRefuses(n)
      BY <2>4
    <3>2. "REFUSED" \notin TransactionStatus
      BY DEF TransactionStatus
    <3>. QED
      BY <3>1, <3>2 DEF ProviderRefuses
  <2>. QED
    BY <2>2, <2>3, <2>4 DEF Provider
<1>2. /\ Numbers = 1..Len(attempts) /\ Len(attempts) \in Nat /\ Len(tx) = Len(attempts)
      /\ tx \in Seq(TransactionStatus \cup {"REQUESTED", "REFUSED", "NEVER"})
      /\ events \subseteq Nat \X TransactionStatus
  BY DEF ApiInv, TypeOK, Numbers
<1>3. /\ tx' \in Seq(TransactionStatus \cup {"REQUESTED", "REFUSED", "NEVER"})
      /\ Len(tx') = Len(tx)
      /\ \A m \in Numbers : tx'[m] = IF m = n THEN u ELSE tx[m]
  BY <1>1, <1>2
<1>4. events' \subseteq Nat \X TransactionStatus
  BY <1>1, <1>2
<1>5. ApiTypes'
  BY <1>1, <1>2, <1>3, <1>4 DEF ApiInv, TypeOK, ApiTypes, api
<1>6. TypeOK'
  BY <1>1, <1>5, TypeParts, BrowserUnchanged, WireUnchanged DEF ApiInv
<1>7. Numbers' = Numbers /\ attempts' = attempts /\ MayCreate(Deployed, Amount)' = MayCreate(Deployed, Amount)
  BY <1>1 DEF Numbers, api, Deployed, Amount
<1>8. OneAttemptPerCommand'
  BY <1>7 DEF ApiInv, OneAttemptPerCommand
<1>9. NeverByTheShop'
  BY <1>1, <1>3, <1>7 DEF ApiInv, NeverByTheShop, TransactionStatus
<1>10. SignedWhenReached'
  BY <1>1, <1>3, <1>7 DEF ApiInv, SignedWhenReached, TransactionStatus
<1>11. StatesAreTrue'
  BY <1>1, <1>3, <1>7 DEF ApiInv, StatesAreTrue, StateIsTrue, TransactionStatus
<1>. QED
  BY <1>6, <1>8, <1>9, <1>10, <1>11 DEF ApiInv

LEMMA PageKeeps == ASSUME ApiInv, Page PROVE ApiInv'
<1>1. UNCHANGED <<api, shop, remote>>
  BY DEF Page, EnterCard, Reload, Submit, PostSucceeds, PostFails, FirstLookup, AskAgain, Poll,
     Recheck, AnswerLookup, LookupFails, GiveUp, TenSeconds
<1>2. TypeOK'
  BY PageKeepsType DEF ApiInv
<1>. QED
  BY <1>1, <1>2 DEF ApiInv, OneAttemptPerCommand, NeverByTheShop, SignedWhenReached, StatesAreTrue,
     StateIsTrue, Numbers, Deployed, Amount, api, remote

LEMMA AnswerPostKeeps == ASSUME ApiInv, NEW k \in Commands, AnswerPost(k) PROVE ApiInv'
<1>1. UNCHANGED <<api, shop, remote>>
  BY DEF AnswerPost
<1>2. TypeOK'
  BY AnswerPostType DEF ApiInv
<1>. QED
  BY <1>1, <1>2 DEF ApiInv, OneAttemptPerCommand, NeverByTheShop, SignedWhenReached, StatesAreTrue,
     StateIsTrue, Numbers, Deployed, Amount, api, remote

LEMMA ApiInit == Init => ApiInv
<1>. SUFFICES ASSUME Init PROVE ApiInv
  OBVIOUS
<1>1. Numbers = {}
  BY DEF Init, Numbers
<1>2. PageTypes
  <2>1. reloads \in Nat
    BY DEF Init
  <2>2. marked \in BOOLEAN /\ asked \in BOOLEAN /\ (marked => asked)
    BY DEF Init
  <2>. QED
    BY <2>1, <2>2, NoViewType DEF Init, PageTypes
<1>3. WireTypes
  BY NoViewType DEF Init, WireTypes
<1>4. ApiTypes
  BY DEF Init, ApiTypes, OrderRecord, OrderState
<1>. QED
  BY <1>1, <1>2, <1>3, <1>4, TypeParts
  DEF ApiInv, OneAttemptPerCommand, NeverByTheShop, SignedWhenReached, StatesAreTrue

LEMMA ApiNext == ApiInv /\ [Next]_vars => ApiInv'
<1>. SUFFICES ASSUME ApiInv, [Next]_vars PROVE ApiInv'
  OBVIOUS
<1>1. CASE Page
  BY <1>1, PageKeeps
<1>2. CASE Api
  <2>1. ASSUME NEW k \in Commands, Deliver(k) \/ AnswerPost(k) PROVE ApiInv'
    BY <2>1, DeliverKeeps, AnswerPostKeeps
  <2>2. ASSUME NEW n \in Numbers, NEW reply \in Reply, RecordReply(n, reply) PROVE ApiInv'
    BY <2>2, RecordReplyKeeps
  <2>3. ASSUME NEW n \in Numbers, RecoverDispatch(n) \/ Reconcile(n) PROVE ApiInv'
    BY <2>3, RecoverDispatchKeeps, ReconcileKeeps
  <2>4. ASSUME NEW n \in Numbers, NEW s \in TransactionStatus, ReceiveEvent(n, s) PROVE ApiInv'
    BY <2>4, ReceiveEventKeeps
  <2>. QED
    BY <1>2, <2>1, <2>2, <2>3, <2>4, ExpireKeeps DEF Api
<1>3. CASE Provider
  BY <1>3, ProviderKeeps
<1>4. CASE UNCHANGED vars
  <2>1. UNCHANGED <<browser, wire, api, shop, remote>>
    BY <1>4 DEF vars, browser
  <2>2. TypeOK'
    BY <2>1, TypeParts, BrowserUnchanged, WireUnchanged, ApiUnchanged DEF ApiInv
  <2>. QED
    BY <2>1, <2>2 DEF ApiInv, OneAttemptPerCommand, NeverByTheShop, SignedWhenReached, StatesAreTrue,
       StateIsTrue, Numbers, Deployed, Amount, api, remote
<1>. QED
  BY <1>1, <1>2, <1>3, <1>4 DEF Next

LEMMA ApiAlways == Spec => []ApiInv
BY ApiInit, ApiNext, PTL DEF Spec

(***************************************************************************)
(* The types of the model hold.                                            *)
(***************************************************************************)
THEOREM PanelTypes == Spec => []TypeOK
BY ApiAlways, PTL DEF ApiInv

(***************************************************************************)
(* A payment command is one attempt, however often it is delivered.        *)
(***************************************************************************)
THEOREM CommandsAreSingle == Spec => []OneAttemptPerCommand
BY ApiAlways, PTL DEF ApiInv

(***************************************************************************)
(* Whatever the provider answers, signs or is said to have signed, in any  *)
(* configuration: an attempt is called unsent, refused or settled only     *)
(* when its transaction is (HttpPaymentGateway, verifyProviderEvent).      *)
(***************************************************************************)
THEOREM ApiBelievesFacts == Spec => []ProviderFacts
<1>1. ApiInv => ProviderFacts
  <2>. SUFFICES ASSUME ApiInv, NEW n \in Numbers
                PROVE  /\ attempts[n].state = "FAILED_LOCAL" => tx[n] = "NEVER"
                       /\ attempts[n].state = "REJECTED_NO_TRANSACTION" => tx[n] = "REFUSED"
                       /\ attempts[n].state \in Terminal => Reached(n, attempts[n].state)
                       /\ tx[n] # "NEVER" => /\ Deployed.environment = "test"
                                             /\ Amount * 100 <= MaxSafe
    BY DEF ProviderFacts
  <2>1. StateIsTrue(n, attempts[n].state)
    BY DEF ApiInv, StatesAreTrue
  <2>2. tx[n] # "NEVER" => MayCreate(Deployed, Amount)
    BY DEF ApiInv, NeverByTheShop
  <2>. QED
    BY <2>1, <2>2 DEF StateIsTrue, Reached, MayCreate, Configured, Sendable
<1>. QED
  BY <1>1, ApiAlways, PTL
-------------------------------------------------------------------------------
(***************************************************************************)
(* Waiting in doubt.  That a fresh command leaves its marker is not        *)
(* inductive: the marker is cleared once an attempt is shown, and a reload *)
(* may forget what was shown.  After it an attempt exists, so the lookup   *)
(* that would bring the form back finds it (DoubtIsMarked).                *)
(***************************************************************************)
Real(v) == v # NoView => v.number > 0 /\ attempts # <<>>

ViewsAreReal == Real(local) /\ Real(shown) /\ \A k \in Commands : Real(answer[k])

AnswersShow == \A k \in Commands : post[k] = "ANSWERED" => answer[k] # NoView

DoubtIsMarked ==
  age = "FRESH" /\ Displayed = NoView /\ (attempts = <<>> \/ lookup \in {"FOUND", "NOT_FOUND"})
    => marked /\ asked

DoubtInv == TypeOK /\ ViewsAreReal /\ AnswersShow /\ DoubtIsMarked

\* Nothing is shown only when there is nothing to show.
LEMMA NothingDisplayed ==
  ASSUME TypeOK, ViewsAreReal
  PROVE  Displayed = NoView <=> local = NoView /\ shown = NoView
<1>1. local \in ViewRecord /\ shown \in ViewRecord /\ NoView.number = 0
  BY NoViewType DEF TypeOK
<1>2. CASE local # NoView /\ shown = NoView
  BY <1>1, <1>2 DEF Displayed, Newer, ViewsAreReal, Real, ViewRecord
<1>3. CASE local = NoView \/ shown # NoView
  BY <1>3 DEF Displayed
<1>. QED
  BY <1>2, <1>3

LEMMA NothingDisplayedNext ==
  ASSUME TypeOK', ViewsAreReal'
  PROVE  Displayed' = NoView <=> local' = NoView /\ shown' = NoView
<1>1. local' \in ViewRecord /\ shown' \in ViewRecord /\ NoView.number = 0
  BY NoViewType DEF TypeOK
<1>2. CASE local' # NoView /\ shown' = NoView
  BY <1>1, <1>2 DEF Displayed, Newer, ViewsAreReal, Real, ViewRecord
<1>3. CASE local' = NoView \/ shown' # NoView
  BY <1>3 DEF Displayed
<1>. QED
  BY <1>2, <1>3

\* A marker in place survives a render that still has nothing to show.
LEMMA RenderMarks ==
  ASSUME NEW mark \in BOOLEAN, NEW ask \in BOOLEAN, NEW busy, Render(mark, ask, busy),
         mark, ask, Displayed' = NoView
  PROVE  marked' /\ asked'
BY DEF Render

\* A page step that renders keeps the marker where it is needed, provided it asks for it.
LEMMA RenderKeepsDoubt ==
  ASSUME TypeOK', ViewsAreReal', AnswersShow', attempts' = attempts,
         NEW mark \in BOOLEAN, NEW ask \in BOOLEAN, NEW busy, Render(mark, ask, busy),
         /\ age' = "FRESH" /\ local' = NoView /\ shown' = NoView
         /\ attempts = <<>> \/ lookup' \in {"FOUND", "NOT_FOUND"}
         => mark /\ ask
  PROVE  DoubtInv'
BY NothingDisplayedNext, RenderMarks DEF DoubtInv, DoubtIsMarked

LEMMA NothingShown ==
  ASSUME DoubtInv, age = "FRESH", local = NoView, shown = NoView,
         attempts = <<>> \/ lookup \in {"FOUND", "NOT_FOUND"}
  PROVE  marked /\ asked
BY NothingDisplayed DEF DoubtInv, DoubtIsMarked

LEMMA EnterCardInDoubt == ASSUME DoubtInv, EnterCard PROVE DoubtInv'
<1>1. /\ UNCHANGED <<local, shown, lookup, age, answer, post, attempts>>
      /\ Render(marked, asked, submitting) /\ TypeOK /\ TypeOK'
  BY EnterCardType DEF EnterCard, DoubtInv, reading, wire, api
<1>2. ViewsAreReal' /\ AnswersShow'
  BY <1>1 DEF DoubtInv, ViewsAreReal, Real, AnswersShow
<1>3. marked \in BOOLEAN /\ asked \in BOOLEAN
  BY <1>1 DEF TypeOK
<1>. QED
  BY <1>1, <1>2, <1>3, RenderKeepsDoubt, NothingShown

LEMMA SubmitInDoubt == ASSUME DoubtInv, NEW k \in Commands, Submit(k) PROVE DoubtInv'
<1>1. /\ UNCHANGED <<local, shown, lookup, answer, attempts>> /\ post' = [post EXCEPT ![k] = "SENT"]
      /\ Render(TRUE, TRUE, Busy(k)) /\ TypeOK /\ TypeOK'
  BY SubmitType DEF Submit, DoubtInv, reading, wire, api
<1>2. ViewsAreReal' /\ AnswersShow'
  BY <1>1 DEF DoubtInv, ViewsAreReal, Real, AnswersShow, TypeOK
<1>. QED
  BY <1>1, <1>2, RenderKeepsDoubt

LEMMA PostSucceedsInDoubt == ASSUME DoubtInv, NEW k \in Commands, PostSucceeds(k) PROVE DoubtInv'
<1>. DEFINE busy == IF submitting = Busy(k) THEN "REFRESH" ELSE submitting
<1>1. /\ UNCHANGED <<shown, attempts>> /\ local' = answer[k]
      /\ post' = [post EXCEPT ![k] = "DONE"] /\ answer' = [answer EXCEPT ![k] = NoView]
      /\ Render(FALSE, FALSE, busy) /\ TypeOK /\ TypeOK' /\ answer[k] # NoView
  BY PostSucceedsType DEF PostSucceeds, Refresh, DoubtInv, AnswersShow, api
<1>. HIDE DEF busy
<1>2. ViewsAreReal' /\ AnswersShow'
  BY <1>1 DEF DoubtInv, ViewsAreReal, Real, AnswersShow, TypeOK
<1>. QED
  BY <1>1, <1>2, RenderKeepsDoubt

LEMMA PostFailsInDoubt == ASSUME DoubtInv, NEW k \in Commands, PostFails(k) PROVE DoubtInv'
<1>. DEFINE busy == IF submitting = Busy(k) THEN "REFRESH" ELSE submitting
<1>1. /\ UNCHANGED <<local, shown, age, attempts>>
      /\ post' = [post EXCEPT ![k] = "DONE"] /\ answer' = [answer EXCEPT ![k] = NoView]
      /\ lookup' = IF lookup = "FOUND" THEN "FOUND" ELSE "LOADING"
      /\ Render(marked, TRUE, busy) /\ TypeOK /\ TypeOK'
  BY PostFailsType DEF PostFails, Refresh, DoubtInv, memory, api
<1>. HIDE DEF busy
<1>2. ViewsAreReal' /\ AnswersShow'
  BY <1>1 DEF DoubtInv, ViewsAreReal, Real, AnswersShow, TypeOK
<1>3. marked \in BOOLEAN
  BY <1>1 DEF TypeOK
<1>4. lookup' \in {"FOUND", "NOT_FOUND"} => lookup = "FOUND"
  BY <1>1
<1>. QED
  BY <1>1, <1>2, <1>3, <1>4, RenderKeepsDoubt, NothingShown

LEMMA AnswerLookupInDoubt == ASSUME DoubtInv, AnswerLookup PROVE DoubtInv'
<1>1. /\ UNCHANGED <<local, age, answer, post, attempts>> /\ shown' = Latest
      /\ Render(marked, asked, Settled(submitting)) /\ TypeOK /\ TypeOK'
  BY AnswerLookupType DEF AnswerLookup, DoubtInv, memory, wire, api
<1>2. Real(Latest)
  <2>1. CASE attempts = <<>>
    BY <2>1 DEF Latest, Real
  <2>2. CASE attempts # <<>>
    <3>1. Len(attempts) \in Numbers /\ Latest = View(Len(attempts))
      BY <1>1, <2>2 DEF TypeOK, Numbers, Latest
    <3>. QED
      BY <1>1, <2>2, <3>1, ViewType DEF Real
  <2>. QED
    BY <2>1, <2>2
<1>3. ViewsAreReal' /\ AnswersShow'
  BY <1>1, <1>2 DEF DoubtInv, ViewsAreReal, Real, AnswersShow
<1>4. shown' = NoView => attempts = <<>> /\ shown = NoView
  BY <1>1, LatestType DEF DoubtInv, ViewsAreReal, Real
<1>5. marked \in BOOLEAN /\ asked \in BOOLEAN
  BY <1>1 DEF TypeOK
<1>. QED
  BY <1>1, <1>3, <1>4, <1>5, RenderKeepsDoubt, NothingShown

LEMMA LookupFailsInDoubt == ASSUME DoubtInv, LookupFails PROVE DoubtInv'
<1>1. /\ UNCHANGED <<local, shown, age, answer, post, attempts>> /\ lookup' = "ERROR"
      /\ Render(marked, asked, Settled(submitting)) /\ TypeOK /\ TypeOK'
  BY LookupFailsType DEF LookupFails, DoubtInv, memory, wire, api
<1>2. ViewsAreReal' /\ AnswersShow'
  BY <1>1 DEF DoubtInv, ViewsAreReal, Real, AnswersShow
<1>3. marked \in BOOLEAN /\ asked \in BOOLEAN
  BY <1>1 DEF TypeOK
<1>. QED
  BY <1>1, <1>2, <1>3, RenderKeepsDoubt, NothingShown

LEMMA TimersInDoubt == ASSUME DoubtInv, GiveUp \/ TenSeconds PROVE DoubtInv'
<1>1. /\ UNCHANGED <<local, shown, answer, post, attempts>> /\ age' = "OLD" /\ TypeOK'
  BY TimersType DEF GiveUp, TenSeconds, DoubtInv, memory, reading, wire, api
<1>2. ViewsAreReal' /\ AnswersShow'
  BY <1>1 DEF DoubtInv, ViewsAreReal, Real, AnswersShow
<1>. QED
  BY <1>1, <1>2 DEF DoubtInv, DoubtIsMarked

LEMMA ReloadInDoubt == ASSUME DoubtInv, Reload PROVE DoubtInv'
<1>1. /\ local' = NoView /\ shown' = NoView /\ lookup' = "LOADING"
      /\ post' = [k \in Commands |-> IF post[k] = "UNUSED" THEN "UNUSED" ELSE "DONE"]
      /\ answer' = [k \in Commands |-> NoView] /\ UNCHANGED <<age, attempts>>
      /\ Render(marked, marked, "NONE") /\ TypeOK /\ TypeOK'
  BY ReloadType DEF Reload, DoubtInv, api
<1>2. ViewsAreReal' /\ AnswersShow'
  BY <1>1 DEF ViewsAreReal, Real, AnswersShow
<1>3. attempts = <<>> => local = NoView /\ shown = NoView
  BY DEF DoubtInv, ViewsAreReal, Real
<1>4. marked \in BOOLEAN
  BY <1>1 DEF TypeOK
<1>. QED
  BY <1>1, <1>2, <1>3, <1>4, RenderKeepsDoubt, NothingShown

\* The API's and the provider's steps: attempts do not go away.
LEMMA AttemptsStay ==
  ASSUME DoubtInv, TypeOK', UNCHANGED <<browser, wire>>, attempts' = <<>> => attempts = <<>>
  PROVE  DoubtInv'
<1>1. UNCHANGED <<local, shown, lookup, age, marked, asked, answer, post>>
  BY DEF browser, wire, memory, panel, reading
<1>2. Displayed' = Displayed
  BY <1>1 DEF Displayed
<1>. QED
  BY <1>1, <1>2 DEF DoubtInv, ViewsAreReal, Real, AnswersShow, DoubtIsMarked

LEMMA AnswerPostInDoubt == ASSUME DoubtInv, NEW k \in Commands, AnswerPost(k) PROVE DoubtInv'
<1>1. PICK n \in Numbers : answer' = [answer EXCEPT ![k] = View(n)]
  BY DEF AnswerPost
<1>2. /\ UNCHANGED <<local, shown, lookup, age, marked, asked, attempts>>
      /\ post' = [post EXCEPT ![k] = "ANSWERED"] /\ TypeOK /\ TypeOK'
  BY AnswerPostType DEF AnswerPost, browser, memory, panel, reading, api, DoubtInv
<1>3. Real(View(n)) /\ View(n) # NoView
  BY <1>2, ViewType DEF Real
<1>4. ViewsAreReal' /\ AnswersShow'
  BY <1>1, <1>2, <1>3 DEF DoubtInv, ViewsAreReal, Real, AnswersShow, TypeOK
<1>5. Displayed' = Displayed
  BY <1>2 DEF Displayed
<1>. QED
  BY <1>2, <1>4, <1>5 DEF DoubtInv, DoubtIsMarked

LEMMA DoubtInit == Init => DoubtInv
<1>. SUFFICES ASSUME Init PROVE DoubtInv
  OBVIOUS
<1>1. TypeOK
  BY ApiInit DEF ApiInv
<1>2. local = NoView /\ shown = NoView /\ age = "NONE" /\ \A k \in Commands : answer[k] = NoView /\ post[k] = "UNUSED"
  BY DEF Init
<1>. QED
  BY <1>1, <1>2 DEF DoubtInv, ViewsAreReal, Real, AnswersShow, DoubtIsMarked

LEMMA DoubtNext == DoubtInv /\ TypeOK' /\ [Next]_vars => DoubtInv'
<1>. SUFFICES ASSUME DoubtInv, TypeOK', [Next]_vars PROVE DoubtInv'
  OBVIOUS
<1>1. CASE Page
  BY <1>1, EnterCardInDoubt, SubmitInDoubt, PostSucceedsInDoubt, PostFailsInDoubt,
     AnswerLookupInDoubt, LookupFailsInDoubt, TimersInDoubt, ReloadInDoubt
  DEF Page, FirstLookup, AskAgain, Poll, Recheck
<1>2. CASE Api
  <2>1. ASSUME NEW k \in Commands, AnswerPost(k) PROVE DoubtInv'
    BY <2>1, AnswerPostInDoubt
  <2>2. ASSUME NEW k \in Commands, Deliver(k) PROVE DoubtInv'
    <3>1. UNCHANGED <<browser, wire>> /\ attempts' # <<>>
      BY <2>2 DEF Deliver, OpenAttempt, DoubtInv, TypeOK
    <3>. QED
      BY <3>1, AttemptsStay
  <2>3. ASSUME NEW n \in Numbers,
               \/ \E reply \in Reply : RecordReply(n, reply)
               \/ RecoverDispatch(n) \/ Reconcile(n)
               \/ \E s \in TransactionStatus : ReceiveEvent(n, s)
        PROVE  DoubtInv'
    <3>1. UNCHANGED <<browser, wire>> /\ \E t, heard : Write(n, t, heard)
      BY <2>3 DEF RecordReply, RecoverDispatch, Reconcile, ReceiveEvent, CloseDispatch, Settle
    <3>2. attempts \in Seq(AttemptRecord) /\ n \in DOMAIN attempts
      BY DEF DoubtInv, TypeOK, Numbers
    <3>3. DOMAIN attempts' = DOMAIN attempts
      BY <3>1 DEF Write
    <3>4. attempts' # <<>>
      BY <3>2, <3>3
    <3>. QED
      BY <3>1, <3>4, AttemptsStay
  <2>4. CASE Expire
    BY <2>4, AttemptsStay DEF Expire
  <2>. QED
    BY <1>2, <2>1, <2>2, <2>3, <2>4 DEF Api
<1>3. CASE Provider
  BY <1>3, AttemptsStay DEF Provider, ProviderCreates, ProviderChanges, ProviderRefuses, Sign, api
<1>4. CASE UNCHANGED vars
  BY <1>4, AttemptsStay DEF vars, browser, api
<1>. QED
  BY <1>1, <1>2, <1>3, <1>4 DEF Next

\* A command is sent from the form, which nothing but Submit takes a command from.
LEMMA SentByTheForm ==
  ASSUME TypeOK, [Next]_vars, NEW k \in Commands, Sends(k)
  PROVE  Submit(k)
<1>1. post[k] = "UNUSED" /\ post'[k] = "SENT" /\ post \in [Commands -> {"UNUSED", "SENT", "ANSWERED", "DONE"}]
  BY DEF Sends, TypeOK
<1>2. CASE UNCHANGED post
  BY <1>1, <1>2
<1>3. CASE Reload
  BY <1>1, <1>3 DEF Reload
<1>4. ASSUME NEW j \in Commands, PostSucceeds(j) \/ PostFails(j) \/ AnswerPost(j) PROVE FALSE
  BY <1>1, <1>4 DEF PostSucceeds, PostFails, AnswerPost
<1>5. ASSUME EnterCard \/ FirstLookup \/ AskAgain \/ Poll \/ Recheck \/ GiveUp \/ TenSeconds
      PROVE  UNCHANGED post
  BY <1>5 DEF EnterCard, FirstLookup, AskAgain, Poll, Recheck, GiveUp, TenSeconds,
     AnswerLookup, LookupFails, wire
<1>6. ASSUME NEW j \in Commands, Deliver(j) PROVE UNCHANGED post
  BY <1>6 DEF Deliver, OpenAttempt, wire
<1>7. ASSUME NEW n \in Numbers,
             \/ \E reply \in Reply : RecordReply(n, reply)
             \/ RecoverDispatch(n) \/ Reconcile(n)
             \/ \E s \in TransactionStatus : ReceiveEvent(n, s)
      PROVE  UNCHANGED post
  BY <1>7 DEF RecordReply, RecoverDispatch, Reconcile, ReceiveEvent, wire
<1>8. ASSUME Expire \/ Provider PROVE UNCHANGED post
  BY <1>8 DEF Expire, Provider, ProviderCreates, ProviderChanges, ProviderRefuses, Sign, wire
<1>9. ASSUME UNCHANGED vars PROVE UNCHANGED post
  BY <1>9 DEF vars, wire
<1>10. ASSUME NEW j \in Commands, Submit(j) PROVE j = k
  BY <1>1, <1>10 DEF Submit
<1>. QED
  BY <1>2, <1>3, <1>4, <1>5, <1>6, <1>7, <1>8, <1>9, <1>10 DEF Next, Page, Api

LEMMA SentWithoutDoubt ==
  ASSUME DoubtInv, [Next]_vars, NEW k \in Commands, Sends(k)
  PROVE  age # "FRESH" \/ Displayed # NoView
<1>1. ~RecoveryPending /\ lookup \in {"FOUND", "NOT_FOUND"}
  BY SentByTheForm DEF DoubtInv, Submit, FormOffered, CanStart
<1>. QED
  BY <1>1 DEF RecoveryPending, DoubtInv, DoubtIsMarked
-------------------------------------------------------------------------------
(***************************************************************************)
(* No command before a lookup.  While a command is under way the form      *)
(* waits for it, or the panel is gone and cannot come back with the token  *)
(* spent (WaitsForCommand); when it is over, the form waits for a lookup,  *)
(* one is under way or has failed, what became of the command is on the    *)
(* page, or the panel is gone as before (WaitsForLookup).                  *)
(***************************************************************************)
OnItsWay(k) == post[k] \in {"SENT", "ANSWERED"}
Last(k)     == post[k] # "UNUSED" /\ \A j \in Commands : j > k => post[j] = "UNUSED"

SentInOrder == \A j, k \in Commands : j < k /\ post[k] # "UNUSED" => post[j] # "UNUSED"

AnswersAreOwn ==
  \A k \in Commands : post[k] = "ANSWERED" =>
    \E n \in Numbers : attempts[n].key = k /\ answer[k].number = n

WaitsForCommand ==
  \A k \in Commands : OnItsWay(k) =>
    /\ Last(k) /\ token = "SENT" /\ seen # Loading /\ lookup # "LOADING"
    /\ PanelShown => submitting = Busy(k)

WaitsForLookup ==
  ~UnderWay /\ ~looked =>
    \/ PanelShown /\ submitting = "REFRESH"
    \/ lookup \in {"LOADING", "ERROR"}
    \/ \E k \in Commands : Last(k) /\ Shows(k)
    \/ ~PanelShown /\ token = "SENT"

LookInv == TypeOK /\ SentInOrder /\ AnswersAreOwn /\ WaitsForCommand /\ WaitsForLookup

LEMMA OneOnItsWay ==
  ASSUME TypeOK, WaitsForCommand, NEW j \in Commands, NEW k \in Commands, OnItsWay(j), OnItsWay(k)
  PROVE  j = k
<1>1. Last(j) /\ Last(k) /\ j \in Nat /\ k \in Nat
  BY PanelBounds DEF WaitsForCommand, Commands
<1>. QED
  BY <1>1 DEF Last

\* What is on the page decides whether the panel is there.
LEMMA SamePanel ==
  ASSUME UNCHANGED <<token, local, shown, seen>>
  PROVE  (PanelShown' <=> PanelShown) /\ Displayed' = Displayed
BY DEF PanelShown, TerminalResult, Open, CanPayAgain, Displayed

\* Steps that leave the commands and what the page waits for alone, and no attempt's key.
LEMMA LookUnmoved ==
  ASSUME LookInv, TypeOK', UNCHANGED <<token, local, shown, lookup, seen, looked, post, answer>>,
         PanelShown => submitting' = submitting,
         \A n \in Numbers : n \in Numbers' /\ attempts'[n].key = attempts[n].key
  PROVE  LookInv'
<1>1. (PanelShown' <=> PanelShown) /\ Displayed' = Displayed
  BY SamePanel
<1>2. \A k \in Commands : Shows(k) => Shows(k)'
  BY <1>1 DEF Shows
<1>3. SentInOrder' /\ AnswersAreOwn'
  BY DEF LookInv, SentInOrder, AnswersAreOwn
<1>4. WaitsForCommand'
  BY <1>1 DEF LookInv, WaitsForCommand, OnItsWay, Last
<1>5. WaitsForLookup'
  BY <1>1, <1>2 DEF LookInv, WaitsForLookup, UnderWay, Last
<1>. QED
  BY <1>3, <1>4, <1>5 DEF LookInv

LEMMA EnterCardLooks == ASSUME LookInv, EnterCard PROVE LookInv'
<1>1. /\ token = "NONE" /\ token' = "NEW" /\ (FormOffered \/ TerminalResult)
      /\ UNCHANGED <<local, shown, lookup, seen, looked, post, answer, attempts>>
      /\ Render(marked, asked, submitting) /\ TypeOK /\ TypeOK'
  BY EnterCardType DEF EnterCard, LookInv, reading, wire, api
<1>2. Displayed' = Displayed /\ (PanelShown => PanelShown')
  BY <1>1 DEF Displayed, PanelShown, TerminalResult, Open, CanPayAgain
<1>3. PanelShown => submitting' = submitting
  BY <1>1, <1>2 DEF Render
<1>4. \A k \in Commands : (Shows(k)' <=> Shows(k)) /\ (Last(k)' <=> Last(k)) /\ ~OnItsWay(k)
  BY <1>1, <1>2 DEF Shows, Last, LookInv, WaitsForCommand, Numbers
<1>5. SentInOrder' /\ AnswersAreOwn'
  BY <1>1 DEF LookInv, SentInOrder, AnswersAreOwn, Numbers
<1>6. WaitsForCommand'
  BY <1>1, <1>4 DEF WaitsForCommand, OnItsWay
<1>7. WaitsForLookup'
  BY <1>1, <1>2, <1>3, <1>4 DEF LookInv, WaitsForLookup, UnderWay
<1>. QED
  BY <1>1, <1>5, <1>6, <1>7 DEF LookInv

LEMMA SubmitLooks == ASSUME LookInv, NEW k \in Commands, Submit(k) PROVE LookInv'
<1>1. /\ FormOffered /\ submitting = "NONE" /\ token # "NONE" /\ token' = "SENT"
      /\ post[k] = "UNUSED" /\ \A j \in 1..(k - 1) : post[j] # "UNUSED"
      /\ post' = [post EXCEPT ![k] = "SENT"] /\ looked' = FALSE
      /\ UNCHANGED <<local, shown, lookup, seen, answer, attempts>>
      /\ Render(TRUE, TRUE, Busy(k)) /\ TypeOK /\ TypeOK'
  BY SubmitType DEF Submit, LookInv, api
<1>2. post \in [Commands -> {"UNUSED", "SENT", "ANSWERED", "DONE"}] /\ Commands \subseteq Nat \ {0}
  BY <1>1 DEF TypeOK, Commands
<1>3. PanelShown /\ lookup \in {"FOUND", "NOT_FOUND"} /\ seen # Loading
  BY <1>1 DEF FormOffered, CanStart, PanelShown, Loading
<1>4. \A j \in Commands : ~OnItsWay(j)
  BY <1>1, <1>3 DEF LookInv, WaitsForCommand, Busy
<1>5. \A j \in Commands : j > k => post[j] = "UNUSED"
  BY <1>1, <1>2 DEF LookInv, SentInOrder
<1>6. SentInOrder'
  BY <1>1, <1>2, <1>5 DEF LookInv, SentInOrder, Commands
<1>7. AnswersAreOwn'
  BY <1>1, <1>2 DEF LookInv, AnswersAreOwn, Numbers
<1>8. WaitsForCommand'
  <2>. SUFFICES ASSUME NEW j \in Commands, OnItsWay(j)'
                PROVE  /\ Last(j)' /\ token' = "SENT" /\ seen' # Loading /\ lookup' # "LOADING"
                       /\ PanelShown' => submitting' = Busy(j)
    BY DEF WaitsForCommand
  <2>1. j = k
    BY <1>1, <1>2, <1>4 DEF OnItsWay
  <2>2. Last(k)'
    BY <1>1, <1>2, <1>5 DEF Last
  <2>. QED
    BY <1>1, <1>3, <2>1, <2>2 DEF Render
<1>9. WaitsForLookup'
  BY <1>1, <1>2 DEF WaitsForLookup, UnderWay
<1>. QED
  BY <1>1, <1>6, <1>7, <1>8, <1>9 DEF LookInv

\* A command is over: no other is on its way.
LEMMA CommandOver ==
  ASSUME LookInv, TypeOK', NEW k \in Commands, OnItsWay(k), post' = [post EXCEPT ![k] = "DONE"],
         answer' = [answer EXCEPT ![k] = NoView], UNCHANGED attempts,
         \/ Shows(k)'
         \/ PanelShown' /\ submitting' = "REFRESH"
         \/ ~PanelShown' /\ token' = "SENT"
  PROVE  LookInv'
<1>1. /\ post \in [Commands -> {"UNUSED", "SENT", "ANSWERED", "DONE"}] /\ Last(k)
      /\ answer \in [Commands -> ViewRecord]
  BY DEF LookInv, TypeOK, WaitsForCommand
<1>2. \A j \in Commands : ~OnItsWay(j)' /\ (Last(j)' <=> Last(j))
  BY <1>1, OneOnItsWay DEF LookInv, OnItsWay, Last
<1>3. SentInOrder'
  BY <1>1 DEF LookInv, SentInOrder, OnItsWay
<1>4. AnswersAreOwn'
  BY <1>1 DEF LookInv, AnswersAreOwn, Numbers
<1>5. WaitsForCommand' /\ WaitsForLookup'
  BY <1>1, <1>2 DEF WaitsForCommand, WaitsForLookup
<1>. QED
  BY <1>3, <1>4, <1>5 DEF LookInv

LEMMA PostSucceedsLooks == ASSUME LookInv, NEW k \in Commands, PostSucceeds(k) PROVE LookInv'
<1>1. /\ post[k] = "ANSWERED" /\ post' = [post EXCEPT ![k] = "DONE"]
      /\ answer' = [answer EXCEPT ![k] = NoView] /\ local' = answer[k]
      /\ UNCHANGED <<shown, attempts>> /\ TypeOK /\ TypeOK'
  BY PostSucceedsType DEF PostSucceeds, Refresh, LookInv, api
<1>2. PICK n \in Numbers : attempts[n].key = k /\ answer[k].number = n
  BY <1>1 DEF LookInv, AnswersAreOwn
<1>3. n \in Nat \ {0} /\ shown \in ViewRecord /\ NoView.number = 0
  BY <1>1, ViewType, NoViewType DEF TypeOK
<1>4. n <= Displayed'.number
  BY <1>1, <1>2, <1>3 DEF Displayed, Newer, ViewRecord
<1>5. Shows(k)'
  BY <1>1, <1>2, <1>4 DEF Shows, Numbers
<1>. QED
  BY <1>1, <1>5, CommandOver DEF OnItsWay

LEMMA PostFailsLooks == ASSUME LookInv, NEW k \in Commands, PostFails(k) PROVE LookInv'
<1>1. /\ post' = [post EXCEPT ![k] = "DONE"] /\ answer' = [answer EXCEPT ![k] = NoView]
      /\ UNCHANGED <<token, local, shown, seen, attempts>> /\ OnItsWay(k)
      /\ Render(marked, TRUE, IF submitting = Busy(k) THEN "REFRESH" ELSE submitting) /\ TypeOK'
  BY PostFailsType DEF PostFails, Refresh, LookInv, memory, api, OnItsWay
<1>2. token = "SENT" /\ (PanelShown => submitting = Busy(k))
  BY <1>1 DEF LookInv, WaitsForCommand
<1>3. PanelShown' <=> PanelShown
  BY <1>1, SamePanel
<1>4. PanelShown => submitting' = "REFRESH"
  BY <1>1, <1>2, <1>3 DEF Render
<1>. QED
  BY <1>1, <1>2, <1>3, <1>4, CommandOver

\* A lookup is answered while no command is on its way, or on a panel that waits for one.
LEMMA LookupLooks ==
  ASSUME LookInv, FirstLookup \/ AskAgain \/ Poll \/ Recheck
  PROVE  LookInv'
<1>1. /\ UNCHANGED <<token, local, post, answer, attempts>> /\ TypeOK /\ TypeOK'
      /\ Render(marked, asked, Settled(submitting))
      /\ \/ lookup' = "ERROR" /\ UNCHANGED <<shown, seen, looked>>
         \/ seen' = order /\ lookup' \in {"FOUND", "NOT_FOUND"} /\ looked' = ~UnderWay
      /\ lookup = "LOADING" \/ ~TerminalResult
  BY AnswerLookupType, LookupFailsType
  DEF FirstLookup, AskAgain, Poll, Recheck, PanelShown, AnswerLookup, LookupFails, LookInv,
      memory, wire, api
<1>2. SentInOrder' /\ AnswersAreOwn'
  BY <1>1 DEF LookInv, SentInOrder, AnswersAreOwn, Numbers
<1>3. seen' # Loading \/ seen' = seen
  BY <1>1, NoViewType DEF TypeOK
<1>4. WaitsForCommand'
  <2>. SUFFICES ASSUME NEW k \in Commands, OnItsWay(k)
                PROVE  /\ Last(k)' /\ token' = "SENT" /\ seen' # Loading /\ lookup' # "LOADING"
                       /\ PanelShown' => submitting' = Busy(k)
    BY <1>1 DEF WaitsForCommand, OnItsWay
  <2>1. /\ Last(k) /\ token = "SENT" /\ seen # Loading /\ lookup # "LOADING"
        /\ PanelShown => submitting = Busy(k)
    BY DEF LookInv, WaitsForCommand
  <2>2. PanelShown
    BY <1>1, <2>1, NoViewType DEF PanelShown, TypeOK, OrderRecord, Loading, OrderState
  <2>3. Settled(submitting) = Busy(k)
    BY <2>1, <2>2 DEF Settled, Busy
  <2>. QED
    BY <1>1, <1>3, <2>1, <2>3 DEF Last, Render
<1>5. WaitsForLookup'
  BY <1>1 DEF WaitsForLookup, UnderWay
<1>. QED
  BY <1>1, <1>2, <1>4, <1>5 DEF LookInv

LEMMA ReloadLooks == ASSUME LookInv, Reload PROVE LookInv'
<1>1. /\ post' = [j \in Commands |-> IF post[j] = "UNUSED" THEN "UNUSED" ELSE "DONE"]
      /\ lookup' = "LOADING" /\ TypeOK /\ TypeOK'
  BY ReloadType DEF Reload, LookInv
<1>2. \A j \in Commands : post'[j] \in {"UNUSED", "DONE"} /\ (post'[j] = "UNUSED" <=> post[j] = "UNUSED")
  BY <1>1 DEF TypeOK
<1>. QED
  BY <1>1, <1>2
  DEF LookInv, SentInOrder, AnswersAreOwn, WaitsForCommand, WaitsForLookup, OnItsWay

LEMMA AnswerPostLooks == ASSUME LookInv, NEW k \in Commands, AnswerPost(k) PROVE LookInv'
<1>1. PICK n \in Numbers : attempts[n].key = k /\ answer' = [answer EXCEPT ![k] = View(n)]
  BY DEF AnswerPost
<1>2. /\ post[k] = "SENT" /\ post' = [post EXCEPT ![k] = "ANSWERED"]
      /\ UNCHANGED <<token, local, shown, lookup, seen, looked, submitting, attempts>>
      /\ TypeOK /\ TypeOK'
  BY AnswerPostType DEF AnswerPost, browser, memory, panel, reading, api, LookInv
<1>3. /\ post \in [Commands -> {"UNUSED", "SENT", "ANSWERED", "DONE"}]
      /\ answer \in [Commands -> ViewRecord] /\ View(n).number = n
  BY <1>2 DEF TypeOK, View
<1>4. \A j \in Commands : (OnItsWay(j)' <=> OnItsWay(j)) /\ (Last(j)' <=> Last(j))
  BY <1>2, <1>3 DEF OnItsWay, Last
<1>5. (PanelShown' <=> PanelShown) /\ Displayed' = Displayed
  BY <1>2, SamePanel
<1>6. SentInOrder'
  BY <1>2, <1>3 DEF LookInv, SentInOrder
<1>7. AnswersAreOwn'
  BY <1>1, <1>2, <1>3 DEF LookInv, AnswersAreOwn, Numbers
<1>8. WaitsForCommand'
  BY <1>2, <1>4, <1>5 DEF LookInv, WaitsForCommand
<1>9. WaitsForLookup'
  BY <1>2, <1>4 DEF WaitsForLookup, UnderWay, OnItsWay
<1>. QED
  BY <1>2, <1>6, <1>7, <1>8, <1>9 DEF LookInv

LEMMA TimersLook == ASSUME LookInv, GiveUp \/ TenSeconds PROVE LookInv'
<1>1. /\ UNCHANGED <<token, local, shown, lookup, seen, looked, post, answer, attempts>> /\ TypeOK'
      /\ \/ submitting' = submitting
         \/ Render(FALSE, FALSE, submitting)
  BY TimersType DEF GiveUp, TenSeconds, LookInv, memory, panel, reading, wire, api
<1>2. PanelShown => submitting' = submitting
  BY <1>1, SamePanel DEF Render
<1>. QED
  BY <1>1, <1>2, LookUnmoved DEF Numbers

LEMMA LookInit == Init => LookInv
<1>. SUFFICES ASSUME Init PROVE LookInv
  OBVIOUS
<1>1. TypeOK /\ lookup = "LOADING" /\ \A k \in Commands : post[k] = "UNUSED"
  BY ApiInit DEF ApiInv, Init
<1>. QED
  BY <1>1 DEF LookInv, SentInOrder, AnswersAreOwn, WaitsForCommand, WaitsForLookup, OnItsWay

LEMMA LookNext == LookInv /\ TypeOK' /\ [Next]_vars => LookInv'
<1>. SUFFICES ASSUME LookInv, TypeOK', [Next]_vars PROVE LookInv'
  OBVIOUS
<1>1. CASE Page
  BY <1>1, EnterCardLooks, SubmitLooks, PostSucceedsLooks, PostFailsLooks, LookupLooks, TimersLook,
     ReloadLooks
  DEF Page
<1>2. ASSUME UNCHANGED <<browser, wire>>,
             \A n \in Numbers : n \in Numbers' /\ attempts'[n].key = attempts[n].key
      PROVE  LookInv'
  BY <1>2, LookUnmoved DEF browser, memory, panel, reading, wire
<1>3. CASE Api
  <2>1. ASSUME NEW k \in Commands, AnswerPost(k) PROVE LookInv'
    BY <2>1, AnswerPostLooks
  <2>2. ASSUME NEW k \in Commands, Deliver(k) PROVE LookInv'
    <3>1. /\ attempts \in Seq(AttemptRecord) /\ UNCHANGED <<browser, wire>>
          /\ attempts' = Append(attempts, [key |-> k, state |-> "PENDING", heard |-> FALSE])
      BY <2>2 DEF Deliver, OpenAttempt, LookInv, TypeOK
    <3>. DEFINE new == [key |-> k, state |-> "PENDING", heard |-> FALSE]
    <3>. HIDE DEF new
    <3>2. attempts' = Append(attempts, new)
      BY <3>1 DEF new
    <3>3. \A n \in Numbers : n \in Numbers' /\ attempts'[n] = attempts[n]
      BY <3>1, <3>2 DEF Numbers
    <3>. QED
      BY <1>2, <3>1, <3>3
  <2>3. ASSUME NEW n \in Numbers,
               \/ \E reply \in Reply : RecordReply(n, reply)
               \/ RecoverDispatch(n) \/ Reconcile(n)
               \/ \E s \in TransactionStatus : ReceiveEvent(n, s)
        PROVE  LookInv'
    <3>1. UNCHANGED <<browser, wire>> /\ \E t, heard : Write(n, t, heard)
      BY <2>3 DEF RecordReply, RecoverDispatch, Reconcile, ReceiveEvent, CloseDispatch, Settle
    <3>2. \A m \in Numbers : attempts[m] \in AttemptRecord
      BY DEF LookInv, TypeOK, Numbers
    <3>3. \A m \in Numbers : m \in Numbers' /\ attempts'[m].key = attempts[m].key
      BY <3>1, <3>2 DEF Write, Numbers, AttemptRecord
    <3>. QED
      BY <1>2, <3>1, <3>3
  <2>4. CASE Expire
    BY <1>2, <2>4 DEF Expire, Numbers
  <2>. QED
    BY <1>3, <2>1, <2>2, <2>3, <2>4 DEF Api
<1>4. CASE Provider \/ UNCHANGED vars
  <2>1. UNCHANGED <<browser, wire, attempts>>
    BY <1>4 DEF Provider, ProviderCreates, ProviderChanges, ProviderRefuses, Sign, api, vars, browser
  <2>. QED
    BY <1>2, <2>1 DEF Numbers
<1>. QED
  BY <1>1, <1>3, <1>4 DEF Next

LEMMA SentAfterLooking ==
  ASSUME LookInv, [Next]_vars, NEW k \in Commands, Sends(k)
  PROVE  looked \/ Shows(k - 1)
<1>1. /\ FormOffered /\ submitting = "NONE" /\ post[k] = "UNUSED"
      /\ \A j \in 1..(k - 1) : post[j] # "UNUSED"
  BY SentByTheForm DEF LookInv, Submit
<1>2. PanelShown /\ lookup \in {"FOUND", "NOT_FOUND"}
  BY <1>1 DEF FormOffered, CanStart
<1>3. ~UnderWay
  BY <1>1, <1>2 DEF UnderWay, LookInv, WaitsForCommand, OnItsWay, Busy
<1>4. CASE ~looked
  <2>1. PICK l \in Commands : Last(l) /\ Shows(l)
    BY <1>1, <1>2, <1>3, <1>4 DEF LookInv, WaitsForLookup
  <2>2. l \in Nat /\ k \in Nat /\ Commands = 1..MaxCommands
    BY DEF Commands
  <2>3. ~(l >= k)
    BY <1>1, <2>1, <2>2 DEF Last, LookInv, SentInOrder
  <2>4. ~(l < k - 1)
    <3>. SUFFICES ASSUME l < k - 1 PROVE FALSE
      OBVIOUS
    <3>1. k - 1 \in Commands /\ post[k - 1] # "UNUSED"
      BY <1>1, <2>2, PanelBounds
    <3>. QED
      BY <2>1, <3>1 DEF Last
  <2>5. l = k - 1
    BY <2>2, <2>3, <2>4
  <2>. QED
    BY <2>1, <2>5
<1>. QED
  BY <1>4

(***************************************************************************)
(* No command is sent blindly, for any number of commands and reloads, in  *)
(* whatever order answers, lookups, reloads and timers come: a lookup has  *)
(* answered since the last command was over, or the page shows what became *)
(* of it, and with nothing to show ten seconds have passed                 *)
(* (PaymentPanel.tsx: the await of its refresh, its marker, its timer).    *)
(***************************************************************************)
THEOREM ResendsLookFirst == Spec => NoBlindResend
<1>. DEFINE Sent == \A k \in Commands :
                      Sends(k) => /\ looked \/ Shows(k - 1)
                                  /\ age # "FRESH" \/ Displayed # NoView
<1>1. DoubtInv /\ LookInv /\ [Next]_vars => [Sent]_vars
  BY SentWithoutDoubt, SentAfterLooking
<1>2. Spec => []DoubtInv
  BY DoubtInit, DoubtNext, PanelTypes, PTL DEF Spec
<1>3. Spec => []LookInv
  BY LookInit, LookNext, PanelTypes, PTL DEF Spec
<1>. QED
  BY <1>1, <1>2, <1>3, PTL DEF Spec, NoBlindResend
=================================================================================
