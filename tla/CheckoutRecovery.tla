-------------------------- MODULE CheckoutRecovery --------------------------
(***************************************************************************)
(* The command that opens a checkout, end to end: the browser tab that     *)
(* keeps its Idempotency-Key (App.tsx), the requests on the network, and   *)
(* the idempotency record the API keeps (checkouts.service.ts).            *)
(*                                                                         *)
(* A request outlives the page that sent it: the API may handle it after   *)
(* the tab gave it up or was reloaded.  A key names the checkout it opens, *)
(* since one record holds one checkout.                                    *)
(***************************************************************************)
EXTENDS Naturals, FiniteSets

CONSTANTS
  Keys,      \* command keys the tab may draw, one per command
  Details,   \* what may be ordered: product, quantity, customer, delivery
  MaxPages   \* bound: page loads

ASSUME CheckoutRecoveryConstants ==
  /\ IsFiniteSet(Keys) /\ Details # {} /\ MaxPages \in Nat \ {0}
  /\ {"NONE", "REDACTED"} \cap (Keys \cup Details) = {}

VARIABLES
  records,   \* per key: no record, the order it fingerprints, or redacted
  stored,    \* the command key in session storage
  url,       \* the checkout in the address bar
  page,      \* the page load the tab shows
  checked,   \* recoveryChecked of that page
  requests,  \* requests in flight, with their answer once the API has one
  opened     \* history: checkouts the tab has shown

vars == <<records, stored, url, page, checked, requests, opened>>
tab  == <<stored, url, page, checked, opened>>

Steps   == {"create", "recover", "mount"}
Answers == {"OPENED", "NOT_FOUND", "GONE", "CONFLICT", "REFUSED"}

\* A request: which step of the tab waits for it, and in which page load
\* (0: nobody does any more).
Request == [step : Steps, key : Keys, details : Details \cup {"NONE"},
            answer : Answers \cup {"NONE"}, page : 0..MaxPages]

TypeOK ==
  /\ records \in [Keys -> Details \cup {"NONE", "REDACTED"}]
  /\ {stored, url} \subseteq Keys \cup {"NONE"}
  /\ page \in 1..MaxPages /\ checked \in BOOLEAN
  /\ requests \subseteq Request
  /\ opened \subseteq Keys

Init ==
  /\ records = [k \in Keys |-> "NONE"]
  /\ stored = "NONE" /\ url = "NONE"
  /\ page = 1 /\ checked = TRUE
  /\ requests = {} /\ opened = {}

\* What the page is waiting for: at most one request, because the form stays
\* busy (tokenizing) until submitCheckout has returned.
Awaited == {r \in requests : r.page = page}

\* crypto.randomUUID: a key nobody has used.
Used == {stored, url} \cup {r.key : r \in requests} \cup opened
        \cup {k \in Keys : records[k] # "NONE"}

NewRequest(step, k, d) ==
  [step |-> step, key |-> k, details |-> d, answer |-> "NONE", page |-> page]

\* The requests once the page has stopped waiting: one without an answer is
\* still on its way to the API.
Unawaited ==
  (requests \ Awaited) \cup {[r EXCEPT !.page = 0] : r \in {s \in Awaited : s.answer = "NONE"}}
-----------------------------------------------------------------------------
(***************************************************************************)
(* The tab.                                                                *)
(***************************************************************************)

\* Seeded fault: the key is read, and never drawn.
StoredCommandKey == {stored}

\* createOrReadCheckoutCommandKey: the stored key, or a new one.
CommandKey == IF stored # "NONE" THEN {stored} ELSE Keys \ Used

Submit(d) ==
  /\ checked /\ url = "NONE" /\ Awaited = {}
  /\ \E k \in CommandKey :
       /\ stored' = k
       /\ requests' = requests \cup {NewRequest("create", k, d)}
  /\ UNCHANGED <<records, url, page, checked, opened>>

\* openCheckout, after the key was cleared.
OpenCheckout(k) ==
  /\ url' = k /\ checked' = TRUE
  /\ opened' = opened \cup {k}

CheckoutCreated(r) ==
  /\ r \in Awaited /\ r.step = "create" /\ r.answer = "OPENED"
  /\ requests' = Unawaited
  /\ stored' = "NONE"
  /\ OpenCheckout(r.key)
  /\ UNCHANGED <<records, page>>

\* Any other answer, or none: ask what became of the command.
CreationFails(r) ==
  /\ r \in Awaited /\ r.step = "create"
  /\ requests' = Unawaited \cup {NewRequest("recover", r.key, "NONE")}
  /\ UNCHANGED <<records, tab>>

\* Seeded fault: a command the API does not know is taken for one it never got.
ForgetKeyWhenUnknown(a) == a \in {"OPENED", "GONE", "NOT_FOUND"}

\* Seeded fault: only a command that is past its retention gives its key up.
ForgetKeyWhenGone(a) == a = "GONE"

\* Does this answer to a recovery end the command?
ForgetKey(a) == a \in {"OPENED", "GONE"}

\* Seeded fault: a key that is past its retention leaves the page waiting.
SettledUnlessGone(a) == a # "GONE"

\* Does this answer end the page's wait?  ("NONE" is no answer: the request failed.)
Settled(a) == a \in Answers \cup {"NONE"}

RecoveryAnswered(r, a) ==
  /\ r \in Awaited /\ r.step \in {"recover", "mount"}
  /\ requests' = Unawaited
  /\ stored' = IF ForgetKey(a) THEN "NONE" ELSE stored
  /\ IF a = "OPENED"
     THEN OpenCheckout(r.key)
     ELSE checked' = (checked \/ Settled(a)) /\ UNCHANGED <<url, opened>>
  /\ UNCHANGED <<records, page>>

\* The effect that recovers the stored command of an earlier page.  It may run
\* again while its request is under way (a dependency changed); only the last
\* request counts.
RecoverOnMount ==
  /\ ~checked /\ url = "NONE" /\ stored # "NONE"
  /\ requests' = Unawaited \cup {NewRequest("mount", stored, "NONE")}
  /\ UNCHANGED <<records, tab>>

\* The user leaves the checkout, or its page: after a result, or when it fails to load.
BrowseCatalog ==
  /\ url # "NONE" /\ Awaited = {}
  /\ url' = "NONE"
  /\ UNCHANGED <<records, stored, page, checked, requests, opened>>

\* A page load, with or without a link to a checkout the tab has shown.  What
\* the old page waited for is answered to nobody.
Load(to) ==
  /\ page < MaxPages
  /\ page' = page + 1
  /\ url' = to
  /\ checked' = (to # "NONE" \/ stored = "NONE")
  /\ requests' = Unawaited
  /\ UNCHANGED <<records, stored, opened>>

Reload == \E to \in {url, "NONE"} \cup opened : Load(to)
-----------------------------------------------------------------------------
(***************************************************************************)
(* The API.                                                                *)
(***************************************************************************)
Reply(r, a) ==
  requests' = (requests \ {r}) \cup
              (IF r.page = page THEN {[r EXCEPT !.answer = a]} ELSE {})

\* CheckoutsService.create: claim the key, then reserve, or refuse and roll the
\* claim back; or replay.
Create(r) ==
  /\ r \in requests /\ r.step = "create" /\ r.answer = "NONE"
  /\ \/ /\ records[r.key] = "NONE"
        /\ records' = [records EXCEPT ![r.key] = r.details]
        /\ Reply(r, "OPENED")
     \/ /\ records[r.key] = "NONE"
        /\ Reply(r, "REFUSED")
        /\ UNCHANGED records
     \/ /\ records[r.key] = "REDACTED"
        /\ Reply(r, "GONE")
        /\ UNCHANGED records
     \/ /\ records[r.key] \in Details \ {r.details}
        /\ Reply(r, "CONFLICT")
        /\ UNCHANGED records
     \/ /\ records[r.key] = r.details
        /\ Reply(r, "OPENED")
        /\ UNCHANGED records
  /\ UNCHANGED tab

\* CheckoutsService.recover.
Recover(r) ==
  /\ r \in requests /\ r.step # "create" /\ r.answer = "NONE"
  /\ Reply(r, CASE records[r.key] = "NONE" -> "NOT_FOUND"
                [] records[r.key] = "REDACTED" -> "GONE"
                [] OTHER -> "OPENED")
  /\ UNCHANGED <<records, tab>>

\* redactExpiredCheckoutBatch: thirty days after the checkout was created.
Redact(k) ==
  /\ records[k] \in Details
  /\ records' = [records EXCEPT ![k] = "REDACTED"]
  /\ UNCHANGED <<requests, tab>>
-----------------------------------------------------------------------------
\* The tab stops waiting: an answer arrives, or the request fails.
Await ==
  \E r \in requests : \/ CheckoutCreated(r)
                      \/ CreationFails(r)
                      \/ \E a \in {r.answer, "NONE"} : RecoveryAnswered(r, a)

Next ==
  \/ \E d \in Details : Submit(d)
  \/ Await
  \/ RecoverOnMount
  \/ BrowseCatalog
  \/ Reload
  \/ \E r \in requests : Create(r) \/ Recover(r)
  \/ \E k \in Keys : Redact(k)

Spec == Init /\ [][Next]_vars

\* A fetch ends, one way or the other; an effect whose condition holds runs.
FairSpec == Spec /\ WF_vars(Await) /\ WF_vars(RecoverOnMount /\ Awaited = {})
-----------------------------------------------------------------------------
(***************************************************************************)
(* A checkout that holds units is never lost to the customer: whatever was *)
(* lost, answered late or reloaded, the tab has shown it or still has the  *)
(* key that recovers it.                                                   *)
(***************************************************************************)
NeverOrphaned ==
  \A k \in Keys : records[k] \in Details => k \in opened \/ stored = k

(***************************************************************************)
(* A key is spent once its checkout was shown: the next order is a new     *)
(* command and is never answered with an earlier checkout.                 *)
(***************************************************************************)
SpentKeysStaySpent == stored \notin opened

(***************************************************************************)
(* The page never waits for ever: neither the recovery screen of a fresh   *)
(* page nor the busy form stays.                                           *)
(***************************************************************************)
EveryWaitEnds == (~checked \/ Awaited # {}) ~> (checked /\ Awaited = {})
=============================================================================
