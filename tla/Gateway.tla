-------------------------------- MODULE Gateway --------------------------------
(***************************************************************************)
(* The boundary with the payment provider, as operators: which deployments *)
(* may call it at all, what each answer proves about a transaction, what   *)
(* the browser needs to turn a card into a token, and which provider       *)
(* events the API takes for true.                                          *)
(*                                                                         *)
(* A credential is abstracted to the profile its prefix names, an answer   *)
(* to what the code tells apart, and a SHA-256 digest to the list of       *)
(* values it was computed from.                                            *)
(***************************************************************************)
EXTENDS Integers, Sequences, FiniteSets

CONSTANT MaxSafe   \* Number.MAX_SAFE_INTEGER

ASSUME MaxSafeOK == MaxSafe \in Nat

TransactionStatus == {"PENDING", "APPROVED", "DECLINED", "VOIDED", "ERROR"}
-------------------------------------------------------------------------------
(***************************************************************************)
(* Configuration.  "TEST" and "STAGING" are the two sandbox profiles.      *)
(***************************************************************************)
Credential == {"MISSING", "TEST", "STAGING", "LIVE"}

\* A base URL is missing, names one of the two sandboxes over plain https, or
\* anything else (http, user info, a query, a host without "sandbox" or "test").
BaseUrl == {"MISSING", "TEST", "STAGING", "OTHER"}

\* What validateEnvironment lets the process start with.
Deployment == [environment : {"test", "prod"}, baseUrl : BaseUrl, publicKey : Credential,
               privateKey : Credential, integritySecret : Credential,
               eventsSecret : Credential]

\* configuration(requireIntegritySecret, requirePrivateKey) returns.  A secret that
\* is set must be of the host's profile even where it is not needed.
Configured(d, needsIntegrity, needsPrivate) ==
  /\ d.baseUrl # "MISSING" /\ d.publicKey # "MISSING"
  /\ needsPrivate => d.privateKey # "MISSING"
  /\ needsIntegrity => d.integritySecret # "MISSING"
  /\ d.environment = "test"
  /\ d.baseUrl \in {"TEST", "STAGING"}
  /\ d.publicKey = d.baseUrl
  /\ {d.privateKey, d.integritySecret, d.eventsSecret} \subseteq {"MISSING", d.baseUrl}
-------------------------------------------------------------------------------
(***************************************************************************)
(* Requests.  An answer is a status, or one of:                            *)
(*   NO_ANSWER    fetch threw: a time-out, a redirect, a lost connection   *)
(*   400, 401     the two responses that prove nothing was created         *)
(*   REFUSED      any other 4xx                                            *)
(*   FAILED       any other response that is not 2xx                       *)
(*   MALFORMED    2xx with a body that is not what was asked for           *)
(***************************************************************************)
Refusal     == {"400", "401"}
ClientError == Refusal \cup {"REFUSED"}
NoUse       == ClientError \cup {"NO_ANSWER", "FAILED", "MALFORMED"}
Reply       == TransactionStatus \cup NoUse

\* COP to centavos: both must be integers a double holds exactly.
Sendable(amount) == amount \in 0..MaxSafe /\ amount * 100 <= MaxSafe

MayCreate(d, amount) == Configured(d, TRUE, TRUE) /\ Sendable(amount)
MayLookUp(d)         == Configured(d, FALSE, TRUE)

\* parseTransaction: a body counts only when each of its five fields is sound.
TransactionFields == {"id", "reference", "amount_in_cents", "currency", "status"}
ParseTransaction(status, illFormed) ==
  IF illFormed \cap TransactionFields = {} THEN status ELSE "MALFORMED"

\* Seeded fault: a duplicate reference is taken for a refusal.
OutcomeOfAnyRefusal(reply) ==
  IF reply \in TransactionStatus THEN reply
  ELSE IF reply \in ClientError THEN "REJECTED_NO_TRANSACTION"
  ELSE "UNKNOWN_OUTCOME"

\* createTransaction once fetch is entered, and the state it leaves the attempt in.
Outcome(reply) ==
  IF reply \in TransactionStatus THEN reply
  ELSE IF reply \in Refusal THEN "REJECTED_NO_TRANSACTION"
  ELSE "UNKNOWN_OUTCOME"

\* createTransaction as a whole.
CreateOutcome(d, amount, reply) ==
  IF MayCreate(d, amount) THEN Outcome(reply) ELSE "FAILED_LOCAL"

\* getTransaction: anything but a sound status leaves the record alone.
Fetched(d, reply) ==
  IF MayLookUp(d) /\ reply \in TransactionStatus THEN reply ELSE "UNAVAILABLE"
-------------------------------------------------------------------------------
(***************************************************************************)
(* Card tokens.  The documents, the encryption key and the token itself    *)
(* come through the API; a body that lacks one field counts as no answer.  *)
(* These requests need the public key only.                                *)
(***************************************************************************)
Usable(d, reply) == Configured(d, FALSE, FALSE) /\ reply = "OK"

DocumentFields == {"acceptanceToken", "acceptanceUrl", "personalDataAuthorizationToken",
                   "personalDataAuthorizationUrl"}
DocumentsShown(d, reply, fields) == Usable(d, reply) /\ DocumentFields \subseteq fields

\* The HTTP status of a relayed card: only the provider's own refusal is the card's fault.
CardStatus(d, reply) ==
  IF ~Configured(d, FALSE, FALSE) THEN 503
  ELSE IF reply \in ClientError THEN 400
  ELSE IF reply = "OK" THEN 201 ELSE 503

\* A card of the shop's own test list, still valid, with a three-digit code and a holder.
CardChecks == {"number", "expiry", "code", "holder"}

\* tokenizeSandboxCard: local checks, then the key, the encryption, then the token, whose
\* prefix must be of the profile the public key names.
Tokenized(d, passed, keyReply, cardReply, tokenProfile) ==
  /\ CardChecks \subseteq passed
  /\ Usable(d, keyReply)
  /\ CardStatus(d, cardReply) = 201
  /\ tokenProfile = d.publicKey
-------------------------------------------------------------------------------
(***************************************************************************)
(* Signed events.  A transaction is a function of TransactionFields; the   *)
(* fields named in illFormed hold something a sound one cannot.            *)
(***************************************************************************)
ElementsOf(s) == {s[i] : i \in DOMAIN s}

\* createHash over the values of the listed properties, the timestamp and the secret.
Checksum(transaction, properties, timestamp, secret) ==
  <<[i \in DOMAIN properties |-> transaction[properties[i]]], timestamp, secret>>

\* Seeded fault: an event may leave required fields unsigned.
VerifiedUnsigned(e, secret, environment) ==
  /\ e.event = "transaction.updated" /\ e.environment = environment
  /\ ElementsOf(e.properties) \subseteq TransactionFields
  /\ e.header \in {"NONE", "SAME"}
  /\ e.checksum = Checksum(e.transaction, e.properties, e.timestamp, secret)
  /\ e.illFormed = {}

\* verifyProviderEvent: the right kind of event, every listed property present, none
\* twice, all required ones listed, one checksum that is the expected one, sound fields.
Verified(e, secret, environment) ==
  /\ e.event = "transaction.updated" /\ e.environment = environment
  /\ e.timestamp > 0
  /\ ElementsOf(e.properties) \cap e.illFormed = {}
  /\ Cardinality(ElementsOf(e.properties)) = Len(e.properties)
  /\ TransactionFields \subseteq ElementsOf(e.properties)
  /\ e.header \in {"NONE", "SAME"}
  /\ e.checksum = Checksum(e.transaction, e.properties, e.timestamp, secret)
  /\ e.illFormed = {}

Fingerprint(e) == <<e.timestamp, e.checksum>>

\* Forty-eight hours back, a minute ahead, in seconds.
InWindow(age) == age <= 172800 /\ age >= -60

\* receiveEvent up to its transaction: 503 without a sandbox or a secret, 400 for an
\* event that does not verify or is out of its window.
Accepted(d, e, age) ==
  /\ d.environment = "test"
  /\ d.eventsSecret # "MISSING"
  /\ Verified(e, d.eventsSecret, "test")
  /\ InWindow(age)
===============================================================================
