-------------------------------- MODULE Requests --------------------------------
(***************************************************************************)
(* POST /v1/deposit-addresses (app.ts): authentication (middleware.ts),    *)
(* the idempotency key and createDepositAddress (deposit-service.ts), for  *)
(* one API key, network and token.  Calls overlap: every step between two  *)
(* awaits is an action, and the handler holds no lock and no transaction.  *)
(*                                                                         *)
(* A call makes at most one row, so a row is named by the call that made   *)
(* it.  What happens to a request later (Deposits) is EndRequest.          *)
(***************************************************************************)
EXTENDS Integers, FiniteSets

CONSTANTS
  Calls,        \* calls that may arrive
  Bodies, BodyOf, \* request bodies, and the body of a call
  Nonces, NonceOf, \* X-Nonce
  Keys, KeyOf, NoKey, \* Idempotency-Key, or NoKey when there is none
  Clients, ClientOf, \* clientId of a body
  Direct,       \* bodies with flow direct_treasury; the others ask for a temporary wallet
  WithUrl,      \* bodies with a callbackUrl; callbackSecret is dropped by the handler
  Treasuries,   \* treasury wallets, numbered in the order of createdAt
  Default,      \* the default treasury wallet
  Wanted,       \* treasuryWalletId of a body, 0 when omitted
  Preferences,  \* bound: the notification preferences the owner chooses among
  Settings,     \* bound: the owner's settings to start with
  MaxOpen,      \* bound: calls in progress at the same time
  MaxChanges,   \* bound: changes of the settings by the owner
  MaxEnds,      \* bound: requests closed, expired or completed
  MaxAborts     \* bound: crashes and uncaught exceptions

ASSUME RequestsAssumption ==
  /\ IsFiniteSet(Calls)
  /\ BodyOf \in [Calls -> Bodies]
  /\ NonceOf \in [Calls -> Nonces]
  /\ NoKey \notin Keys /\ KeyOf \in [Calls -> Keys \union {NoKey}]
  /\ ClientOf \in [Bodies -> Clients]
  /\ Direct \subseteq Bodies /\ WithUrl \subseteq Bodies
  /\ Treasuries \subseteq Nat \ {0} /\ Default \in Treasuries
  /\ Wanted \in [Bodies -> Treasuries \union {0}]
  /\ Preferences \subseteq SUBSET {"wallet.created", "direct_deposit.created"}
  /\ Settings \subseteq [strict : BOOLEAN, config : BOOLEAN, enabled : Preferences]
  /\ MaxOpen \in Nat /\ MaxChanges \in Nat /\ MaxEnds \in Nat /\ MaxAborts \in Nat

VARIABLES
  (* Postgres. *)
  nonces,    \* request_nonces
  records,   \* idempotency_keys
  row,       \* row[c]: the deposit_addresses row of call c: none, active, ended
  treasury,  \* treasury[c]: the row's treasury wallet, before it the chosen one
  announced, \* calls whose wallet.created or direct_deposit.created is enqueued
  strict,    \* rejectDuplicateClientPendingDeposits
  config,    \* the dashboard's callback configuration is active
  enabled,   \* notification preferences: the types of event that are sent
  (* The handlers. *)
  pc,        \* pc[c]: where the call is
  answer,    \* answer[c]: what the caller got
  (* History and bounds. *)
  exempt,    \* calls that found strict off
  silent,    \* calls whose event was not enqueued
  overlaps,  \* pairs of calls that were in progress at the same time
  changes, ends, aborts

handlerVars == <<pc, answer, exempt, silent, overlaps>>
settingVars == <<strict, config, enabled, changes>>
boundVars == <<ends, aborts>>
vars == <<nonces, records, row, treasury, announced, settingVars, handlerVars, boundVars>>

NoAnswer == [kind |-> "none"]
Refused(code) == [kind |-> code]         \* an AppError, or 500 for any other error
Ok(c) == [kind |-> "ok", request |-> c]  \* 201, or the replay of that answer

Records == [key : Keys, hash : Bodies, request : Calls]
Refusals == {"replayed_request", "idempotency_key_conflict",
             "client_pending_deposit_exists", "deposit_configuration_incomplete", "error"}
Answers == {NoAnswer} \union [kind : Refusals] \union [kind : {"ok"}, request : Calls]

Places == {"key", "merchant", "client", "treasury", "callback", "create", "announce", "target", "store"}
Open == {c \in Calls : pc[c] \in Places}

Client(c) == ClientOf[BodyOf[c]]
IsDirect(c) == BodyOf[c] \in Direct
CreatedEvent(c) == IF IsDirect(c) THEN "direct_deposit.created" ELSE "wallet.created"

Init ==
  /\ nonces = {}
  /\ records = {}
  /\ row = [c \in Calls |-> "none"]
  /\ treasury = [c \in Calls |-> 0]
  /\ announced = {}
  /\ \E s \in Settings : strict = s.strict /\ config = s.config /\ enabled = s.enabled
  /\ pc = [c \in Calls |-> "new"]
  /\ answer = [c \in Calls |-> NoAnswer]
  /\ exempt = {} /\ silent = {} /\ overlaps = {}
  /\ changes = 0 /\ ends = 0 /\ aborts = 0

Goto(c, place) == pc' = [pc EXCEPT ![c] = place]
Answer(c, a) == Goto(c, "done") /\ answer' = [answer EXCEPT ![c] = a]

-------------------------------------------------------------------------------
(***************************************************************************)
(* Authentication and the idempotency key.                                 *)
(***************************************************************************)

(* Mutant: the nonce is remembered, but nobody looks at it. *)
FreshAlways(n) == TRUE

(* insertRequestNonce inserted a row *)
Fresh(n) == n \notin nonces

(* merchantAuthMiddleware, with a valid signature *)
Authenticate(c) ==
  /\ pc[c] = "new"
  /\ Cardinality(Open) < MaxOpen
  /\ nonces' = nonces \union {NonceOf[c]}
  /\ overlaps' = overlaps \union {{c, d} : d \in Open}
  /\ \/ Fresh(NonceOf[c]) /\ Goto(c, "key") /\ UNCHANGED answer
     \/ ~ Fresh(NonceOf[c]) /\ Answer(c, Refused("replayed_request"))
  /\ UNCHANGED <<records, row, treasury, announced, settingVars, exempt, silent, boundVars>>

(* existing.requestHash === requestHash *)
SameBody(r, c) == r.hash = BodyOf[c]

(* Mutant: the key is not looked up. *)
SeenNever(c) == {}

(* getIdempotencyRecord: the row of the key, if any; NoKey has none *)
Seen(c) == {r \in records : r.key = KeyOf[c]}

(* assertIdempotency *)
CheckKey(c) ==
  /\ pc[c] = "key"
  /\ \/ Seen(c) = {} /\ Goto(c, "merchant") /\ UNCHANGED answer
     \/ \E r \in Seen(c) :
          \/ SameBody(r, c) /\ Answer(c, Ok(r.request))
          \/ ~ SameBody(r, c) /\ Answer(c, Refused("idempotency_key_conflict"))
  /\ UNCHANGED <<nonces, records, row, treasury, announced, settingVars, exempt, silent, overlaps, boundVars>>

-------------------------------------------------------------------------------
(***************************************************************************)
(* createDepositAddress.                                                   *)
(***************************************************************************)

(* assertClientCanOpenDeposit reads the merchant *)
ReadMerchant(c) ==
  /\ pc[c] = "merchant"
  /\ \/ strict /\ Goto(c, "client") /\ UNCHANGED exempt
     \/ ~ strict /\ Goto(c, "treasury") /\ exempt' = exempt \union {c}
  /\ UNCHANGED <<nonces, records, row, treasury, announced, settingVars, answer, silent, overlaps, boundVars>>

(* Mutant: only a request with the same body is in the way. *)
PendingOfBody(c) == \E d \in Calls : row[d] = "active" /\ BodyOf[d] = BodyOf[c]

(* getActiveDepositAddressByClientId found a row *)
Pending(c) == \E d \in Calls : row[d] = "active" /\ Client(d) = Client(c)

CheckClient(c) ==
  /\ pc[c] = "client"
  /\ \/ ~ Pending(c) /\ Goto(c, "treasury") /\ UNCHANGED answer
     \/ Pending(c) /\ Answer(c, Refused("client_pending_deposit_exists"))
  /\ UNCHANGED <<nonces, records, row, treasury, announced, settingVars, exempt, silent, overlaps, boundVars>>

(* countActiveDirectDepositRequestsByTreasury *)
Load(t) == Cardinality({c \in Calls : IsDirect(c) /\ row[c] = "active" /\ treasury[c] = t})

(* Mutant: the requests are not counted, the oldest treasury is taken. *)
OldestTreasury == CHOOSE t \in Treasuries : \A u \in Treasuries : t <= u

(* selectLeastPendingTreasury: fewest active direct requests, then the oldest *)
LeastPending ==
  CHOOSE t \in Treasuries : \A u \in Treasuries :
    Load(t) < Load(u) \/ (Load(t) = Load(u) /\ t <= u)

(* resolveTreasury *)
Resolved(c) ==
  IF Wanted[BodyOf[c]] # 0 THEN Wanted[BodyOf[c]]
  ELSE IF IsDirect(c) THEN LeastPending ELSE Default

ResolveTreasury(c) ==
  /\ pc[c] = "treasury"
  /\ treasury' = [treasury EXCEPT ![c] = Resolved(c)]
  /\ Goto(c, "callback")
  /\ UNCHANGED <<nonces, records, row, announced, settingVars, answer, exempt, silent, overlaps, boundVars>>

(* Mutant: the configuration is not looked at. *)
CallbackAlways(c) == TRUE

(* collectCallbackIssues: no issue *)
HasCallback(c) == BodyOf[c] \in WithUrl \/ config

(* collectCallbackIssues and, for a temporary wallet, the readiness checks of *)
(* the chain and the gas wallet, which may fail                               *)
CheckConfiguration(c) ==
  /\ pc[c] = "callback"
  /\ \/ HasCallback(c) /\ Goto(c, "create") /\ UNCHANGED answer
     \/ /\ ~ HasCallback(c) \/ ~ IsDirect(c)
        /\ Answer(c, Refused("deposit_configuration_incomplete"))
  /\ UNCHANGED <<nonces, records, row, treasury, announced, settingVars, exempt, silent, overlaps, boundVars>>

Create(c) ==
  /\ pc[c] = "create"
  /\ row' = [row EXCEPT ![c] = "active"]
  /\ Goto(c, "announce")
  /\ UNCHANGED <<nonces, records, treasury, announced, settingVars, answer, exempt, silent, overlaps, boundVars>>

(* enqueueMerchantEvent reads the preferences; no row of them enables all     *)
CheckPreferences(c) ==
  /\ pc[c] = "announce"
  /\ \/ CreatedEvent(c) \in enabled /\ Goto(c, "target") /\ UNCHANGED silent
     \/ CreatedEvent(c) \notin enabled /\ Goto(c, "store") /\ silent' = silent \union {c}
  /\ UNCHANGED <<nonces, records, row, treasury, announced, settingVars, answer, exempt, overlaps, boundVars>>

(* resolveCallbackTarget and createWebhookEvent. No request of this API has a *)
(* secret of its own, so it needs the configuration, with or without a URL.   *)
Announce(c) ==
  /\ pc[c] = "target"
  /\ \/ config /\ announced' = announced \union {c} /\ UNCHANGED silent
     \/ ~ config /\ silent' = silent \union {c} /\ UNCHANGED announced
  /\ Goto(c, "store")
  /\ UNCHANGED <<nonces, records, row, treasury, settingVars, answer, exempt, overlaps, boundVars>>

(* Mutant: there is no unique index on the key. *)
FreeAlways(k) == TRUE

(* the unique index on (merchant, route, key) lets the row in *)
Free(k) == ~ \E r \in records : r.key = k

(* storeIdempotency, then the answer; a refused row is an internal error *)
Store(c) ==
  LET k == KeyOf[c] IN
  /\ pc[c] = "store"
  /\ \/ k = NoKey /\ Answer(c, Ok(c)) /\ UNCHANGED records
     \/ /\ k # NoKey /\ Free(k)
        /\ records' = records \union {[key |-> k, hash |-> BodyOf[c], request |-> c]}
        /\ Answer(c, Ok(c))
     \/ k # NoKey /\ ~ Free(k) /\ Answer(c, Refused("error")) /\ UNCHANGED records
  /\ UNCHANGED <<nonces, row, treasury, announced, settingVars, exempt, silent, overlaps, boundVars>>

Handle(c) ==
  \/ Authenticate(c) \/ CheckKey(c) \/ ReadMerchant(c) \/ CheckClient(c)
  \/ ResolveTreasury(c) \/ CheckConfiguration(c)
  \/ Create(c) \/ CheckPreferences(c) \/ Announce(c) \/ Store(c)

-------------------------------------------------------------------------------
(***************************************************************************)
(* Around the handlers.                                                    *)
(***************************************************************************)

(* A request is closed, expires or is completed *)
EndRequest(c) ==
  /\ row[c] = "active" /\ ends < MaxEnds
  /\ row' = [row EXCEPT ![c] = "ended"]
  /\ ends' = ends + 1
  /\ UNCHANGED <<nonces, records, treasury, announced, settingVars, handlerVars, aborts>>

(* configureMerchantSettings *)
ChangeSettings ==
  /\ changes < MaxChanges
  /\ changes' = changes + 1
  /\ strict' = ~ strict
  /\ UNCHANGED <<nonces, records, row, treasury, announced, config, enabled, handlerVars, boundVars>>

(* configureWebhook *)
ChangeCallback ==
  /\ changes < MaxChanges
  /\ changes' = changes + 1
  /\ config' = ~ config
  /\ UNCHANGED <<nonces, records, row, treasury, announced, strict, enabled, handlerVars, boundVars>>

(* updateNotificationPreferences *)
ChangePreferences ==
  /\ changes < MaxChanges
  /\ changes' = changes + 1
  /\ enabled' \in Preferences \ {enabled}
  /\ UNCHANGED <<nonces, records, row, treasury, announced, strict, config, handlerVars, boundVars>>

(* Mutant: a callback that fails is logged, and the call goes on. *)
AfterErrorOn(c) == IF pc[c] \in {"announce", "target"} THEN "store" ELSE "done"

(* An error leaves the handler wherever it is *)
AfterError(c) == "done"

(* A statement fails in one call, or the server stops and all calls are lost *)
Abort ==
  /\ aborts < MaxAborts
  /\ aborts' = aborts + 1
  /\ \E lost \in {Open} \union {{c} : c \in Open} :
       /\ pc' = [c \in Calls |-> IF c \in lost THEN AfterError(c) ELSE pc[c]]
       /\ answer' = [c \in Calls |-> IF c \in lost THEN Refused("error") ELSE answer[c]]
  /\ UNCHANGED <<nonces, records, row, treasury, announced, settingVars, exempt, silent, overlaps, ends>>

Next ==
  \/ \E c \in Calls : Handle(c) \/ EndRequest(c)
  \/ ChangeSettings \/ ChangeCallback \/ ChangePreferences \/ Abort

Spec == Init /\ [][Next]_vars
-------------------------------------------------------------------------------
(***************************************************************************)
(* Properties.                                                             *)
(***************************************************************************)

(* Every variable holds a value of its column or local variable, and a row's *)
(* treasury is known.                                                        *)
TypeOK ==
  /\ nonces \subseteq Nonces
  /\ records \subseteq Records
  /\ row \in [Calls -> {"none", "active", "ended"}]
  /\ treasury \in [Calls -> Treasuries \union {0}]
  /\ \A c \in Calls : row[c] # "none" => treasury[c] \in Treasuries
  /\ announced \subseteq Calls
  /\ strict \in BOOLEAN /\ config \in BOOLEAN /\ enabled \in Preferences
  /\ pc \in [Calls -> Places \union {"new", "done"}]
  /\ answer \in [Calls -> Answers]
  /\ exempt \subseteq Calls /\ silent \subseteq Calls /\ overlaps \subseteq SUBSET Calls
  /\ changes \in Nat /\ ends \in Nat /\ aborts \in Nat

IsOk(c) == answer[c].kind = "ok"

(* Of the calls with one nonce, one at most gets past authentication, even   *)
(* when they arrive together or the first one failed later.                  *)
NonceAdmitsOne ==
  \A c, d \in Calls :
    /\ NonceOf[c] = NonceOf[d]
    /\ pc[c] # "new" /\ answer[c] # Refused("replayed_request")
    /\ pc[d] # "new" /\ answer[d] # Refused("replayed_request")
    => c = d

(* Whatever overlaps, fails or is repeated, all calls with one key that       *)
(* succeed have one body and are given one and the same request, and that     *)
(* request was made for the body.                                             *)
KeyHasOneAnswer ==
  \A c, d \in Calls :
    IsOk(c) /\ IsOk(d) /\ KeyOf[c] = KeyOf[d] /\ KeyOf[c] # NoKey
    => /\ BodyOf[c] = BodyOf[d]
       /\ answer[c].request = answer[d].request
       /\ BodyOf[answer[c].request] = BodyOf[c]
       /\ row[answer[c].request] # "none"

(* A key makes one request: calls that came one after the other and were not  *)
(* cut off never make two.                                                    *)
OneRequestPerKey ==
  aborts = 0 =>
    \A c, d \in Calls :
      row[c] # "none" /\ row[d] # "none" /\ KeyOf[c] = KeyOf[d] /\ KeyOf[c] # NoKey
      => c = d \/ {c, d} \in overlaps

(* docs/FLOWS.md, Flow Notes: "If the same Idempotency-Key is reused with the *)
(* same request body, the stored response is replayed."  A key makes one      *)
(* request, whatever overlaps.                                                *)
KeyMakesOneRequest ==
  \A c, d \in Calls :
    row[c] # "none" /\ row[d] # "none" /\ KeyOf[c] = KeyOf[d] /\ KeyOf[c] # NoKey => c = d

(* A client has one active request, unless the owner allowed more when one of *)
(* them was made, or the calls overlapped: also after calls that were cut off *)
(* anywhere.                                                                  *)
OneActivePerClient ==
  \A c, d \in Calls :
    row[c] = "active" /\ row[d] = "active" /\ Client(c) = Client(d) /\ c # d
    => c \in exempt \/ d \in exempt \/ {c, d} \in overlaps

(* Direct requests are spread over the treasuries: while none has ended and   *)
(* none named its treasury, the loads differ by the number of overlapping     *)
(* calls at most, however old the counts are that the calls chose by.         *)
SpreadIsBounded ==
  ends = 0 /\ (\A c \in Calls : IsDirect(c) => Wanted[BodyOf[c]] = 0)
  => \A t, u \in Treasuries : Load(t) - Load(u) <= MaxOpen

(* No answer, first or replayed, names a request whose event is still to come *)
(* or was lost: wherever calls are cut off, and whenever the owner changes    *)
(* the settings, by then it is enqueued, or enqueueMerchantEvent decided to   *)
(* send none. And with settings as they were, none is sent only for a type    *)
(* that is switched off, or for a URL without an active configuration: the    *)
(* check at creation lets that pass (docs/FLOWS.md:141 does not).             *)
AnsweredIsAnnounced ==
  /\ \A c \in Calls : IsOk(c) => answer[c].request \in announced \union silent
  /\ changes = 0 =>
       \A c \in silent :
         CreatedEvent(c) \notin enabled \/ (BodyOf[c] \in WithUrl /\ ~ config)
===============================================================================
