-------------------------------- MODULE Webhooks --------------------------------
(***************************************************************************)
(* The webhook outbox: enqueueMerchantEvent (webhook-service.ts), which    *)
(* the worker and the API call, and the worker's delivery loop             *)
(* (webhook-delivery.ts), which runs at the end of every tick (worker.ts). *)
(*                                                                         *)
(* Time is counted in units of webhookBaseRetrySeconds and kept as the     *)
(* time left until nextAttemptAt, so that no clock grows.                  *)
(***************************************************************************)
EXTENDS Naturals, FiniteSets

CONSTANTS Events,       \* webhook events that may be enqueued
          Types, TypeOf, \* event types, and the type of an event
          Override,     \* what the event's request carries: none, url, or url and secret
          Undecryptable, \* events whose stored secret may not decrypt
          Faults,       \* what may go wrong, a subset of FaultKinds
          BatchLimit,   \* limit of deliverDue
          MaxAttempts,  \* webhookMaxAttempts
          MaxDelay,     \* webhookMaxRetryDelaySeconds
          MaxChanges,   \* bound: changes of the settings by the owner
          MaxAborts     \* bound: crashes and uncaught exceptions

FaultKinds ==
  { "refuse",   \* the receiver answers something else than 2xx
    "timeout",  \* the answer does not arrive; the receiver may have acted on it
    "db" }      \* markWebhookSent fails

ASSUME WebhooksAssumption ==
  /\ IsFiniteSet(Events)
  /\ TypeOf \in [Events -> Types]
  /\ Override \in [Events -> {"none", "url", "url and secret"}]
  /\ Undecryptable \subseteq Events
  /\ Faults \subseteq FaultKinds
  /\ BatchLimit \in Nat \ {0}
  /\ MaxAttempts \in Nat \ {0}
  /\ MaxDelay \in Nat \ {0}
  /\ MaxChanges \in Nat
  /\ MaxAborts \in Nat

VARIABLES
  (* Postgres. *)
  status,    \* status[e]: webhook_events.status, "none" before the row
  attempts,  \* attempts[e]
  wait,      \* wait[e]: time left until nextAttemptAt
  made,      \* made[e]: createdAt, as the place of the row in the order of creation
  enabled,   \* notification preferences: the event types that are sent
  config,    \* the dashboard's callback configuration: none, inactive, active
  sealed,    \* events whose stored secret does not decrypt
  checked,   \* events whose enqueueMerchantEvent found their type switched on
  (* The worker. *)
  pc,        \* sleep, work, deliver, sent, retry
  todo,      \* the rows of deliverDue that are left, oldest first
  (* History and bounds. *)
  posts,     \* posts[e]: calls of the receiver
  answered,  \* events that got a 2xx answer
  forgotten, \* those whose last 2xx answer never reached the row
  rest,      \* rest[e]: time since the last post, up to MaxDelay
  changes, aborts

rowVars == <<status, attempts, wait, made>>
settingVars == <<enabled, config, sealed, checked, changes>>
historyVars == <<posts, answered, forgotten, rest>>
vars == <<rowVars, settingVars, pc, todo, historyVars, aborts>>

Init ==
  /\ status = [e \in Events |-> "none"]
  /\ attempts = [e \in Events |-> 0]
  /\ wait = [e \in Events |-> 0]
  /\ made = [e \in Events |-> 0]
  /\ enabled = Types
  /\ config \in {"none", "active"}
  /\ sealed \in SUBSET Undecryptable
  /\ checked = {}
  /\ pc = "sleep"
  /\ todo = {}
  /\ posts = [e \in Events |-> 0]
  /\ answered = {}
  /\ forgotten = {}
  /\ rest = [e \in Events |-> MaxDelay]
  /\ changes = 0
  /\ aborts = 0

Smaller(m, n) == IF m < n THEN m ELSE n

-------------------------------------------------------------------------------
(***************************************************************************)
(* Enqueueing, and the settings it reads.                                  *)
(***************************************************************************)

(* resolveCallbackTarget is not null *)
HasTarget(e) == Override[e] = "url and secret" \/ config = "active"

(* enqueueMerchantEvent reads the preferences. With the type switched off it *)
(* returns and the event is never made.                                      *)
CheckPreferences(e) ==
  /\ status[e] = "none" /\ e \notin checked
  /\ TypeOf[e] \in enabled
  /\ checked' = checked \union {e}
  /\ UNCHANGED <<rowVars, enabled, config, sealed, changes, pc, todo, historyVars, aborts>>

(* It resolves the target, without which it returns, and inserts the row     *)
Enqueue(e) ==
  /\ e \in checked
  /\ checked' = checked \ {e}
  /\ HasTarget(e)
  /\ status' = [status EXCEPT ![e] = "pending"]
  /\ made' = [made EXCEPT ![e] = Cardinality({d \in Events : status[d] # "none"}) + 1]
  /\ UNCHANGED <<attempts, wait, enabled, config, sealed, changes, pc, todo, historyVars, aborts>>

UpdatePreferences ==
  /\ changes < MaxChanges
  /\ changes' = changes + 1
  /\ enabled' \in SUBSET Types
  /\ UNCHANGED <<rowVars, config, sealed, checked, pc, todo, historyVars, aborts>>

ConfigureWebhook ==
  /\ changes < MaxChanges
  /\ changes' = changes + 1
  /\ config' \in {"inactive", "active"}
  /\ UNCHANGED <<rowVars, enabled, sealed, checked, pc, todo, historyVars, aborts>>

-------------------------------------------------------------------------------
(***************************************************************************)
(* The worker's tick: runOnce, then deliverDue, in one try block.          *)
(***************************************************************************)
Due(e) == status[e] = "pending" /\ wait[e] = 0

Older(e, S) == {d \in S : made[d] < made[e]}

(* Mutant: the oldest rows of all make up the batch, due or not. *)
DueOfOldest ==
  LET rows == {e \in Events : status[e] # "none"}
  IN {e \in rows : Due(e) /\ Cardinality(Older(e, rows)) < BatchLimit}

(* listDueWebhookEvents: the oldest BatchLimit rows that are due *)
DueRows ==
  LET due == {e \in Events : Due(e)}
  IN {e \in due : Cardinality(Older(e, due)) < BatchLimit}

(* The event the loop is at *)
Oldest(S) == {e \in S : Older(e, S) = {}}
Current == CHOOSE e \in Oldest(todo) : TRUE

(* The polling interval ends *)
Wake ==
  /\ pc = "sleep"
  /\ pc' = "work"
  /\ UNCHANGED <<rowVars, settingVars, todo, historyVars, aborts>>

(* runOnce returns and deliverDue lists what is due; when runOnce throws, the *)
(* tick is over (Abort)                                                       *)
Work ==
  /\ pc = "work"
  /\ pc' = "deliver" /\ todo' = DueRows
  /\ UNCHANGED <<rowVars, settingVars, historyVars, aborts>>

(* The secret is decrypted outside the try block, then the event is posted *)
Post ==
  LET e == Current IN
  /\ pc = "deliver" /\ todo # {}
  /\ \/ /\ e \in sealed
        /\ pc' = "sleep" /\ todo' = {}
        /\ UNCHANGED historyVars
     \/ /\ e \notin sealed
        /\ posts' = [posts EXCEPT ![e] = @ + 1]
        /\ rest' = [rest EXCEPT ![e] = 0]
        /\ UNCHANGED todo
        /\ \/ /\ pc' = "sent"
              /\ answered' = answered \union {e}
              /\ forgotten' = forgotten \ {e}
           \/ /\ Faults \intersect {"refuse", "timeout"} # {}
              /\ pc' = "retry" /\ UNCHANGED <<answered, forgotten>>
  /\ UNCHANGED <<rowVars, settingVars, aborts>>

(* Mutant: only a failure counts as an attempt. *)
CountedSent(n) == n

(* attempts + 1 of markWebhookSent *)
Counted(n) == n + 1

(* markWebhookSent after a 2xx answer; a statement that fails here lands in *)
(* the catch block                                                          *)
MarkSent ==
  LET e == Current IN
  /\ pc = "sent"
  /\ \/ /\ status' = [status EXCEPT ![e] = "sent"]
        /\ attempts' = [attempts EXCEPT ![e] = Counted(@)]
        /\ pc' = "deliver" /\ todo' = todo \ {e}
        /\ UNCHANGED forgotten
     \/ /\ "db" \in Faults
        /\ pc' = "retry"
        /\ forgotten' = forgotten \union {e}
        /\ UNCHANGED <<status, attempts, todo>>
  /\ UNCHANGED <<wait, made, settingVars, posts, answered, rest, aborts>>

(* Mutant: one attempt too few. *)
ExhaustedEarly(n) == n + 1 >= MaxAttempts

(* permanentlyFailed *)
Exhausted(n) == n >= MaxAttempts

(* Mutant: the delay does not grow. *)
DelayConstant(n) == 1

(* base * 2 ** max(0, attempts - 1), at most the configured maximum, in units *)
(* of base; attempts is at least 1 here                                       *)
Delay(n) == Smaller(2 ^ (n - 1), MaxDelay)

(* scheduleRetry, markWebhookRetry *)
ScheduleRetry ==
  LET e == Current
      n == attempts[e] + 1
  IN
  /\ pc = "retry"
  /\ attempts' = [attempts EXCEPT ![e] = n]
  /\ status' = [status EXCEPT ![e] = IF Exhausted(n) THEN "failed" ELSE "pending"]
  /\ wait' = [wait EXCEPT ![e] = Delay(n)]
  /\ pc' = "deliver" /\ todo' = todo \ {e}
  /\ UNCHANGED <<made, settingVars, historyVars, aborts>>

Finish ==
  /\ pc = "deliver" /\ todo = {}
  /\ pc' = "sleep"
  /\ UNCHANGED <<rowVars, settingVars, todo, historyVars, aborts>>

WorkerStep == Wake \/ Work \/ Post \/ MarkSent \/ ScheduleRetry \/ Finish

-------------------------------------------------------------------------------
(* One unit of time passes; a tick of the worker takes no time *)
Tick ==
  /\ \E e \in Events : wait[e] > 0 \/ rest[e] < MaxDelay
  /\ wait' = [e \in Events |-> IF wait[e] > 0 THEN wait[e] - 1 ELSE 0]
  /\ rest' = [e \in Events |-> Smaller(rest[e] + 1, MaxDelay)]
  /\ UNCHANGED <<status, attempts, made, settingVars, pc, todo, posts, answered, forgotten, aborts>>

(* A crash and restart, or an exception that leaves the tick *)
Abort ==
  /\ pc # "sleep"
  /\ aborts < MaxAborts
  /\ aborts' = aborts + 1
  /\ pc' = "sleep" /\ todo' = {}
  /\ forgotten' = IF pc = "sent" THEN forgotten \union {Current} ELSE forgotten
  /\ UNCHANGED <<rowVars, settingVars, posts, answered, rest>>

Next ==
  \/ \E e \in Events : CheckPreferences(e) \/ Enqueue(e)
  \/ UpdatePreferences \/ ConfigureWebhook
  \/ WorkerStep \/ Tick \/ Abort

Spec == Init /\ [][Next]_vars

(* The worker polls for ever and time passes. Nobody has to enqueue.         *)
Fairness == WF_vars(WorkerStep) /\ WF_vars(Tick)

FairSpec == Spec /\ Fairness
-------------------------------------------------------------------------------
(***************************************************************************)
(* Properties.                                                             *)
(***************************************************************************)

(* Every variable holds a value of its column or local variable. *)
TypeOK ==
  /\ status \in [Events -> {"none", "pending", "sent", "failed"}]
  /\ attempts \in [Events -> 0 .. MaxAttempts]
  /\ wait \in [Events -> 0 .. MaxDelay]
  /\ made \in [Events -> Nat]
  /\ enabled \subseteq Types
  /\ config \in {"none", "inactive", "active"}
  /\ sealed \subseteq Undecryptable
  /\ checked \subseteq Events
  /\ pc \in {"sleep", "work", "deliver", "sent", "retry"}
  /\ todo \subseteq Events
  /\ posts \in [Events -> Nat]
  /\ forgotten \subseteq answered /\ answered \subseteq Events
  /\ rest \in [Events -> 0 .. MaxDelay]
  /\ changes \in Nat /\ aborts \in Nat

InFlight(e) == IF pc \in {"sent", "retry"} /\ e = Current THEN 1 ELSE 0

(* Posts that are not counted are the one in flight and those a crash cut    *)
(* off: apart from crashes a receiver is called MaxAttempts times at most.   *)
PostsAreCounted ==
  \A e \in Events :
    /\ attempts[e] <= posts[e]
    /\ posts[e] <= attempts[e] + aborts + InFlight(e)

(* The receiver is left alone for the whole delay of the last attempt: an    *)
(* event is posted again only when base * 2 ^ (attempts - 1), or the         *)
(* configured maximum, has passed since the last post.                       *)
BackoffIsKept ==
  [][\A e \in Events :
       posts'[e] # posts[e] /\ attempts[e] > 0 /\ aborts = 0
       => rest[e] >= Smaller(2 ^ (attempts[e] - 1), MaxDelay)]_vars

Abstract == INSTANCE Outbox WITH answered <- answered \ forgotten

(* The loop implements the outbox: at least once, never after an end, and    *)
(* given up only after MaxAttempts posts, none of which brought a 2xx answer *)
(* that reached the row.                                                     *)
KeepsPromise == Abstract!Promise

(* An event whose secret does not decrypt ends every batch it is in, before  *)
(* the events behind it, and is never done.                                  *)
Blocked == \E e \in sealed : status[e] = "pending"

(* No event is pending for ever: the oldest rows of a full batch, the ones   *)
(* that keep failing, do not shut out the others. docs/CALLBACKS.md, Retry   *)
(* Behavior: events are "retried until max attempts". It takes secrets that  *)
(* decrypt.                                                                  *)
EveryEventEnds ==
  \A e \in Events : status[e] = "pending" ~> status[e] # "pending" \/ Blocked

===============================================================================
