---------------------------- MODULE WebhooksProofs ----------------------------
(***************************************************************************)
(* Theorems about the webhook outbox and its delivery loop, for any        *)
(* events, limits, faults and crashes.                                     *)
(*                                                                         *)
(* What the loop does to a row is right because of what it knows of it:    *)
(* the rows it listed are pending and due until it is past them (ListOK),  *)
(* a post is counted when the loop is past it (CountOK), and a 2xx answer  *)
(* is remembered only between the post and the row (AnswerOK).             *)
(***************************************************************************)
EXTENDS Webhooks, NaturalLemmas

InPost == pc \in {"sent", "retry"}

ListOK ==
  /\ \A e \in todo : status[e] = "pending" /\ wait[e] = 0
  /\ InPost => todo # {}
  /\ \A e \in checked : status[e] = "none"

CountOK ==
  \A e \in Events :
    /\ attempts[e] + InFlight(e) <= posts[e]
    /\ posts[e] <= attempts[e] + aborts + InFlight(e)
    /\ status[e] = "none" => attempts[e] = 0
    /\ status[e] = "pending" => attempts[e] < MaxAttempts

AnswerOK ==
  /\ pc = "sent" => Current \in answered \ forgotten
  /\ \A e \in Events :
       status[e] \in {"none", "pending"} /\ ~ (pc = "sent" /\ e = Current)
         => e \notin answered \ forgotten

Backoff(n) == Smaller(2 ^ (n - 1), MaxDelay)

RestOK ==
  aborts = 0 =>
    \A e \in Events :
      status[e] = "pending" /\ attempts[e] > 0 /\ InFlight(e) = 0
        => rest[e] + wait[e] >= Backoff(attempts[e])

IInv == TypeOK /\ ListOK /\ CountOK /\ AnswerOK /\ RestOK

-------------------------------------------------------------------------------
(***************************************************************************)
(* The event the loop is at.                                               *)
(***************************************************************************)

LEMMA LimitsOK == MaxAttempts \in Nat \ {0} /\ MaxDelay \in Nat \ {0}
BY WebhooksAssumption

(* A batch that is not empty has an oldest row *)
LEMMA CurrentInTodo == ASSUME TypeOK, todo # {} PROVE Current \in todo
<1> DEFINE T == {made[e] : e \in todo}
<1>1. T \subseteq Nat /\ T # {}
  BY DEF TypeOK
<1>2. PICK n \in T : \A m \in T : n <= m
  BY <1>1, LeastNatural
<1>3. PICK e \in todo : made[e] = n
  OBVIOUS
<1>4. \A d \in todo : ~ (made[d] < made[e])
  BY <1>1, <1>2, <1>3
<1>5. Oldest(todo) # {}
  BY <1>4 DEF Oldest, Older
<1>. QED
  BY <1>5 DEF Current, Oldest

(* The row of a new event does not change which one it is *)
LEMMA CurrentStays ==
  ASSUME todo' = todo, \A e \in todo : made'[e] = made[e]
  PROVE  Current' = Current
<1>1. Oldest(todo)' = Oldest(todo)
  BY DEF Oldest, Older
<1>. QED
  BY <1>1 DEF Current

(* The delay of an attempt is at least 0 and at most the configured maximum *)
LEMMA DelayType == ASSUME NEW n \in Nat \ {0} PROVE Backoff(n) \in 0 .. MaxDelay
<1> DEFINE d == 2 ^ (n - 1)
<1>1. d \in Nat
  BY PowerIsNatural, n - 1 \in Nat
<1>2. Backoff(n) = Smaller(d, MaxDelay)
  BY DEF Backoff
<1> HIDE DEF d
<1>. QED
  BY <1>1, <1>2, LimitsOK DEF Smaller

-------------------------------------------------------------------------------
(***************************************************************************)
(* Each step keeps the invariant.                                          *)
(***************************************************************************)
LEMMA InitInv == Init => IInv
<1> SUFFICES ASSUME Init PROVE IInv
  OBVIOUS
<1>1. TypeOK
  BY LimitsOK DEF Init, TypeOK
<1>2. ListOK /\ AnswerOK
  BY DEF Init, ListOK, AnswerOK, InPost
<1>3. CountOK /\ RestOK
  BY DEF Init, CountOK, RestOK, InFlight
<1>. QED
  BY <1>1, <1>2, <1>3 DEF IInv

LEMMA SettingsInv ==
  ASSUME IInv, UpdatePreferences \/ ConfigureWebhook \/ (\E e \in Events : CheckPreferences(e))
  PROVE  IInv'
<1>1. UNCHANGED <<rowVars, sealed, pc, todo, historyVars, aborts>>
  BY DEF UpdatePreferences, ConfigureWebhook, CheckPreferences
<1>2. Current' = Current
  BY <1>1, CurrentStays DEF rowVars
<1>3. TypeOK'
  BY DEF IInv, TypeOK, UpdatePreferences, ConfigureWebhook, CheckPreferences, rowVars, historyVars
<1>4. \A e \in checked' : status'[e] = "none"
  BY DEF IInv, ListOK, UpdatePreferences, ConfigureWebhook, CheckPreferences, rowVars
<1>. QED
  BY <1>1, <1>2, <1>3, <1>4
     DEF IInv, ListOK, CountOK, AnswerOK, RestOK, InPost, InFlight, rowVars, historyVars

LEMMA EnqueueInv == ASSUME IInv, NEW e \in Events, Enqueue(e) PROVE IInv'
<1>1. status[e] = "none" /\ e \notin todo
  BY DEF IInv, ListOK, Enqueue
<1>2. Cardinality({d \in Events : status[d] # "none"}) \in Nat
  BY WebhooksAssumption, FS_Subset, FS_CardinalityType
<1>3. TypeOK'
  BY <1>2 DEF IInv, TypeOK, Enqueue, settingVars, historyVars
<1>4. Current' = Current
  BY <1>1, CurrentStays DEF IInv, TypeOK, Enqueue
<1>5. /\ UNCHANGED <<attempts, wait, pc, todo, posts, answered, forgotten, rest, aborts>>
      /\ status' = [status EXCEPT ![e] = "pending"]
      /\ checked' = checked \ {e}
  BY DEF Enqueue, historyVars
<1>6. attempts[e] = 0 /\ attempts[e] < MaxAttempts
  BY <1>1, LimitsOK DEF IInv, CountOK
<1>7. ListOK'
  BY <1>1, <1>5 DEF IInv, TypeOK, ListOK, InPost
<1>8. CountOK'
  BY <1>4, <1>5, <1>6 DEF IInv, TypeOK, CountOK, InFlight
<1>9. AnswerOK'
  BY <1>1, <1>4, <1>5 DEF IInv, TypeOK, AnswerOK
<1>10. RestOK'
  BY <1>4, <1>5, <1>6 DEF IInv, TypeOK, RestOK, InFlight
<1>. QED
  BY <1>3, <1>7, <1>8, <1>9, <1>10 DEF IInv

LEMMA WorkInv == ASSUME IInv, Wake \/ Work \/ Finish PROVE IInv'
<1>1. /\ UNCHANGED <<rowVars, settingVars, historyVars, aborts>>
      /\ pc \notin {"sent", "retry"} /\ pc' \in {"work", "deliver", "sleep"}
      /\ \A e \in todo' : e \in todo \/ (e \in Events /\ Due(e))
  BY DEF Wake, Work, Finish, DueRows
<1>2. TypeOK'
  BY <1>1 DEF IInv, TypeOK, rowVars, settingVars, historyVars
<1>3. ListOK'
  BY <1>1 DEF IInv, ListOK, InPost, Due, rowVars, settingVars
<1>4. CountOK'
  BY <1>1 DEF IInv, TypeOK, CountOK, InFlight, rowVars, historyVars
<1>5. AnswerOK'
  BY <1>1 DEF IInv, AnswerOK, rowVars, historyVars
<1>6. RestOK'
  BY <1>1 DEF IInv, RestOK, InFlight, rowVars, historyVars
<1>. QED
  BY <1>2, <1>3, <1>4, <1>5, <1>6 DEF IInv

LEMMA PostInv == ASSUME IInv, Post PROVE IInv'
<1>1. Current \in todo /\ Current \in Events
  BY CurrentInTodo DEF IInv, TypeOK, Post
<1> DEFINE e == Current
<1>2. pc = "deliver" /\ UNCHANGED <<rowVars, settingVars, aborts>>
  BY DEF Post
<1>3. CASE pc' = "sleep" /\ todo' = {} /\ UNCHANGED historyVars
  BY <1>2, <1>3 DEF IInv, TypeOK, ListOK, CountOK, AnswerOK, RestOK, InPost, InFlight,
     rowVars, settingVars, historyVars
<1>4. CASE /\ posts' = [posts EXCEPT ![e] = @ + 1] /\ rest' = [rest EXCEPT ![e] = 0]
           /\ UNCHANGED todo
           /\ \/ pc' = "sent" /\ answered' = answered \union {e} /\ forgotten' = forgotten \ {e}
              \/ pc' = "retry" /\ UNCHANGED <<answered, forgotten>>
  <2>1. Current' = Current
    BY <1>2, <1>4, CurrentStays DEF rowVars
  <2>2. TypeOK'
    BY <1>1, <1>2, <1>4, LimitsOK DEF IInv, TypeOK, rowVars, settingVars
  <2>3. ListOK'
    BY <1>1, <1>2, <1>4 DEF IInv, ListOK, InPost, rowVars, settingVars
  <2>4. CountOK'
    BY <1>1, <1>2, <1>4, <2>1 DEF IInv, TypeOK, CountOK, InFlight, rowVars
  <2>5. AnswerOK'
    BY <1>1, <1>2, <1>4, <2>1 DEF IInv, TypeOK, ListOK, AnswerOK, rowVars
  <2>6. RestOK'
    BY <1>1, <1>2, <1>4, <2>1 DEF IInv, TypeOK, RestOK, InFlight, rowVars
  <2>. QED
    BY <2>2, <2>3, <2>4, <2>5, <2>6 DEF IInv
<1>. QED
  BY <1>3, <1>4 DEF Post

LEMMA MarkSentInv == ASSUME IInv, MarkSent PROVE IInv'
<1>1. Current \in todo /\ Current \in Events /\ status[Current] = "pending" /\ attempts[Current] < MaxAttempts
  BY CurrentInTodo DEF IInv, TypeOK, ListOK, CountOK, InPost, MarkSent
<1> DEFINE e == Current
<1>2. pc = "sent" /\ UNCHANGED <<wait, made, settingVars, posts, answered, rest, aborts>>
      /\ e \in answered \ forgotten
  BY DEF MarkSent, IInv, AnswerOK
<1>3. CASE /\ status' = [status EXCEPT ![e] = "sent"]
           /\ attempts' = [attempts EXCEPT ![e] = @ + 1]
           /\ pc' = "deliver" /\ todo' = todo \ {e}
           /\ UNCHANGED forgotten
  <2>1. TypeOK'
    BY <1>1, <1>2, <1>3, LimitsOK DEF IInv, TypeOK, settingVars
  <2>2. ListOK'
    BY <1>1, <1>2, <1>3 DEF IInv, TypeOK, ListOK, InPost, settingVars
  <2>3. CountOK'
    BY <1>1, <1>2, <1>3 DEF IInv, TypeOK, CountOK, InFlight
  <2>4. AnswerOK'
    BY <1>1, <1>2, <1>3 DEF IInv, TypeOK, AnswerOK
  <2>5. RestOK'
    BY <1>1, <1>2, <1>3 DEF IInv, TypeOK, RestOK, InFlight
  <2>. QED
    BY <2>1, <2>2, <2>3, <2>4, <2>5 DEF IInv
<1>4. CASE /\ pc' = "retry" /\ forgotten' = forgotten \union {e}
           /\ UNCHANGED <<status, attempts, todo>>
  <2>1. Current' = Current
    BY <1>2, <1>4, CurrentStays
  <2>2. TypeOK'
    BY <1>1, <1>2, <1>4 DEF IInv, TypeOK, settingVars
  <2>3. ListOK'
    BY <1>1, <1>2, <1>4 DEF IInv, ListOK, InPost, settingVars
  <2>4. CountOK'
    BY <1>2, <1>4, <2>1 DEF IInv, CountOK, InFlight
  <2>5. AnswerOK'
    BY <1>2, <1>4, <2>1 DEF IInv, AnswerOK
  <2>6. RestOK'
    BY <1>2, <1>4, <2>1 DEF IInv, RestOK, InFlight
  <2>. QED
    BY <2>2, <2>3, <2>4, <2>5, <2>6 DEF IInv
<1>. QED
  BY <1>3, <1>4 DEF MarkSent, Counted

LEMMA ScheduleRetryInv == ASSUME IInv, ScheduleRetry PROVE IInv'
<1>1. Current \in todo /\ Current \in Events /\ status[Current] = "pending" /\ attempts[Current] < MaxAttempts
  BY CurrentInTodo DEF IInv, TypeOK, ListOK, CountOK, InPost, ScheduleRetry
<1> DEFINE e == Current
           n == attempts[e] + 1
<1>2. /\ pc = "retry" /\ pc' = "deliver" /\ todo' = todo \ {e}
      /\ attempts' = [attempts EXCEPT ![e] = n]
      /\ status' = [status EXCEPT ![e] = IF n >= MaxAttempts THEN "failed" ELSE "pending"]
      /\ wait' = [wait EXCEPT ![e] = Backoff(n)]
      /\ UNCHANGED <<made, settingVars, historyVars, aborts>>
  BY DEF ScheduleRetry, Exhausted, Delay, Backoff
<1>3. n \in Nat \ {0} /\ n <= MaxAttempts
  BY <1>1, LimitsOK DEF IInv, TypeOK
<1>4. Backoff(n) \in 0 .. MaxDelay
  BY <1>3, DelayType
<1>5. TypeOK'
  BY <1>1, <1>2, <1>3, <1>4, LimitsOK DEF IInv, TypeOK, settingVars, historyVars
<1>6. ListOK'
  BY <1>1, <1>2 DEF IInv, TypeOK, ListOK, InPost, settingVars
<1>7. CountOK'
  BY <1>1, <1>2, <1>3, LimitsOK DEF IInv, TypeOK, CountOK, InFlight, historyVars
<1>8. AnswerOK'
  BY <1>1, <1>2 DEF IInv, TypeOK, AnswerOK, historyVars
<1>9. RestOK'
  <2> SUFFICES ASSUME aborts = 0, NEW d \in Events, status'[d] = "pending", attempts'[d] > 0
               PROVE  rest'[d] + wait'[d] >= Backoff(attempts'[d])
    BY <1>2 DEF RestOK
  <2>1. CASE d = e
    <3>1. attempts'[d] = n /\ wait'[d] = Backoff(n) /\ rest'[d] \in Nat
      BY <1>1, <1>2, <2>1 DEF IInv, TypeOK, historyVars
    <3>. QED
      BY <3>1, <1>4, LimitsOK
  <2>2. CASE d # e
    <3>1. attempts'[d] = attempts[d] /\ wait'[d] = wait[d] /\ rest'[d] = rest[d] /\ status'[d] = status[d]
      BY <1>2, <2>2 DEF IInv, TypeOK, historyVars
    <3>2. InFlight(d) = 0
      BY <2>2 DEF InFlight
    <3>. QED
      BY <3>1, <3>2 DEF IInv, RestOK
  <2>. QED
    BY <2>1, <2>2
<1>. QED
  BY <1>5, <1>6, <1>7, <1>8, <1>9 DEF IInv

LEMMA TickInv == ASSUME IInv, Tick PROVE IInv'
<1>1. /\ wait' = [e \in Events |-> IF wait[e] > 0 THEN wait[e] - 1 ELSE 0]
      /\ rest' = [e \in Events |-> Smaller(rest[e] + 1, MaxDelay)]
      /\ UNCHANGED <<status, attempts, made, settingVars, pc, todo, posts, answered, forgotten, aborts>>
  BY DEF Tick
<1>2. Current' = Current
  BY <1>1, CurrentStays
<1>3. TypeOK'
  BY <1>1, LimitsOK DEF IInv, TypeOK, Smaller, settingVars
<1>4. ListOK'
  BY <1>1 DEF IInv, TypeOK, ListOK, InPost, settingVars
<1>5. CountOK'
  BY <1>1, <1>2 DEF IInv, CountOK, InFlight
<1>6. AnswerOK'
  BY <1>1, <1>2 DEF IInv, AnswerOK
<1>7. RestOK'
  <2> SUFFICES ASSUME aborts = 0, NEW e \in Events, status[e] = "pending", attempts[e] > 0, InFlight(e) = 0
               PROVE  rest'[e] + wait'[e] >= Backoff(attempts[e])
    BY <1>1, <1>2 DEF RestOK, InFlight
  <2>1. rest[e] + wait[e] >= Backoff(attempts[e])
    BY DEF IInv, RestOK
  <2>2. Backoff(attempts[e]) \in 0 .. MaxDelay
    BY DelayType DEF IInv, TypeOK
  <2>3. rest[e] \in 0 .. MaxDelay /\ wait[e] \in 0 .. MaxDelay
    BY DEF IInv, TypeOK
  <2>4. /\ rest'[e] = IF rest[e] + 1 < MaxDelay THEN rest[e] + 1 ELSE MaxDelay
        /\ wait'[e] = IF wait[e] > 0 THEN wait[e] - 1 ELSE 0
    BY <1>1 DEF Smaller
  <2>. QED
    BY <2>1, <2>2, <2>3, <2>4, LimitsOK
<1>. QED
  BY <1>3, <1>4, <1>5, <1>6, <1>7 DEF IInv

LEMMA AbortInv == ASSUME IInv, Abort PROVE IInv'
<1>1. /\ aborts' = aborts + 1 /\ pc' = "sleep" /\ todo' = {}
      /\ UNCHANGED <<rowVars, settingVars, posts, answered, rest>>
      /\ forgotten' = IF pc = "sent" THEN forgotten \union {Current} ELSE forgotten
  BY DEF Abort
<1>2. TypeOK'
  BY <1>1 DEF IInv, TypeOK, AnswerOK, rowVars, settingVars
<1>3. ListOK'
  BY <1>1 DEF IInv, ListOK, InPost, rowVars, settingVars
<1>4. CountOK'
  BY <1>1 DEF IInv, TypeOK, CountOK, InFlight, rowVars
<1>5. AnswerOK'
  BY <1>1 DEF IInv, AnswerOK, rowVars
<1>6. RestOK'
  BY <1>1 DEF IInv, TypeOK, RestOK
<1>. QED
  BY <1>2, <1>3, <1>4, <1>5, <1>6 DEF IInv

LEMMA NextInv == IInv /\ [Next]_vars => IInv'
<1> SUFFICES ASSUME IInv, [Next]_vars PROVE IInv'
  OBVIOUS
<1>1. CASE UNCHANGED vars
  <2>1. UNCHANGED <<status, attempts, wait, made, enabled, config, sealed, checked, changes, pc, todo,
                    posts, answered, forgotten, rest, aborts>>
    BY <1>1 DEF vars, rowVars, settingVars, historyVars
  <2>2. Current' = Current
    BY <2>1, CurrentStays
  <2>. QED
    BY <2>1, <2>2 DEF IInv, TypeOK, ListOK, CountOK, AnswerOK, RestOK, InPost, InFlight
<1>2. CASE Next
  BY <1>2, SettingsInv, EnqueueInv, WorkInv, PostInv, MarkSentInv, ScheduleRetryInv, TickInv, AbortInv
     DEF Next, WorkerStep
<1>. QED
  BY <1>1, <1>2

LEMMA Invariance == Spec => []IInv
BY InitInv, NextInv, PTL DEF Spec

-------------------------------------------------------------------------------
(***************************************************************************)
(* The theorems.                                                           *)
(***************************************************************************)

(* Rows, settings, and the loop's list keep their types; the attempts stay   *)
(* within webhookMaxAttempts, the delay within webhookMaxRetryDelaySeconds.  *)
THEOREM TypeCorrect == Spec => []TypeOK
<1>1. IInv => TypeOK
  BY DEF IInv
<1>. QED
  BY <1>1, Invariance, PTL

(* markWebhookSent and scheduleRetry count every post; only a crash or an    *)
(* exception between the post and the statement leaves one uncounted.        *)
THEOREM PostsAreCountedHolds == Spec => []PostsAreCounted
<1>1. IInv => PostsAreCounted
  BY DEF IInv, TypeOK, CountOK, PostsAreCounted, InFlight
<1>. QED
  BY <1>1, Invariance, PTL

(* scheduleRetry and listDueWebhookEvents: no event is posted again before   *)
(* the whole delay of its last attempt has passed.                           *)
THEOREM BackoffIsKeptHolds == Spec => BackoffIsKept
<1>1. IInv /\ [Next]_vars =>
        [\A e \in Events :
           posts'[e] # posts[e] /\ attempts[e] > 0 /\ aborts = 0
           => rest[e] >= Smaller(2 ^ (attempts[e] - 1), MaxDelay)]_vars
  <2> SUFFICES ASSUME IInv, Next, NEW e \in Events, posts'[e] # posts[e], attempts[e] > 0, aborts = 0
               PROVE  rest[e] >= Backoff(attempts[e])
    BY DEF Backoff
  <2>1. Post
    BY DEF Next, WorkerStep, CheckPreferences, Enqueue, UpdatePreferences, ConfigureWebhook, Wake, Work,
       MarkSent, ScheduleRetry, Finish, Tick, Abort, historyVars
  <2>2. pc = "deliver" /\ Current \in todo /\ Current \in Events /\ e = Current
    BY <2>1, CurrentInTodo DEF IInv, TypeOK, Post, historyVars
  <2>3. status[e] = "pending" /\ wait[e] = 0
    BY <2>2 DEF IInv, ListOK
  <2>4. rest[e] + wait[e] >= Backoff(attempts[e])
    BY <2>2, <2>3 DEF IInv, RestOK, InFlight
  <2>. QED
    BY <2>3, <2>4 DEF IInv, TypeOK
<1>. QED
  BY <1>1, Invariance, PTL DEF Spec, BackoffIsKept

(* deliverDue and scheduleRetry implement the outbox: every step of the loop *)
(* is a step of Outbox or changes nothing that Outbox speaks of.             *)
THEOREM KeepsPromiseHolds == Spec => KeepsPromise
<1>1. Init => Abstract!Init
  BY DEF Init, Abstract!Init
<1>2. IInv /\ [Next]_vars => [Abstract!Next]_(Abstract!vars)
  <2> SUFFICES ASSUME IInv, [Next]_vars
               PROVE  Abstract!Next \/ UNCHANGED <<status, posts, answered \ forgotten>>
    BY DEF Abstract!vars
  <2>1. CASE UNCHANGED <<status, posts, answered, forgotten>>
    BY <2>1
  <2>2. ASSUME NEW e \in Events, Enqueue(e) PROVE Abstract!Enqueue(e)
    BY <2>2 DEF IInv, ListOK, Enqueue, historyVars, Abstract!Enqueue
  <2>3. CASE InPost \/ Post
    <3> DEFINE e == Current
    <3>1. Current \in todo /\ Current \in Events /\ status[Current] = "pending"
      BY <2>3, CurrentInTodo DEF IInv, TypeOK, ListOK, InPost, Post
    <3>2. CASE Post
      BY <3>1, <3>2, <2>1 DEF Post, rowVars, historyVars, Abstract!Next, Abstract!Post
    <3>3. CASE MarkSent
      BY <3>1, <3>3 DEF IInv, AnswerOK, MarkSent, Abstract!Next, Abstract!Sent, Abstract!Forget
    <3>4. CASE ScheduleRetry
      <4>1. CASE Exhausted(attempts[e] + 1)
        <5>1. posts[e] >= MaxAttempts /\ e \notin answered \ forgotten
          BY <3>1, <3>4, <4>1, LimitsOK
             DEF ScheduleRetry, IInv, TypeOK, CountOK, AnswerOK, InFlight, Exhausted
        <5>. QED
          BY <3>1, <3>4, <4>1, <5>1 DEF ScheduleRetry, historyVars, Abstract!Next, Abstract!GiveUp
      <4>2. CASE ~ Exhausted(attempts[e] + 1)
        BY <3>1, <3>4, <4>2 DEF ScheduleRetry, historyVars, IInv, TypeOK
      <4>. QED
        BY <4>1, <4>2
    <3>5. CASE Abort
      BY <3>1, <3>5 DEF IInv, AnswerOK, Abort, rowVars, Abstract!Next, Abstract!Forget
    <3>. QED
      BY <2>1, <2>2, <2>3, <3>2, <3>3, <3>4, <3>5
         DEF InPost, Next, WorkerStep, CheckPreferences, UpdatePreferences, ConfigureWebhook, Wake, Work,
             Finish, Tick, vars, rowVars, settingVars, historyVars, Abstract!Next
  <2>4. CASE ~ InPost /\ Abort
    BY <2>4 DEF InPost, Abort, rowVars
  <2>. QED
    BY <2>1, <2>2, <2>3, <2>4
       DEF InPost, Next, WorkerStep, CheckPreferences, UpdatePreferences, ConfigureWebhook, Wake, Work,
           MarkSent, ScheduleRetry, Finish, Tick, vars, rowVars, settingVars, historyVars, Abstract!Next
<1>. QED
  BY <1>1, <1>2, Invariance, PTL DEF Spec, KeepsPromise, Abstract!Promise
===============================================================================
