--------------------------------- MODULE Outbox ---------------------------------
(***************************************************************************)
(* What the webhook outbox promises a merchant, whatever the delivery loop *)
(* looks like: an enqueued event is posted until the receiver answers 2xx, *)
(* at least once and perhaps more often, or it is given up after           *)
(* MaxAttempts posts without a 2xx answer.  An answer may be forgotten     *)
(* before it is written down, and then counts for nothing.  Webhooks       *)
(* implements it.                                                          *)
(***************************************************************************)
EXTENDS Naturals

CONSTANTS Events, MaxAttempts

VARIABLES status,   \* status[e]: none, pending, sent or failed
          posts,    \* posts[e]: how often the receiver was called
          answered  \* events the receiver answered 2xx, as far as the sender remembers

vars == <<status, posts, answered>>

Init ==
  /\ status = [e \in Events |-> "none"]
  /\ posts = [e \in Events |-> 0]
  /\ answered = {}

Enqueue(e) ==
  /\ status[e] = "none"
  /\ status' = [status EXCEPT ![e] = "pending"]
  /\ UNCHANGED <<posts, answered>>

Post(e) ==
  /\ status[e] = "pending"
  /\ posts' = [posts EXCEPT ![e] = @ + 1]
  /\ answered' \in {answered, answered \union {e}}
  /\ UNCHANGED status

(* The process stops, or a statement fails, between the answer and the row *)
Forget(e) ==
  /\ status[e] = "pending" /\ e \in answered
  /\ answered' = answered \ {e}
  /\ UNCHANGED <<status, posts>>

Sent(e) ==
  /\ status[e] = "pending" /\ e \in answered
  /\ status' = [status EXCEPT ![e] = "sent"]
  /\ UNCHANGED <<posts, answered>>

GiveUp(e) ==
  /\ status[e] = "pending" /\ e \notin answered /\ posts[e] >= MaxAttempts
  /\ status' = [status EXCEPT ![e] = "failed"]
  /\ UNCHANGED <<posts, answered>>

Next == \E e \in Events : Enqueue(e) \/ Post(e) \/ Forget(e) \/ Sent(e) \/ GiveUp(e)

(* At least once, or given up for a reason *)
Promise == Init /\ [][Next]_vars
===============================================================================
