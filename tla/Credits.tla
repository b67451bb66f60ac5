-------------------------------- MODULE Credits --------------------------------
(***************************************************************************)
(* What the gateway promises a merchant about payments, whatever the       *)
(* worker and the API do to keep it: a payment is credited to one request, *)
(* for good; nothing that was looked at gets lost; a callback is sent once *)
(* and says what is so, and a confirmation follows the detection unless    *)
(* work was cut off in between.  Deposits implements it.                   *)
(***************************************************************************)
EXTENDS Naturals

CONSTANTS Requests, Logs

VARIABLES request,   \* request[r]: none, active, expired, closed or completed
          transfer,  \* transfer[l]: none, detected, late or confirmed
          payer,     \* payer[l]: the request a payment is credited to
          aside,     \* payments kept for review, and the gateway's own sweeps
          passed,    \* payments that will not be looked at again
          said,      \* callbacks, records of type and subject
          cuts       \* how often something was cut off

vars == <<request, transfer, payer, aside, passed, said, cuts>>

Init ==
  /\ request = [r \in Requests |-> "none"]
  /\ transfer = [l \in Logs |-> "none"]
  /\ payer = [l \in Logs |-> "no request"]
  /\ aside = {} /\ passed = {} /\ said = {}
  /\ cuts = 0

Open(r) ==
  /\ request[r] = "none"
  /\ request' = [request EXCEPT ![r] = "active"]
  /\ UNCHANGED <<transfer, payer, aside, passed, said, cuts>>

Close(r) ==
  /\ request[r] = "active"
  /\ request' = [request EXCEPT ![r] = "closed"]
  /\ UNCHANGED <<transfer, payer, aside, passed, said, cuts>>

(* Any number of requests at once *)
Expire(due) ==
  /\ \A r \in due : request[r] = "active"
  /\ request' = [r \in Requests |-> IF r \in due THEN "expired" ELSE request[r]]
  /\ UNCHANGED <<transfer, payer, aside, passed, said, cuts>>

(* A match completes a request that has ended, too *)
Complete(r) ==
  /\ request[r] # "none"
  /\ request' = [request EXCEPT ![r] = "completed"]
  /\ UNCHANGED <<transfer, payer, aside, passed, said, cuts>>

Credit(l, r, status) ==
  /\ transfer[l] = "none" /\ request[r] # "none"
  /\ transfer' = [transfer EXCEPT ![l] = status]
  /\ payer' = [payer EXCEPT ![l] = r]
  /\ UNCHANGED <<request, aside, passed, said, cuts>>

Confirm(l) ==
  /\ transfer[l] = "detected"
  /\ transfer' = [transfer EXCEPT ![l] = "confirmed"]
  /\ UNCHANGED <<request, payer, aside, passed, said, cuts>>

SetAside(l) ==
  /\ aside' = aside \union {l}
  /\ UNCHANGED <<request, transfer, payer, passed, said, cuts>>

(* Nothing is passed that has no place yet *)
Known == {l \in Logs : transfer[l] # "none"} \union aside

Pass(seen) ==
  /\ seen \subseteq Known
  /\ passed' = passed \union seen
  /\ UNCHANGED <<request, transfer, payer, aside, said, cuts>>

Expired(r) == [type |-> "expired", subject |-> r]
Detected(l) == [type |-> "transfer.detected", subject |-> l]
Late(l) == [type |-> "deposit.late_detected", subject |-> l]
Confirmed(l) == [type |-> "deposit.confirmed", subject |-> l]

(* A callback, the first of its kind for its subject *)
Say(event) ==
  /\ event \notin said
  /\ said' = said \union {event}
  /\ UNCHANGED <<request, transfer, payer, aside, passed, cuts>>

SayExpired(r) == request[r] \in {"expired", "completed"} /\ Say(Expired(r))
SayDetected(l) == transfer[l] \in {"detected", "confirmed"} /\ Say(Detected(l))
SayLate(l) == transfer[l] = "late" /\ Say(Late(l))
SayConfirmed(l) == transfer[l] = "confirmed" /\ (Detected(l) \in said \/ cuts > 0) /\ Say(Confirmed(l))

CutOff == cuts' = cuts + 1 /\ UNCHANGED <<request, transfer, payer, aside, passed, said>>

Next ==
  \/ \E r \in Requests : Open(r) \/ Close(r) \/ Complete(r) \/ SayExpired(r)
  \/ \E due \in SUBSET Requests : Expire(due)
  \/ \E l \in Logs, r \in Requests, status \in {"detected", "late", "confirmed"} : Credit(l, r, status)
  \/ \E l \in Logs : Confirm(l) \/ SetAside(l) \/ SayDetected(l) \/ SayLate(l) \/ SayConfirmed(l)
  \/ \E seen \in SUBSET Logs : Pass(seen)
  \/ CutOff

Promise == Init /\ [][Next]_vars
===============================================================================
