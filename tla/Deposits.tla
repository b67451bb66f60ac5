-------------------------------- MODULE Deposits --------------------------------
(***************************************************************************)
(* Detecting payments and attaching them to deposit requests: the worker's *)
(* tick up to confirmation (deposit-worker.ts), next to the merchant API   *)
(* and the dashboard, which create, close and manually match requests      *)
(* (deposit-service.ts) in another operating-system process.               *)
(*                                                                         *)
(* One network, token, merchant and treasury wallet.  Every awaited call   *)
(* is an action.  A request is the deposit_addresses row: a temporary      *)
(* wallet has an address of its own, every direct_treasury request has the *)
(* treasury's.  A log is one token transfer on chain; its amount matters   *)
(* only for the direct requests it is within tolerance of.                 *)
(***************************************************************************)
EXTENDS Naturals, FiniteSets

CONSTANTS Requests,   \* deposit requests that may be created
          Direct,     \* those with flow direct_treasury; the others are temporary wallets
          Logs,       \* token transfers that may happen on chain
          Sweeps,     \* those that are the gateway's own sweeps into the treasury
          Recipient,  \* the temporary wallet a log pays, or Treasury
          Treasury,
          Fits,       \* the direct requests a log's amount is within tolerance of
          Worker,     \* the one worker process
          Owners,     \* manual match requests that may run at the same time
          MaxScan,    \* maxScanBlocks
          MaxHead,    \* bound: blocks
          MaxAborts   \* bound: crashes and uncaught exceptions

ASSUME DepositsAssumption ==
  /\ Direct \subseteq Requests
  /\ Sweeps \subseteq Logs
  /\ Treasury \notin Requests
  /\ Recipient \in [Logs -> (Requests \ Direct) \union {Treasury}]
  /\ \A s \in Sweeps : Recipient[s] = Treasury
  /\ Fits \in [Logs -> SUBSET Direct]
  /\ Worker \notin Owners
  /\ MaxScan \in Nat \ {0}
  /\ MaxHead \in Nat
  /\ MaxAborts \in Nat

Procs == {Worker} \union Owners
NoLog == "no log"
NoRequest == "no request"

VARIABLES
  (* The chain and the clock. *)
  head,      \* the latest block that is confirmations deep
  block,     \* block[l]: the block of a log, 0 before it happens
  due,       \* requests whose expiresAt has passed
  (* Postgres. *)
  request,   \* request[r]: deposit_addresses.status, "none" before the row
  match,     \* match[r]: matched_transfer_id; match_status is "matched" iff set
  transfer,  \* transfer[l]: token_transfers.status, "none" before the row
  payer,     \* payer[l]: token_transfers.deposit_address_id
  settled,   \* transfers of direct requests with settlement_status settled
  review,    \* review[l]: treasury_transfers.status, "none" before the row
  reviewed,  \* reviewed[l]: treasury_transfers.matched_deposit_address_id
  swept,     \* own sweeps that have a row in sweeps
  cursor,    \* chain_cursors.last_scanned_block
  outbox,    \* webhook events enqueued
  (* The processes. *)
  pc, job,   \* where each process is, and its local variables
  todo, to,  \* the worker: the list it is walking, toBlock of its scan
  (* Bound. *)
  aborts

chainVars == <<head, block, due>>
requestVars == <<request, match>>
transferVars == <<transfer, payer, settled>>
reviewVars == <<review, reviewed>>
dbVars == <<requestVars, transferVars, reviewVars, swept, cursor, outbox>>
procVars == <<pc, job, todo, to>>
vars == <<chainVars, dbVars, procVars, aborts>>

(* Mutant: the treasury transfer is left as it was. *)
UpdatesWithoutReview == {"request", "settlement"}

(* Mutant: the transfer is left as it was. *)
UpdatesWithoutSettlement == {"request", "review"}

(* The three updates of Promise.all, by the table they change *)
Updates == {"request", "review", "settlement"}
NoJob == [log |-> NoLog, request |-> NoRequest, late |-> FALSE,
          found |-> {}, created |-> FALSE, updates |-> {}]

Init ==
  /\ head = 0
  /\ block = [l \in Logs |-> 0]
  /\ due = {}
  /\ request = [r \in Requests |-> "none"]
  /\ match = [r \in Requests |-> NoLog]
  /\ transfer = [l \in Logs |-> "none"]
  /\ payer = [l \in Logs |-> NoRequest]
  /\ settled = {}
  /\ review = [l \in Logs |-> "none"]
  /\ reviewed = [l \in Logs |-> NoRequest]
  /\ swept = {}
  /\ cursor = 0
  /\ outbox = {}
  /\ pc = [p \in Procs |-> "rest"]
  /\ job = [p \in Procs |-> NoJob]
  /\ todo = {}
  /\ to = 0
  /\ aborts = 0

(***************************************************************************)
(* Statements and small steps shared by the actions.                       *)
(***************************************************************************)
Goto(p, l) == pc' = [pc EXCEPT ![p] = l]

(* Back to the loop label l, or to rest, with the local variables gone *)
Done(p, l) == Goto(p, l) /\ job' = [job EXCEPT ![p] = NoJob]

AddressOf(r) == IF r \in Direct THEN Treasury ELSE r

(* getDepositAddressByAddress: network, token and address, no flow, limit 1 *)
Holders(a) == {r \in Requests : request[r] # "none" /\ AddressOf(r) = a}

(* Mutant: a row of the same log is overwritten. *)
InsertTransferOver(l, r, st) ==
  /\ transfer' = [transfer EXCEPT ![l] = st]
  /\ payer' = [payer EXCEPT ![l] = r]

(* Mutant: the row is always reported as created. *)
CreatedAlways(l) == TRUE

(* created of createTokenTransferIfNotExists: the log had no row before *)
Created(l) == transfer[l] = "none"

(* createTokenTransferIfNotExists: nothing when the log has a row already *)
InsertTransfer(l, r, st) ==
  IF Created(l)
    THEN /\ transfer' = [transfer EXCEPT ![l] = st]
         /\ payer' = [payer EXCEPT ![l] = r]
    ELSE UNCHANGED <<transfer, payer>>

(* markDepositAddressMatched: by id only, whatever the request is now *)
MarkMatched(r, l) ==
  /\ request' = [request EXCEPT ![r] = "completed"]
  /\ match' = [match EXCEPT ![r] = l]

(* createTreasuryTransferIfNotExists: nothing when the log has a row already *)
InsertReview(l, st) ==
  review' = IF review[l] # "none" THEN review ELSE [review EXCEPT ![l] = st]

(* updateTreasuryTransferStatus: by id only *)
SetReview(l, st, r) ==
  /\ review' = [review EXCEPT ![l] = st]
  /\ reviewed' = [reviewed EXCEPT ![l] = r]

Event(type, x) == [type |-> type, subject |-> x]

(* Mutant: nothing is sent for a closed request. *)
EnqueueUnlessClosed(type, x) ==
  outbox' = IF x \in Logs /\ request[payer[x]] = "closed" THEN outbox
            ELSE outbox \union {Event(type, x)}

(* Mutant: expiry is not among the events that are sent. *)
EnqueueUnlessExpired(type, x) ==
  outbox' = IF type = "expired" THEN outbox ELSE outbox \union {Event(type, x)}

(* enqueueMerchantEvent, with a callback configured and every event enabled *)
Enqueue(type, x) == outbox' = outbox \union {Event(type, x)}

-------------------------------------------------------------------------------
(***************************************************************************)
(* The worker's tick.                                                      *)
(***************************************************************************)

(* expireDepositAddresses: one bulk update, which returns the rows it changed *)
Expiring == {r \in Requests : request[r] = "active" /\ r \in due}

Expire ==
  /\ pc[Worker] = "rest"
  /\ request' = [r \in Requests |-> IF r \in Expiring THEN "expired" ELSE request[r]]
  /\ todo' = Expiring
  /\ Goto(Worker, "expire")
  /\ UNCHANGED <<chainVars, match, transferVars, reviewVars, swept, cursor, outbox, job, to, aborts>>

(* wallet.expired or direct_deposit.expired, one row of the update at a time *)
AnnounceExpired(r) ==
  /\ pc[Worker] = "expire"
  /\ r \in todo
  /\ Enqueue("expired", r)
  /\ todo' = todo \ {r}
  /\ UNCHANGED <<chainVars, requestVars, transferVars, reviewVars, swept, cursor, pc, job, to, aborts>>

(* Mutant: a block is skipped between two scans. *)
FromBlockSkipping == cursor + 2

(* The first block the cursor has not covered; scanFromBlock is 1 *)
FromBlock == cursor + 1

(* Mutant: the window is not cut at the confirmed head. *)
ToBlockPastHead == IF head < FromBlock THEN head ELSE FromBlock + MaxScan - 1

ToBlock == LET last == FromBlock + MaxScan - 1 IN IF head < last THEN head ELSE last

(* Mutant: late transfers are listed too. *)
ReadyAndLate == {l \in Logs : transfer[l] \in {"detected", "late"}}

(* listTransfersReadyForConfirmation: blocks up to the confirmed head, which *)
(* every scanned block is                                                    *)
Ready == {l \in Logs : transfer[l] = "detected"}

(* getTransferLogs; a provider that cannot read a block throws               *)
TransferLogs(from, last) == {l \in Logs : block[l] \in from .. last}

(* getLatestBlockNumber, getChainCursor, getTransferLogs; or nothing to scan *)
StartScan ==
  /\ pc[Worker] = "expire"
  /\ todo = {}
  /\ \/ /\ ToBlock < FromBlock
        /\ todo' = Ready
        /\ Goto(Worker, "confirm")
        /\ UNCHANGED to
     \/ /\ ToBlock >= FromBlock
        /\ to' = ToBlock
        /\ todo' = TransferLogs(FromBlock, ToBlock)
        /\ Goto(Worker, "scan")
  /\ UNCHANGED <<chainVars, dbVars, job, aborts>>

(* Late is decided here, by the status of the row and the clock of the scan *)
IsLate(r) == request[r] # "active" \/ r \in due

(* getDepositAddressByAddress for one log *)
Lookup(l) ==
  /\ pc[Worker] = "scan"
  /\ l \in todo
  /\ todo' = todo \ {l}
  /\ \/ \E r \in Holders(Recipient[l]) :
          /\ job' = [job EXCEPT ![Worker] =
                      [NoJob EXCEPT !.log = l, !.request = r, !.late = IsLate(r)]]
          /\ Goto(Worker, "insert")
     \/ /\ Holders(Recipient[l]) = {}
        /\ job' = [job EXCEPT ![Worker] = [NoJob EXCEPT !.log = l]]
        /\ Goto(Worker, "sweep_check")
  /\ UNCHANGED <<chainVars, dbVars, to, aborts>>

(* createTokenTransferIfNotExists with status late or detected *)
Insert ==
  LET j == job[Worker] IN
  /\ pc[Worker] = "insert"
  /\ InsertTransfer(j.log, j.request, IF j.late THEN "late" ELSE "detected")
  /\ IF Created(j.log)
       THEN Goto(Worker, "announce") /\ UNCHANGED job
       ELSE Done(Worker, "scan")
  /\ UNCHANGED <<chainVars, requestVars, settled, reviewVars, swept, cursor, outbox, todo, to, aborts>>

(* deposit.late_detected or transfer.detected; a late transfer is settled now *)
Announce ==
  LET j == job[Worker] IN
  /\ pc[Worker] = "announce"
  /\ IF j.late
       THEN /\ Enqueue("deposit.late_detected", j.log)
            /\ Goto(Worker, "settle")
            /\ UNCHANGED job
       ELSE /\ Enqueue("transfer.detected", j.log)
            /\ Done(Worker, "scan")
  /\ UNCHANGED <<chainVars, requestVars, transferVars, reviewVars, swept, cursor, todo, to, aborts>>

(* ensureSettlement: a direct transfer is settled at once, one into a        *)
(* temporary wallet is Settlement's from here on                             *)
Settle ==
  LET l == job[Worker].log IN
  /\ pc[Worker] = "settle"
  /\ settled' = IF payer[l] \in Direct THEN settled \union {l} ELSE settled
  /\ Done(Worker, IF transfer[l] = "late" THEN "scan" ELSE "confirm")
  /\ UNCHANGED <<chainVars, requestVars, transfer, payer, reviewVars, swept, cursor, outbox, todo, to, aborts>>

(* matchDirectTreasuryTransfer: getSweepByTxHash and its to_address *)
CheckSweep ==
  LET l == job[Worker].log IN
  /\ pc[Worker] = "sweep_check"
  /\ IF l \in swept THEN Done(Worker, "scan")
     ELSE Goto(Worker, "list") /\ UNCHANGED job
  /\ UNCHANGED <<chainVars, dbVars, todo, to, aborts>>

(* match_status = pending *)
Pending(r) == match[r] = NoLog

(* listDepositAddresses, active and pending, and the tolerance filter *)
Candidates(l) == {r \in Fits[l] : request[r] = "active" /\ Pending(r)}

ListOpen ==
  /\ pc[Worker] = "list"
  /\ job' = [job EXCEPT ![Worker].found = Candidates(job[Worker].log)]
  /\ Goto(Worker, "record")
  /\ UNCHANGED <<chainVars, dbVars, todo, to, aborts>>

(* createTreasuryTransferIfNotExists unless exactly one candidate was found *)
RecordReview ==
  LET j == job[Worker] IN
  /\ pc[Worker] = "record"
  /\ Cardinality(j.found) # 1
  /\ InsertReview(j.log, IF j.found = {} THEN "unmatched" ELSE "ambiguous")
  /\ Done(Worker, "scan")
  /\ UNCHANGED <<chainVars, requestVars, transferVars, reviewed, swept, cursor, outbox, todo, to, aborts>>

(* createTokenTransferIfNotExists for the one candidate *)
RecordMatch ==
  LET j == job[Worker] IN
  /\ pc[Worker] = "record"
  /\ \E r \in j.found :
       /\ j.found = {r}
       /\ InsertTransfer(j.log, r, "detected")
       /\ IF Created(j.log)
            THEN /\ job' = [job EXCEPT ![Worker].request = r]
                 /\ Goto(Worker, "mark")
            ELSE Done(Worker, "scan")
  /\ UNCHANGED <<chainVars, requestVars, settled, reviewVars, swept, cursor, outbox, todo, to, aborts>>

(* markDepositAddressMatched, match source auto *)
Mark ==
  LET j == job[Worker] IN
  /\ pc[Worker] = "mark"
  /\ MarkMatched(j.request, j.log)
  /\ Goto(Worker, "settle_match")
  /\ UNCHANGED <<chainVars, transferVars, reviewVars, swept, cursor, outbox, job, todo, to, aborts>>

(* updateTransferSettlement settled *)
SettleMatch ==
  /\ pc[Worker] = "settle_match"
  /\ settled' = settled \union {job[Worker].log}
  /\ Goto(Worker, "announce_match")
  /\ UNCHANGED <<chainVars, requestVars, transfer, payer, reviewVars, swept, cursor, outbox, job, todo, to, aborts>>

(* transfer.detected of an automatic match *)
AnnounceMatch ==
  /\ pc[Worker] = "announce_match"
  /\ Enqueue("transfer.detected", job[Worker].log)
  /\ Done(Worker, "scan")
  /\ UNCHANGED <<chainVars, requestVars, transferVars, reviewVars, swept, cursor, todo, to, aborts>>

(* upsertChainCursor after the last log; another tick scans the next window. *)
(* Then listTransfersReadyForConfirmation.                                   *)
SaveCursor ==
  /\ pc[Worker] = "scan"
  /\ todo = {}
  /\ cursor' = to
  /\ to' = 0
  /\ todo' = Ready
  /\ Goto(Worker, "confirm")
  /\ UNCHANGED <<chainVars, requestVars, transferVars, reviewVars, swept, outbox, job, aborts>>

(* markTransferConfirmed *)
Confirm(l) ==
  /\ pc[Worker] = "confirm"
  /\ l \in todo
  /\ todo' = todo \ {l}
  /\ transfer' = [transfer EXCEPT ![l] = "confirmed"]
  /\ job' = [job EXCEPT ![Worker] = [NoJob EXCEPT !.log = l]]
  /\ Goto(Worker, "announce_confirmed")
  /\ UNCHANGED <<chainVars, requestVars, payer, settled, reviewVars, swept, cursor, outbox, to, aborts>>

(* deposit.confirmed *)
AnnounceConfirmed ==
  /\ pc[Worker] = "announce_confirmed"
  /\ Enqueue("deposit.confirmed", job[Worker].log)
  /\ Goto(Worker, "settle")
  /\ UNCHANGED <<chainVars, requestVars, transferVars, reviewVars, swept, cursor, job, todo, to, aborts>>

(* Receipts and wallet transactions follow; the tick ends *)
EndTick ==
  /\ pc[Worker] = "confirm"
  /\ todo = {}
  /\ Goto(Worker, "rest")
  /\ UNCHANGED <<chainVars, dbVars, job, todo, to, aborts>>

WorkerStep ==
  \/ Expire \/ StartScan \/ SaveCursor \/ EndTick
  \/ \E r \in Requests : AnnounceExpired(r)
  \/ \E l \in Logs : Lookup(l) \/ Confirm(l)
  \/ Insert \/ Announce \/ Settle
  \/ CheckSweep \/ ListOpen \/ RecordReview \/ RecordMatch
  \/ Mark \/ SettleMatch \/ AnnounceMatch \/ AnnounceConfirmed

-------------------------------------------------------------------------------
(***************************************************************************)
(* The API: requests are created and closed, treasury transfers matched.   *)
(***************************************************************************)

(* createDepositAddress, the insert *)
CreateRequest(r) ==
  /\ request[r] = "none"
  /\ request' = [request EXCEPT ![r] = "active"]
  /\ UNCHANGED <<chainVars, match, transferVars, reviewVars, swept, cursor, outbox, procVars, aborts>>

(* closeDepositAddress: the update is conditional on status active, and the  *)
(* check before it refuses nothing the update would accept                   *)
Close(r) ==
  /\ request[r] = "active"
  /\ request' = [request EXCEPT ![r] = "closed"]
  /\ UNCHANGED <<chainVars, match, transferVars, reviewVars, swept, cursor, outbox, procVars, aborts>>

(* matchTreasuryTransfer: the treasury transfer exists and is not matched *)
StartMatch(o, l, r) ==
  /\ pc[o] = "rest"
  /\ review[l] \in {"unmatched", "ambiguous"}
  /\ job' = [job EXCEPT ![o] = [NoJob EXCEPT !.log = l, !.request = r]]
  /\ Goto(o, "check_request")
  /\ UNCHANGED <<chainVars, dbVars, todo, to, aborts>>

(* The request exists, is direct, of this treasury, and pending; it need not *)
(* be active                                                                 *)
CheckRequest(o) ==
  LET r == job[o].request IN
  /\ pc[o] = "check_request"
  /\ IF r \in Direct /\ request[r] # "none" /\ Pending(r)
       THEN Goto(o, "check_transfer") /\ UNCHANGED job
       ELSE Done(o, "rest")
  /\ UNCHANGED <<chainVars, dbVars, todo, to, aborts>>

(* existing && existing.depositAddressId !== depositAddress.id *)
AttachedElsewhere(l, r) == transfer[l] # "none" /\ payer[l] # r

(* getTokenTransferByChainLog *)
CheckTransfer(o) ==
  LET j == job[o] IN
  /\ pc[o] = "check_transfer"
  /\ \/ /\ AttachedElsewhere(j.log, j.request)
        /\ Done(o, "rest")
     \/ /\ ~AttachedElsewhere(j.log, j.request)
        /\ job' = [job EXCEPT ![o].updates = Updates]
        /\ Goto(o, IF transfer[j.log] = "none" THEN "create" ELSE "update")
  /\ UNCHANGED <<chainVars, dbVars, todo, to, aborts>>

(* createTokenTransferIfNotExists, confirmed; what it returns is not checked *)
CreateTransfer(o) ==
  LET j == job[o] IN
  /\ pc[o] = "create"
  /\ InsertTransfer(j.log, j.request, "confirmed")
  /\ job' = [job EXCEPT ![o].created = Created(j.log)]
  /\ Goto(o, "update")
  /\ UNCHANGED <<chainVars, requestVars, settled, reviewVars, swept, cursor, outbox, todo, to, aborts>>

(* Promise.all: three updates of three tables, in any order *)
Update(o, u) ==
  LET j == job[o] IN
  /\ pc[o] = "update"
  /\ u \in j.updates
  /\ IF u = "request" THEN MarkMatched(j.request, j.log) ELSE UNCHANGED requestVars
  /\ IF u = "review" THEN SetReview(j.log, "matched", j.request) ELSE UNCHANGED reviewVars
  /\ settled' = IF u = "settlement" THEN settled \union {j.log} ELSE settled
  /\ IF j.updates = {u} /\ ~j.created
       THEN Done(o, "rest")
       ELSE /\ job' = [job EXCEPT ![o].updates = j.updates \ {u}]
            /\ Goto(o, IF j.updates = {u} THEN "announce" ELSE "update")
  /\ UNCHANGED <<chainVars, transfer, payer, swept, cursor, outbox, todo, to, aborts>>

(* transfer.detected, then deposit.confirmed, if this call made the row *)
AnnounceManual(o) ==
  /\ \/ /\ pc[o] = "announce"
        /\ Enqueue("transfer.detected", job[o].log)
        /\ Goto(o, "announce_confirmed")
        /\ UNCHANGED job
     \/ /\ pc[o] = "announce_confirmed"
        /\ Enqueue("deposit.confirmed", job[o].log)
        /\ Done(o, "rest")
  /\ UNCHANGED <<chainVars, requestVars, transferVars, reviewVars, swept, cursor, todo, to, aborts>>

MatchStep(o) ==
  \/ CheckRequest(o) \/ CheckTransfer(o) \/ CreateTransfer(o)
  \/ \E u \in Updates : Update(o, u)
  \/ AnnounceManual(o)

-------------------------------------------------------------------------------
(***************************************************************************)
(* Payers, the chain, time and failures.                                   *)
(***************************************************************************)

(* A temporary address is known once its request exists; a sweep of ours     *)
(* follows a transfer into a temporary wallet.                               *)
Payable(l) ==
  /\ block[l] = 0
  /\ IF l \in Sweeps
       THEN \E d \in Logs : transfer[d] \in {"late", "confirmed"} /\ payer[d] \notin Direct
       ELSE Recipient[l] = Treasury \/ request[Recipient[l]] # "none"

(* The next confirmed block and the transfers in it                          *)
NewBlock ==
  /\ head < MaxHead
  /\ head' = head + 1
  /\ \E new \in SUBSET {l \in Logs \ Sweeps : Payable(l)} :
       block' = [l \in Logs |-> IF l \in new THEN head + 1 ELSE block[l]]
  /\ UNCHANGED <<due, dbVars, procVars, aborts>>

(* Settlement's Send and Record: the row of a sweep is there long before its *)
(* block is confirmations deep, unless the process dies between the two      *)
Sweep(s) ==
  /\ s \in Sweeps /\ Payable(s)
  /\ head < MaxHead
  /\ head' = head + 1
  /\ block' = [block EXCEPT ![s] = head + 1]
  /\ \/ swept' = swept \union {s} /\ UNCHANGED aborts
     \/ aborts < MaxAborts /\ aborts' = aborts + 1 /\ UNCHANGED swept
  /\ UNCHANGED <<due, requestVars, transferVars, reviewVars, cursor, outbox, procVars>>

(* expiresAt passes *)
Deadline(r) ==
  /\ request[r] # "none" /\ r \notin due
  /\ due' = due \union {r}
  /\ UNCHANGED <<head, block, dbVars, procVars, aborts>>

(* A crash and restart, or an exception that leaves runOnce or the handler *)
Abort(p) ==
  /\ pc[p] # "rest"
  /\ aborts < MaxAborts
  /\ aborts' = aborts + 1
  /\ Done(p, "rest")
  /\ IF p = Worker THEN todo' = {} /\ to' = 0 ELSE UNCHANGED <<todo, to>>
  /\ UNCHANGED <<chainVars, dbVars>>

Next ==
  \/ WorkerStep
  \/ \E o \in Owners : MatchStep(o)
  \/ \E o \in Owners, l \in Logs, r \in Requests : StartMatch(o, l, r)
  \/ \E r \in Requests : CreateRequest(r) \/ Close(r) \/ Deadline(r)
  \/ \E s \in Sweeps : Sweep(s)
  \/ NewBlock
  \/ \E p \in Procs : Abort(p)

Spec == Init /\ [][Next]_vars

(* The worker ticks for ever and a request that runs goes on. Nobody has to  *)
(* create, close, pay or match, and no block has to come.                    *)
Fairness == WF_vars(WorkerStep) /\ \A o \in Owners : WF_vars(MatchStep(o))

FairSpec == Spec /\ Fairness
-------------------------------------------------------------------------------
(***************************************************************************)
(* Properties.                                                             *)
(***************************************************************************)
Labels == { "rest", "expire", "scan", "insert", "announce", "settle", "sweep_check",
            "list", "record", "mark", "settle_match", "announce_match", "confirm",
            "announce_confirmed",
            "check_request", "check_transfer", "create", "update" }
Jobs == [log: Logs \union {NoLog}, request: Requests \union {NoRequest}, late: BOOLEAN,
         found: SUBSET Direct, created: BOOLEAN, updates: SUBSET Updates]
Events == [type: {"expired"}, subject: Requests] \union
          [type: {"transfer.detected", "deposit.late_detected", "deposit.confirmed"},
           subject: Logs]

(* Every variable holds a value of its column or local variable, and neither *)
(* the cursor nor the window of a scan runs ahead of the confirmed head.     *)
TypeOK ==
  /\ head \in Nat
  /\ block \in [Logs -> 0 .. head]
  /\ due \subseteq Requests
  /\ request \in [Requests -> {"none", "active", "expired", "closed", "completed"}]
  /\ match \in [Requests -> Logs \union {NoLog}]
  /\ transfer \in [Logs -> {"none", "detected", "late", "confirmed"}]
  /\ payer \in [Logs -> Requests \union {NoRequest}]
  /\ settled \subseteq Logs
  /\ review \in [Logs -> {"none", "unmatched", "ambiguous", "matched"}]
  /\ reviewed \in [Logs -> Requests \union {NoRequest}]
  /\ swept \subseteq Sweeps
  /\ cursor \in 0 .. head
  /\ outbox \subseteq Events
  /\ pc \in [Procs -> Labels]
  /\ job \in [Procs -> Jobs]
  /\ todo \subseteq Requests \union Logs
  /\ to \in 0 .. head
  /\ aborts \in Nat

Recorded(l) == transfer[l] # "none" \/ review[l] # "none" \/ l \in swept

(* No payment is lost: whatever the cursor has passed has a token transfer,  *)
(* waits for review, or is a sweep of ours, although the worker may die      *)
(* between any two statements and scans the window again.                    *)
NothingLost == \A l \in Logs : block[l] \in 1 .. cursor => Recorded(l)

(* No callback about a payment or an expiry is enqueued twice: a rescan of   *)
(* the same logs announces nothing it has announced before.                  *)
NothingAnnouncedTwice ==
  /\ pc[Worker] = "expire" => \A r \in todo : Event("expired", r) \notin outbox
  /\ \A p \in Procs :
       LET l == job[p].log IN
       /\ pc[p] \in {"announce", "announce_match"} =>
            /\ Event("transfer.detected", l) \notin outbox
            /\ Event("deposit.late_detected", l) \notin outbox
       /\ pc[p] = "announce_confirmed" => Event("deposit.confirmed", l) \notin outbox

(* What a callback said stays true: confirmed is not taken back, a late      *)
(* transfer is never confirmed as well, and a request that was reported      *)
(* expired is expired or was matched since.                                  *)
AnnouncementsStayTrue ==
  \A e \in outbox :
    /\ e.type = "expired" => request[e.subject] \in {"expired", "completed"}
    /\ e.type = "transfer.detected" => transfer[e.subject] \in {"detected", "confirmed"}
    /\ e.type = "deposit.late_detected" => transfer[e.subject] = "late"
    /\ e.type = "deposit.confirmed" => transfer[e.subject] = "confirmed"

(* A payment credited to a request stays credited to it: neither a rescan    *)
(* nor a manual match moves the transfer to another request, and late and    *)
(* confirmed are final.                                                      *)
CreditIsFinal ==
  [][\A l \in Logs : transfer[l] # "none" =>
       /\ payer'[l] = payer[l]
       /\ transfer[l] # "detected" => transfer'[l] = transfer[l]]_vars

(* A payment is not credited and waiting for review at the same time, but    *)
(* for a manual match that is not through yet: nobody is asked to match what *)
(* already belongs to a request, unless a match was cut off.                 *)
CreditedIsReviewed ==
  aborts = 0 =>
    \A l \in Logs : transfer[l] # "none" /\ review[l] \in {"unmatched", "ambiguous"} =>
      \E o \in Owners : job[o].log = l /\ "review" \in job[o].updates

(* Reviews and own sweeps are put aside; what lies up to the cursor is passed *)
Merchants == INSTANCE Credits WITH
  aside <- {l \in Logs : review[l] # "none"} \union swept,
  passed <- {l \in Logs : block[l] \in 1 .. cursor},
  said <- outbox, cuts <- aborts

(* Worker, manual matches and crashes together keep what merchants are        *)
(* promised: no rescan, late match or restart takes a credit back, skips a    *)
(* payment or sends a callback twice, untruly or out of order.                *)
KeepsCredits == Merchants!Promise

(* A transfer of a direct request is settled in the end, without a sweep,    *)
(* whichever of the three paths attached it, when nothing was cut off.       *)
DirectIsSettled ==
  \A l \in Logs : payer[l] \in Direct ~> l \in settled \/ aborts > 0

(* Each payment has its callback in the end: detected or late, whichever of  *)
(* the worker and the API attached it, when nothing was cut off.             *)
PaymentIsAnnounced ==
  \A l \in Logs : transfer[l] # "none" ~>
    \/ Event("transfer.detected", l) \in outbox
    \/ Event("deposit.late_detected", l) \in outbox
    \/ aborts > 0

(* docs/CALLBACKS.md, wallet.expired: "Sent once when the worker moves a     *)
(* temporary deposit address from active to expired." It takes a tick that   *)
(* is not cut off between the update and its events.                         *)
ExpiryIsAnnounced ==
  \A r \in Requests :
    request[r] = "expired" ~> Event("expired", r) \in outbox \/ aborts > 0

(* docs/FLOWS.md, Flow Notes: "Out-of-tolerance and ambiguous transfers are  *)
(* stored in treasury_transfers for dashboard or merchant API manual         *)
(* matching." A payment credited to a direct request it does not fit was     *)
(* reviewed by someone.                                                      *)
OutOfToleranceIsReviewed ==
  \A l \in Logs : payer[l] \in Direct /\ payer[l] \notin Fits[l] => review[l] # "none"
===============================================================================
