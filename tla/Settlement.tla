------------------------------ MODULE Settlement ------------------------------
(***************************************************************************)
(* The settlement state machine of the gateway (settlement-service.ts),    *)
(* as the worker's tick and the dashboard's "Retry Settlement" run it.     *)
(*                                                                         *)
(* Every awaited call on the database or on the chain is one action of the *)
(* process that makes it, so that the two processes, which share nothing   *)
(* but Postgres and the chain, interleave wherever the code awaits.  What  *)
(* a process holds between two awaits is in pc[p] and job[p]; a crash or   *)
(* an uncaught exception (Abort) loses exactly that.                       *)
(*                                                                         *)
(* Gas top-ups and sweeps run through the same steps (number, send,        *)
(* record, mark, notify; catch, fail, notify): job[p].kind says which.     *)
(***************************************************************************)
EXTENDS Naturals, Sequences, FiniteSets

CONSTANTS Transfers,   \* token transfers that may reach the gateway
          Direct,      \* those that belong to a direct_treasury request
          Wallets,     \* temporary deposit wallets
          WalletOf,    \* the wallet a transfer pays into
          Worker,      \* the one worker process
          Owners,      \* dashboard requests that may run at the same time
          Faults,      \* what may go wrong, a subset of FaultKinds
          MaxRetries,  \* bound: "Retry Settlement" requests for one transfer
          MaxAborts    \* bound: crashes and uncaught exceptions

FaultKinds ==
  { "send",      \* the RPC refuses the transaction, or no gas wallet key
    "lost",      \* the transaction is broadcast but the call throws
    "db",        \* a statement inside the try block fails
    "revert",    \* a transaction reverts on chain
    "config",    \* no private key stored, or network or token not enabled
    "treasury" } \* no treasury wallet found

ASSUME SettlementAssumption ==
  /\ Direct \subseteq Transfers
  /\ WalletOf \in [Transfers -> Wallets]
  /\ Worker \notin Owners
  /\ Faults \subseteq FaultKinds
  /\ MaxRetries \in Nat
  /\ MaxAborts \in Nat

Procs == {Worker} \union Owners
Kinds == {"gas_top_up", "sweep"}
Subjects == Kinds \union {"transfer"}
Items == [subject: Subjects, transfer: Transfers, number: Nat]

VARIABLES
  (* The chain. *)
  tokens,      \* tokens[w]: token balance of a deposit wallet
  gas,         \* gas[w]: its native balance is at least minGasWei
  chain,       \* the transactions the gateway broadcast, oldest first
  (* Postgres. *)
  status,      \* status[t]: token_transfers.status, "unpaid" and "paid" before the row
  settlement,  \* settlement[t]: settlement_status and settlement_step
  attempts,    \* rows of gas_top_ups and sweeps
  outbox,      \* webhook events enqueued
  (* The processes. *)
  pc, job,     \* where each process is, and its local variables
  phase, todo, \* the worker's place in runOnce, and the list it is walking
  (* History and bounds. *)
  retries,     \* retries[t]: owner retries of t so far
  aborts

chainVars == <<tokens, gas, chain>>
dbVars == <<status, settlement, attempts, outbox>>
procVars == <<pc, job, phase, todo>>
historyVars == <<retries, aborts>>
vars == <<chainVars, dbVars, procVars, historyVars>>

Statuses == {"unpaid", "paid", "detected", "late", "confirmed"}
Settlements == [status: {"pending", "submitted", "settled"}, step: Kinds \union {"none"}]
Attempts == [kind: Kinds, transfer: Transfers, number: Nat \ {0},
             status: {"submitted", "confirmed", "failed"}, tx: Nat]
Transactions == [kind: Kinds, wallet: Wallets, amount: Nat,
                 outcome: {"pending", "success", "reverted"}]
Events == [subject: Subjects, transfer: Transfers, number: Nat,
           status: {"detected", "late", "submitted", "confirmed", "failed"}]

Labels == { "rest", "announce",                                 \* callers
            "gate", "gas_check", "token_check", "refuse",       \* ensureSettlement
            "number", "send", "record", "mark", "notify",
            "catch", "fail", "notify_failed",
            "receipt_write", "receipt_notify" }                 \* confirm...

NoTransfer == "no transfer"
NoJob == [transfer |-> NoTransfer, seen |-> "pending", force |-> FALSE,
          kind |-> "none", number |-> 0, amount |-> 0, tx |-> 0]
Jobs == [transfer: Transfers \union {NoTransfer}, seen: {"pending", "submitted", "settled"},
         force: BOOLEAN, kind: Kinds \union {"none"}, number: Nat, amount: Nat, tx: Nat]

-------------------------------------------------------------------------------
Init ==
  /\ tokens = [w \in Wallets |-> 0]
  /\ gas \in [Wallets -> BOOLEAN]
  /\ chain = <<>>
  /\ status = [t \in Transfers |-> "unpaid"]
  /\ settlement = [t \in Transfers |-> [status |-> "pending", step |-> "none"]]
  /\ attempts = {}
  /\ outbox = {}
  /\ pc = [p \in Procs |-> "rest"]
  /\ job = [p \in Procs |-> NoJob]
  /\ phase = "scan"
  /\ todo = {}
  /\ retries = [t \in Transfers |-> 0]
  /\ aborts = 0

(***************************************************************************)
(* Rows of gas_top_ups and sweeps.                                         *)
(***************************************************************************)
Numbers(k, t) == {a.number : a \in {b \in attempts : b.kind = k /\ b.transfer = t}}

(* attemptNumber of getLatestGasTopUpByTransfer / getLatestSweepByTransfer ?? 0 *)
LatestNumber(k, t) ==
  IF Numbers(k, t) = {} THEN 0
  ELSE CHOOSE n \in Numbers(k, t) : \A m \in Numbers(k, t) : m <= n

(* Mutant: without the unique index. *)
TakenNever(p) == FALSE

(* The unique index on (transfer_id, attempt_number) refuses the row of job[p]. *)
Taken(p) == job[p].number \in Numbers(job[p].kind, job[p].transfer)

(* createGasTopUp / createSweep *)
InsertAttempt(p, st, tx) ==
  attempts' = attempts \union
    {[kind |-> job[p].kind, transfer |-> job[p].transfer,
      number |-> job[p].number, status |-> st, tx |-> tx]}

(* Mutant: a submitted settlement is only overwritten by settled. *)
SetSettlementGuarded(t, st, step) ==
  settlement' = IF settlement[t].status = "submitted" /\ st = "pending" THEN settlement
                ELSE [settlement EXCEPT ![t] = [status |-> st, step |-> step]]

(* updateTransferSettlement: no condition on the status it overwrites *)
SetSettlement(t, st, step) ==
  settlement' = [settlement EXCEPT ![t] = [status |-> st, step |-> step]]

(* enqueueMerchantEvent, the event type written as subject and status; a      *)
(* callback is configured and every event enabled                             *)
Enqueue(subject, t, n, st) ==
  outbox' = outbox \union
    {[subject |-> subject, transfer |-> t, number |-> n, status |-> st]}

Goto(p, l) == pc' = [pc EXCEPT ![p] = l]

(* The end of ensureSettlement or of one turn of a worker loop. *)
Return(p) ==
  /\ Goto(p, "rest")
  /\ job' = [job EXCEPT ![p] = NoJob]
  /\ UNCHANGED <<phase, todo>>

(* An exception nobody catches below the tick, or below the HTTP handler. *)
Throw(p) ==
  /\ Goto(p, "rest")
  /\ job' = [job EXCEPT ![p] = NoJob]
  /\ IF p = Worker
       THEN phase' = "scan" /\ todo' = {}
       ELSE UNCHANGED <<phase, todo>>

-------------------------------------------------------------------------------
(***************************************************************************)
(* ensureSettlement, one action per await.                                 *)
(***************************************************************************)

(* The snapshot's early return, then the deposit row, which never changes. *)
Gate(p) ==
  LET j == job[p] IN
  /\ pc[p] = "gate"
  /\ UNCHANGED <<chainVars, status, attempts, outbox, historyVars>>
  /\ \/ /\ j.seen = "settled" \/ (j.seen = "submitted" /\ ~j.force)
        /\ Return(p)
        /\ UNCHANGED settlement
     \/ /\ j.seen = "pending" \/ (j.seen = "submitted" /\ j.force)
        /\ \/ /\ j.transfer \in Direct
              /\ SetSettlement(j.transfer, "settled", "none")
              /\ Return(p)
           \/ /\ j.transfer \notin Direct
              /\ "config" \in Faults
              /\ Goto(p, "refuse")
              /\ job' = [job EXCEPT ![p].kind = "none"]
              /\ UNCHANGED <<settlement, phase, todo>>
           \/ /\ j.transfer \notin Direct
              /\ Goto(p, "gas_check")
              /\ UNCHANGED <<settlement, job, phase, todo>>

(* getNativeBalance: below minGasWei goes to submitGasTopUp *)
GasCheck(p) ==
  LET k == IF gas[WalletOf[job[p].transfer]] THEN "sweep" ELSE "gas_top_up" IN
  /\ pc[p] = "gas_check"
  /\ job' = [job EXCEPT ![p].kind = k]
  /\ Goto(p, IF k = "sweep" THEN "token_check" ELSE "number")
  /\ UNCHANGED <<chainVars, dbVars, phase, todo, historyVars>>

(* Mutant: one unit is not worth a sweep. *)
SweepableOffByOne(balance) == balance > 1

(* The complement of tokenBalance <= 0n *)
Sweepable(balance) == balance > 0

(* the treasury wallet, then getTokenBalance: the sweep takes all of it *)
TokenCheck(p) ==
  LET balance == tokens[WalletOf[job[p].transfer]] IN
  /\ pc[p] = "token_check"
  /\ \/ /\ "treasury" \in Faults \/ ~Sweepable(balance)
        /\ Goto(p, "refuse")
        /\ UNCHANGED job
     \/ /\ Sweepable(balance)
        /\ job' = [job EXCEPT ![p].amount = balance]
        /\ Goto(p, "number")
  /\ UNCHANGED <<chainVars, dbVars, phase, todo, historyVars>>

(* markSettlementFailure on a path that records no attempt and no event *)
Refuse(p) ==
  /\ pc[p] = "refuse"
  /\ SetSettlement(job[p].transfer, "pending", job[p].kind)
  /\ Return(p)
  /\ UNCHANGED <<chainVars, status, attempts, outbox, historyVars>>

(* attemptNumber = latest + 1, read before the transaction is sent *)
Number(p) ==
  /\ pc[p] = "number"
  /\ job' = [job EXCEPT ![p].number = LatestNumber(job[p].kind, job[p].transfer) + 1]
  /\ Goto(p, "send")
  /\ UNCHANGED <<chainVars, dbVars, phase, todo, historyVars>>

Broadcast(p) ==
  chain' = Append(chain, [kind |-> job[p].kind, wallet |-> WalletOf[job[p].transfer],
                          amount |-> job[p].amount, outcome |-> "pending"])

(* sendNativeTransfer / sendTokenTransfer *)
Send(p) ==
  /\ pc[p] = "send"
  /\ \/ /\ Broadcast(p)
        /\ job' = [job EXCEPT ![p].tx = Len(chain) + 1]
        /\ Goto(p, "record")
     \/ /\ "send" \in Faults
        /\ Goto(p, "catch")
        /\ UNCHANGED <<chain, job>>
     \/ /\ "lost" \in Faults
        /\ Broadcast(p)
        /\ Goto(p, "catch")
        /\ UNCHANGED job
  /\ UNCHANGED <<tokens, gas, dbVars, phase, todo, historyVars>>

(* createGasTopUp / createSweep with status submitted *)
Record(p) ==
  /\ pc[p] = "record"
  /\ \/ /\ ~Taken(p)
        /\ InsertAttempt(p, "submitted", job[p].tx)
        /\ Goto(p, "mark")
     \/ /\ Taken(p) \/ "db" \in Faults
        /\ Goto(p, "catch")
        /\ UNCHANGED attempts
  /\ UNCHANGED <<chainVars, status, settlement, outbox, job, phase, todo, historyVars>>

(* updateTransferSettlement submitted *)
Mark(p) ==
  /\ pc[p] = "mark"
  /\ \/ /\ SetSettlement(job[p].transfer, "submitted", job[p].kind)
        /\ Goto(p, "notify")
     \/ /\ "db" \in Faults
        /\ Goto(p, "catch")
        /\ UNCHANGED settlement
  /\ UNCHANGED <<chainVars, status, attempts, outbox, job, phase, todo, historyVars>>

(* gas.topup.submitted / sweep.submitted *)
Notify(p) ==
  LET j == job[p] IN
  /\ pc[p] = "notify"
  /\ \/ /\ Enqueue(j.kind, j.transfer, j.number, "submitted")
        /\ Return(p)
     \/ /\ "db" \in Faults
        /\ Goto(p, "catch")
        /\ UNCHANGED <<outbox, job, phase, todo>>
  /\ UNCHANGED <<chainVars, status, settlement, attempts, historyVars>>

(* the catch block: the same attempt number, without a transaction hash *)
Catch(p) ==
  /\ pc[p] = "catch"
  /\ \/ /\ ~Taken(p)
        /\ InsertAttempt(p, "failed", 0)
        /\ Goto(p, "fail")
        /\ UNCHANGED <<job, phase, todo>>
     \/ /\ Taken(p)
        /\ Throw(p)
        /\ UNCHANGED attempts
  /\ UNCHANGED <<chainVars, status, settlement, outbox, retries, aborts>>

(* markSettlementFailure in the catch block *)
Fail(p) ==
  /\ pc[p] = "fail"
  /\ SetSettlement(job[p].transfer, "pending", job[p].kind)
  /\ Goto(p, "notify_failed")
  /\ UNCHANGED <<chainVars, status, attempts, outbox, job, phase, todo, historyVars>>

(* gas.topup.failed / sweep.failed *)
NotifyFailed(p) ==
  LET j == job[p] IN
  /\ pc[p] = "notify_failed"
  /\ Enqueue(j.kind, j.transfer, j.number, "failed")
  /\ Return(p)
  /\ UNCHANGED <<chainVars, status, settlement, attempts, historyVars>>

EnsureSettlement(p) ==
  \/ Gate(p) \/ GasCheck(p) \/ TokenCheck(p) \/ Refuse(p)
  \/ Number(p) \/ Send(p) \/ Record(p) \/ Mark(p) \/ Notify(p)
  \/ Catch(p) \/ Fail(p) \/ NotifyFailed(p)

-------------------------------------------------------------------------------
(***************************************************************************)
(* The worker's tick: scan, confirmPendingTransfers, confirmGasTopUps,     *)
(* confirmSweeps, and again.                                               *)
(***************************************************************************)
AtRest(ph) == pc[Worker] = "rest" /\ phase = ph

StartJob(p, t, seen, force) ==
  job' = [job EXCEPT ![p] = [NoJob EXCEPT !.transfer = t, !.seen = seen, !.force = force]]

(* One log of the scan: createTokenTransferIfNotExists, created *)
Detect(t) ==
  /\ AtRest("scan")
  /\ status[t] = "paid"
  /\ \E late \in BOOLEAN : status' = [status EXCEPT ![t] = IF late THEN "late" ELSE "detected"]
  /\ StartJob(Worker, t, "pending", FALSE)
  /\ Goto(Worker, "announce")
  /\ UNCHANGED <<chainVars, settlement, attempts, outbox, phase, todo, historyVars>>

(* One row of the confirmation list: markTransferConfirmed returns the row *)
ConfirmTransfer(i) ==
  /\ AtRest("confirm")
  /\ i \in todo
  /\ todo' = todo \ {i}
  /\ status' = [status EXCEPT ![i.transfer] = "confirmed"]
  /\ StartJob(Worker, i.transfer, settlement[i.transfer].status, FALSE)
  /\ Goto(Worker, "announce")
  /\ UNCHANGED <<chainVars, settlement, attempts, outbox, phase, historyVars>>

(* Mutant: a late transfer waits for a confirmation that never comes. *)
SettlesConfirmedOnly(st) == st = "confirmed"

(* What the worker settles at once: late transfers and confirmed ones *)
SettlesNow(st) == st # "detected"

(* transfer.detected, deposit.late_detected or deposit.confirmed; a late    *)
(* or a confirmed transfer goes on to ensureSettlement                      *)
Announce ==
  LET t == job[Worker].transfer IN
  /\ pc[Worker] = "announce"
  /\ Enqueue("transfer", t, 0, status[t])
  /\ IF SettlesNow(status[t])
       THEN Goto(Worker, "gate") /\ UNCHANGED <<job, phase, todo>>
       ELSE Return(Worker)
  /\ UNCHANGED <<chainVars, status, settlement, attempts, historyVars>>

Listed(k, sts) ==
  {[subject |-> k, transfer |-> a.transfer, number |-> a.number] :
     a \in {b \in attempts : b.kind = k /\ b.status \in sts}}

(* Mutant: the confirmed rows are listed again. *)
SubmittedAndConfirmed(k) == Listed(k, {"submitted", "confirmed"})

(* listSubmittedGasTopUps / listSubmittedSweeps *)
Submitted(k) == Listed(k, {"submitted"})

ListedTransfers(sts) ==
  {[subject |-> "transfer", transfer |-> t, number |-> 0] :
     t \in {u \in Transfers : status[u] \in sts}}

(* Mutant: the confirmed transfers are listed again. *)
ReadyAndConfirmed == ListedTransfers({"detected", "confirmed"})

(* listTransfersReadyForConfirmation *)
Ready == ListedTransfers({"detected"})

(* The end of one of the four loops: every log is scanned, the list is empty *)
NextPhase ==
  /\ \/ /\ AtRest("scan")
        /\ \A t \in Transfers : status[t] # "paid"
        /\ phase' = "confirm" /\ todo' = Ready
     \/ /\ AtRest("confirm") /\ todo = {}
        /\ phase' = "gas_top_up" /\ todo' = Submitted("gas_top_up")
     \/ /\ AtRest("gas_top_up") /\ todo = {}
        /\ phase' = "sweep" /\ todo' = Submitted("sweep")
     \/ /\ AtRest("sweep") /\ todo = {}
        /\ phase' = "scan" /\ todo' = {}
  /\ UNCHANGED <<chainVars, dbVars, pc, job, historyVars>>

(* Mutant: any receipt confirms. *)
ResultIgnoresRevert(outcome) == "confirmed"

(* The row status a receipt means *)
Result(outcome) == IF outcome = "success" THEN "confirmed" ELSE "failed"

(* getTransactionReceipt, then updateGasTopUpStatus / updateSweepStatus.    *)
(* A receipt once there stays, so the two awaits are one step.              *)
CheckReceipt(i) ==
  /\ i.subject \in Kinds
  /\ AtRest(i.subject)
  /\ i \in todo
  /\ todo' = todo \ {i}
  /\ \E a \in attempts :
       LET outcome == chain[a.tx].outcome
           result == Result(outcome)
       IN
       /\ a.kind = i.subject /\ a.transfer = i.transfer /\ a.number = i.number
       /\ \/ /\ outcome = "pending"
             /\ UNCHANGED <<attempts, pc, job>>
          \/ /\ outcome # "pending"
             /\ attempts' = (attempts \ {a}) \union {[a EXCEPT !.status = result]}
             /\ job' = [job EXCEPT ![Worker] =
                  [NoJob EXCEPT !.transfer = a.transfer, !.kind = a.kind,
                                !.number = a.number, !.tx = a.tx]]
             /\ Goto(Worker, IF a.kind = "sweep" THEN "receipt_write" ELSE "receipt_notify")
  /\ UNCHANGED <<chainVars, status, settlement, outbox, phase, retries, aborts>>

(* Mutant: any receipt is a success. *)
SucceededAlways(j) == TRUE

(* receipt.status === "success" *)
Succeeded(j) == chain[j.tx].outcome = "success"

(* What the receipt means for the transfer, whatever its settlement is now.  *)
(* A confirmed top-up reads the transfer back and forces ensureSettlement.   *)
ReceiptWrite ==
  LET j == job[Worker] IN
  /\ pc[Worker] = "receipt_write"
  /\ \/ /\ ~Succeeded(j)
        /\ SetSettlement(j.transfer, "pending", j.kind)
     \/ /\ Succeeded(j) /\ j.kind = "sweep"
        /\ SetSettlement(j.transfer, "settled", "none")
     \/ /\ Succeeded(j) /\ j.kind = "gas_top_up"
        /\ SetSettlement(j.transfer, "pending", "sweep")
  /\ \/ /\ j.kind = "sweep"
        /\ Goto(Worker, "receipt_notify")
        /\ UNCHANGED <<job, phase, todo>>
     \/ /\ j.kind = "gas_top_up" /\ ~Succeeded(j)
        /\ Return(Worker)
     \/ /\ j.kind = "gas_top_up" /\ Succeeded(j)
        /\ StartJob(Worker, j.transfer, "pending", TRUE)
        /\ Goto(Worker, "gate")
        /\ UNCHANGED <<phase, todo>>
  /\ UNCHANGED <<chainVars, status, attempts, outbox, historyVars>>

(* gas.topup.confirmed / .failed before the write, sweep.confirmed / .failed after it *)
ReceiptNotify ==
  LET j == job[Worker] IN
  /\ pc[Worker] = "receipt_notify"
  /\ Enqueue(j.kind, j.transfer, j.number, IF Succeeded(j) THEN "confirmed" ELSE "failed")
  /\ IF j.kind = "sweep"
       THEN Return(Worker)
       ELSE Goto(Worker, "receipt_write") /\ UNCHANGED <<job, phase, todo>>
  /\ UNCHANGED <<chainVars, status, settlement, attempts, historyVars>>

WorkerLoop ==
  \/ \E t \in Transfers : Detect(t)
  \/ \E i \in todo : ConfirmTransfer(i) \/ CheckReceipt(i)
  \/ Announce \/ NextPhase \/ ReceiptWrite \/ ReceiptNotify

-------------------------------------------------------------------------------
(***************************************************************************)
(* The owner, the payer, the chain, and failures.                          *)
(***************************************************************************)

(* retryDepositSettlement: only its status check, then a forced settlement *)
Retry(o, t) ==
  /\ pc[o] = "rest"
  /\ status[t] \in {"confirmed", "late"}
  /\ retries[t] < MaxRetries
  /\ retries' = [retries EXCEPT ![t] = @ + 1]
  /\ StartJob(o, t, settlement[t].status, TRUE)
  /\ Goto(o, "gate")
  /\ UNCHANGED <<chainVars, dbVars, phase, todo, aborts>>

(* A payment of one unit, deep enough for the scan to see its log *)
Pay(t) ==
  /\ status[t] = "unpaid"
  /\ status' = [status EXCEPT ![t] = "paid"]
  /\ tokens' = IF t \in Direct THEN tokens
               ELSE [tokens EXCEPT ![WalletOf[t]] = @ + 1]
  /\ UNCHANGED <<gas, chain, settlement, attempts, outbox, procVars, historyVars>>

(* A receipt appears. A sweep needs gas in its wallet to be included, may    *)
(* leave less than minGasWei behind, and reverts when the tokens are gone.   *)
Mine(i) ==
  LET x == chain[i] IN
  /\ x.outcome = "pending"
  /\ \/ /\ x.kind = "gas_top_up"
        /\ \/ /\ chain' = [chain EXCEPT ![i].outcome = "success"]
              /\ gas' = [gas EXCEPT ![x.wallet] = TRUE]
           \/ /\ "revert" \in Faults
              /\ chain' = [chain EXCEPT ![i].outcome = "reverted"]
              /\ UNCHANGED gas
        /\ UNCHANGED tokens
     \/ /\ x.kind = "sweep"
        /\ gas[x.wallet]
        /\ \E left \in BOOLEAN : gas' = [gas EXCEPT ![x.wallet] = left]
        /\ \/ /\ tokens[x.wallet] >= x.amount
              /\ chain' = [chain EXCEPT ![i].outcome = "success"]
              /\ tokens' = [tokens EXCEPT ![x.wallet] = @ - x.amount]
           \/ /\ tokens[x.wallet] < x.amount \/ "revert" \in Faults
              /\ chain' = [chain EXCEPT ![i].outcome = "reverted"]
              /\ UNCHANGED tokens
  /\ UNCHANGED <<dbVars, procVars, historyVars>>

(* A crash and restart of the process, or an exception outside the try block *)
Abort(p) ==
  /\ pc[p] # "rest" \/ (p = Worker /\ phase # "scan")
  /\ aborts < MaxAborts
  /\ aborts' = aborts + 1
  /\ Throw(p)
  /\ UNCHANGED <<chainVars, dbVars, retries>>

WorkerStep == EnsureSettlement(Worker) \/ WorkerLoop

Next ==
  \/ WorkerStep
  \/ \E o \in Owners : EnsureSettlement(o)
  \/ \E o \in Owners, t \in Transfers : Retry(o, t)
  \/ \E t \in Transfers : Pay(t)
  \/ \E i \in DOMAIN chain : Mine(i)
  \/ \E p \in Procs : Abort(p)

Spec == Init /\ [][Next]_vars

(* The worker polls for ever, a request in progress runs on, and the chain   *)
(* includes what can be included. Nobody has to pay or to ask for a retry.   *)
Fairness ==
  /\ WF_vars(WorkerStep)
  /\ \A o \in Owners : WF_vars(EnsureSettlement(o))
  /\ WF_vars(\E i \in DOMAIN chain : Mine(i))

FairSpec == Spec /\ Fairness
-------------------------------------------------------------------------------
(***************************************************************************)
(* Properties.                                                             *)
(***************************************************************************)

(* Every variable holds a value of its column or local variable.             *)
TypeOK ==
  /\ tokens \in [Wallets -> Nat]
  /\ gas \in [Wallets -> BOOLEAN]
  /\ chain \in Seq(Transactions)
  /\ status \in [Transfers -> Statuses]
  /\ settlement \in [Transfers -> Settlements]
  /\ attempts \subseteq Attempts
  /\ outbox \subseteq Events
  /\ pc \in [Procs -> Labels]
  /\ job \in [Procs -> Jobs]
  /\ phase \in {"scan", "confirm", "gas_top_up", "sweep"}
  /\ todo \subseteq Items
  /\ retries \in [Transfers -> Nat]
  /\ aborts \in Nat

(* The attempts of a transfer are numbered 1, 2, ... with one row each,      *)
(* although the worker and a retry read the latest number and insert later:  *)
(* the history an operator sees has no gap and no two rows for one number.   *)
AttemptHistory ==
  \A a \in attempts :
    /\ \A b \in attempts :
         a.kind = b.kind /\ a.transfer = b.transfer /\ a.number = b.number => a = b
    /\ 1 .. a.number \subseteq Numbers(a.kind, a.transfer)

(* A row that names a transaction names one of its own kind and wallet, no   *)
(* other row names it, and the row's status is what the chain answered:      *)
(* confirmed only if it succeeded, failed only if it reverted or was never   *)
(* recorded.                                                                 *)
RowsMatchChain ==
  /\ \A a \in attempts :
       /\ a.status # "failed" => a.tx # 0
       /\ a.tx # 0 =>
            /\ a.tx \in DOMAIN chain
            /\ chain[a.tx].kind = a.kind
            /\ chain[a.tx].wallet = WalletOf[a.transfer]
            /\ a.status = "confirmed" => chain[a.tx].outcome = "success"
            /\ a.status = "failed" => chain[a.tx].outcome = "reverted"
  /\ \A a, b \in attempts : a.tx = b.tx /\ a.tx # 0 => a = b

(* A transfer into a temporary wallet is settled only when one of its own    *)
(* sweeps is confirmed, whatever crashed, raced or was retried before.       *)
SettledBySweep ==
  \A t \in Transfers \ Direct :
    settlement[t].status = "settled" =>
      \E a \in attempts : a.kind = "sweep" /\ a.transfer = t /\ a.status = "confirmed"

(* The money of a settled transfer has left its wallet: when two transfers   *)
(* share a wallet, one sweep never settles both.                             *)
SettledFundsLeft ==
  \A w \in Wallets :
    LET paid == {t \in Transfers \ Direct : WalletOf[t] = w /\ status[t] # "unpaid"}
        settled == {t \in paid : settlement[t].status = "settled"}
    IN tokens[w] + Cardinality(settled) <= Cardinality(paid)

(* Settlement status and rows agree whenever no process works on a transfer, *)
(* as long as nothing crashed and the owner did not step in: "submitted" at  *)
(* a step means exactly that an attempt of that step awaits its receipt, so  *)
(* nothing waits for a receipt that was already consumed.                    *)
SettlementReflectsAttempts ==
  \A t \in Transfers :
    retries[t] = 0 /\ aborts = 0 /\ "db" \notin Faults /\ job[Worker].transfer # t =>
      \A k \in Kinds :
        (settlement[t] = [status |-> "submitted", step |-> k]) <=>
        (\E a \in attempts : a.kind = k /\ a.transfer = t /\ a.status = "submitted")

(* Without the owner, one transfer has one transaction in flight at most,    *)
(* across top-ups and sweeps and across restarts of the worker.              *)
OneInFlight ==
  \A a, b \in attempts :
    /\ a.transfer = b.transfer /\ retries[a.transfer] = 0
    /\ a.status = "submitted" /\ b.status = "submitted"
    => a = b

(* No callback is enqueued twice: an event a process is about to enqueue is  *)
(* not in the outbox yet. Receipts are consumed once, attempts are notified  *)
(* by the process that inserted them only.                                   *)
NoDuplicateEvent ==
  \A p \in Procs :
    LET said(s) == [subject |-> job[p].kind, transfer |-> job[p].transfer,
                    number |-> job[p].number, status |-> s] \in outbox
    IN /\ pc[p] = "notify" => ~said("submitted")
       /\ pc[p] = "notify_failed" => ~said("failed")
       /\ pc[p] = "receipt_notify" => ~said("confirmed") /\ ~said("failed")

(* An event about an attempt says what its row says: nothing is reported     *)
(* confirmed and failed, and nothing is reported that was not recorded.      *)
EventsMatchRows ==
  \A e \in outbox : e.subject \in Kinds =>
    \E a \in attempts :
      /\ a.kind = e.subject /\ a.transfer = e.transfer /\ a.number = e.number
      /\ IF e.status = "submitted" THEN a.tx # 0 ELSE a.status = e.status

(* The worker alone never makes an attempt after a failed one, of either     *)
(* kind, over any sequence of ticks, receipts and restarts.                  *)
FailureNeedsOwner ==
  [][\A a \in attempts :
       a.status = "failed" /\ retries[a.transfer] = 0
       => {b \in attempts' : b.transfer = a.transfer}
            = {b \in attempts : b.transfer = a.transfer}]_vars

(* Every payment into an address of its own, late ones too, is settled in     *)
(* the end, over gas top-up, sweep and their receipts, with nobody's help, or *)
(* there is a failed attempt for the owner to act on: a transfer never just   *)
(* stays where it is. docs/CALLBACKS.md, deposit.late_detected: "The worker   *)
(* still attempts gas top-up and sweep for late deposits."                    *)
EventuallySettled ==
  \A t \in Transfers :
    status[t] \in {"paid", "late"} ~>
      \/ settlement[t].status = "settled"
      \/ \E a \in attempts : a.transfer = t /\ a.status = "failed"

(* docs/FLOWS.md, Zero-Gas Behavior: "If the top-up is submitted and later   *)
(* confirmed, the worker retries settlement and submits the token sweep."    *)
ConfirmedTopUpIsSwept ==
  \A t \in Transfers :
    (\E a \in attempts : a.kind = "gas_top_up" /\ a.transfer = t /\ a.status = "confirmed")
    ~> (\E a \in attempts : a.kind = "sweep" /\ a.transfer = t)
===============================================================================
