--------------------------- MODULE SettlementProofs ---------------------------
(***************************************************************************)
(* Theorems about Settlement, for every set of transfers, wallets and      *)
(* owner requests, every subset of the faults and every bound.             *)
(*                                                                         *)
(* RowsInv is what the rows, the chain and the local state of the          *)
(* processes promise each other. A process that reads the latest attempt   *)
(* number or sends a transaction relies, several awaits later, on what it  *)
(* read: ProcOK says how much of it is still true.                         *)
(*                                                                         *)
(* Owed names, for each callback not yet enqueued, its debtor. Stations    *)
(* and Alone are about transfers nobody retried: the worker alone works on *)
(* them, and acts only while every attempt so far is confirmed. Funds      *)
(* follows the money of a wallet, Columns the settlement column of a       *)
(* transfer while nothing disturbs the worker.                             *)
(***************************************************************************)
EXTENDS Settlement, FiniteSetTheorems, TLAPS

-------------------------------------------------------------------------------
(***************************************************************************)
(* Every step preserves the type invariant, and moves the local state of   *)
(* at most one process.                                                    *)
(***************************************************************************)
KindLabels == {"token_check", "number", "send", "record", "mark", "notify", "catch", "fail",
               "notify_failed", "receipt_write", "receipt_notify"}
NumberLabels == KindLabels \ {"token_check", "number"}
ReceiptLabels == {"receipt_write", "receipt_notify"}

(* What a process is sure of where it stands: which of its local variables   *)
(* are set, and that only the worker announces and reads receipts.           *)
LocalOK(p, l, j) ==
  /\ l \in Labels
  /\ j \in Jobs
  /\ l # "rest" => j.transfer \in Transfers
  /\ l \in KindLabels => j.kind \in Kinds
  /\ l \in NumberLabels => j.number # 0
  /\ l \in ReceiptLabels \union {"announce"} => p = Worker

AnnounceOK ==
  pc[Worker] = "announce" => status[job[Worker].transfer] \in {"detected", "late", "confirmed"}

TypeInv ==
  /\ TypeOK
  /\ \A p \in Procs : LocalOK(p, pc[p], job[p])
  /\ AnnounceOK

(* The local state of one process moves, the others keep theirs.             *)
Moves(p) ==
  /\ pc' = [pc EXCEPT ![p] = pc'[p]]
  /\ job' = [job EXCEPT ![p] = job'[p]]

(* The variables that TypeOK speaks of and a step of a process may change,   *)
(* apart from its own local state.                                           *)
SharedOK ==
  /\ tokens \in [Wallets -> Nat]
  /\ gas \in [Wallets -> BOOLEAN]
  /\ chain \in Seq(Transactions)
  /\ status \in [Transfers -> Statuses]
  /\ settlement \in [Transfers -> Settlements]
  /\ attempts \subseteq Attempts
  /\ outbox \subseteq Events
  /\ phase \in {"scan", "confirm", "gas_top_up", "sweep"}
  /\ todo \subseteq Items
  /\ retries \in [Transfers -> Nat]
  /\ aborts \in Nat

-------------------------------------------------------------------------------
LEMMA InitType == Init => TypeInv
  BY DEF Init, TypeInv, TypeOK, LocalOK, AnnounceOK, Statuses, Settlements, Labels, Jobs, NoJob,
         Procs, KindLabels, NumberLabels, ReceiptLabels

LEMMA NoJobOK == \A p \in Procs : LocalOK(p, "rest", NoJob)
  BY DEF LocalOK, Labels, Jobs, NoJob, KindLabels, NumberLabels, ReceiptLabels

LEMMA LocalStep ==
  ASSUME TypeInv, NEW p \in Procs, Moves(p), SharedOK', AnnounceOK',
         LocalOK(p, pc'[p], job'[p])
  PROVE  TypeInv'
<1>1. pc' \in [Procs -> Labels] /\ job' \in [Procs -> Jobs]
  BY DEF TypeInv, TypeOK, Moves, LocalOK
<1>2. \A q \in Procs : LocalOK(q, pc'[q], job'[q])
  <2>. SUFFICES ASSUME NEW q \in Procs, q # p PROVE LocalOK(q, pc'[q], job'[q])
    OBVIOUS
  <2>1. pc'[q] = pc[q] /\ job'[q] = job[q]
    BY DEF Moves, TypeInv, TypeOK
  <2>. QED BY <2>1 DEF TypeInv
<1>. QED BY <1>1, <1>2 DEF TypeInv, TypeOK, SharedOK, LocalOK

LEMMA ReturnStep ==
  ASSUME TypeInv, NEW p \in Procs, Goto(p, "rest"), job' = [job EXCEPT ![p] = NoJob]
  PROVE  Moves(p) /\ LocalOK(p, pc'[p], job'[p]) /\ (p = Worker => AnnounceOK')
<1>1. pc'[p] = "rest" /\ job'[p] = NoJob
  BY DEF Goto, TypeInv, TypeOK
<1>. QED BY <1>1, NoJobOK DEF Moves, Goto, AnnounceOK

LEMMA AnnounceStep ==
  ASSUME TypeInv, NEW p \in Procs, Moves(p), UNCHANGED status, pc'[p] # "announce"
  PROVE  AnnounceOK'
  BY DEF TypeInv, TypeOK, AnnounceOK, Moves, Procs

LEMMA SetSettlementType ==
  ASSUME settlement \in [Transfers -> Settlements], NEW t \in Transfers,
         NEW st \in {"pending", "submitted", "settled"}, NEW step \in Kinds \union {"none"},
         SetSettlement(t, st, step)
  PROVE  settlement' \in [Transfers -> Settlements]
  BY DEF SetSettlement, Settlements

LEMMA EnqueueType ==
  ASSUME outbox \subseteq Events, NEW s \in Subjects, NEW t \in Transfers, NEW n \in Nat,
         NEW st \in {"detected", "late", "submitted", "confirmed", "failed"},
         Enqueue(s, t, n, st)
  PROVE  outbox' \subseteq Events
  BY DEF Enqueue, Events

LEMMA InsertType ==
  ASSUME TypeInv, NEW p \in Procs, pc[p] \in NumberLabels,
         NEW st \in {"submitted", "failed"}, NEW tx \in Nat, InsertAttempt(p, st, tx)
  PROVE  attempts' \subseteq Attempts
<1>1. job[p].transfer \in Transfers /\ job[p].kind \in Kinds /\ job[p].number \in Nat \ {0}
  BY DEF TypeInv, TypeOK, LocalOK, Jobs, NumberLabels, KindLabels
<1>. QED BY <1>1 DEF InsertAttempt, Attempts, TypeInv, TypeOK

LEMMA GateType ==
  ASSUME TypeInv, NEW p \in Procs, Gate(p)
  PROVE  TypeInv' /\ Moves(p)
<1> DEFINE j == job[p]
<1>0. j \in Jobs /\ j.transfer \in Transfers /\ pc \in [Procs -> Labels] /\ job \in [Procs -> Jobs]
  BY DEF TypeInv, TypeOK, LocalOK, Gate
<1>1. settlement' \in [Transfers -> Settlements]
  BY <1>0, SetSettlementType DEF TypeInv, TypeOK, Gate
<1>2. SharedOK'
  BY <1>1 DEF TypeInv, TypeOK, SharedOK, Gate, Return, chainVars, historyVars
<1>3. Moves(p) /\ LocalOK(p, pc'[p], job'[p]) /\ pc'[p] # "announce"
  <2>1. CASE Return(p)
    BY <2>1, ReturnStep, <1>0 DEF Return, Goto
  <2>2. CASE Goto(p, "refuse") /\ job' = [job EXCEPT ![p].kind = "none"]
    BY <2>2, <1>0 DEF Goto, Moves, LocalOK, Labels, Jobs, KindLabels, NumberLabels, ReceiptLabels
  <2>3. CASE Goto(p, "gas_check") /\ UNCHANGED job
    BY <2>3, <1>0 DEF Goto, Moves, LocalOK, Labels, Jobs, KindLabels, NumberLabels, ReceiptLabels
  <2>. QED BY <2>1, <2>2, <2>3 DEF Gate
<1>4. AnnounceOK'
  BY <1>3, AnnounceStep DEF Gate
<1>. QED BY <1>2, <1>3, <1>4, LocalStep

LEMMA GasCheckType ==
  ASSUME TypeInv, NEW p \in Procs, GasCheck(p)
  PROVE  TypeInv' /\ Moves(p)
<1>0. job[p] \in Jobs /\ job[p].transfer \in Transfers /\ pc \in [Procs -> Labels] /\ job \in [Procs -> Jobs]
  BY DEF TypeInv, TypeOK, LocalOK, GasCheck
<1>1. SharedOK'
  BY DEF TypeInv, TypeOK, SharedOK, GasCheck, chainVars, dbVars, historyVars
<1>2. Moves(p) /\ LocalOK(p, pc'[p], job'[p]) /\ pc'[p] # "announce"
  BY <1>0 DEF GasCheck, Goto, Moves, LocalOK, Labels, Jobs, Kinds, KindLabels, NumberLabels, ReceiptLabels
<1>. QED BY <1>1, <1>2, AnnounceStep, LocalStep DEF GasCheck, dbVars

LEMMA TokenCheckType ==
  ASSUME TypeInv, NEW p \in Procs, TokenCheck(p)
  PROVE  TypeInv' /\ Moves(p)
<1>0. job[p] \in Jobs /\ job[p].transfer \in Transfers /\ pc \in [Procs -> Labels] /\ job \in [Procs -> Jobs]
  BY DEF TypeInv, TypeOK, LocalOK, TokenCheck
<1>1. SharedOK'
  BY DEF TypeInv, TypeOK, SharedOK, TokenCheck, chainVars, dbVars, historyVars
<1>2. Moves(p) /\ LocalOK(p, pc'[p], job'[p]) /\ pc'[p] # "announce"
  <2>1. tokens[WalletOf[job[p].transfer]] \in Nat
    BY <1>0, SettlementAssumption DEF TypeInv, TypeOK
  <2>2. CASE Goto(p, "refuse") /\ UNCHANGED job
    BY <2>2, <1>0 DEF Goto, Moves, LocalOK, Labels, KindLabels, NumberLabels, ReceiptLabels
  <2>3. CASE Goto(p, "number") /\ job' = [job EXCEPT ![p].amount = tokens[WalletOf[job[p].transfer]]]
    <3>1. pc'[p] = "number" /\ job'[p] = [job[p] EXCEPT !.amount = tokens[WalletOf[job[p].transfer]]]
      BY <2>3, <1>0 DEF Goto
    <3>2. job'[p] \in Jobs /\ job'[p].transfer = job[p].transfer /\ job'[p].kind = job[p].kind
      BY <3>1, <2>1, <1>0 DEF Jobs
    <3>3. job[p].kind \in Kinds
      BY <1>0 DEF TokenCheck, KindLabels, LocalOK, TypeInv
    <3>4. LocalOK(p, pc'[p], job'[p])
      BY <3>1, <3>2, <3>3, <1>0 DEF LocalOK, Labels, NumberLabels, KindLabels, ReceiptLabels
    <3>. QED BY <2>3, <3>1, <3>4 DEF Moves, Goto
  <2>. QED BY <2>2, <2>3 DEF TokenCheck
<1>. QED BY <1>1, <1>2, AnnounceStep, LocalStep DEF TokenCheck, dbVars

LEMMA RefuseType ==
  ASSUME TypeInv, NEW p \in Procs, Refuse(p)
  PROVE  TypeInv' /\ Moves(p)
<1>0. job[p] \in Jobs /\ pc \in [Procs -> Labels] /\ job \in [Procs -> Jobs] /\ job[p].transfer \in Transfers
  BY DEF TypeInv, TypeOK, LocalOK, Refuse
<1>1. settlement' \in [Transfers -> Settlements]
  BY <1>0, SetSettlementType DEF TypeInv, TypeOK, Refuse, Jobs
<1>2. SharedOK'
  BY <1>1 DEF TypeInv, TypeOK, SharedOK, Refuse, Return, chainVars, historyVars
<1>3. Moves(p) /\ LocalOK(p, pc'[p], job'[p]) /\ pc'[p] # "announce"
  BY <1>0, ReturnStep DEF Refuse, Return, Goto
<1>. QED BY <1>2, <1>3, AnnounceStep, LocalStep DEF Refuse

LEMMA NumberType ==
  ASSUME TypeInv, NEW p \in Procs, Number(p), LatestNumber(job[p].kind, job[p].transfer) \in Nat
  PROVE  TypeInv' /\ Moves(p)
<1>0. job[p] \in Jobs /\ pc \in [Procs -> Labels] /\ job \in [Procs -> Jobs] /\ LocalOK(p, pc[p], job[p])
  BY DEF TypeInv, TypeOK
<1>1. SharedOK'
  BY DEF TypeInv, TypeOK, SharedOK, Number, chainVars, dbVars, historyVars
<1>2. Moves(p) /\ LocalOK(p, pc'[p], job'[p]) /\ pc'[p] # "announce"
  BY <1>0 DEF Number, Goto, Moves, LocalOK, Labels, Jobs, KindLabels, NumberLabels, ReceiptLabels
<1>. QED BY <1>1, <1>2, AnnounceStep, LocalStep DEF Number, dbVars

LEMMA BroadcastType ==
  ASSUME TypeInv, NEW p \in Procs, pc[p] = "send", Broadcast(p)
  PROVE  chain' \in Seq(Transactions) /\ Len(chain') = Len(chain) + 1
<1>1. [kind |-> job[p].kind, wallet |-> WalletOf[job[p].transfer],
       amount |-> job[p].amount, outcome |-> "pending"] \in Transactions
  BY SettlementAssumption
  DEF TypeInv, TypeOK, LocalOK, Jobs, KindLabels, Transactions
<1>. QED BY <1>1 DEF Broadcast, TypeInv, TypeOK

LEMMA SendType ==
  ASSUME TypeInv, NEW p \in Procs, Send(p)
  PROVE  TypeInv' /\ Moves(p)
<1>0. job[p] \in Jobs /\ pc \in [Procs -> Labels] /\ job \in [Procs -> Jobs] /\ LocalOK(p, pc[p], job[p])
  BY DEF TypeInv, TypeOK
<1>1. SharedOK'
  BY BroadcastType DEF TypeInv, TypeOK, SharedOK, Send, dbVars, historyVars
<1>2. Moves(p) /\ LocalOK(p, pc'[p], job'[p]) /\ pc'[p] # "announce"
  <2>1. Len(chain) + 1 \in Nat
    BY DEF TypeInv, TypeOK
  <2>2. CASE Goto(p, "record") /\ job' = [job EXCEPT ![p].tx = Len(chain) + 1]
    <3>1. pc'[p] = "record" /\ job'[p] = [job[p] EXCEPT !.tx = Len(chain) + 1]
      BY <2>2, <1>0 DEF Goto
    <3>2. /\ job'[p] \in Jobs /\ job'[p].transfer = job[p].transfer
          /\ job'[p].kind = job[p].kind /\ job'[p].number = job[p].number
      BY <3>1, <2>1, <1>0 DEF Jobs
    <3>3. LocalOK(p, pc'[p], job'[p])
      BY <3>1, <3>2, <1>0 DEF Send, LocalOK, Labels, NumberLabels, KindLabels, ReceiptLabels
    <3>. QED BY <2>2, <3>1, <3>3 DEF Moves, Goto
  <2>3. CASE Goto(p, "catch") /\ UNCHANGED job
    BY <2>3, <1>0 DEF Send, Goto, Moves, LocalOK, Labels, KindLabels, NumberLabels, ReceiptLabels
  <2>. QED BY <2>2, <2>3 DEF Send
<1>. QED BY <1>1, <1>2, AnnounceStep, LocalStep DEF Send, dbVars

LEMMA RecordType ==
  ASSUME TypeInv, NEW p \in Procs, Record(p)
  PROVE  TypeInv' /\ Moves(p)
<1>0. job[p] \in Jobs /\ pc \in [Procs -> Labels] /\ job \in [Procs -> Jobs] /\ LocalOK(p, pc[p], job[p])
  BY DEF TypeInv, TypeOK
<1>1. attempts' \subseteq Attempts
  BY <1>0, InsertType DEF Record, Jobs, KindLabels, NumberLabels, TypeInv, TypeOK
<1>2. SharedOK'
  BY <1>1 DEF TypeInv, TypeOK, SharedOK, Record, chainVars, historyVars
<1>3. Moves(p) /\ LocalOK(p, pc'[p], job'[p]) /\ pc'[p] # "announce"
  BY <1>0 DEF Record, Goto, Moves, LocalOK, Labels, Jobs, KindLabels, NumberLabels, ReceiptLabels
<1>. QED BY <1>2, <1>3, AnnounceStep, LocalStep DEF Record

LEMMA MarkType ==
  ASSUME TypeInv, NEW p \in Procs, Mark(p)
  PROVE  TypeInv' /\ Moves(p)
<1>0. job[p] \in Jobs /\ pc \in [Procs -> Labels] /\ job \in [Procs -> Jobs] /\ LocalOK(p, pc[p], job[p])
  BY DEF TypeInv, TypeOK
<1>1. settlement' \in [Transfers -> Settlements]
  BY <1>0, SetSettlementType DEF TypeInv, TypeOK, LocalOK, KindLabels, Mark
<1>2. SharedOK'
  BY <1>1 DEF TypeInv, TypeOK, SharedOK, Mark, chainVars, historyVars
<1>3. Moves(p) /\ LocalOK(p, pc'[p], job'[p]) /\ pc'[p] # "announce"
  BY <1>0 DEF Mark, Goto, Moves, LocalOK, Labels, Jobs, KindLabels, NumberLabels, ReceiptLabels
<1>. QED BY <1>2, <1>3, AnnounceStep, LocalStep DEF Mark

LEMMA NotifyType ==
  ASSUME TypeInv, NEW p \in Procs, Notify(p)
  PROVE  TypeInv' /\ Moves(p)
<1>0. job[p] \in Jobs /\ pc \in [Procs -> Labels] /\ job \in [Procs -> Jobs] /\ LocalOK(p, pc[p], job[p])
  BY DEF TypeInv, TypeOK
<1>1. outbox' \subseteq Events
  BY <1>0, EnqueueType DEF TypeInv, TypeOK, LocalOK, KindLabels, Jobs, Subjects, Notify
<1>2. SharedOK'
  BY <1>1 DEF TypeInv, TypeOK, SharedOK, Notify, Return, chainVars, historyVars
<1>3. Moves(p) /\ LocalOK(p, pc'[p], job'[p]) /\ pc'[p] # "announce"
  <2>1. CASE Return(p)
    BY <2>1, <1>0, ReturnStep DEF Return, Goto
  <2>2. CASE Goto(p, "catch") /\ UNCHANGED job
    BY <2>2, <1>0 DEF Notify, Goto, Moves, LocalOK, Labels, Jobs, KindLabels, NumberLabels, ReceiptLabels
  <2>. QED BY <2>1, <2>2 DEF Notify
<1>. QED BY <1>2, <1>3, AnnounceStep, LocalStep DEF Notify

LEMMA CatchType ==
  ASSUME TypeInv, NEW p \in Procs, Catch(p)
  PROVE  TypeInv' /\ Moves(p)
<1>0. job[p] \in Jobs /\ pc \in [Procs -> Labels] /\ job \in [Procs -> Jobs] /\ LocalOK(p, pc[p], job[p])
  BY DEF TypeInv, TypeOK
<1>1. attempts' \subseteq Attempts
  BY <1>0, InsertType DEF Catch, Jobs, KindLabels, NumberLabels, TypeInv, TypeOK
<1>2. SharedOK'
  BY <1>1 DEF TypeInv, TypeOK, SharedOK, Catch, Throw, chainVars, historyVars
<1>3. Moves(p) /\ LocalOK(p, pc'[p], job'[p]) /\ pc'[p] # "announce"
  <2>1. CASE Throw(p)
    BY <2>1, <1>0, ReturnStep DEF Throw, Goto
  <2>2. CASE Goto(p, "fail") /\ UNCHANGED job
    BY <2>2, <1>0 DEF Catch, Goto, Moves, LocalOK, Labels, Jobs, KindLabels, NumberLabels, ReceiptLabels
  <2>. QED BY <2>1, <2>2 DEF Catch
<1>. QED BY <1>2, <1>3, AnnounceStep, LocalStep DEF Catch

LEMMA FailType ==
  ASSUME TypeInv, NEW p \in Procs, Fail(p)
  PROVE  TypeInv' /\ Moves(p)
<1>0. job[p] \in Jobs /\ pc \in [Procs -> Labels] /\ job \in [Procs -> Jobs] /\ LocalOK(p, pc[p], job[p])
  BY DEF TypeInv, TypeOK
<1>1. settlement' \in [Transfers -> Settlements]
  BY <1>0, SetSettlementType DEF TypeInv, TypeOK, LocalOK, KindLabels, Fail
<1>2. SharedOK'
  BY <1>1 DEF TypeInv, TypeOK, SharedOK, Fail, chainVars, historyVars
<1>3. Moves(p) /\ LocalOK(p, pc'[p], job'[p]) /\ pc'[p] # "announce"
  BY <1>0 DEF Fail, Goto, Moves, LocalOK, Labels, Jobs, KindLabels, NumberLabels, ReceiptLabels
<1>. QED BY <1>2, <1>3, AnnounceStep, LocalStep DEF Fail

LEMMA NotifyFailedType ==
  ASSUME TypeInv, NEW p \in Procs, NotifyFailed(p)
  PROVE  TypeInv' /\ Moves(p)
<1>0. job[p] \in Jobs /\ pc \in [Procs -> Labels] /\ job \in [Procs -> Jobs] /\ LocalOK(p, pc[p], job[p])
  BY DEF TypeInv, TypeOK
<1>1. outbox' \subseteq Events
  BY <1>0, EnqueueType DEF TypeInv, TypeOK, LocalOK, KindLabels, Jobs, Subjects, NotifyFailed
<1>2. SharedOK'
  BY <1>1 DEF TypeInv, TypeOK, SharedOK, NotifyFailed, Return, chainVars, historyVars
<1>3. Moves(p) /\ LocalOK(p, pc'[p], job'[p]) /\ pc'[p] # "announce"
  BY <1>0, ReturnStep DEF NotifyFailed, Return, Goto
<1>. QED BY <1>2, <1>3, AnnounceStep, LocalStep DEF NotifyFailed

(* The steps of the worker's loops. *)
LEMMA WorkerIsProc == Worker \in Procs
  BY DEF Procs

LEMMA StartJobOK ==
  ASSUME TypeInv, NEW p \in Procs, NEW t \in Transfers, NEW force \in BOOLEAN,
         NEW seen \in {"pending", "submitted", "settled"}, NEW l \in {"announce", "gate"},
         l = "announce" => p = Worker,
         StartJob(p, t, seen, force), Goto(p, l)
  PROVE  /\ Moves(p) /\ LocalOK(p, pc'[p], job'[p])
         /\ pc'[p] = l /\ job'[p].transfer = t
<1>1. pc'[p] = l /\ job'[p] = [NoJob EXCEPT !.transfer = t, !.seen = seen, !.force = force]
  BY DEF StartJob, Goto, TypeInv, TypeOK
<1>2. job'[p] \in Jobs /\ job'[p].transfer = t
  <2>1. job'[p] = [transfer |-> t, seen |-> seen, force |-> force, kind |-> "none",
                   number |-> 0, amount |-> 0, tx |-> 0]
    BY <1>1 DEF NoJob
  <2>. QED BY <2>1 DEF Jobs
<1>3. LocalOK(p, pc'[p], job'[p])
  BY <1>1, <1>2 DEF LocalOK, Labels, KindLabels, NumberLabels, ReceiptLabels
<1>. QED BY <1>1, <1>2, <1>3 DEF Moves, StartJob, Goto

LEMMA DetectType ==
  ASSUME TypeInv, NEW t \in Transfers, Detect(t)
  PROVE  TypeInv' /\ Moves(Worker)
<1>1. SharedOK'
  BY DEF TypeInv, TypeOK, SharedOK, Detect, Statuses, chainVars, historyVars
<1>2. /\ Moves(Worker) /\ LocalOK(Worker, pc'[Worker], job'[Worker])
      /\ job'[Worker].transfer = t
  BY StartJobOK, WorkerIsProc DEF Detect
<1>3. AnnounceOK'
  BY <1>2 DEF TypeInv, TypeOK, AnnounceOK, Detect
<1>. QED BY <1>1, <1>2, <1>3, LocalStep, WorkerIsProc

LEMMA ConfirmTransferType ==
  ASSUME TypeInv, NEW i \in todo, ConfirmTransfer(i)
  PROVE  TypeInv' /\ Moves(Worker)
<1>0. i.transfer \in Transfers /\ settlement[i.transfer].status \in {"pending", "submitted", "settled"}
  BY DEF TypeInv, TypeOK, Items, Settlements
<1>1. SharedOK'
  BY <1>0 DEF TypeInv, TypeOK, SharedOK, ConfirmTransfer, Statuses, chainVars, historyVars
<1>2. /\ Moves(Worker) /\ LocalOK(Worker, pc'[Worker], job'[Worker])
      /\ job'[Worker].transfer = i.transfer
  BY <1>0, StartJobOK, WorkerIsProc DEF ConfirmTransfer
<1>3. AnnounceOK'
  BY <1>0, <1>2 DEF TypeInv, TypeOK, AnnounceOK, ConfirmTransfer
<1>. QED BY <1>1, <1>2, <1>3, LocalStep, WorkerIsProc

LEMMA AnnounceType ==
  ASSUME TypeInv, Announce
  PROVE  TypeInv' /\ Moves(Worker)
<1>0. /\ pc \in [Procs -> Labels] /\ job \in [Procs -> Jobs]
      /\ LocalOK(Worker, pc[Worker], job[Worker]) /\ job[Worker].transfer \in Transfers
      /\ status[job[Worker].transfer] \in {"detected", "late", "confirmed"}
  BY WorkerIsProc DEF TypeInv, TypeOK, AnnounceOK, Announce, LocalOK
<1>1. outbox' \subseteq Events
  <2>1. "transfer" \in Subjects /\ 0 \in Nat
    BY DEF Subjects
  <2>. QED BY <1>0, <2>1, EnqueueType DEF Announce, TypeInv, TypeOK
<1>2. SharedOK'
  BY <1>1 DEF TypeInv, TypeOK, SharedOK, Announce, Return, chainVars, historyVars
<1>3. Moves(Worker) /\ LocalOK(Worker, pc'[Worker], job'[Worker]) /\ pc'[Worker] # "announce"
  <2>1. CASE Return(Worker)
    BY <2>1, <1>0, ReturnStep, WorkerIsProc DEF Return, Goto
  <2>2. CASE Goto(Worker, "gate") /\ UNCHANGED job
    BY <2>2, <1>0, WorkerIsProc
    DEF Goto, Moves, LocalOK, Labels, KindLabels, NumberLabels, ReceiptLabels, Announce
  <2>. QED BY <2>1, <2>2 DEF Announce
<1>. QED BY <1>2, <1>3, AnnounceStep, LocalStep, WorkerIsProc DEF Announce

LEMMA NextPhaseType ==
  ASSUME TypeInv, NextPhase
  PROVE  TypeInv'
<1>1. Ready \subseteq Items
  BY DEF Ready, ListedTransfers, Items, Subjects
<1>2. \A k \in Kinds : Submitted(k) \subseteq Items
  BY DEF Submitted, Listed, Items, Subjects, Attempts, TypeInv, TypeOK
<1>3. "gas_top_up" \in Kinds /\ "sweep" \in Kinds
  BY DEF Kinds
<1>4. todo' \subseteq Items /\ phase' \in {"scan", "confirm", "gas_top_up", "sweep"}
  BY <1>1, <1>2, <1>3 DEF NextPhase
<1>. QED
  BY <1>4 DEF TypeInv, TypeOK, AnnounceOK, NextPhase, chainVars, dbVars, historyVars

LEMMA CheckReceiptType ==
  ASSUME TypeInv, NEW i \in todo, CheckReceipt(i)
  PROVE  TypeInv' /\ Moves(Worker)
<1>0. /\ pc \in [Procs -> Labels] /\ job \in [Procs -> Jobs] /\ attempts \subseteq Attempts
      /\ LocalOK(Worker, pc[Worker], job[Worker]) /\ pc[Worker] = "rest"
  BY WorkerIsProc DEF TypeInv, TypeOK, CheckReceipt, AtRest
<1>1. PICK a \in attempts :
        \/ UNCHANGED <<attempts, pc, job>>
        \/ /\ attempts' = (attempts \ {a}) \union {[a EXCEPT !.status = Result(chain[a.tx].outcome)]}
           /\ job' = [job EXCEPT ![Worker] =
                 [NoJob EXCEPT !.transfer = a.transfer, !.kind = a.kind,
                               !.number = a.number, !.tx = a.tx]]
           /\ Goto(Worker, IF a.kind = "sweep" THEN "receipt_write" ELSE "receipt_notify")
  BY DEF CheckReceipt
<1>2. a \in Attempts
  BY <1>0
<1>3. [a EXCEPT !.status = Result(chain[a.tx].outcome)] \in Attempts
  BY <1>2 DEF Attempts, Result
<1>4. SharedOK'
  BY <1>1, <1>3, <1>0 DEF TypeInv, TypeOK, SharedOK, CheckReceipt, chainVars
<1>5. CASE UNCHANGED <<pc, job>>
  <2>1. Moves(Worker)
    BY <1>5, <1>0 DEF Moves
  <2>. QED BY <2>1, <1>4, <1>5 DEF SharedOK, TypeInv, TypeOK, AnnounceOK, CheckReceipt
<1>6. CASE /\ job' = [job EXCEPT ![Worker] =
                 [NoJob EXCEPT !.transfer = a.transfer, !.kind = a.kind,
                               !.number = a.number, !.tx = a.tx]]
           /\ Goto(Worker, IF a.kind = "sweep" THEN "receipt_write" ELSE "receipt_notify")
  <2>1. /\ pc'[Worker] \in ReceiptLabels
        /\ job'[Worker] = [NoJob EXCEPT !.transfer = a.transfer, !.kind = a.kind,
                                        !.number = a.number, !.tx = a.tx]
    BY <1>6, <1>0, WorkerIsProc DEF Goto, ReceiptLabels
  <2>2. /\ job'[Worker] \in Jobs /\ job'[Worker].transfer \in Transfers
        /\ job'[Worker].kind \in Kinds /\ job'[Worker].number # 0
    <3>1. job'[Worker] = [transfer |-> a.transfer, seen |-> "pending", force |-> FALSE,
                          kind |-> a.kind, number |-> a.number, amount |-> 0, tx |-> a.tx]
      BY <2>1 DEF NoJob
    <3>2. a.transfer \in Transfers /\ a.kind \in Kinds /\ a.number \in Nat \ {0} /\ a.tx \in Nat
      BY <1>2 DEF Attempts
    <3>. QED BY <3>1, <3>2 DEF Jobs
  <2>3. LocalOK(Worker, pc'[Worker], job'[Worker]) /\ pc'[Worker] # "announce"
    BY <2>1, <2>2 DEF LocalOK, Labels, ReceiptLabels
  <2>4. Moves(Worker)
    BY <1>6, <1>0, WorkerIsProc DEF Moves, Goto
  <2>. QED BY <1>4, <2>3, <2>4, AnnounceStep, LocalStep, WorkerIsProc DEF CheckReceipt
<1>. QED BY <1>1, <1>5, <1>6

LEMMA ReceiptWriteType ==
  ASSUME TypeInv, ReceiptWrite
  PROVE  TypeInv' /\ Moves(Worker)
<1>0. /\ pc \in [Procs -> Labels] /\ job \in [Procs -> Jobs]
      /\ LocalOK(Worker, pc[Worker], job[Worker]) /\ job[Worker].transfer \in Transfers
      /\ job[Worker].kind \in Kinds
  BY WorkerIsProc DEF TypeInv, TypeOK, ReceiptWrite, LocalOK, KindLabels
<1>1. settlement' \in [Transfers -> Settlements]
  <2>1. settlement \in [Transfers -> Settlements] /\ "sweep" \in Kinds
    BY DEF TypeInv, TypeOK, Kinds
  <2>. QED BY <2>1, <1>0, SetSettlementType DEF ReceiptWrite
<1>2. SharedOK'
  BY <1>1 DEF TypeInv, TypeOK, SharedOK, ReceiptWrite, Return, chainVars, historyVars
<1>3. Moves(Worker) /\ LocalOK(Worker, pc'[Worker], job'[Worker]) /\ pc'[Worker] # "announce"
  <2>1. CASE Goto(Worker, "receipt_notify") /\ UNCHANGED job
    BY <2>1, <1>0, WorkerIsProc
    DEF Goto, Moves, LocalOK, Labels, KindLabels, NumberLabels, ReceiptLabels, ReceiptWrite
  <2>2. CASE Return(Worker)
    BY <2>2, <1>0, ReturnStep, WorkerIsProc DEF Return, Goto
  <2>3. CASE StartJob(Worker, job[Worker].transfer, "pending", TRUE) /\ Goto(Worker, "gate")
    BY <2>3, <1>0, StartJobOK, WorkerIsProc
  <2>. QED BY <2>1, <2>2, <2>3 DEF ReceiptWrite
<1>. QED BY <1>2, <1>3, AnnounceStep, LocalStep, WorkerIsProc DEF ReceiptWrite

LEMMA ReceiptNotifyType ==
  ASSUME TypeInv, ReceiptNotify
  PROVE  TypeInv' /\ Moves(Worker)
<1>0. /\ pc \in [Procs -> Labels] /\ job \in [Procs -> Jobs]
      /\ LocalOK(Worker, pc[Worker], job[Worker]) /\ job[Worker] \in Jobs
      /\ job[Worker].transfer \in Transfers /\ job[Worker].kind \in Kinds
  BY WorkerIsProc DEF TypeInv, TypeOK, ReceiptNotify, LocalOK, KindLabels
<1>1. outbox' \subseteq Events
  BY <1>0, EnqueueType DEF TypeInv, TypeOK, ReceiptNotify, Jobs, Subjects
<1>2. SharedOK'
  BY <1>1 DEF TypeInv, TypeOK, SharedOK, ReceiptNotify, Return, chainVars, historyVars
<1>3. Moves(Worker) /\ LocalOK(Worker, pc'[Worker], job'[Worker]) /\ pc'[Worker] # "announce"
  <2>1. CASE Return(Worker)
    BY <2>1, <1>0, ReturnStep, WorkerIsProc DEF Return, Goto
  <2>2. CASE Goto(Worker, "receipt_write") /\ UNCHANGED job
    BY <2>2, <1>0, WorkerIsProc
    DEF Goto, Moves, LocalOK, Labels, KindLabels, NumberLabels, ReceiptLabels, ReceiptNotify
  <2>. QED BY <2>1, <2>2 DEF ReceiptNotify
<1>. QED BY <1>2, <1>3, AnnounceStep, LocalStep, WorkerIsProc DEF ReceiptNotify

(* The owner, the payer, the chain, and failures. *)
LEMMA RetryType ==
  ASSUME TypeInv, NEW o \in Owners, NEW t \in Transfers, Retry(o, t)
  PROVE  TypeInv' /\ Moves(o)
<1>0. o \in Procs /\ settlement[t].status \in {"pending", "submitted", "settled"}
  BY DEF Procs, TypeInv, TypeOK, Settlements
<1>1. SharedOK'
  BY DEF TypeInv, TypeOK, SharedOK, Retry, chainVars, dbVars
<1>2. Moves(o) /\ LocalOK(o, pc'[o], job'[o]) /\ pc'[o] # "announce"
  BY <1>0, StartJobOK DEF Retry
<1>. QED BY <1>0, <1>1, <1>2, AnnounceStep, LocalStep DEF Retry, dbVars

LEMMA PayType ==
  ASSUME TypeInv, NEW t \in Transfers, Pay(t)
  PROVE  TypeInv'
<1>1. tokens' \in [Wallets -> Nat] /\ status' \in [Transfers -> Statuses]
  <2>1. WalletOf[t] \in Wallets /\ tokens \in [Wallets -> Nat] /\ status \in [Transfers -> Statuses]
    BY SettlementAssumption DEF TypeInv, TypeOK
  <2>2. tokens[WalletOf[t]] + 1 \in Nat
    BY <2>1
  <2>3. tokens' \in [Wallets -> Nat]
    BY <2>1, <2>2 DEF Pay
  <2>4. status' \in [Transfers -> Statuses]
    BY <2>1 DEF Pay, Statuses
  <2>. QED BY <2>3, <2>4
<1>2. AnnounceOK'
  <2>1. ASSUME pc[Worker] = "announce" PROVE job[Worker].transfer # t
    BY <2>1 DEF TypeInv, AnnounceOK, Pay
  <2>. QED BY <2>1 DEF TypeInv, TypeOK, AnnounceOK, Pay, procVars
<1>. QED BY <1>1, <1>2 DEF TypeInv, TypeOK, Pay, procVars, historyVars

LEMMA MineType ==
  ASSUME TypeInv, NEW i \in DOMAIN chain, Mine(i)
  PROVE  TypeInv'
<1>0. chain \in Seq(Transactions) /\ chain[i] \in Transactions /\ i \in 1 .. Len(chain)
  BY DEF TypeInv, TypeOK
<1>1. chain' \in Seq(Transactions)
  <2>1. \A o \in {"success", "reverted"} : [chain[i] EXCEPT !.outcome = o] \in Transactions
    BY <1>0 DEF Transactions
  <2>2. PICK o \in {"success", "reverted"} : chain' = [chain EXCEPT ![i].outcome = o]
    BY DEF Mine
  <2>3. chain' = [chain EXCEPT ![i] = [chain[i] EXCEPT !.outcome = o]]
    BY <2>2
  <2>. QED BY <2>1, <2>3, <1>0
<1>2. gas' \in [Wallets -> BOOLEAN]
  <2>1. gas \in [Wallets -> BOOLEAN]
    BY DEF TypeInv, TypeOK
  <2>2. \/ UNCHANGED gas
        \/ \E g \in BOOLEAN : gas' = [gas EXCEPT ![chain[i].wallet] = g]
    BY DEF Mine
  <2>. QED BY <2>1, <2>2
<1>3. tokens' \in [Wallets -> Nat]
  <2>1. tokens \in [Wallets -> Nat] /\ chain[i].wallet \in Wallets /\ chain[i].amount \in Nat
    BY <1>0 DEF TypeInv, TypeOK, Transactions
  <2>2. \/ UNCHANGED tokens
        \/ /\ tokens[chain[i].wallet] >= chain[i].amount
           /\ tokens' = [tokens EXCEPT ![chain[i].wallet] = @ - chain[i].amount]
    BY DEF Mine
  <2>3. tokens[chain[i].wallet] >= chain[i].amount
          => tokens[chain[i].wallet] - chain[i].amount \in Nat
    BY <2>1
  <2>. QED BY <2>1, <2>2, <2>3
<1>. QED BY <1>1, <1>2, <1>3 DEF TypeInv, TypeOK, AnnounceOK, Mine, dbVars, procVars, historyVars

LEMMA AbortType ==
  ASSUME TypeInv, NEW p \in Procs, Abort(p)
  PROVE  TypeInv' /\ Moves(p)
<1>1. SharedOK'
  BY DEF TypeInv, TypeOK, SharedOK, Abort, Throw, chainVars, dbVars
<1>2. Moves(p) /\ LocalOK(p, pc'[p], job'[p]) /\ pc'[p] # "announce"
  BY ReturnStep DEF Abort, Throw, Goto, TypeInv, TypeOK
<1>. QED BY <1>1, <1>2, AnnounceStep, LocalStep DEF Abort, dbVars

-------------------------------------------------------------------------------
(***************************************************************************)
(* What the rows, the chain and the processes promise each other.          *)
(***************************************************************************)

(* The row of an attempt, as a job or an event names it.                     *)
IsRow(a, k, t, n) == a.kind = k /\ a.transfer = t /\ a.number = n

ProcOK(l, j, rows, txs) ==
  /\ l \in {"send", "record", "mark", "notify", "catch"} =>
       \A m \in Nat : 0 < m /\ m < j.number => \E a \in rows : IsRow(a, j.kind, j.transfer, m)
  /\ l = "record" =>
       /\ j.tx \in DOMAIN txs
       /\ txs[j.tx].kind = j.kind
       /\ txs[j.tx].wallet = WalletOf[j.transfer]
       /\ \A a \in rows : a.tx # j.tx
  /\ l \in {"mark", "notify"} =>
       \E a \in rows : IsRow(a, j.kind, j.transfer, j.number) /\ a.tx # 0
  /\ l \in {"fail", "notify_failed"} =>
       \E a \in rows : IsRow(a, j.kind, j.transfer, j.number) /\ a.status = "failed"
  /\ l \in {"receipt_write", "receipt_notify"} =>
       \E a \in rows :
         /\ IsRow(a, j.kind, j.transfer, j.number) /\ a.tx = j.tx /\ j.tx \in DOMAIN txs
         /\ txs[j.tx].outcome # "pending" /\ a.status = Result(txs[j.tx].outcome)

RowsUnique ==
  \A a, b \in attempts : IsRow(a, b.kind, b.transfer, b.number) => a = b

Counted ==
  \A k \in Kinds, t \in Transfers : \E n \in Nat : Numbers(k, t) = 1 .. n

(* No two processes are about to record one transaction.                     *)
OneRecorder ==
  \A p, q \in Procs : pc[p] = "record" /\ pc[q] = "record" /\ job[p].tx = job[q].tx => p = q

(* The worker's list names submitted rows: nobody else resolves one.         *)
TodoOK ==
  \A i \in todo : i.subject \in Kinds =>
    \E a \in attempts : IsRow(a, i.subject, i.transfer, i.number) /\ a.status = "submitted"

RowsInv ==
  /\ RowsUnique
  /\ Counted
  /\ RowsMatchChain
  /\ OneRecorder
  /\ TodoOK
  /\ \A p \in Procs : ProcOK(pc[p], job[p], attempts, chain)

(* What no step takes back: a row stays, and once resolved is final; so does *)
(* a transaction.                                                            *)
RowsKept(old, new) ==
  \A a \in old : \E b \in new :
    /\ IsRow(b, a.kind, a.transfer, a.number)
    /\ b.tx = a.tx
    /\ a.status # "submitted" => b.status = a.status

ChainKept(old, new) ==
  \A x \in DOMAIN old :
    /\ x \in DOMAIN new
    /\ new[x].kind = old[x].kind
    /\ new[x].wallet = old[x].wallet
    /\ old[x].outcome # "pending" => new[x].outcome = old[x].outcome

-------------------------------------------------------------------------------
LEMMA ProcStable ==
  ASSUME NEW l, NEW j, NEW rows, NEW txs, NEW rows2, NEW txs2,
         RowsKept(rows, rows2), ChainKept(txs, txs2), ProcOK(l, j, rows, txs),
         l = "record" => \A b \in rows2 : b.tx # j.tx
  PROVE  ProcOK(l, j, rows2, txs2)
<1>1. \A k, t, n : (\E a \in rows : IsRow(a, k, t, n)) => \E b \in rows2 : IsRow(b, k, t, n)
  BY DEF RowsKept, IsRow
<1>2. l \in {"send", "record", "mark", "notify", "catch"} =>
        \A m \in Nat : 0 < m /\ m < j.number => \E a \in rows2 : IsRow(a, j.kind, j.transfer, m)
  BY <1>1 DEF ProcOK
<1>3. l = "record" =>
        /\ j.tx \in DOMAIN txs2
        /\ txs2[j.tx].kind = j.kind
        /\ txs2[j.tx].wallet = WalletOf[j.transfer]
        /\ \A a \in rows2 : a.tx # j.tx
  BY DEF ProcOK, ChainKept
<1>4. l \in {"mark", "notify"} =>
        \E a \in rows2 : IsRow(a, j.kind, j.transfer, j.number) /\ a.tx # 0
  BY DEF ProcOK, RowsKept, IsRow
<1>5. l \in {"fail", "notify_failed"} =>
        \E a \in rows2 : IsRow(a, j.kind, j.transfer, j.number) /\ a.status = "failed"
  BY DEF ProcOK, RowsKept, IsRow
<1>6. ASSUME l \in {"receipt_write", "receipt_notify"}
      PROVE  \E a \in rows2 :
               /\ IsRow(a, j.kind, j.transfer, j.number) /\ a.tx = j.tx /\ j.tx \in DOMAIN txs2
               /\ txs2[j.tx].outcome # "pending" /\ a.status = Result(txs2[j.tx].outcome)
  <2>1. PICK a \in rows :
          /\ IsRow(a, j.kind, j.transfer, j.number) /\ a.tx = j.tx /\ j.tx \in DOMAIN txs
          /\ txs[j.tx].outcome # "pending" /\ a.status = Result(txs[j.tx].outcome)
    BY <1>6 DEF ProcOK
  <2>2. a.status # "submitted"
    BY <2>1 DEF Result
  <2>3. PICK b \in rows2 : IsRow(b, a.kind, a.transfer, a.number) /\ b.tx = a.tx /\ b.status = a.status
    BY <2>2 DEF RowsKept
  <2>4. j.tx \in DOMAIN txs2 /\ txs2[j.tx].outcome = txs[j.tx].outcome
    BY <2>1 DEF ChainKept
  <2>. QED BY <2>1, <2>3, <2>4 DEF IsRow
<1>. QED BY <1>2, <1>3, <1>4, <1>5, <1>6 DEF ProcOK

(* The rows name no transaction they did not name, but the one p had to      *)
(* record.                                                                   *)
NoOtherTx(p) ==
  \A b \in attempts' :
    \/ b.tx = 0
    \/ \E a \in attempts : a.tx = b.tx
    \/ pc[p] = "record" /\ b.tx = job[p].tx

(* A step of p that keeps rows and transactions, and adds no row but that of *)
(* the transaction p had to record, leaves the others what they rely on.     *)
LEMMA RowsStep ==
  ASSUME TypeInv, RowsInv, NEW p \in Procs, Moves(p),
         RowsKept(attempts, attempts'), ChainKept(chain, chain'),
         (RowsUnique /\ Counted /\ RowsMatchChain /\ TodoOK)',
         ProcOK(pc'[p], job'[p], attempts', chain'),
         NoOtherTx(p),
         pc'[p] = "record" => job'[p].tx \notin DOMAIN chain
  PROVE  RowsInv'
<1>1. \A q \in Procs : q # p => pc'[q] = pc[q] /\ job'[q] = job[q]
  BY DEF Moves, TypeInv, TypeOK
<1>2. \A q \in Procs : pc[q] = "record" => job[q].tx \in DOMAIN chain /\ job[q].tx # 0
  BY DEF RowsInv, ProcOK, TypeInv, TypeOK
<1>3. OneRecorder'
  BY <1>1, <1>2 DEF OneRecorder, RowsInv
<1>4. ASSUME NEW q \in Procs, q # p PROVE ProcOK(pc'[q], job'[q], attempts', chain')
  <2>1. ProcOK(pc[q], job[q], attempts, chain)
    BY DEF RowsInv
  <2>2. pc[q] = "record" => \A b \in attempts' : b.tx # job[q].tx
    BY <1>2, <1>4, <2>1 DEF ProcOK, RowsInv, OneRecorder, NoOtherTx
  <2>. QED BY <2>1, <2>2, <1>1, <1>4, ProcStable
<1>. QED BY <1>3, <1>4 DEF RowsInv

LEMMA NothingChanges ==
  ASSUME UNCHANGED <<attempts, chain>>
  PROVE  RowsKept(attempts, attempts') /\ ChainKept(chain, chain')
  BY DEF RowsKept, ChainKept, IsRow

LEMMA RowsMatchKept ==
  ASSUME RowsMatchChain, UNCHANGED attempts, ChainKept(chain, chain')
  PROVE  RowsMatchChain'
  BY DEF RowsMatchChain, ChainKept

LEMMA QuietRows ==
  ASSUME RowsInv, UNCHANGED attempts, ChainKept(chain, chain'), todo' \subseteq todo
  PROVE  (RowsUnique /\ Counted /\ RowsMatchChain /\ TodoOK)'
<1>1. RowsUnique' /\ TodoOK'
  BY DEF RowsInv, RowsUnique, TodoOK, IsRow
<1>2. Counted'
  BY DEF RowsInv, Counted, Numbers
<1>. QED BY <1>1, <1>2, RowsMatchKept DEF RowsInv

(* A step that moves one process and touches neither rows nor chain.         *)
LEMMA QuietStep ==
  ASSUME TypeInv, RowsInv, NEW p \in Procs, Moves(p), UNCHANGED <<attempts, chain>>,
         todo' \subseteq todo, pc'[p] # "record", ProcOK(pc'[p], job'[p], attempts, chain)
  PROVE  RowsInv'
<1>1. (RowsUnique /\ Counted /\ RowsMatchChain /\ TodoOK)'
  BY NothingChanges, QuietRows
<1>2. NoOtherTx(p)
  BY DEF NoOtherTx
<1>. QED BY <1>1, <1>2, NothingChanges, RowsStep

LEMMA IdleOK ==
  ASSUME NEW l \in {"rest", "announce", "gate", "gas_check", "token_check", "refuse", "number"},
         NEW j
  PROVE  ProcOK(l, j, attempts, chain)
  BY DEF ProcOK

LEMMA LatestIsCount ==
  ASSUME NEW k, NEW t, NEW n \in Nat, Numbers(k, t) = 1 .. n
  PROVE  LatestNumber(k, t) = n
<1>1. CASE n = 0
  BY <1>1 DEF LatestNumber
<1>2. CASE n # 0
  <2>1. n \in 1 .. n /\ \A m \in 1 .. n : m <= n
    BY <1>2
  <2>2. \A x \in 1 .. n : (\A m \in 1 .. n : m <= x) => x = n
    BY <2>1
  <2>. QED BY <2>1, <2>2 DEF LatestNumber
<1>. QED BY <1>1, <1>2

(* The rows after an insert.                                                 *)
LEMMA InsertRow ==
  ASSUME TypeInv, RowsInv, NEW p \in Procs, pc[p] \in {"record", "catch"}, ~Taken(p),
         NEW st, NEW tx, InsertAttempt(p, st, tx),
         \/ st = "submitted" /\ tx = job[p].tx /\ pc[p] = "record"
         \/ st = "failed" /\ tx = 0,
         UNCHANGED <<chain, todo>>
  PROVE  /\ RowsKept(attempts, attempts')
         /\ (RowsUnique /\ Counted /\ RowsMatchChain /\ TodoOK)'
         /\ \E a \in attempts' :
              IsRow(a, job[p].kind, job[p].transfer, job[p].number) /\ a.tx = tx /\ a.status = st
         /\ NoOtherTx(p)
<1> DEFINE j == job[p]
           r == [kind |-> j.kind, transfer |-> j.transfer, number |-> j.number,
                 status |-> st, tx |-> tx]
<1>1. /\ attempts' = attempts \union {r}
      /\ j.kind \in Kinds /\ j.transfer \in Transfers /\ j.number \in Nat \ {0}
      /\ attempts \subseteq Attempts
  BY DEF InsertAttempt, TypeInv, TypeOK, LocalOK, KindLabels, NumberLabels, Jobs
<1>2. \A a \in attempts : ~IsRow(a, j.kind, j.transfer, j.number)
  BY DEF Taken, Numbers, IsRow
<1>3. RowsUnique'
  BY <1>1, <1>2 DEF RowsInv, RowsUnique, IsRow
<1>4. RowsKept(attempts, attempts')
  BY <1>1 DEF RowsKept, IsRow
<1>5. ASSUME NEW k \in Kinds, NEW t \in Transfers
      PROVE  \E n \in Nat : Numbers(k, t)' = 1 .. n
  <2>1. PICK n \in Nat : Numbers(k, t) = 1 .. n
    BY DEF RowsInv, Counted
  <2>2. CASE k # j.kind \/ t # j.transfer
    <3>1. Numbers(k, t)' = Numbers(k, t)
      BY <1>1, <2>2 DEF Numbers
    <3>. QED BY <3>1, <2>1
  <2>3. CASE k = j.kind /\ t = j.transfer
    <3>1. Numbers(k, t)' = Numbers(k, t) \union {j.number}
      <4>1. \A n2 : n2 \in Numbers(k, t) <=> \E a \in attempts : IsRow(a, k, t, n2)
        BY DEF Numbers, IsRow
      <4>2. \A n2 : n2 \in Numbers(k, t)' <=> \E a \in attempts' : IsRow(a, k, t, n2)
        BY DEF Numbers, IsRow
      <4>3. \A n2 : IsRow(r, k, t, n2) <=> n2 = j.number
        BY <2>3 DEF IsRow
      <4>. QED BY <1>1, <4>1, <4>2, <4>3
    <3>2. j.number \notin 1 .. n
      BY <2>1, <2>3 DEF Taken
    <3>3. \A m \in Nat : 0 < m /\ m < j.number => m \in Numbers(k, t)
      BY <2>3 DEF RowsInv, ProcOK, IsRow, Numbers
    <3>4. j.number = n + 1
      <4>1. n + 1 \notin 1 .. n /\ 0 < n + 1
        OBVIOUS
      <4>. QED BY <4>1, <3>2, <3>3, <2>1, <1>1
    <3>5. (1 .. n) \union {n + 1} = 1 .. (n + 1)
      OBVIOUS
    <3>. QED BY <3>1, <3>4, <3>5, <2>1
  <2>. QED BY <2>2, <2>3
<1>6. Counted'
  BY <1>5 DEF Counted
<1>7. TodoOK'
  BY <1>1 DEF RowsInv, TodoOK
<1>8. tx # 0 => /\ tx \in DOMAIN chain /\ chain[tx].kind = j.kind
                /\ chain[tx].wallet = WalletOf[j.transfer]
                /\ \A a \in attempts : a.tx # tx
  BY DEF RowsInv, ProcOK
<1>9. pc[p] = "record" => j.tx \in DOMAIN chain
  BY DEF RowsInv, ProcOK
<1>10. st = "submitted" => tx # 0
  BY <1>9 DEF TypeInv, TypeOK
<1>11. RowsMatchChain'
  BY <1>1, <1>8, <1>10 DEF RowsInv, RowsMatchChain
<1>12. r \in attempts' /\ IsRow(r, j.kind, j.transfer, j.number) /\ r.tx = tx /\ r.status = st
  BY <1>1 DEF IsRow
<1>13. NoOtherTx(p)
  BY <1>1, <1>12 DEF NoOtherTx
<1>. QED BY <1>3, <1>4, <1>6, <1>7, <1>11, <1>12, <1>13

(* The rows after a receipt.                                                 *)
LEMMA ResolveRow ==
  ASSUME TypeInv, RowsInv, NEW i \in todo, NEW a \in attempts,
         a.kind \in Kinds, IsRow(a, i.subject, i.transfer, i.number),
         chain[a.tx].outcome # "pending",
         attempts' = (attempts \ {a}) \union {[a EXCEPT !.status = Result(chain[a.tx].outcome)]},
         todo' = todo \ {i}, UNCHANGED chain
  PROVE  /\ RowsKept(attempts, attempts')
         /\ (RowsUnique /\ Counted /\ RowsMatchChain /\ TodoOK)'
         /\ a.status = "submitted" /\ a.tx \in DOMAIN chain
         /\ \A b \in attempts' : \E c \in attempts : c.tx = b.tx
<1> DEFINE r == [a EXCEPT !.status = Result(chain[a.tx].outcome)]
<1>1. a.status = "submitted"
  BY DEF RowsInv, TodoOK, RowsUnique, IsRow
<1>2. a.tx # 0 /\ a.tx \in DOMAIN chain
  BY <1>1 DEF RowsInv, RowsMatchChain
<1>3. /\ r.kind = a.kind /\ r.transfer = a.transfer /\ r.number = a.number /\ r.tx = a.tx
      /\ r.status = Result(chain[a.tx].outcome) /\ r \in attempts'
  BY DEF TypeInv, TypeOK, Attempts
<1>4. \A b : b \in attempts' <=> b = r \/ (b \in attempts /\ b # a)
  OBVIOUS
<1>5. RowsKept(attempts, attempts')
  BY <1>1, <1>3 DEF RowsKept, IsRow
<1>6. RowsUnique'
  <2>1. \A b \in attempts : ~(IsRow(r, b.kind, b.transfer, b.number) /\ b # a)
    BY <1>3 DEF RowsInv, RowsUnique, IsRow
  <2>2. \A b \in attempts : ~(IsRow(b, r.kind, r.transfer, r.number) /\ b # a)
    BY <1>3 DEF RowsInv, RowsUnique, IsRow
  <2>. QED BY <1>4, <2>1, <2>2 DEF RowsInv, RowsUnique
<1>7. ASSUME NEW k, NEW t PROVE Numbers(k, t)' = Numbers(k, t)
  <2>1. \A n : n \in Numbers(k, t) <=> \E b \in attempts : IsRow(b, k, t, n)
    BY DEF Numbers, IsRow
  <2>2. \A n : n \in Numbers(k, t)' <=> \E b \in attempts' : IsRow(b, k, t, n)
    BY DEF Numbers, IsRow
  <2>3. \A n : (\E b \in attempts : IsRow(b, k, t, n)) <=> \E b \in attempts' : IsRow(b, k, t, n)
    <3>1. \A n : IsRow(r, k, t, n) <=> IsRow(a, k, t, n)
      BY <1>3 DEF IsRow
    <3>. QED BY <3>1, <1>3, <1>4
  <2>. QED BY <2>1, <2>2, <2>3
<1>8. Counted'
  BY <1>7 DEF RowsInv, Counted
<1>9. RowsMatchChain'
  <2>1. chain[a.tx].outcome \in {"success", "reverted"}
    <3>1. chain[a.tx] \in Transactions
      BY <1>2 DEF TypeInv, TypeOK
    <3>. QED BY <3>1 DEF Transactions
  <2>2. /\ r.status # "failed" => r.tx # 0
        /\ r.tx \in DOMAIN chain
        /\ chain[r.tx].kind = r.kind
        /\ chain[r.tx].wallet = WalletOf[r.transfer]
        /\ r.status = "confirmed" => chain[r.tx].outcome = "success"
        /\ r.status = "failed" => chain[r.tx].outcome = "reverted"
    BY <1>2, <1>3, <2>1 DEF RowsInv, RowsMatchChain, Result
  <2>3. \A b \in attempts' : b.tx = r.tx /\ b.tx # 0 => b = r
    BY <1>2, <1>3, <1>4 DEF RowsInv, RowsMatchChain
  <2>. QED BY <1>4, <2>2, <2>3 DEF RowsInv, RowsMatchChain
<1>10. TodoOK'
  <2>. SUFFICES ASSUME NEW x \in todo', x.subject \in Kinds
                PROVE  \E b \in attempts' : /\ IsRow(b, x.subject, x.transfer, x.number)
                                          /\ b.status = "submitted"
    BY DEF TodoOK
  <2>1. PICK b \in attempts : IsRow(b, x.subject, x.transfer, x.number) /\ b.status = "submitted"
    BY DEF RowsInv, TodoOK
  <2>2. b # a
    <3>1. x \in Items /\ i \in Items /\ x # i
      BY DEF TypeInv, TypeOK
    <3>2. ~(x.subject = i.subject /\ x.transfer = i.transfer /\ x.number = i.number)
      BY <3>1 DEF Items
    <3>. QED BY <2>1, <3>2 DEF IsRow
  <2>. QED BY <2>1, <2>2
<1>. QED BY <1>1, <1>2, <1>3, <1>4, <1>5, <1>6, <1>8, <1>9, <1>10

-------------------------------------------------------------------------------
(* ensureSettlement *)
LEMMA GateRows ==
  ASSUME TypeInv, RowsInv, NEW p \in Procs, Gate(p)
  PROVE  RowsInv'
<1>1. pc \in [Procs -> Labels] /\ pc'[p] \in {"rest", "refuse", "gas_check"}
  BY DEF TypeInv, TypeOK, Gate, Return, Goto
<1>2. UNCHANGED <<attempts, chain>> /\ todo' \subseteq todo
  BY DEF Gate, Return, chainVars
<1>. QED BY <1>1, <1>2, GateType, IdleOK, QuietStep

LEMMA GasCheckRows ==
  ASSUME TypeInv, RowsInv, NEW p \in Procs, GasCheck(p)
  PROVE  RowsInv'
<1>1. pc'[p] \in {"token_check", "number"}
  BY DEF TypeInv, TypeOK, GasCheck, Goto
<1>2. UNCHANGED <<attempts, chain>> /\ todo' \subseteq todo
  BY DEF GasCheck, chainVars, dbVars
<1>. QED BY <1>1, <1>2, GasCheckType, IdleOK, QuietStep

LEMMA TokenCheckRows ==
  ASSUME TypeInv, RowsInv, NEW p \in Procs, TokenCheck(p)
  PROVE  RowsInv'
<1>1. pc'[p] \in {"refuse", "number"}
  BY DEF TypeInv, TypeOK, TokenCheck, Goto
<1>2. UNCHANGED <<attempts, chain>> /\ todo' \subseteq todo
  BY DEF TokenCheck, chainVars, dbVars
<1>. QED BY <1>1, <1>2, TokenCheckType, IdleOK, QuietStep

LEMMA RefuseRows ==
  ASSUME TypeInv, RowsInv, NEW p \in Procs, Refuse(p)
  PROVE  RowsInv'
<1>1. pc'[p] = "rest"
  BY DEF TypeInv, TypeOK, Refuse, Return, Goto
<1>2. UNCHANGED <<attempts, chain>> /\ todo' \subseteq todo
  BY DEF Refuse, Return, chainVars
<1>. QED BY <1>1, <1>2, RefuseType, IdleOK, QuietStep

(* The number a process will use is one more than the rows it read.          *)
LEMMA NumberRows ==
  ASSUME TypeInv, RowsInv, NEW p \in Procs, Number(p)
  PROVE  TypeInv' /\ RowsInv'
<1> DEFINE k == job[p].kind
           t == job[p].transfer
<1>1. k \in Kinds /\ t \in Transfers
  BY DEF TypeInv, TypeOK, LocalOK, KindLabels, Number
<1>2. PICK n \in Nat : Numbers(k, t) = 1 .. n
  BY <1>1 DEF RowsInv, Counted
<1>3. LatestNumber(k, t) = n
  BY <1>2, LatestIsCount
<1>4. TypeInv' /\ Moves(p)
  BY <1>3, NumberType
<1>5. pc'[p] = "send" /\ job'[p] = [job[p] EXCEPT !.number = n + 1]
  BY <1>3 DEF Number, Goto, TypeInv, TypeOK
<1>6. job'[p].number = n + 1 /\ job'[p].kind = k /\ job'[p].transfer = t
  BY <1>5 DEF TypeInv, TypeOK, Jobs
<1>7. \A m \in Nat : 0 < m /\ m < n + 1 => \E a \in attempts : IsRow(a, k, t, m)
  <2>1. \A m \in Nat : 0 < m /\ m < n + 1 => m \in Numbers(k, t)
    BY <1>2
  <2>. QED BY <2>1 DEF Numbers, IsRow
<1>8. ProcOK(pc'[p], job'[p], attempts, chain)
  BY <1>5, <1>6, <1>7 DEF ProcOK
<1>9. UNCHANGED <<attempts, chain>> /\ todo' \subseteq todo
  BY DEF Number, chainVars, dbVars
<1>. QED BY <1>4, <1>5, <1>8, <1>9, QuietStep

LEMMA BroadcastKeeps ==
  ASSUME TypeInv, NEW p \in Procs, pc[p] = "send", Broadcast(p)
  PROVE  /\ ChainKept(chain, chain')
         /\ Len(chain) + 1 \in DOMAIN chain' /\ Len(chain) + 1 \notin DOMAIN chain
         /\ chain'[Len(chain) + 1].kind = job[p].kind
         /\ chain'[Len(chain) + 1].wallet = WalletOf[job[p].transfer]
<1> DEFINE x == [kind |-> job[p].kind, wallet |-> WalletOf[job[p].transfer],
                 amount |-> job[p].amount, outcome |-> "pending"]
<1>1. x \in Transactions
  BY SettlementAssumption DEF TypeInv, TypeOK, LocalOK, Jobs, KindLabels, Transactions
<1>2. chain \in Seq(Transactions) /\ chain' = Append(chain, x)
  BY DEF TypeInv, TypeOK, Broadcast
<1>3. /\ DOMAIN chain = 1 .. Len(chain) /\ DOMAIN chain' = 1 .. Len(chain) + 1
      /\ \A i \in 1 .. Len(chain) : chain'[i] = chain[i]
      /\ chain'[Len(chain) + 1] = x
      /\ Len(chain) \in Nat
  BY <1>1, <1>2
<1>. QED BY <1>3 DEF ChainKept

LEMMA SendRows ==
  ASSUME TypeInv, RowsInv, NEW p \in Procs, Send(p)
  PROVE  RowsInv'
<1>0. pc[p] = "send" /\ UNCHANGED <<attempts, todo>> /\ Moves(p)
  BY SendType DEF Send, dbVars
<1>1. /\ \A m \in Nat : 0 < m /\ m < job[p].number
                          => \E a \in attempts : IsRow(a, job[p].kind, job[p].transfer, m)
      /\ \A a \in attempts : a.tx # 0 => a.tx \in DOMAIN chain
  BY <1>0 DEF RowsInv, ProcOK, RowsMatchChain
<1>2. RowsKept(attempts, attempts') /\ NoOtherTx(p)
  BY <1>0 DEF RowsKept, IsRow, NoOtherTx
<1>3. CASE Broadcast(p) /\ job' = [job EXCEPT ![p].tx = Len(chain) + 1] /\ Goto(p, "record")
  <2>1. /\ pc'[p] = "record" /\ job'[p].tx = Len(chain) + 1 /\ job'[p].kind = job[p].kind
        /\ job'[p].transfer = job[p].transfer /\ job'[p].number = job[p].number
    BY <1>3 DEF Goto, TypeInv, TypeOK, Jobs
  <2>2. /\ ChainKept(chain, chain')
        /\ Len(chain) + 1 \in DOMAIN chain' /\ Len(chain) + 1 \notin DOMAIN chain
        /\ chain'[Len(chain) + 1].kind = job[p].kind
        /\ chain'[Len(chain) + 1].wallet = WalletOf[job[p].transfer]
    BY <1>0, <1>3, BroadcastKeeps
  <2>3. \A a \in attempts : a.tx # Len(chain) + 1
    <3>1. Len(chain) + 1 # 0
      BY DEF TypeInv, TypeOK
    <3>. QED BY <1>1, <2>2, <3>1
  <2>4. ProcOK(pc'[p], job'[p], attempts', chain')
    BY <1>0, <1>1, <2>1, <2>2, <2>3 DEF ProcOK
  <2>. QED BY <1>0, <1>2, <2>1, <2>2, <2>4, QuietRows, RowsStep
<1>4. CASE Goto(p, "catch") /\ UNCHANGED job /\ (UNCHANGED chain \/ Broadcast(p))
  <2>1. pc'[p] = "catch" /\ job'[p] = job[p]
    BY <1>4 DEF Goto, TypeInv, TypeOK
  <2>2. ChainKept(chain, chain')
    BY <1>0, <1>4, BroadcastKeeps DEF ChainKept
  <2>3. ProcOK(pc'[p], job'[p], attempts', chain')
    BY <1>0, <1>1, <2>1 DEF ProcOK
  <2>. QED BY <1>0, <1>2, <2>1, <2>2, <2>3, QuietRows, RowsStep
<1>. QED BY <1>3, <1>4 DEF Send

LEMMA RecordRows ==
  ASSUME TypeInv, RowsInv, NEW p \in Procs, Record(p)
  PROVE  RowsInv'
<1>0. pc[p] = "record" /\ UNCHANGED <<chain, todo, job>> /\ Moves(p)
  BY RecordType DEF Record, chainVars
<1>1. \A m \in Nat : 0 < m /\ m < job[p].number
        => \E a \in attempts : IsRow(a, job[p].kind, job[p].transfer, m)
  BY <1>0 DEF RowsInv, ProcOK
<1>2. CASE ~Taken(p) /\ InsertAttempt(p, "submitted", job[p].tx) /\ Goto(p, "mark")
  <2>1. pc'[p] = "mark"
    BY <1>2 DEF Goto, TypeInv, TypeOK
  <2>2. /\ RowsKept(attempts, attempts') /\ NoOtherTx(p)
        /\ (RowsUnique /\ Counted /\ RowsMatchChain /\ TodoOK)'
        /\ \E a \in attempts' :
             IsRow(a, job[p].kind, job[p].transfer, job[p].number) /\ a.tx = job[p].tx
    BY <1>0, <1>2, InsertRow
  <2>3. job[p].tx # 0
    BY <1>0 DEF RowsInv, ProcOK, TypeInv, TypeOK
  <2>4. \A m \in Nat : 0 < m /\ m < job[p].number
          => \E a \in attempts' : IsRow(a, job[p].kind, job[p].transfer, m)
    BY <1>1, <2>2 DEF RowsKept, IsRow
  <2>5. ProcOK(pc'[p], job'[p], attempts', chain')
    BY <1>0, <2>1, <2>2, <2>3, <2>4 DEF ProcOK
  <2>6. ChainKept(chain, chain')
    BY <1>0 DEF ChainKept
  <2>. QED BY <1>0, <2>1, <2>2, <2>5, <2>6, RowsStep
<1>3. CASE Goto(p, "catch") /\ UNCHANGED attempts
  <2>1. pc'[p] = "catch" /\ job'[p] = job[p]
    BY <1>0, <1>3 DEF Goto, TypeInv, TypeOK
  <2>2. ProcOK(pc'[p], job'[p], attempts, chain)
    BY <1>1, <2>1 DEF ProcOK
  <2>. QED BY <1>0, <1>3, <2>1, <2>2, QuietStep
<1>. QED BY <1>2, <1>3 DEF Record

LEMMA MarkRows ==
  ASSUME TypeInv, RowsInv, NEW p \in Procs, Mark(p)
  PROVE  RowsInv'
<1>1. pc[p] = "mark" /\ pc'[p] \in {"notify", "catch"} /\ job'[p] = job[p]
  BY DEF TypeInv, TypeOK, Mark, Goto
<1>2. ProcOK(pc'[p], job'[p], attempts, chain)
  BY <1>1 DEF RowsInv, ProcOK
<1>3. UNCHANGED <<attempts, chain>> /\ todo' \subseteq todo
  BY DEF Mark, chainVars
<1>. QED BY <1>1, <1>2, <1>3, MarkType, QuietStep

LEMMA NotifyRows ==
  ASSUME TypeInv, RowsInv, NEW p \in Procs, Notify(p)
  PROVE  RowsInv'
<1>1. pc[p] = "notify" /\ (pc'[p] = "rest" \/ (pc'[p] = "catch" /\ job'[p] = job[p]))
  <2>1. pc[p] = "notify" /\ pc \in [Procs -> Labels]
    BY DEF TypeInv, TypeOK, Notify
  <2>2. Goto(p, "rest") \/ (Goto(p, "catch") /\ UNCHANGED job)
    BY DEF Notify, Return
  <2>. QED BY <2>1, <2>2 DEF Goto
<1>2. ProcOK(pc'[p], job'[p], attempts, chain)
  BY <1>1 DEF RowsInv, ProcOK
<1>3. UNCHANGED <<attempts, chain>> /\ todo' \subseteq todo
  BY DEF Notify, Return, chainVars
<1>. QED BY <1>1, <1>2, <1>3, NotifyType, QuietStep

LEMMA CatchRows ==
  ASSUME TypeInv, RowsInv, NEW p \in Procs, Catch(p)
  PROVE  RowsInv'
<1>0. pc[p] = "catch" /\ UNCHANGED chain /\ Moves(p)
  BY CatchType DEF Catch, chainVars
<1>1. CASE ~Taken(p) /\ InsertAttempt(p, "failed", 0) /\ Goto(p, "fail") /\ UNCHANGED <<job, todo>>
  <2>1. pc'[p] = "fail" /\ job'[p] = job[p]
    BY <1>1 DEF Goto, TypeInv, TypeOK
  <2>2. /\ RowsKept(attempts, attempts') /\ NoOtherTx(p)
        /\ (RowsUnique /\ Counted /\ RowsMatchChain /\ TodoOK)'
        /\ \E a \in attempts' :
             IsRow(a, job[p].kind, job[p].transfer, job[p].number) /\ a.status = "failed"
    BY <1>0, <1>1, InsertRow
  <2>3. ProcOK(pc'[p], job'[p], attempts', chain')
    BY <2>1, <2>2 DEF ProcOK
  <2>4. ChainKept(chain, chain')
    BY <1>0 DEF ChainKept
  <2>. QED BY <1>0, <2>1, <2>2, <2>3, <2>4, RowsStep
<1>2. CASE Throw(p) /\ UNCHANGED attempts
  <2>1. pc'[p] = "rest" /\ todo' \subseteq todo
    BY <1>2 DEF Throw, Goto, TypeInv, TypeOK
  <2>. QED BY <1>0, <1>2, <2>1, IdleOK, QuietStep
<1>. QED BY <1>1, <1>2 DEF Catch

LEMMA FailRows ==
  ASSUME TypeInv, RowsInv, NEW p \in Procs, Fail(p)
  PROVE  RowsInv'
<1>1. pc[p] = "fail" /\ pc'[p] = "notify_failed" /\ job'[p] = job[p]
  BY DEF TypeInv, TypeOK, Fail, Goto
<1>2. ProcOK(pc'[p], job'[p], attempts, chain)
  BY <1>1 DEF RowsInv, ProcOK
<1>3. UNCHANGED <<attempts, chain>> /\ todo' \subseteq todo
  BY DEF Fail, chainVars
<1>. QED BY <1>1, <1>2, <1>3, FailType, QuietStep

LEMMA NotifyFailedRows ==
  ASSUME TypeInv, RowsInv, NEW p \in Procs, NotifyFailed(p)
  PROVE  RowsInv'
<1>1. pc'[p] = "rest"
  BY DEF TypeInv, TypeOK, NotifyFailed, Return, Goto
<1>2. UNCHANGED <<attempts, chain>> /\ todo' \subseteq todo
  BY DEF NotifyFailed, Return, chainVars
<1>. QED BY <1>1, <1>2, NotifyFailedType, IdleOK, QuietStep

(* The worker's loops *)
LEMMA DetectRows ==
  ASSUME TypeInv, RowsInv, NEW t \in Transfers, Detect(t)
  PROVE  RowsInv'
<1>1. pc'[Worker] = "announce"
  BY WorkerIsProc DEF TypeInv, TypeOK, Detect, Goto
<1>2. UNCHANGED <<attempts, chain>> /\ todo' \subseteq todo
  BY DEF Detect, chainVars
<1>. QED BY <1>1, <1>2, WorkerIsProc, DetectType, IdleOK, QuietStep

LEMMA ConfirmTransferRows ==
  ASSUME TypeInv, RowsInv, NEW i \in todo, ConfirmTransfer(i)
  PROVE  RowsInv'
<1>1. pc'[Worker] = "announce"
  BY WorkerIsProc DEF TypeInv, TypeOK, ConfirmTransfer, Goto
<1>2. UNCHANGED <<attempts, chain>> /\ todo' \subseteq todo
  BY DEF ConfirmTransfer, chainVars
<1>. QED BY <1>1, <1>2, WorkerIsProc, ConfirmTransferType, IdleOK, QuietStep

LEMMA AnnounceRows ==
  ASSUME TypeInv, RowsInv, Announce
  PROVE  RowsInv'
<1>1. pc'[Worker] \in {"gate", "rest"}
  BY WorkerIsProc DEF TypeInv, TypeOK, Announce, Return, Goto
<1>2. UNCHANGED <<attempts, chain>> /\ todo' \subseteq todo
  BY DEF Announce, Return, chainVars
<1>. QED BY <1>1, <1>2, WorkerIsProc, AnnounceType, IdleOK, QuietStep

LEMMA NextPhaseRows ==
  ASSUME TypeInv, RowsInv, NextPhase
  PROVE  RowsInv'
<1>0. UNCHANGED <<attempts, chain, pc, job>>
  BY DEF NextPhase, chainVars, dbVars
<1>1. \A i \in Ready : i.subject \notin Kinds
  BY DEF Ready, ListedTransfers, Kinds
<1>2. \A k \in Kinds : \A i \in Submitted(k) :
        \E a \in attempts : IsRow(a, i.subject, i.transfer, i.number) /\ a.status = "submitted"
  BY DEF Submitted, Listed, IsRow
<1>3. todo' = Ready \/ todo' = {} \/ \E k \in Kinds : todo' = Submitted(k)
  BY DEF NextPhase, Kinds
<1>4. TodoOK'
  BY <1>0, <1>1, <1>2, <1>3 DEF TodoOK
<1>5. RowsMatchChain'
  BY <1>0, NothingChanges, RowsMatchKept DEF RowsInv
<1>6. RowsUnique' /\ Counted' /\ OneRecorder'
  BY <1>0 DEF RowsInv, RowsUnique, Counted, Numbers, OneRecorder
<1>7. \A p \in Procs : ProcOK(pc'[p], job'[p], attempts', chain')
  BY <1>0 DEF RowsInv
<1>. QED BY <1>4, <1>5, <1>6, <1>7 DEF RowsInv

LEMMA CheckReceiptRows ==
  ASSUME TypeInv, RowsInv, NEW i \in todo, CheckReceipt(i)
  PROVE  RowsInv'
<1>0. UNCHANGED chain /\ todo' = todo \ {i} /\ Moves(Worker) /\ i.subject \in Kinds
      /\ pc[Worker] = "rest"
  BY CheckReceiptType DEF CheckReceipt, AtRest, chainVars
<1>1. PICK a \in attempts :
        /\ IsRow(a, i.subject, i.transfer, i.number)
        /\ \/ UNCHANGED <<attempts, pc, job>>
           \/ /\ chain[a.tx].outcome # "pending"
              /\ attempts' = (attempts \ {a})
                               \union {[a EXCEPT !.status = Result(chain[a.tx].outcome)]}
              /\ job' = [job EXCEPT ![Worker] =
                   [NoJob EXCEPT !.transfer = a.transfer, !.kind = a.kind,
                                 !.number = a.number, !.tx = a.tx]]
              /\ Goto(Worker, IF a.kind = "sweep" THEN "receipt_write" ELSE "receipt_notify")
  BY DEF CheckReceipt, IsRow
<1>2. CASE UNCHANGED <<attempts, pc, job>>
  <2>1. pc'[Worker] = "rest"
    BY <1>0, <1>2
  <2>. QED BY <1>0, <1>2, <2>1, WorkerIsProc, IdleOK, QuietStep
<1>3. CASE /\ chain[a.tx].outcome # "pending"
           /\ attempts' = (attempts \ {a})
                            \union {[a EXCEPT !.status = Result(chain[a.tx].outcome)]}
           /\ job' = [job EXCEPT ![Worker] =
                [NoJob EXCEPT !.transfer = a.transfer, !.kind = a.kind,
                              !.number = a.number, !.tx = a.tx]]
           /\ Goto(Worker, IF a.kind = "sweep" THEN "receipt_write" ELSE "receipt_notify")
  <2> DEFINE r == [a EXCEPT !.status = Result(chain[a.tx].outcome)]
  <2>1. a.kind \in Kinds
    BY <1>0, <1>1 DEF IsRow
  <2>2. /\ RowsKept(attempts, attempts')
        /\ (RowsUnique /\ Counted /\ RowsMatchChain /\ TodoOK)'
        /\ a.tx \in DOMAIN chain
        /\ \A b \in attempts' : \E c \in attempts : c.tx = b.tx
    BY <1>0, <1>1, <1>3, <2>1, ResolveRow
  <2>3. NoOtherTx(Worker)
    BY <2>2 DEF NoOtherTx
  <2>4. pc'[Worker] \in {"receipt_write", "receipt_notify"}
    BY <1>3, WorkerIsProc DEF Goto, TypeInv, TypeOK
  <2>5. /\ job'[Worker].transfer = a.transfer /\ job'[Worker].kind = a.kind
        /\ job'[Worker].number = a.number /\ job'[Worker].tx = a.tx
    BY <1>3, WorkerIsProc DEF NoJob, TypeInv, TypeOK
  <2>6. /\ r \in attempts' /\ IsRow(r, a.kind, a.transfer, a.number) /\ r.tx = a.tx
        /\ r.status = Result(chain[a.tx].outcome)
    BY <1>3 DEF IsRow, TypeInv, TypeOK, Attempts
  <2>7. ProcOK(pc'[Worker], job'[Worker], attempts', chain')
    BY <1>0, <1>3, <2>2, <2>4, <2>5, <2>6 DEF ProcOK
  <2>8. ChainKept(chain, chain')
    BY <1>0 DEF ChainKept
  <2>. QED BY <1>0, <2>2, <2>3, <2>4, <2>7, <2>8, WorkerIsProc, RowsStep
<1>. QED BY <1>1, <1>2, <1>3

LEMMA ReceiptWriteRows ==
  ASSUME TypeInv, RowsInv, ReceiptWrite
  PROVE  RowsInv'
<1>1. /\ pc[Worker] = "receipt_write"
      /\ \/ pc'[Worker] \in {"rest", "gate"}
         \/ pc'[Worker] = "receipt_notify" /\ job'[Worker] = job[Worker]
  BY WorkerIsProc DEF TypeInv, TypeOK, ReceiptWrite, Return, Goto
<1>2. ProcOK(pc'[Worker], job'[Worker], attempts, chain)
  BY <1>1, WorkerIsProc DEF RowsInv, ProcOK
<1>3. UNCHANGED <<attempts, chain>> /\ todo' \subseteq todo
  BY DEF ReceiptWrite, Return, chainVars
<1>. QED BY <1>1, <1>2, <1>3, WorkerIsProc, ReceiptWriteType, QuietStep

LEMMA ReceiptNotifyRows ==
  ASSUME TypeInv, RowsInv, ReceiptNotify
  PROVE  RowsInv'
<1>1. /\ pc[Worker] = "receipt_notify"
      /\ \/ pc'[Worker] = "rest"
         \/ pc'[Worker] = "receipt_write" /\ job'[Worker] = job[Worker]
  BY WorkerIsProc DEF TypeInv, TypeOK, ReceiptNotify, Return, Goto
<1>2. ProcOK(pc'[Worker], job'[Worker], attempts, chain)
  BY <1>1, WorkerIsProc DEF RowsInv, ProcOK
<1>3. UNCHANGED <<attempts, chain>> /\ todo' \subseteq todo
  BY DEF ReceiptNotify, Return, chainVars
<1>. QED BY <1>1, <1>2, <1>3, WorkerIsProc, ReceiptNotifyType, QuietStep

(* The owner, the payer, the chain, and failures *)
LEMMA RetryRows ==
  ASSUME TypeInv, RowsInv, NEW o \in Owners, NEW t \in Transfers, Retry(o, t)
  PROVE  RowsInv'
<1>1. o \in Procs
  BY DEF Procs
<1>2. pc'[o] = "gate"
  BY <1>1 DEF TypeInv, TypeOK, Retry, Goto
<1>3. UNCHANGED <<attempts, chain>> /\ todo' \subseteq todo
  BY DEF Retry, chainVars, dbVars
<1>. QED BY <1>1, <1>2, <1>3, RetryType, IdleOK, QuietStep

LEMMA PayRows ==
  ASSUME TypeInv, RowsInv, NEW t \in Transfers, Pay(t)
  PROVE  RowsInv'
<1>1. UNCHANGED <<attempts, chain, pc, job, todo>>
  BY DEF Pay, procVars
<1>2. (RowsUnique /\ Counted /\ RowsMatchChain /\ TodoOK)'
  BY <1>1, NothingChanges, QuietRows
<1>. QED BY <1>1, <1>2 DEF RowsInv, OneRecorder

LEMMA MineRows ==
  ASSUME TypeInv, RowsInv, NEW i \in DOMAIN chain, Mine(i)
  PROVE  RowsInv'
<1>1. UNCHANGED <<attempts, pc, job, todo>>
  BY DEF Mine, dbVars, procVars
<1>2. ChainKept(chain, chain')
  <2>1. chain[i].outcome = "pending" /\ \E o : chain' = [chain EXCEPT ![i].outcome = o]
    BY DEF Mine
  <2>2. chain[i] \in Transactions
    BY DEF TypeInv, TypeOK
  <2>3. DOMAIN chain' = DOMAIN chain /\ \A x \in DOMAIN chain : x # i => chain'[x] = chain[x]
    BY <2>1
  <2>4. chain'[i].kind = chain[i].kind /\ chain'[i].wallet = chain[i].wallet
    BY <2>1, <2>2 DEF Transactions
  <2>. QED BY <2>1, <2>3, <2>4 DEF ChainKept
<1>3. (RowsUnique /\ Counted /\ RowsMatchChain /\ TodoOK)'
  BY <1>1, <1>2, QuietRows
<1>4. RowsKept(attempts, attempts')
  BY <1>1 DEF RowsKept, IsRow
<1>5. ASSUME NEW q \in Procs PROVE ProcOK(pc'[q], job'[q], attempts', chain')
  <2>1. ProcOK(pc[q], job[q], attempts, chain)
    BY DEF RowsInv
  <2>2. pc[q] = "record" => \A b \in attempts' : b.tx # job[q].tx
    BY <1>1, <2>1 DEF ProcOK
  <2>. QED BY <1>1, <1>2, <1>4, <2>1, <2>2, ProcStable
<1>. QED BY <1>1, <1>3, <1>5 DEF RowsInv, OneRecorder

LEMMA AbortRows ==
  ASSUME TypeInv, RowsInv, NEW p \in Procs, Abort(p)
  PROVE  RowsInv'
<1>1. pc'[p] = "rest" /\ todo' \subseteq todo
  BY DEF Abort, Throw, Goto, TypeInv, TypeOK
<1>2. UNCHANGED <<attempts, chain>>
  BY DEF Abort, chainVars, dbVars
<1>. QED BY <1>1, <1>2, AbortType, IdleOK, QuietStep

-------------------------------------------------------------------------------
(* The inductive invariant, and what it implies.                             *)
Inv == TypeInv /\ RowsInv

LEMMA InitInv == Init => Inv
<1>. SUFFICES ASSUME Init PROVE RowsInv
  BY InitType DEF Inv
<1>1. RowsUnique /\ RowsMatchChain /\ OneRecorder /\ TodoOK
  BY DEF Init, RowsUnique, RowsMatchChain, OneRecorder, TodoOK
<1>2. Counted
  <2>1. \A k \in Kinds, t \in Transfers : Numbers(k, t) = 1 .. 0
    BY DEF Init, Numbers
  <2>. QED BY <2>1 DEF Counted
<1>3. \A p \in Procs : ProcOK(pc[p], job[p], attempts, chain)
  BY IdleOK DEF Init
<1>. QED BY <1>1, <1>2, <1>3 DEF RowsInv

LEMMA StutterInv ==
  ASSUME Inv, UNCHANGED vars
  PROVE  Inv'
<1>1. UNCHANGED <<tokens, gas, chain, status, settlement, attempts, outbox, pc, job, phase, todo,
                  retries, aborts>>
  BY DEF vars, chainVars, dbVars, procVars, historyVars
<1>2. TypeInv'
  BY <1>1 DEF Inv, TypeInv, TypeOK, AnnounceOK
<1>3. (RowsUnique /\ Counted /\ RowsMatchChain /\ TodoOK)'
  BY <1>1, NothingChanges, QuietRows DEF Inv
<1>4. RowsInv'
  BY <1>1, <1>3 DEF Inv, RowsInv, OneRecorder
<1>. QED BY <1>2, <1>4 DEF Inv

LEMMA EnsureSettlementInv ==
  ASSUME Inv, NEW p \in Procs, EnsureSettlement(p)
  PROVE  Inv'
<1>. USE DEF Inv
<1>1. CASE Gate(p)         BY <1>1, GateType, GateRows
<1>2. CASE GasCheck(p)     BY <1>2, GasCheckType, GasCheckRows
<1>3. CASE TokenCheck(p)   BY <1>3, TokenCheckType, TokenCheckRows
<1>4. CASE Refuse(p)       BY <1>4, RefuseType, RefuseRows
<1>5. CASE Number(p)       BY <1>5, NumberRows
<1>6. CASE Send(p)         BY <1>6, SendType, SendRows
<1>7. CASE Record(p)       BY <1>7, RecordType, RecordRows
<1>8. CASE Mark(p)         BY <1>8, MarkType, MarkRows
<1>9. CASE Notify(p)       BY <1>9, NotifyType, NotifyRows
<1>10. CASE Catch(p)       BY <1>10, CatchType, CatchRows
<1>11. CASE Fail(p)        BY <1>11, FailType, FailRows
<1>12. CASE NotifyFailed(p) BY <1>12, NotifyFailedType, NotifyFailedRows
<1>. QED
  BY <1>1, <1>2, <1>3, <1>4, <1>5, <1>6, <1>7, <1>8, <1>9, <1>10, <1>11, <1>12
  DEF EnsureSettlement

LEMMA StepInv == Inv /\ [Next]_vars => Inv'
<1>. SUFFICES ASSUME Inv, [Next]_vars PROVE Inv'
  OBVIOUS
<1>. USE DEF Inv
<1>1. CASE UNCHANGED vars
  BY <1>1, StutterInv
<1>2. CASE EnsureSettlement(Worker)
  BY <1>2, WorkerIsProc, EnsureSettlementInv
<1>3. ASSUME NEW t \in Transfers, Detect(t) PROVE Inv'
  BY <1>3, DetectType, DetectRows
<1>4. ASSUME NEW i \in todo, ConfirmTransfer(i) PROVE Inv'
  BY <1>4, ConfirmTransferType, ConfirmTransferRows
<1>5. ASSUME NEW i \in todo, CheckReceipt(i) PROVE Inv'
  BY <1>5, CheckReceiptType, CheckReceiptRows
<1>6. CASE Announce
  BY <1>6, AnnounceType, AnnounceRows
<1>7. CASE NextPhase
  BY <1>7, NextPhaseType, NextPhaseRows
<1>8. CASE ReceiptWrite
  BY <1>8, ReceiptWriteType, ReceiptWriteRows
<1>9. CASE ReceiptNotify
  BY <1>9, ReceiptNotifyType, ReceiptNotifyRows
<1>10. ASSUME NEW o \in Owners, EnsureSettlement(o) PROVE Inv'
  BY <1>10, EnsureSettlementInv DEF Procs
<1>11. ASSUME NEW o \in Owners, NEW t \in Transfers, Retry(o, t) PROVE Inv'
  BY <1>11, RetryType, RetryRows
<1>12. ASSUME NEW t \in Transfers, Pay(t) PROVE Inv'
  BY <1>12, PayType, PayRows
<1>13. ASSUME NEW i \in DOMAIN chain, Mine(i) PROVE Inv'
  BY <1>13, MineType, MineRows
<1>14. ASSUME NEW p \in Procs, Abort(p) PROVE Inv'
  BY <1>14, AbortType, AbortRows
<1>. QED
  BY <1>1, <1>2, <1>3, <1>4, <1>5, <1>6, <1>7, <1>8, <1>9, <1>10, <1>11, <1>12, <1>13, <1>14
  DEF Next, WorkerStep, WorkerLoop

LEMMA InvHolds == Spec => []Inv
  BY InitInv, StepInv, PTL DEF Spec

(* Every variable keeps its type.                                            *)
THEOREM TypeCorrect == Spec => []TypeOK
<1>1. Inv => TypeOK
  BY DEF Inv, TypeInv
<1>. QED BY <1>1, InvHolds, PTL

(* The attempts of a transfer are numbered without a gap or a duplicate,     *)
(* however many owner requests settle next to the worker and whatever fails: *)
(* createGasTopUp and createSweep insert a number read several awaits ago.   *)
THEOREM AttemptHistoryHolds == Spec => []AttemptHistory
<1>1. ASSUME Inv PROVE AttemptHistory
  <2>. SUFFICES ASSUME NEW a \in attempts
                PROVE  1 .. a.number \subseteq Numbers(a.kind, a.transfer)
    BY <1>1 DEF AttemptHistory, Inv, RowsInv, RowsUnique, IsRow
  <2>1. a.kind \in Kinds /\ a.transfer \in Transfers
    BY <1>1 DEF Inv, TypeInv, TypeOK, Attempts
  <2>2. PICK n \in Nat : Numbers(a.kind, a.transfer) = 1 .. n
    BY <1>1, <2>1 DEF Inv, RowsInv, Counted
  <2>3. a.number \in 1 .. n
    BY <2>2 DEF Numbers
  <2>. QED BY <2>2, <2>3
<1>. QED BY <1>1, InvHolds, PTL

(* The rows tell the truth about the chain: a row names a transaction of its *)
(* own kind and wallet that no other row names, and is confirmed or failed   *)
(* only if that transaction succeeded or reverted.                           *)
THEOREM RowsMatchChainHolds == Spec => []RowsMatchChain
<1>1. Inv => RowsMatchChain
  BY DEF Inv, RowsInv
<1>. QED BY <1>1, InvHolds, PTL

-------------------------------------------------------------------------------
(* The rows are what settlement and events rest on: no step takes one back.  *)
LEMMA KeptStep ==
  ASSUME Inv, [Next]_vars
  PROVE  RowsKept(attempts, attempts')
<1>1. CASE UNCHANGED attempts
  BY <1>1 DEF RowsKept, IsRow
<1>2. ASSUME NEW p \in Procs, EnsureSettlement(p) PROVE RowsKept(attempts, attempts')
  <2>1. attempts \subseteq attempts'
    <3>1. CASE Record(p) \/ Catch(p)
      BY <3>1 DEF Record, Catch, InsertAttempt
    <3>2. CASE Gate(p) \/ GasCheck(p) \/ TokenCheck(p) \/ Refuse(p) \/ Number(p) \/ Send(p)
      BY <3>2 DEF Gate, GasCheck, TokenCheck, Refuse, Number, Send, dbVars
    <3>3. CASE Mark(p) \/ Notify(p) \/ Fail(p) \/ NotifyFailed(p)
      BY <3>3 DEF Mark, Notify, Fail, NotifyFailed
    <3>. QED BY <1>2, <3>1, <3>2, <3>3 DEF EnsureSettlement
  <2>. QED BY <2>1 DEF RowsKept, IsRow
<1>3. ASSUME NEW i \in todo, CheckReceipt(i) PROVE RowsKept(attempts, attempts')
  <2>1. PICK a \in attempts :
          /\ IsRow(a, i.subject, i.transfer, i.number) /\ a.kind \in Kinds
          /\ \/ UNCHANGED attempts
             \/ /\ chain[a.tx].outcome # "pending"
                /\ attempts' = (attempts \ {a})
                                 \union {[a EXCEPT !.status = Result(chain[a.tx].outcome)]}
    BY <1>3 DEF CheckReceipt, IsRow
  <2>2. todo' = todo \ {i} /\ UNCHANGED chain
    BY <1>3 DEF CheckReceipt, chainVars
  <2>. QED BY <1>1, <2>1, <2>2, ResolveRow DEF Inv
<1>4. CASE WorkerStep
  <2>1. CASE \E t \in Transfers : Detect(t)
    BY <2>1, <1>1 DEF Detect
  <2>2. CASE \E i \in todo : ConfirmTransfer(i)
    BY <2>2, <1>1 DEF ConfirmTransfer
  <2>3. CASE Announce \/ NextPhase \/ ReceiptWrite \/ ReceiptNotify
    BY <2>3, <1>1 DEF Announce, NextPhase, ReceiptWrite, ReceiptNotify, dbVars
  <2>. QED BY <1>2, <1>3, <1>4, <2>1, <2>2, <2>3, WorkerIsProc DEF WorkerStep, WorkerLoop
<1>5. CASE \E o \in Owners : EnsureSettlement(o)
  BY <1>2, <1>5 DEF Procs
<1>6. CASE \E o \in Owners, t \in Transfers : Retry(o, t)
  BY <1>1, <1>6 DEF Retry, dbVars
<1>7. CASE \E t \in Transfers : Pay(t)
  BY <1>1, <1>7 DEF Pay
<1>8. CASE \E i \in DOMAIN chain : Mine(i)
  BY <1>1, <1>8 DEF Mine, dbVars
<1>9. CASE \E p \in Procs : Abort(p)
  BY <1>1, <1>9 DEF Abort, dbVars
<1>10. CASE UNCHANGED vars
  BY <1>1, <1>10 DEF vars, dbVars
<1>. QED BY <1>4, <1>5, <1>6, <1>7, <1>8, <1>9, <1>10 DEF Next

(* A write of "pending" or "submitted" settles nothing.                      *)
LEMMA UnsettlingWrite ==
  ASSUME Inv, NEW u \in Transfers, NEW st \in {"pending", "submitted"}, NEW step,
         SetSettlement(u, st, step) \/ UNCHANGED settlement
  PROVE  \A t \in Transfers : settlement'[t].status = "settled" => settlement[t].status = "settled"
<1>. SUFFICES ASSUME NEW t \in Transfers, settlement'[t].status = "settled"
              PROVE  settlement[t].status = "settled"
  OBVIOUS
<1>1. CASE UNCHANGED settlement
  BY <1>1
<1>2. CASE settlement' = [settlement EXCEPT ![u] = [status |-> st, step |-> step]]
  <2>1. settlement'[u].status = st
    BY <1>2 DEF Inv, TypeInv, TypeOK
  <2>2. t # u
    BY <2>1
  <2>. QED BY <1>2, <2>2 DEF Inv, TypeInv, TypeOK
<1>. QED BY <1>1, <1>2 DEF SetSettlement

(* What can settle a transfer: the gate for a direct one, the receipt of a   *)
(* sweep for one into a temporary wallet.                                    *)
LEMMA SettlesStep ==
  ASSUME Inv, [Next]_vars, NEW t \in Transfers \ Direct,
         settlement[t].status # "settled", settlement'[t].status = "settled"
  PROVE  ReceiptWrite /\ job[Worker].transfer = t /\ job[Worker].kind = "sweep" /\ Succeeded(job[Worker])
<1>0. \A p \in Procs : pc[p] # "rest" => job[p].transfer \in Transfers
  BY DEF Inv, TypeInv, LocalOK
<1>1. ASSUME NEW p \in Procs PROVE ~EnsureSettlement(p)
  <2>1. CASE Gate(p)
    <3>1. \/ UNCHANGED settlement
          \/ job[p].transfer \in Direct /\ SetSettlement(job[p].transfer, "settled", "none")
      BY <2>1 DEF Gate
    <3>. QED BY <3>1 DEF SetSettlement, Inv, TypeInv, TypeOK
  <2>2. CASE Refuse(p) \/ Fail(p)
    BY <2>2, <1>0, UnsettlingWrite DEF Refuse, Fail
  <2>3. CASE Mark(p)
    BY <2>3, <1>0, UnsettlingWrite DEF Mark
  <2>4. CASE GasCheck(p) \/ TokenCheck(p) \/ Number(p) \/ Send(p)
    BY <2>4 DEF GasCheck, TokenCheck, Number, Send, dbVars
  <2>5. CASE Record(p) \/ Notify(p) \/ Catch(p) \/ NotifyFailed(p)
    BY <2>5 DEF Record, Notify, Catch, NotifyFailed
  <2>. QED BY <2>1, <2>2, <2>3, <2>4, <2>5 DEF EnsureSettlement
<1>2. ~UNCHANGED settlement
  OBVIOUS
<1>3. CASE ReceiptWrite
  <2>1. job[Worker].transfer \in Transfers
    BY <1>0, <1>3, WorkerIsProc DEF ReceiptWrite
  <2>2. SetSettlement(job[Worker].transfer, "settled", "none")
    BY <1>3, <2>1, UnsettlingWrite DEF ReceiptWrite
  <2>3. job[Worker].transfer = t
    BY <2>2 DEF SetSettlement, Inv, TypeInv, TypeOK
  <2>4. Succeeded(job[Worker]) /\ job[Worker].kind = "sweep"
    BY <1>3, <2>1, UnsettlingWrite DEF ReceiptWrite
  <2>. QED BY <1>3, <2>3, <2>4
<1>4. CASE WorkerStep
  <2>1. ~(\E x \in Transfers : Detect(x))
    BY <1>2 DEF Detect
  <2>2. ~(\E i \in todo : ConfirmTransfer(i) \/ CheckReceipt(i))
    BY <1>2 DEF ConfirmTransfer, CheckReceipt
  <2>3. ~(Announce \/ NextPhase \/ ReceiptNotify)
    BY <1>2 DEF Announce, NextPhase, ReceiptNotify, dbVars
  <2>. QED BY <1>1, <1>3, <1>4, <2>1, <2>2, <2>3, WorkerIsProc DEF WorkerStep, WorkerLoop
<1>5. ~(\E o \in Owners : EnsureSettlement(o))
  BY <1>1 DEF Procs
<1>6. ~(\E o \in Owners, x \in Transfers : Retry(o, x)) /\ ~(\E x \in Transfers : Pay(x))
  BY <1>2 DEF Retry, Pay, dbVars
<1>7. ~(\E i \in DOMAIN chain : Mine(i)) /\ ~(\E p \in Procs : Abort(p)) /\ ~UNCHANGED vars
  BY <1>2 DEF Mine, Abort, vars, dbVars
<1>. QED BY <1>4, <1>5, <1>6, <1>7 DEF Next

(* A transfer into a temporary wallet is settled only by a confirmed sweep   *)
(* of its own, whatever the interleaving, the faults and the crashes:        *)
(* updateTransferSettlement itself checks nothing.                           *)
THEOREM SettledBySweepHolds == Spec => []SettledBySweep
<1>1. Init => SettledBySweep
  BY DEF Init, SettledBySweep
<1>2. ASSUME Inv, SettledBySweep, [Next]_vars PROVE SettledBySweep'
  <2>. SUFFICES ASSUME NEW t \in Transfers \ Direct, settlement'[t].status = "settled"
                PROVE  \E b \in attempts' : b.kind = "sweep" /\ b.transfer = t /\ b.status = "confirmed"
    BY DEF SettledBySweep
  <2>1. \E a \in attempts : a.kind = "sweep" /\ a.transfer = t /\ a.status = "confirmed"
    <3>1. CASE settlement[t].status = "settled"
      BY <1>2, <3>1 DEF SettledBySweep
    <3>2. CASE settlement[t].status # "settled"
      <4>1. /\ ReceiptWrite /\ job[Worker].transfer = t /\ job[Worker].kind = "sweep"
            /\ Succeeded(job[Worker])
        BY <1>2, <3>2, SettlesStep
      <4>2. ProcOK("receipt_write", job[Worker], attempts, chain)
        BY <1>2, <4>1, WorkerIsProc DEF Inv, RowsInv, ReceiptWrite
      <4>. QED BY <4>1, <4>2 DEF ProcOK, IsRow, Succeeded, Result
    <3>. QED BY <3>1, <3>2
  <2>2. RowsKept(attempts, attempts')
    BY <1>2, KeptStep
  <2>. QED BY <2>1, <2>2 DEF RowsKept, IsRow
<1>. QED BY <1>1, <1>2, InvHolds, PTL DEF Spec

(* What an event about an attempt may say, given the rows.                   *)
Backed(e, rows) ==
  \E a \in rows :
    /\ IsRow(a, e.subject, e.transfer, e.number)
    /\ IF e.status = "submitted" THEN a.tx # 0 ELSE a.status = e.status

(* A new event about an attempt is backed by a row when it is enqueued.      *)
LEMMA NewEventBacked ==
  ASSUME Inv, [Next]_vars, NEW e \in outbox', e \notin outbox, e.subject \in Kinds
  PROVE  Backed(e, attempts)
<1>0. ~UNCHANGED outbox
  OBVIOUS
<1>1. ASSUME NEW p \in Procs, EnsureSettlement(p) PROVE Backed(e, attempts)
  <2>1. CASE Notify(p)
    <3>1. /\ e.subject = job[p].kind /\ e.transfer = job[p].transfer
          /\ e.number = job[p].number /\ e.status = "submitted"
      BY <2>1 DEF Notify, Enqueue
    <3>2. ProcOK("notify", job[p], attempts, chain)
      BY <2>1 DEF Inv, RowsInv, Notify
    <3>. QED BY <3>1, <3>2 DEF ProcOK, Backed
  <2>2. CASE NotifyFailed(p)
    <3>1. /\ e.subject = job[p].kind /\ e.transfer = job[p].transfer
          /\ e.number = job[p].number /\ e.status = "failed"
      BY <2>2 DEF NotifyFailed, Enqueue
    <3>2. ProcOK("notify_failed", job[p], attempts, chain)
      BY <2>2 DEF Inv, RowsInv, NotifyFailed
    <3>. QED BY <3>1, <3>2 DEF ProcOK, Backed
  <2>3. ~(Gate(p) \/ GasCheck(p) \/ TokenCheck(p) \/ Refuse(p) \/ Number(p))
    BY <1>0 DEF Gate, GasCheck, TokenCheck, Refuse, Number, dbVars
  <2>4. ~(Send(p) \/ Record(p) \/ Mark(p) \/ Catch(p) \/ Fail(p))
    BY <1>0 DEF Send, Record, Mark, Catch, Fail, dbVars
  <2>. QED BY <1>1, <2>1, <2>2, <2>3, <2>4 DEF EnsureSettlement
<1>2. CASE ReceiptNotify
  <2>1. /\ e.subject = job[Worker].kind /\ e.transfer = job[Worker].transfer
        /\ e.number = job[Worker].number
        /\ e.status = IF Succeeded(job[Worker]) THEN "confirmed" ELSE "failed"
    BY <1>2 DEF ReceiptNotify, Enqueue
  <2>2. ProcOK("receipt_notify", job[Worker], attempts, chain)
    BY <1>2, WorkerIsProc DEF Inv, RowsInv, ReceiptNotify
  <2>. QED BY <2>1, <2>2 DEF ProcOK, Backed, Succeeded, Result
<1>3. ~Announce
  BY DEF Announce, Enqueue, Kinds
<1>4. CASE WorkerStep
  <2>1. ~(\E x \in Transfers : Detect(x))
    BY <1>0 DEF Detect
  <2>2. ~(\E i \in todo : ConfirmTransfer(i) \/ CheckReceipt(i))
    BY <1>0 DEF ConfirmTransfer, CheckReceipt
  <2>3. ~(NextPhase \/ ReceiptWrite)
    BY <1>0 DEF NextPhase, ReceiptWrite, dbVars
  <2>. QED BY <1>1, <1>2, <1>3, <1>4, <2>1, <2>2, <2>3, WorkerIsProc DEF WorkerStep, WorkerLoop
<1>5. CASE \E o \in Owners : EnsureSettlement(o)
  BY <1>1, <1>5 DEF Procs
<1>6. ~(\E o \in Owners, x \in Transfers : Retry(o, x)) /\ ~(\E x \in Transfers : Pay(x))
  BY <1>0 DEF Retry, Pay, dbVars
<1>7. ~(\E i \in DOMAIN chain : Mine(i)) /\ ~(\E p \in Procs : Abort(p)) /\ ~UNCHANGED vars
  BY <1>0 DEF Mine, Abort, vars, dbVars
<1>. QED BY <1>4, <1>5, <1>6, <1>7 DEF Next

(* A callback about an attempt never says what its row does not: it is       *)
(* enqueued several awaits after the row was written, and what it says is    *)
(* still true then and stays true.                                           *)
THEOREM EventsMatchRowsHolds == Spec => []EventsMatchRows
<1>0. EventsMatchRows <=> \A e \in outbox : e.subject \in Kinds => Backed(e, attempts)
  BY DEF EventsMatchRows, Backed, IsRow
<1>1. Init => EventsMatchRows
  BY DEF Init, EventsMatchRows
<1>2. ASSUME Inv, EventsMatchRows, [Next]_vars PROVE EventsMatchRows'
  <2>1. RowsKept(attempts, attempts')
    BY <1>2, KeptStep
  <2>2. ASSUME NEW e \in outbox', e.subject \in Kinds PROVE Backed(e, attempts')
    <3>1. Backed(e, attempts)
      BY <1>0, <1>2, <2>2, NewEventBacked
    <3>2. PICK a \in attempts :
            /\ IsRow(a, e.subject, e.transfer, e.number)
            /\ IF e.status = "submitted" THEN a.tx # 0 ELSE a.status = e.status
      BY <3>1 DEF Backed
    <3>3. PICK b \in attempts' :
            /\ IsRow(b, a.kind, a.transfer, a.number) /\ b.tx = a.tx
            /\ a.status # "submitted" => b.status = a.status
      BY <2>1 DEF RowsKept
    <3>. QED BY <3>2, <3>3 DEF Backed, IsRow
  <2>. QED BY <2>2 DEF EventsMatchRows, Backed, IsRow
<1>. QED BY <1>1, <1>2, InvHolds, PTL DEF Spec
-------------------------------------------------------------------------------
(* The label after a step of p, and its local variables unless it returns.   *)
LEMMA CallStep ==
  ASSUME Inv, NEW p \in Procs, EnsureSettlement(p)
  PROVE  /\ Moves(p)
         /\ UNCHANGED <<status, retries, aborts>>
         /\ todo' \subseteq todo
         /\ pc[p] \notin {"rest", "announce", "receipt_write", "receipt_notify"}
         /\ pc'[p] \notin {"announce", "gate", "receipt_write", "receipt_notify"}
         /\ pc'[p] # "rest" => job'[p].transfer = job[p].transfer
<1>. USE DEF Inv
<1>0. pc \in [Procs -> Labels] /\ job \in [Procs -> Jobs]
  BY DEF TypeInv, TypeOK
<1>1. Moves(p)
  <2>1. CASE Gate(p) \/ GasCheck(p) \/ TokenCheck(p) \/ Refuse(p) \/ Send(p) \/ Record(p)
    BY <2>1, GateType, GasCheckType, TokenCheckType, RefuseType, SendType, RecordType
  <2>2. CASE Mark(p) \/ Notify(p) \/ Catch(p) \/ Fail(p) \/ NotifyFailed(p)
    BY <2>2, MarkType, NotifyType, CatchType, FailType, NotifyFailedType
  <2>3. CASE Number(p)
    BY <2>3 DEF Number, Moves, Goto, TypeInv, TypeOK
  <2>. QED BY <2>1, <2>2, <2>3 DEF EnsureSettlement
<1>2. UNCHANGED <<status, retries, aborts>>
  <2>1. CASE Gate(p) \/ GasCheck(p) \/ TokenCheck(p) \/ Refuse(p) \/ Number(p) \/ Send(p)
    BY <2>1 DEF Gate, GasCheck, TokenCheck, Refuse, Number, Send, dbVars, historyVars
  <2>2. CASE Record(p) \/ Mark(p) \/ Notify(p) \/ Catch(p) \/ Fail(p) \/ NotifyFailed(p)
    BY <2>2 DEF Record, Mark, Notify, Catch, Fail, NotifyFailed, historyVars
  <2>. QED BY <2>1, <2>2 DEF EnsureSettlement
<1>3. todo' \subseteq todo
  <2>1. CASE Gate(p) \/ GasCheck(p) \/ TokenCheck(p) \/ Refuse(p) \/ Number(p) \/ Send(p)
    BY <2>1 DEF Gate, GasCheck, TokenCheck, Refuse, Number, Send, Return
  <2>2. CASE Record(p) \/ Mark(p) \/ Notify(p) \/ Catch(p) \/ Fail(p) \/ NotifyFailed(p)
    BY <2>2 DEF Record, Mark, Notify, Catch, Fail, NotifyFailed, Return, Throw
  <2>. QED BY <2>1, <2>2 DEF EnsureSettlement
<1>4. /\ pc[p] \notin {"rest", "announce", "receipt_write", "receipt_notify"}
      /\ pc'[p] \notin {"announce", "gate", "receipt_write", "receipt_notify"}
  <2>1. CASE Gate(p) \/ GasCheck(p) \/ TokenCheck(p) \/ Refuse(p) \/ Number(p) \/ Send(p)
    BY <2>1, <1>0 DEF Gate, GasCheck, TokenCheck, Refuse, Number, Send, Return, Goto
  <2>2. CASE Record(p) \/ Mark(p) \/ Notify(p) \/ Catch(p) \/ Fail(p) \/ NotifyFailed(p)
    BY <2>2, <1>0 DEF Record, Mark, Notify, Catch, Fail, NotifyFailed, Return, Throw, Goto
  <2>. QED BY <2>1, <2>2 DEF EnsureSettlement
<1>5. pc'[p] # "rest" => job'[p].transfer = job[p].transfer
  <2>1. CASE Gate(p) \/ GasCheck(p) \/ TokenCheck(p)
    BY <2>1, <1>0 DEF Gate, GasCheck, TokenCheck, Return, Goto, Jobs
  <2>2. CASE Number(p) \/ Send(p)
    BY <2>2, <1>0 DEF Number, Send, Goto, Jobs
  <2>3. CASE Refuse(p) \/ Record(p) \/ Mark(p) \/ Notify(p) \/ Catch(p) \/ Fail(p) \/ NotifyFailed(p)
    BY <2>3, <1>0 DEF Refuse, Record, Mark, Notify, Catch, Fail, NotifyFailed, Return, Throw, Goto
  <2>. QED BY <2>1, <2>2, <2>3 DEF EnsureSettlement
<1>. QED BY <1>1, <1>2, <1>3, <1>4, <1>5

-------------------------------------------------------------------------------
(***************************************************************************)
(* Callbacks. Who has inserted or resolved the row of an attempt owes its  *)
(* callback, and of each callback there is one debtor.                     *)
(***************************************************************************)
Messages == {"submission", "result"}

Owes(p, m) ==
  IF m = "submission" THEN pc[p] \in {"mark", "notify"}
  ELSE \/ pc[p] \in {"fail", "notify_failed", "receipt_notify"}
       \/ pc[p] = "receipt_write" /\ job[p].kind = "sweep"

SameAttempt(i, j) == i.kind = j.kind /\ i.transfer = j.transfer /\ i.number = j.number

Says(e, j, m) ==
  /\ IsRow(j, e.subject, e.transfer, e.number)
  /\ e.status = "submitted" <=> m = "submission"

(* What p owes was not said, and nobody else owes it.                        *)
Clear(p, j, m) ==
  /\ \A e \in outbox : ~Says(e, j, m)
  /\ \A q \in Procs \ {p} : Owes(q, m) => ~SameAttempt(j, job[q])

Owed == \A p \in Procs, m \in Messages : Owes(p, m) => Clear(p, job[p], m)

(* A step of p that says what it owes, if anything, and owes no more than    *)
(* before or something nobody owed.                                          *)
LEMMA OwedStep ==
  ASSUME Inv, Owed, NEW p \in Procs, Moves(p),
         \A e \in outbox' : \/ e \in outbox
                            \/ e.subject \notin Kinds
                            \/ \E m \in Messages : Owes(p, m) /\ ~Owes(p, m)' /\ Says(e, job[p], m),
         \A m \in Messages : Owes(p, m)' => outbox' = outbox /\ Clear(p, job'[p], m)
  PROVE  Owed'
<1>1. \A q \in Procs : q # p => pc'[q] = pc[q] /\ job'[q] = job[q]
  BY DEF Moves, Inv, TypeInv, TypeOK
<1>2. \A q \in Procs, m \in Messages : q # p => (Owes(q, m)' <=> Owes(q, m))
  BY <1>1 DEF Owes
<1>3. ASSUME NEW m \in Messages, Owes(p, m)' PROVE Clear(p, job[p], m)'
  BY <1>1, <1>2, <1>3 DEF Clear
<1>4. ASSUME NEW q \in Procs, q # p, NEW m \in Messages, Owes(q, m)
      PROVE  Clear(q, job[q], m)'
  <2>1. Clear(q, job[q], m)
    BY <1>4 DEF Owed
  <2>2. job[q].kind \in Kinds
    BY <1>4 DEF Owes, Inv, TypeInv, LocalOK, KindLabels
  <2>3. ASSUME NEW e \in outbox', Says(e, job[q], m) PROVE FALSE
    <3>1. e.subject \in Kinds /\ e \notin outbox
      BY <2>1, <2>2, <2>3 DEF Clear, Says, IsRow
    <3>2. PICK n \in Messages : Owes(p, n) /\ Says(e, job[p], n)
      BY <3>1
    <3>3. n = m
      BY <2>3, <3>2 DEF Says, Messages
    <3>4. SameAttempt(job[q], job[p])
      BY <2>3, <3>2 DEF Says, IsRow, SameAttempt
    <3>. QED BY <2>1, <3>2, <3>3, <3>4, <1>4 DEF Clear
  <2>4. ASSUME Owes(p, m)' PROVE ~SameAttempt(job[q], job'[p])
    <3>1. Clear(p, job'[p], m)
      BY <2>4
    <3>. QED BY <3>1, <1>4 DEF Clear, SameAttempt
  <2>5. \A x \in Procs \ {q} : Owes(x, m)' => ~SameAttempt(job[q], job'[x])
    BY <1>1, <1>2, <2>1, <2>4 DEF Clear
  <2>. QED BY <1>1, <1>4, <2>3, <2>5 DEF Clear
<1>. QED BY <1>1, <1>2, <1>3, <1>4 DEF Owed

(* A row that was just inserted or resolved has not been reported, and no     *)
(* other process owes its callback.                                          *)
LEMMA InsertedClear ==
  ASSUME Inv, EventsMatchRows, NEW p \in Procs, pc[p] \in NumberLabels, ~Taken(p), NEW m \in Messages
  PROVE  Clear(p, job[p], m)
<1>1. \A a \in attempts : ~IsRow(a, job[p].kind, job[p].transfer, job[p].number)
  BY DEF Taken, Numbers, IsRow
<1>2. job[p].kind \in Kinds
  BY DEF Inv, TypeInv, LocalOK, NumberLabels
<1>3. ASSUME NEW e \in outbox, Says(e, job[p], m) PROVE FALSE
  BY <1>1, <1>2, <1>3 DEF Says, IsRow, EventsMatchRows
<1>4. ASSUME NEW q \in Procs, Owes(q, m), SameAttempt(job[p], job[q]) PROVE FALSE
  <2>1. ProcOK(pc[q], job[q], attempts, chain)
    BY DEF Inv, RowsInv
  <2>2. \E a \in attempts : IsRow(a, job[q].kind, job[q].transfer, job[q].number)
    BY <1>4, <2>1 DEF Owes, ProcOK, Messages
  <2>. QED BY <1>1, <1>4, <2>2 DEF SameAttempt, IsRow
<1>. QED BY <1>3, <1>4 DEF Clear

LEMMA OwedCall ==
  ASSUME Inv, EventsMatchRows, Owed, NEW p \in Procs, EnsureSettlement(p)
  PROVE  Owed'
<1>0. Moves(p) /\ pc \in [Procs -> Labels] /\ job \in [Procs -> Jobs]
  BY CallStep DEF Inv, TypeInv, TypeOK
<1>1. CASE Gate(p) \/ GasCheck(p) \/ TokenCheck(p) \/ Refuse(p) \/ Number(p) \/ Send(p)
  <2>1. UNCHANGED outbox /\ pc'[p] \in {"rest", "refuse", "gas_check", "token_check", "number",
                                       "send", "record", "catch"}
    BY <1>0, <1>1 DEF Gate, GasCheck, TokenCheck, Refuse, Number, Send, Return, Goto, dbVars
  <2>. QED BY <1>0, <2>1, OwedStep DEF Owes
<1>2. CASE Record(p) /\ pc'[p] = "mark"
  <2>1. UNCHANGED <<outbox, job>> /\ pc[p] = "record" /\ ~Taken(p)
    BY <1>0, <1>2 DEF Record, Goto
  <2>2. Clear(p, job[p], "submission")
    BY <2>1, InsertedClear DEF NumberLabels, KindLabels, Messages
  <2>. QED BY <1>0, <1>2, <2>1, <2>2, OwedStep DEF Owes, Messages
<1>3. CASE Catch(p) /\ pc'[p] = "fail"
  <2>1. UNCHANGED <<outbox, job>> /\ pc[p] = "catch" /\ ~Taken(p)
    BY <1>0, <1>3 DEF Catch, Throw, Goto
  <2>2. Clear(p, job[p], "result")
    BY <2>1, InsertedClear DEF NumberLabels, KindLabels, Messages
  <2>. QED BY <1>0, <1>3, <2>1, <2>2, OwedStep DEF Owes, Messages
<1>4. CASE (Record(p) /\ pc'[p] # "mark") \/ (Catch(p) /\ pc'[p] # "fail")
  <2>1. UNCHANGED outbox /\ pc'[p] \in {"catch", "rest"}
    BY <1>0, <1>4 DEF Record, Catch, Throw, Goto
  <2>. QED BY <1>0, <2>1, OwedStep DEF Owes
<1>5. CASE Mark(p) \/ Fail(p)
  <2>1. /\ UNCHANGED <<outbox, job>>
        /\ \/ pc[p] = "mark" /\ pc'[p] \in {"notify", "catch"}
           \/ pc[p] = "fail" /\ pc'[p] = "notify_failed"
    <3>1. CASE Mark(p)
      BY <1>0, <3>1 DEF Mark, Goto
    <3>2. CASE Fail(p)
      BY <1>0, <3>2 DEF Fail, Goto
    <3>. QED BY <1>5, <3>1, <3>2
  <2>2. \A m \in Messages : Owes(p, m)' => Owes(p, m)
    BY <2>1 DEF Owes
  <2>. QED BY <1>0, <2>1, <2>2, OwedStep DEF Owed
<1>6. CASE Notify(p) \/ NotifyFailed(p)
  <2>1. pc'[p] \in {"rest", "catch"}
    BY <1>0, <1>6 DEF Notify, NotifyFailed, Return, Goto
  <2>2. \E m \in Messages :
          Owes(p, m) /\ ~Owes(p, m)' /\ \A e \in outbox' : e \in outbox \/ Says(e, job[p], m)
    BY <1>6, <2>1 DEF Notify, NotifyFailed, Enqueue, Says, IsRow, Owes, Messages
  <2>3. \A m \in Messages : ~Owes(p, m)'
    BY <2>1 DEF Owes
  <2>4. \A e \in outbox' : e \in outbox \/ \E m \in Messages : Owes(p, m) /\ ~Owes(p, m)' /\ Says(e, job[p], m)
    BY <2>2
  <2>. QED BY <1>0, <2>3, <2>4, OwedStep
<1>. QED BY <1>1, <1>2, <1>3, <1>4, <1>5, <1>6 DEF EnsureSettlement

(* The result of a submitted attempt was not reported, and is owed by nobody. *)
LEMMA ResolvedClear ==
  ASSUME Inv, EventsMatchRows, NEW a \in attempts, a.status = "submitted", a.kind \in Kinds, NEW j,
         IsRow(a, j.kind, j.transfer, j.number), pc[Worker] = "rest"
  PROVE  Clear(Worker, j, "result")
<1>1. \A b \in attempts : IsRow(b, j.kind, j.transfer, j.number) => b = a
  BY DEF Inv, RowsInv, RowsUnique, IsRow
<1>2. ASSUME NEW e \in outbox, Says(e, j, "result") PROVE FALSE
  BY <1>1, <1>2 DEF Says, IsRow, EventsMatchRows, Messages
<1>3. ASSUME NEW q \in Procs, Owes(q, "result"), SameAttempt(j, job[q]) PROVE FALSE
  <2>1. ProcOK(pc[q], job[q], attempts, chain)
    BY DEF Inv, RowsInv
  <2>2. \E b \in attempts : IsRow(b, job[q].kind, job[q].transfer, job[q].number) /\ b.status # "submitted"
    BY <1>3, <2>1 DEF Owes, ProcOK, Result
  <2>. QED BY <1>1, <1>3, <2>2 DEF SameAttempt, IsRow
<1>. QED BY <1>2, <1>3 DEF Clear

LEMMA OwedReceipt ==
  ASSUME Inv, EventsMatchRows, Owed, NEW i \in todo, CheckReceipt(i)
  PROVE  Owed'
<1>0. Moves(Worker) /\ pc \in [Procs -> Labels] /\ job \in [Procs -> Jobs] /\ Worker \in Procs
  BY CheckReceiptType, WorkerIsProc DEF Inv, TypeInv, TypeOK
<1>1. UNCHANGED outbox /\ pc[Worker] = "rest" /\ i.subject \in Kinds
  BY DEF CheckReceipt, AtRest
<1>2. CASE pc' = pc
  BY <1>0, <1>1, <1>2, OwedStep DEF Owes
<1>3. CASE pc' # pc
  <2>1. PICK a \in attempts :
          /\ IsRow(a, i.subject, i.transfer, i.number)
          /\ job'[Worker].kind = a.kind /\ job'[Worker].transfer = a.transfer
          /\ job'[Worker].number = a.number
          /\ pc'[Worker] \in {"receipt_write", "receipt_notify"}
    <3>1. PICK a \in attempts :
            /\ IsRow(a, i.subject, i.transfer, i.number)
            /\ job' = [job EXCEPT ![Worker] =
                  [NoJob EXCEPT !.transfer = a.transfer, !.kind = a.kind,
                                !.number = a.number, !.tx = a.tx]]
            /\ Goto(Worker, IF a.kind = "sweep" THEN "receipt_write" ELSE "receipt_notify")
      BY <1>3, Zenon DEF CheckReceipt, IsRow
    <3>2. /\ job'[Worker].kind = a.kind /\ job'[Worker].transfer = a.transfer
          /\ job'[Worker].number = a.number
      BY <1>0, <3>1 DEF NoJob
    <3>3. pc'[Worker] \in {"receipt_write", "receipt_notify"}
      BY <1>0, <3>1 DEF Goto
    <3>. QED BY <3>1, <3>2, <3>3
  <2>2. a.status = "submitted"
    BY <1>1, <2>1 DEF Inv, RowsInv, TodoOK, RowsUnique, IsRow
  <2>3. Clear(Worker, job'[Worker], "result")
    BY <1>1, <2>1, <2>2, ResolvedClear DEF IsRow
  <2>. QED BY <1>0, <1>1, <2>1, <2>3, OwedStep DEF Owes, Messages
<1>. QED BY <1>2, <1>3

LEMMA OwedNext ==
  ASSUME Inv, EventsMatchRows, Owed, [Next]_vars
  PROVE  Owed'
<1>0. pc \in [Procs -> Labels] /\ job \in [Procs -> Jobs] /\ Worker \in Procs
  BY WorkerIsProc DEF Inv, TypeInv, TypeOK
<1>1. ASSUME UNCHANGED <<pc, job, outbox>> PROVE Owed'
  BY <1>1 DEF Owed, Owes, Clear, Says
<1>2. ASSUME NEW p \in Procs, Moves(p), UNCHANGED outbox, pc'[p] \in {"rest", "announce", "gate"}
      PROVE  Owed'
  BY <1>2, OwedStep DEF Owes
<1>3. ASSUME NEW t \in Transfers, Detect(t) PROVE Owed'
  BY <1>0, <1>2, <1>3, DetectType DEF Detect, Goto, Inv
<1>4. ASSUME NEW i \in todo, ConfirmTransfer(i) PROVE Owed'
  BY <1>0, <1>2, <1>4, ConfirmTransferType DEF ConfirmTransfer, Goto, Inv
<1>5. CASE Announce
  <2>1. Moves(Worker) /\ pc'[Worker] \in {"rest", "gate"}
    BY <1>0, <1>5, AnnounceType DEF Announce, Return, Goto, Inv
  <2>2. \A e \in outbox' : e \in outbox \/ e.subject \notin Kinds
    BY <1>5 DEF Announce, Enqueue, Kinds
  <2>. QED BY <1>0, <2>1, <2>2, OwedStep DEF Owes
<1>6. CASE ReceiptWrite
  <2>1. Moves(Worker) /\ UNCHANGED outbox /\ pc[Worker] = "receipt_write"
    BY <1>6, ReceiptWriteType DEF ReceiptWrite, Inv
  <2>2. \/ pc'[Worker] \in {"rest", "gate"}
        \/ pc'[Worker] = "receipt_notify" /\ UNCHANGED job /\ job[Worker].kind = "sweep"
    BY <1>0, <1>6 DEF ReceiptWrite, Return, Goto
  <2>3. \A m \in Messages : Owes(Worker, m)' => Owes(Worker, m) /\ UNCHANGED job
    BY <2>1, <2>2 DEF Owes
  <2>. QED BY <1>0, <2>1, <2>3, OwedStep DEF Owed
<1>7. CASE ReceiptNotify
  <2>1. Moves(Worker) /\ pc[Worker] = "receipt_notify"
    BY <1>7, ReceiptNotifyType DEF ReceiptNotify, Inv
  <2>2. ~Owes(Worker, "result")' /\ ~Owes(Worker, "submission")'
    BY <1>0, <1>7 DEF ReceiptNotify, Return, Goto, Owes
  <2>3. \A e \in outbox' : e \in outbox \/ Says(e, job[Worker], "result")
    BY <1>7 DEF ReceiptNotify, Enqueue, Says, IsRow
  <2>4. \A e \in outbox' : e \in outbox \/ \E m \in Messages : Owes(Worker, m) /\ ~Owes(Worker, m)' /\ Says(e, job[Worker], m)
    BY <2>1, <2>2, <2>3 DEF Owes, Messages
  <2>. QED BY <1>0, <2>1, <2>2, <2>4, OwedStep DEF Messages
<1>8. CASE WorkerStep
  BY <1>0, <1>1, <1>3, <1>4, <1>5, <1>6, <1>7, <1>8, OwedCall, OwedReceipt
  DEF WorkerStep, WorkerLoop, NextPhase, dbVars
<1>9. CASE \E o \in Owners : EnsureSettlement(o)
  BY <1>9, OwedCall DEF Procs
<1>10. ASSUME NEW o \in Owners, NEW t \in Transfers, Retry(o, t) PROVE Owed'
  BY <1>0, <1>2, <1>10, RetryType DEF Retry, Goto, Inv, Procs, dbVars
<1>11. CASE (\E t \in Transfers : Pay(t)) \/ (\E i \in DOMAIN chain : Mine(i)) \/ UNCHANGED vars
  BY <1>1, <1>11 DEF Pay, Mine, vars, dbVars, procVars
<1>12. ASSUME NEW p \in Procs, Abort(p) PROVE Owed'
  BY <1>0, <1>2, <1>12, AbortType DEF Abort, Throw, Goto, Inv, dbVars
<1>. QED BY <1>8, <1>9, <1>10, <1>11, <1>12 DEF Next

(* No callback about an attempt is enqueued twice: attempts are reported by   *)
(* the process that inserted them, receipts by the worker that resolved them *)
(* once, although worker, owner requests and crashes interleave at will.     *)
THEOREM NoDuplicateEventHolds == Spec => []NoDuplicateEvent
<1>1. Init => Owed
  BY DEF Init, Owed, Owes
<1>2. ASSUME Inv, Owed PROVE NoDuplicateEvent
  <2>1. ASSUME NEW p \in Procs, NEW m \in Messages, Owes(p, m), NEW s \in {"submitted", "confirmed", "failed"},
               s = "submitted" <=> m = "submission"
        PROVE  [subject |-> job[p].kind, transfer |-> job[p].transfer,
                number |-> job[p].number, status |-> s] \notin outbox
    <3> DEFINE e == [subject |-> job[p].kind, transfer |-> job[p].transfer,
                     number |-> job[p].number, status |-> s]
    <3>1. Says(e, job[p], m)
      BY <2>1 DEF Says, IsRow
    <3>. QED BY <3>1, <2>1, <1>2 DEF Owed, Clear
  <2>. SUFFICES ASSUME NEW p \in Procs
                PROVE  LET said(s) == [subject |-> job[p].kind, transfer |-> job[p].transfer,
                                       number |-> job[p].number, status |-> s] \in outbox
                       IN /\ pc[p] = "notify" => ~said("submitted")
                          /\ pc[p] = "notify_failed" => ~said("failed")
                          /\ pc[p] = "receipt_notify" => ~said("confirmed") /\ ~said("failed")
    BY DEF NoDuplicateEvent
  <2>2. /\ pc[p] = "notify" => Owes(p, "submission")
        /\ pc[p] \in {"notify_failed", "receipt_notify"} => Owes(p, "result")
    BY DEF Owes
  <2>. QED BY <2>1, <2>2 DEF Messages
<1>. QED BY <1>1, <1>2, OwedNext, InvHolds, EventsMatchRowsHolds, PTL DEF Spec
-------------------------------------------------------------------------------
(***************************************************************************)
(* Transfers nobody retried. The worker is alone with them, and does not   *)
(* act before the attempt it made last is confirmed.                       *)
(***************************************************************************)
Settling(t) == status[t] \in {"late", "confirmed"}

Stations ==
  /\ \A a \in attempts : Settling(a.transfer)
  /\ \A p \in Procs : pc[p] \notin {"rest", "announce"} => Settling(job[p].transfer)
  /\ \A i \in todo : i.subject = "transfer" => i.number = 0 /\ status[i.transfer] = "detected"
  /\ phase = "confirm" => \A i \in todo : i.subject = "transfer"
  /\ \A o \in Owners : pc[o] # "rest" => retries[job[o].transfer] # 0

(* What a call does to the rows *)
LEMMA CallRows ==
  ASSUME Inv, NEW p \in Procs, EnsureSettlement(p)
  PROVE  \/ /\ attempts' = attempts
            /\ ~(pc[p] = "record" /\ pc'[p] = "mark")
         \/ \E r \in attempts' :
              /\ attempts' = attempts \union {r}
              /\ r.transfer = job[p].transfer /\ r.kind = job[p].kind /\ r.number = job[p].number
              /\ job' = job /\ ~Taken(p)
              /\ \/ pc[p] = "record" /\ pc'[p] = "mark" /\ r.status = "submitted"
                 \/ pc[p] = "catch" /\ pc'[p] = "fail" /\ r.status = "failed"
<1>0. pc \in [Procs -> Labels]
  BY DEF Inv, TypeInv, TypeOK
<1>1. CASE Gate(p) \/ GasCheck(p) \/ TokenCheck(p) \/ Refuse(p) \/ Number(p) \/ Send(p)
  BY <1>1 DEF Gate, GasCheck, TokenCheck, Refuse, Number, Send, dbVars
<1>2. CASE Mark(p) \/ Notify(p) \/ Fail(p) \/ NotifyFailed(p)
  BY <1>2 DEF Mark, Notify, Fail, NotifyFailed
<1>3. CASE Record(p)
  <2> DEFINE r == [kind |-> job[p].kind, transfer |-> job[p].transfer,
                   number |-> job[p].number, status |-> "submitted", tx |-> job[p].tx]
  <2>1. CASE ~Taken(p) /\ InsertAttempt(p, "submitted", job[p].tx) /\ Goto(p, "mark")
    <3>1. attempts' = attempts \union {r} /\ pc'[p] = "mark"
      BY <1>0, <2>1 DEF InsertAttempt, Goto
    <3>2. pc[p] = "record" /\ job' = job
      BY <1>3 DEF Record
    <3>3. r \in attempts' /\ r.transfer = job[p].transfer /\ r.kind = job[p].kind
          /\ r.number = job[p].number /\ r.status = "submitted"
      BY <3>1
    <3>. QED BY <2>1, <3>1, <3>2, <3>3
  <2>2. CASE Goto(p, "catch") /\ UNCHANGED attempts
    BY <1>0, <2>2 DEF Goto
  <2>. QED BY <1>3, <2>1, <2>2 DEF Record
<1>4. CASE Catch(p)
  <2> DEFINE r == [kind |-> job[p].kind, transfer |-> job[p].transfer,
                   number |-> job[p].number, status |-> "failed", tx |-> 0]
  <2>1. CASE ~Taken(p) /\ InsertAttempt(p, "failed", 0) /\ Goto(p, "fail") /\ UNCHANGED job
    <3>1. attempts' = attempts \union {r} /\ pc'[p] = "fail"
      BY <1>0, <2>1 DEF InsertAttempt, Goto
    <3>. QED BY <1>4, <2>1, <3>1 DEF Catch
  <2>2. CASE Taken(p) /\ UNCHANGED attempts
    BY <1>4, <2>2 DEF Catch
  <2>. QED BY <1>4, <2>1, <2>2 DEF Catch
<1>. QED BY <1>1, <1>2, <1>3, <1>4 DEF EnsureSettlement

(* What a receipt does to the rows and the worker *)
LEMMA ReceiptRows ==
  ASSUME Inv, NEW i \in todo, CheckReceipt(i)
  PROVE  \/ UNCHANGED <<attempts, pc, job>>
         \/ \E a \in attempts, r \in attempts' :
              /\ attempts' = (attempts \ {a}) \union {r}
              /\ a.status = "submitted" /\ a.tx \in DOMAIN chain /\ chain[a.tx].outcome # "pending"
              /\ r.kind = a.kind /\ r.transfer = a.transfer /\ r.status = Result(chain[a.tx].outcome)
              /\ job'[Worker].transfer = a.transfer /\ job'[Worker].kind = a.kind
              /\ job'[Worker].tx = a.tx
              /\ pc'[Worker] = IF a.kind = "sweep" THEN "receipt_write" ELSE "receipt_notify"
<1>0. pc \in [Procs -> Labels] /\ job \in [Procs -> Jobs] /\ attempts \subseteq Attempts
      /\ UNCHANGED chain /\ todo' = todo \ {i} /\ i.subject \in Kinds
  BY DEF Inv, TypeInv, TypeOK, CheckReceipt, chainVars
<1>1. PICK a \in attempts :
        /\ IsRow(a, i.subject, i.transfer, i.number)
        /\ \/ UNCHANGED <<attempts, pc, job>>
           \/ /\ chain[a.tx].outcome # "pending"
              /\ attempts' = (attempts \ {a})
                               \union {[a EXCEPT !.status = Result(chain[a.tx].outcome)]}
              /\ job' = [job EXCEPT ![Worker] =
                   [NoJob EXCEPT !.transfer = a.transfer, !.kind = a.kind,
                                 !.number = a.number, !.tx = a.tx]]
              /\ Goto(Worker, IF a.kind = "sweep" THEN "receipt_write" ELSE "receipt_notify")
  BY DEF CheckReceipt, IsRow
<1>2. CASE ~UNCHANGED <<attempts, pc, job>>
  <2> DEFINE r == [a EXCEPT !.status = Result(chain[a.tx].outcome)]
  <2>1. a.status = "submitted" /\ a.tx \in DOMAIN chain
    BY <1>0, <1>1, <1>2, ResolveRow DEF Inv, IsRow
  <2>2. /\ r \in attempts' /\ r.kind = a.kind /\ r.transfer = a.transfer
        /\ r.status = Result(chain[a.tx].outcome)
    BY <1>0, <1>1, <1>2 DEF Attempts
  <2>3. /\ job'[Worker].transfer = a.transfer /\ job'[Worker].kind = a.kind
        /\ job'[Worker].tx = a.tx
    BY <1>0, <1>1, <1>2, WorkerIsProc DEF NoJob
  <2>4. pc'[Worker] = IF a.kind = "sweep" THEN "receipt_write" ELSE "receipt_notify"
    BY <1>0, <1>1, <1>2, WorkerIsProc DEF Goto
  <2>. QED BY <1>1, <1>2, <2>1, <2>2, <2>3, <2>4
<1>. QED BY <1>2

LEMMA StationsInit == Init => Stations
BY DEF Init, Stations, Procs

(* A step of p, after which it stands where it may stand *)
LEMMA StationsStep ==
  ASSUME Inv, Stations, NEW p \in Procs, Moves(p), todo' \subseteq todo,
         phase' = phase \/ phase' # "confirm", UNCHANGED <<status, retries>>,
         \A b \in attempts' : Settling(b.transfer),
         pc'[p] \notin {"rest", "announce"} => Settling(job'[p].transfer),
         p \in Owners /\ pc'[p] # "rest" => retries[job'[p].transfer] # 0
  PROVE  Stations'
<1>1. \A q \in Procs : q # p => pc'[q] = pc[q] /\ job'[q] = job[q]
  BY DEF Moves, Inv, TypeInv, TypeOK
<1>2. \A q \in Procs : pc'[q] \notin {"rest", "announce"} => Settling(job'[q].transfer)
  BY <1>1 DEF Stations
<1>3. \A o \in Owners : pc'[o] # "rest" => retries[job'[o].transfer] # 0
  BY <1>1 DEF Stations, Procs
<1>. QED BY <1>2, <1>3 DEF Stations, Settling

LEMMA StationsNext ==
  ASSUME Inv, Stations, [Next]_vars
  PROVE  Stations'
<1>0. /\ pc \in [Procs -> Labels] /\ job \in [Procs -> Jobs] /\ Worker \in Procs /\ Worker \notin Owners
      /\ status \in [Transfers -> Statuses] /\ retries \in [Transfers -> Nat]
      /\ attempts \subseteq Attempts /\ todo \subseteq Items
  BY WorkerIsProc, SettlementAssumption DEF Inv, TypeInv, TypeOK
<1>1. ASSUME NEW p \in Procs, EnsureSettlement(p) PROVE Stations'
  <2>1. /\ Moves(p) /\ UNCHANGED <<status, retries>> /\ todo' \subseteq todo
        /\ pc[p] \notin {"rest", "announce"}
        /\ pc'[p] # "rest" => job'[p].transfer = job[p].transfer
    BY <1>1, CallStep
  <2>2. phase' = phase \/ phase' # "confirm"
    <3>1. CASE Gate(p) \/ GasCheck(p) \/ TokenCheck(p) \/ Refuse(p) \/ Number(p) \/ Send(p)
      BY <3>1 DEF Gate, GasCheck, TokenCheck, Refuse, Number, Send, Return
    <3>2. CASE Record(p) \/ Mark(p) \/ Notify(p) \/ Catch(p) \/ Fail(p) \/ NotifyFailed(p)
      BY <3>2 DEF Record, Mark, Notify, Catch, Fail, NotifyFailed, Return, Throw
    <3>. QED BY <1>1, <3>1, <3>2 DEF EnsureSettlement
  <2>3. \A b \in attempts' : Settling(b.transfer)
    BY <1>1, <2>1, CallRows DEF Stations
  <2>. QED BY <2>1, <2>2, <2>3, StationsStep DEF Stations
<1>2. ASSUME NEW t \in Transfers, Detect(t) PROVE Stations'
  <2>1. /\ Moves(Worker) /\ UNCHANGED <<attempts, todo, phase, retries>> /\ pc'[Worker] = "announce"
        /\ status[t] = "paid" /\ \A u \in Transfers : u # t => status'[u] = status[u]
    BY <1>0, <1>2, DetectType DEF Detect, Goto, Inv, historyVars
  <2>2. \A u : Settling(u) /\ u \in Transfers => Settling(u)'
    BY <2>1 DEF Settling
  <2>3. \A a \in attempts : a.transfer \in Transfers
    BY <1>0 DEF Attempts
  <2>4. \A q \in Procs : pc[q] # "rest" => job[q].transfer \in Transfers
    BY DEF Inv, TypeInv, LocalOK
  <2>5. \A i \in todo : i.transfer \in Transfers
    BY <1>0 DEF Items
  <2>. QED BY <1>0, <2>1, <2>2, <2>3, <2>4, <2>5 DEF Stations, Moves, Procs
<1>3. ASSUME NEW i \in todo, ConfirmTransfer(i) PROVE Stations'
  <2>1. /\ Moves(Worker) /\ UNCHANGED <<attempts, phase, retries>> /\ todo' = todo \ {i}
        /\ pc'[Worker] = "announce" /\ phase = "confirm"
        /\ status' = [status EXCEPT ![i.transfer] = "confirmed"]
    BY <1>0, <1>3, ConfirmTransferType DEF ConfirmTransfer, Goto, Inv, historyVars, AtRest
  <2>2. \A u : Settling(u) /\ u \in Transfers => Settling(u)'
    BY <1>0, <2>1 DEF Settling
  <2>3. \A a \in attempts : a.transfer \in Transfers
    BY <1>0 DEF Attempts
  <2>4. \A q \in Procs : pc[q] # "rest" => job[q].transfer \in Transfers
    BY DEF Inv, TypeInv, LocalOK
  <2>5. \A x \in todo' : x.transfer \in Transfers /\ x.transfer # i.transfer
    <3>1. ASSUME NEW x \in todo, x # i PROVE x.transfer # i.transfer
      <4>1. x.subject = "transfer" /\ i.subject = "transfer" /\ x.number = 0 /\ i.number = 0
        BY <2>1 DEF Stations
      <4>2. x \in Items /\ i \in Items
        BY <1>0
      <4>. QED BY <3>1, <4>1, <4>2 DEF Items
    <3>. QED BY <1>0, <2>1, <3>1 DEF Items
  <2>6. \A x \in todo' : x.subject = "transfer" /\ x.number = 0 /\ status'[x.transfer] = "detected"
    BY <1>0, <2>1, <2>5 DEF Stations
  <2>. QED BY <1>0, <2>1, <2>2, <2>3, <2>4, <2>6 DEF Stations, Moves, Procs
<1>4. ASSUME NEW i \in todo, CheckReceipt(i) PROVE Stations'
  <2>1. Moves(Worker) /\ todo' \subseteq todo /\ UNCHANGED <<phase, status, retries>>
    BY <1>4, CheckReceiptType DEF CheckReceipt, Inv
  <2>2. \A b \in attempts' : Settling(b.transfer)
    BY <1>4, ReceiptRows DEF Stations
  <2>3. pc'[Worker] \notin {"rest", "announce"} => Settling(job'[Worker].transfer)
    BY <1>0, <1>4, ReceiptRows DEF Stations
  <2>. QED BY <1>0, <2>1, <2>2, <2>3, StationsStep
<1>5. CASE Announce
  <2>1. Moves(Worker) /\ UNCHANGED <<attempts, phase, todo, status, retries>> /\ pc[Worker] = "announce"
    BY <1>5, AnnounceType DEF Announce, Inv, Return, historyVars
  <2>2. \/ pc'[Worker] = "rest"
        \/ UNCHANGED job /\ status[job[Worker].transfer] # "detected"
    BY <1>0, <1>5 DEF Announce, Return, Goto, SettlesNow
  <2>3. pc'[Worker] \notin {"rest", "announce"} => Settling(job'[Worker].transfer)
    BY <2>1, <2>2 DEF Inv, TypeInv, AnnounceOK, Settling
  <2>. QED BY <1>0, <2>1, <2>3, StationsStep DEF Stations
<1>6. CASE ReceiptWrite \/ ReceiptNotify
  <2>1. /\ Moves(Worker) /\ UNCHANGED <<attempts, phase, todo, status, retries>>
        /\ pc[Worker] \in {"receipt_write", "receipt_notify"}
    <3>1. CASE ReceiptWrite
      BY <3>1, ReceiptWriteType DEF ReceiptWrite, Inv, Return, historyVars
    <3>2. CASE ReceiptNotify
      BY <3>2, ReceiptNotifyType DEF ReceiptNotify, Inv, Return, historyVars
    <3>. QED BY <1>6, <3>1, <3>2
  <2>2. pc'[Worker] # "rest" => job'[Worker].transfer = job[Worker].transfer
    <3>1. CASE ReceiptWrite
      BY <1>0, <3>1 DEF ReceiptWrite, Return, Goto, StartJob, NoJob
    <3>2. CASE ReceiptNotify
      BY <1>0, <3>2 DEF ReceiptNotify, Return, Goto
    <3>. QED BY <1>6, <3>1, <3>2
  <2>. QED BY <1>0, <2>1, <2>2, StationsStep DEF Stations
<1>7. CASE NextPhase
  <2>1. UNCHANGED <<attempts, pc, job, status, retries>>
    BY <1>7 DEF NextPhase, dbVars, historyVars
  <2>2. \/ todo' = Ready
        \/ phase' # "confirm" /\ \A i \in todo' : i.subject \in Kinds
    BY <1>7 DEF NextPhase, Submitted, Listed, Kinds
  <2>3. /\ \A i \in todo' : i.subject = "transfer" => i.number = 0 /\ status[i.transfer] = "detected"
        /\ phase' = "confirm" => \A i \in todo' : i.subject = "transfer"
    BY <2>2 DEF Ready, ListedTransfers, Kinds
  <2>. QED BY <2>1, <2>3 DEF Stations, Settling
<1>8. ASSUME NEW o \in Owners, NEW t \in Transfers, Retry(o, t) PROVE Stations'
  <2>1. /\ Moves(o) /\ UNCHANGED <<attempts, phase, todo, status>> /\ o \in Procs
        /\ pc'[o] = "gate" /\ Settling(t) /\ retries' = [retries EXCEPT ![t] = @ + 1]
    BY <1>0, <1>8, RetryType DEF Retry, Inv, Goto, Procs, dbVars, Settling
  <2>2. job'[o].transfer = t
    BY <1>0, <1>8, <2>1 DEF Retry, StartJob, NoJob
  <2>3. \A u \in Transfers : retries[u] # 0 => retries'[u] # 0
    BY <1>0, <2>1
  <2>4. retries'[t] # 0
    BY <1>0, <2>1
  <2>5. \A q \in Procs : q # o => pc'[q] = pc[q] /\ job'[q] = job[q]
    BY <1>0, <2>1 DEF Moves
  <2>6. \A q \in Procs : pc'[q] \notin {"rest", "announce"} => Settling(job'[q].transfer)
    BY <2>1, <2>2, <2>5 DEF Stations
  <2>7. \A q \in Procs : pc[q] # "rest" => job[q].transfer \in Transfers
    BY DEF Inv, TypeInv, LocalOK
  <2>8. \A q \in Owners : pc'[q] # "rest" => retries'[job'[q].transfer] # 0
    BY <2>2, <2>3, <2>4, <2>5, <2>7 DEF Stations, Procs
  <2>. QED BY <2>1, <2>6, <2>8 DEF Stations, Settling
<1>9. ASSUME NEW t \in Transfers, Pay(t) PROVE Stations'
  <2>1. UNCHANGED <<attempts, pc, job, todo, phase, retries>>
        /\ status[t] = "unpaid" /\ \A u \in Transfers : u # t => status'[u] = status[u]
    BY <1>0, <1>9 DEF Pay, procVars, historyVars
  <2>2. \A u \in Transfers : Settling(u) => Settling(u)'
    BY <2>1 DEF Settling
  <2>3. \A a \in attempts : a.transfer \in Transfers
    BY <1>0 DEF Attempts
  <2>4. \A q \in Procs : pc[q] # "rest" => job[q].transfer \in Transfers
    BY DEF Inv, TypeInv, LocalOK
  <2>5. \A i \in todo : i.transfer \in Transfers
    BY <1>0 DEF Items
  <2>. QED BY <2>1, <2>2, <2>3, <2>4, <2>5 DEF Stations
<1>10. CASE (\E i \in DOMAIN chain : Mine(i)) \/ UNCHANGED vars
  BY <1>10 DEF Mine, vars, dbVars, procVars, historyVars, Stations, Settling
<1>11. ASSUME NEW p \in Procs, Abort(p) PROVE Stations'
  <2>1. Moves(p) /\ UNCHANGED <<attempts, status, retries>> /\ pc'[p] = "rest"
        /\ todo' \subseteq todo /\ (phase' = phase \/ phase' # "confirm")
    BY <1>0, <1>11, AbortType DEF Abort, Throw, Goto, Inv, dbVars
  <2>. QED BY <2>1, StationsStep DEF Stations
<1>. QED BY <1>0, <1>1, <1>2, <1>3, <1>4, <1>5, <1>6, <1>7, <1>8, <1>9, <1>10, <1>11
     DEF Next, WorkerStep, WorkerLoop, Procs
-------------------------------------------------------------------------------
(* The worker may yet make an attempt                                        *)
Acting ==
  \/ pc[Worker] \in {"announce", "gate", "gas_check", "token_check", "refuse",
                     "number", "send", "record"}
  \/ pc[Worker] = "catch" /\ ~Taken(Worker)
  \/ pc[Worker] \in ReceiptLabels /\ Succeeded(job[Worker])

AllConfirmed(t) == \A a \in attempts : a.transfer = t => a.status = "confirmed"

OneOpen ==
  \A a, b \in attempts :
    /\ a.transfer = b.transfer /\ retries[a.transfer] = 0
    /\ a.status # "confirmed" /\ b.status # "confirmed"
    => a = b

WorkerAlone ==
  retries[job[Worker].transfer] = 0 /\ Acting => AllConfirmed(job[Worker].transfer)

Alone == OneOpen /\ WorkerAlone

LEMMA AloneInit == Init => Alone
BY WorkerIsProc DEF Init, Alone, OneOpen, WorkerAlone, AllConfirmed

(* The receipt the worker has in hand stays what it is *)
LEMMA ReceiptStays ==
  ASSUME Inv, ChainKept(chain, chain'), pc[Worker] \in ReceiptLabels
  PROVE  chain'[job[Worker].tx].outcome = chain[job[Worker].tx].outcome
<1>1. job[Worker].tx \in DOMAIN chain /\ chain[job[Worker].tx].outcome # "pending"
  BY WorkerIsProc DEF Inv, RowsInv, ProcOK, ReceiptLabels
<1>. QED BY <1>1 DEF ChainKept, Succeeded

LEMMA ChainStep ==
  ASSUME Inv, [Next]_vars
  PROVE  ChainKept(chain, chain')
<1>1. ASSUME UNCHANGED chain PROVE ChainKept(chain, chain')
  BY <1>1 DEF ChainKept
<1>2. ASSUME NEW p \in Procs, EnsureSettlement(p) PROVE ChainKept(chain, chain')
  <2>1. CASE Gate(p) \/ GasCheck(p) \/ TokenCheck(p) \/ Refuse(p) \/ Number(p)
    BY <1>1, <2>1 DEF Gate, GasCheck, TokenCheck, Refuse, Number, chainVars
  <2>2. CASE Record(p) \/ Mark(p) \/ Notify(p) \/ Catch(p) \/ Fail(p) \/ NotifyFailed(p)
    BY <1>1, <2>2 DEF Record, Mark, Notify, Catch, Fail, NotifyFailed, chainVars
  <2>3. CASE Send(p)
    BY <1>1, <2>3, BroadcastKeeps DEF Send, Inv
  <2>. QED BY <1>2, <2>1, <2>2, <2>3 DEF EnsureSettlement
<1>3. ASSUME NEW i \in DOMAIN chain, Mine(i) PROVE ChainKept(chain, chain')
  <2>0. chain \in Seq(Transactions)
    BY DEF Inv, TypeInv, TypeOK
  <2>1. chain[i].outcome = "pending" /\ \E o : chain' = [chain EXCEPT ![i].outcome = o]
    BY <1>3 DEF Mine
  <2>2. chain[i] \in Transactions
    BY <1>3, <2>0
  <2>3. DOMAIN chain' = DOMAIN chain /\ \A x \in DOMAIN chain : x # i => chain'[x] = chain[x]
    BY <2>1
  <2>4. chain'[i].kind = chain[i].kind /\ chain'[i].wallet = chain[i].wallet
    BY <1>3, <2>1, <2>2 DEF Transactions
  <2>. QED BY <2>1, <2>3, <2>4 DEF ChainKept
<1>4. CASE WorkerStep
  <2>1. ASSUME \/ \E t \in Transfers : Detect(t)
               \/ \E i \in todo : ConfirmTransfer(i) \/ CheckReceipt(i)
               \/ Announce \/ NextPhase \/ ReceiptWrite \/ ReceiptNotify
        PROVE  UNCHANGED chain
    BY <2>1 DEF Detect, ConfirmTransfer, CheckReceipt, Announce, NextPhase, ReceiptWrite, ReceiptNotify,
                chainVars
  <2>. QED BY <1>1, <1>2, <1>4, <2>1, WorkerIsProc DEF WorkerStep, WorkerLoop
<1>5. CASE (\E o \in Owners, t \in Transfers : Retry(o, t)) \/ (\E t \in Transfers : Pay(t))
           \/ (\E p \in Procs : Abort(p)) \/ UNCHANGED vars
  BY <1>1, <1>5 DEF Retry, Pay, Abort, vars, chainVars
<1>. QED BY <1>2, <1>3, <1>4, <1>5 DEF Next, Procs

(* A step that leaves the rows and the worker alone *)
LEMMA AloneFrame ==
  ASSUME Inv, Alone, [Next]_vars, UNCHANGED attempts, pc'[Worker] = pc[Worker], job'[Worker] = job[Worker],
         \A u \in Transfers : retries'[u] = 0 => retries[u] = 0
  PROVE  Alone'
<1>0. \A a \in attempts : a.transfer \in Transfers
  BY DEF Inv, TypeInv, TypeOK, Attempts
<1>1. OneOpen'
  BY <1>0 DEF Alone, OneOpen
<1>2. Acting' => Acting
  BY ChainStep, ReceiptStays DEF Acting, Taken, Numbers, Succeeded
<1>3. Acting => job[Worker].transfer \in Transfers
  BY WorkerIsProc DEF Acting, Inv, TypeInv, LocalOK, ReceiptLabels
<1>. QED BY <1>1, <1>2, <1>3 DEF Alone, WorkerAlone, AllConfirmed

(* A step of the worker that leaves the rows alone *)
LEMMA AloneWorker ==
  ASSUME Alone, UNCHANGED <<attempts, retries>>,
         Acting' => Acting /\ job'[Worker].transfer = job[Worker].transfer
  PROVE  Alone'
BY DEF Alone, OneOpen, WorkerAlone, AllConfirmed

LEMMA AloneCall ==
  ASSUME Inv, Stations, Alone, NEW p \in Procs, EnsureSettlement(p), [Next]_vars
  PROVE  Alone'
<1>0. /\ Moves(p) /\ UNCHANGED retries /\ pc[p] \notin {"rest", "announce", "receipt_write", "receipt_notify"}
      /\ pc'[p] \notin {"announce", "gate", "receipt_write", "receipt_notify"}
      /\ pc'[p] # "rest" => job'[p].transfer = job[p].transfer
  BY CallStep
<1>1. ProcOK(pc[p], job[p], attempts, chain) /\ pc \in [Procs -> Labels] /\ job \in [Procs -> Jobs]
  BY DEF Inv, RowsInv, TypeInv, TypeOK
<1>2. CASE p # Worker /\ UNCHANGED attempts
  BY <1>0, <1>1, <1>2, AloneFrame, WorkerIsProc DEF Moves
<1>3. CASE p # Worker /\ ~UNCHANGED attempts
  <2>1. PICK r \in attempts' : attempts' = attempts \union {r} /\ r.transfer = job[p].transfer
    BY <1>3, CallRows
  <2>2. retries[r.transfer] # 0
    BY <1>0, <1>3, <2>1 DEF Stations, Procs
  <2>3. pc'[Worker] = pc[Worker] /\ job'[Worker] = job[Worker]
    BY <1>0, <1>1, <1>3, WorkerIsProc DEF Moves
  <2>4. OneOpen'
    BY <1>0, <2>1, <2>2 DEF Alone, OneOpen
  <2>5. Taken(Worker) => Taken(Worker)'
    BY <2>1, <2>3 DEF Taken, Numbers
  <2>6. Acting' => Acting
    BY <2>3, <2>5, ChainStep, ReceiptStays DEF Acting, Succeeded
  <2>. QED BY <1>0, <2>1, <2>2, <2>3, <2>4, <2>6 DEF Alone, WorkerAlone, AllConfirmed
<1>4. CASE p = Worker /\ ~UNCHANGED attempts
  <2>1. PICK r \in attempts' :
          /\ attempts' = attempts \union {r} /\ r.transfer = job[p].transfer
          /\ \/ pc[p] = "record" /\ pc'[p] = "mark"
             \/ pc[p] = "catch" /\ pc'[p] = "fail" /\ ~Taken(p)
    BY <1>4, CallRows
  <2>2. retries[r.transfer] = 0 => AllConfirmed(r.transfer)
    BY <1>4, <2>1 DEF Alone, WorkerAlone, Acting
  <2>3. OneOpen'
    BY <1>0, <2>1, <2>2 DEF Alone, OneOpen, AllConfirmed
  <2>4. ~Acting'
    BY <1>4, <2>1 DEF Acting, ReceiptLabels
  <2>. QED BY <2>3, <2>4 DEF Alone, WorkerAlone
<1>5. CASE p = Worker /\ UNCHANGED attempts
  <2>1. pc[p] \in {"mark", "notify"} /\ pc'[p] = "catch" => Taken(p)'
    <3>1. pc[p] \in {"mark", "notify"} /\ pc'[p] = "catch" => UNCHANGED job
      <4>1. CASE Mark(p)
        BY <4>1 DEF Mark
      <4>2. CASE Notify(p)
        BY <1>1, <4>2 DEF Notify, Return, Goto
      <4>3. CASE pc[p] \notin {"mark", "notify"}
        BY <4>3
      <4>. QED BY <4>1, <4>2, <4>3 DEF EnsureSettlement, Gate, GasCheck, TokenCheck, Refuse, Number, Send,
                  Record, Catch, Fail, NotifyFailed
    <3>. QED BY <1>1, <1>5, <3>1 DEF ProcOK, Taken, Numbers, IsRow
  <2>2. Acting' => Acting
    <3>1. pc[p] \in {"gate", "gas_check", "token_check", "refuse", "number", "send", "record"} => Acting
      BY <1>5 DEF Acting
    <3>2. CASE Mark(p) \/ Notify(p)
      <4>1. pc[p] \in {"mark", "notify"} /\ pc'[p] \in {"notify", "catch", "rest"}
        BY <1>1, <3>2 DEF Mark, Notify, Return, Goto
      <4>. QED BY <1>5, <2>1, <4>1 DEF Acting, ReceiptLabels
    <3>3. CASE Catch(p) \/ Fail(p) \/ NotifyFailed(p)
      <4>1. pc'[p] \in {"fail", "notify_failed", "rest"}
        BY <1>1, <3>3 DEF Catch, Fail, NotifyFailed, Throw, Return, Goto
      <4>. QED BY <1>5, <4>1 DEF Acting, ReceiptLabels
    <3>4. CASE Gate(p) \/ GasCheck(p) \/ TokenCheck(p) \/ Refuse(p) \/ Number(p) \/ Send(p) \/ Record(p)
      BY <3>1, <3>4 DEF Gate, GasCheck, TokenCheck, Refuse, Number, Send, Record
    <3>. QED BY <3>2, <3>3, <3>4 DEF EnsureSettlement
  <2>3. Acting' => pc'[p] # "rest"
    BY <1>5 DEF Acting, ReceiptLabels
  <2>. QED BY <1>0, <1>5, <2>2, <2>3, AloneWorker
<1>. QED BY <1>2, <1>3, <1>4, <1>5

LEMMA AloneReceipt ==
  ASSUME Inv, Alone, NEW i \in todo, CheckReceipt(i), [Next]_vars
  PROVE  Alone'
<1>0. UNCHANGED <<chain, retries>> /\ pc[Worker] = "rest"
  BY DEF CheckReceipt, AtRest, chainVars
<1>1. CASE UNCHANGED <<attempts, pc, job>>
  BY <1>0, <1>1, AloneFrame
<1>2. CASE ~UNCHANGED <<attempts, pc, job>>
  <2>1. PICK a \in attempts, r \in attempts' :
          /\ attempts' = (attempts \ {a}) \union {r}
          /\ a.status = "submitted" /\ a.tx \in DOMAIN chain
          /\ r.transfer = a.transfer /\ r.status = Result(chain[a.tx].outcome)
          /\ job'[Worker].transfer = a.transfer /\ job'[Worker].tx = a.tx
          /\ pc'[Worker] \in ReceiptLabels
    BY <1>2, ReceiptRows DEF ReceiptLabels
  <2>2. retries[a.transfer] = 0 =>
          \A b \in attempts' : b.transfer = a.transfer /\ b.status # "confirmed" => b = r
    BY <2>1 DEF Alone, OneOpen
  <2>3. OneOpen'
    BY <1>0, <2>1, <2>2 DEF Alone, OneOpen
  <2>4. Acting' => r.status = "confirmed"
    BY <1>0, <2>1 DEF Acting, ReceiptLabels, Succeeded, Result
  <2>5. WorkerAlone'
    BY <1>0, <2>1, <2>2, <2>4 DEF WorkerAlone, AllConfirmed
  <2>. QED BY <2>3, <2>5 DEF Alone
<1>. QED BY <1>1, <1>2

LEMMA AloneNext ==
  ASSUME Inv, Stations, Alone, [Next]_vars
  PROVE  Alone'
<1>0. /\ pc \in [Procs -> Labels] /\ job \in [Procs -> Jobs] /\ Worker \in Procs /\ Worker \notin Owners
      /\ retries \in [Transfers -> Nat]
  BY WorkerIsProc, SettlementAssumption DEF Inv, TypeInv, TypeOK
<1>1. ASSUME NEW t \in Transfers, ~Settling(t), UNCHANGED <<attempts, retries>>, job'[Worker].transfer = t
      PROVE  Alone'
  <2>1. AllConfirmed(t)'
    BY <1>1 DEF AllConfirmed, Stations
  <2>. QED BY <1>1, <2>1 DEF Alone, OneOpen, WorkerAlone
<1>2. ASSUME NEW t \in Transfers, Detect(t) PROVE Alone'
  <2>1. job'[Worker].transfer = t
    BY <1>0, <1>2 DEF Detect, StartJob, NoJob
  <2>. QED BY <1>1, <1>2, <2>1 DEF Detect, Settling, historyVars
<1>3. ASSUME NEW i \in todo, ConfirmTransfer(i) PROVE Alone'
  <2>1. job'[Worker].transfer = i.transfer
    BY <1>0, <1>3 DEF ConfirmTransfer, StartJob, NoJob
  <2>2. i.transfer \in Transfers /\ status[i.transfer] = "detected"
    BY <1>3 DEF ConfirmTransfer, AtRest, Stations, Inv, TypeInv, TypeOK, Items
  <2>. QED BY <1>1, <1>3, <2>1, <2>2 DEF ConfirmTransfer, Settling, historyVars
<1>4. CASE Announce
  <2>1. /\ pc[Worker] = "announce" /\ UNCHANGED <<attempts, retries>>
        /\ pc'[Worker] = "rest" \/ UNCHANGED job
    BY <1>0, <1>4 DEF Announce, Return, Goto, historyVars
  <2>2. Acting' => pc'[Worker] # "rest"
    BY DEF Acting, ReceiptLabels
  <2>. QED BY <2>1, <2>2, AloneWorker DEF Acting
<1>5. CASE ReceiptWrite \/ ReceiptNotify
  <2>1. UNCHANGED <<attempts, retries, chain>> /\ pc[Worker] \in ReceiptLabels
    BY <1>5 DEF ReceiptWrite, ReceiptNotify, chainVars, historyVars, ReceiptLabels
  <2>2. \/ pc'[Worker] = "rest"
        \/ pc'[Worker] \in ReceiptLabels /\ UNCHANGED job
        \/ pc'[Worker] = "gate" /\ Succeeded(job[Worker]) /\ job'[Worker].transfer = job[Worker].transfer
    <3>1. CASE ReceiptWrite
      BY <1>0, <3>1 DEF ReceiptWrite, Return, Goto, StartJob, NoJob, ReceiptLabels
    <3>2. CASE ReceiptNotify
      BY <1>0, <3>2 DEF ReceiptNotify, Return, Goto, ReceiptLabels
    <3>. QED BY <1>5, <3>1, <3>2
  <2>3. Acting' => Acting /\ job'[Worker].transfer = job[Worker].transfer
    BY <2>1, <2>2 DEF Acting, ReceiptLabels, Succeeded
  <2>. QED BY <2>1, <2>3, AloneWorker
<1>6. CASE NextPhase
  BY <1>6, AloneFrame DEF NextPhase, dbVars, historyVars
<1>7. ASSUME NEW o \in Owners, NEW t \in Transfers, Retry(o, t) PROVE Alone'
  <2>1. Moves(o) /\ UNCHANGED attempts /\ retries' = [retries EXCEPT ![t] = @ + 1]
    BY <1>7, RetryType DEF Retry, Inv, dbVars
  <2>2. \A u \in Transfers : retries'[u] = 0 => retries[u] = 0
    BY <1>0, <2>1
  <2>. QED BY <1>0, <2>1, <2>2, AloneFrame DEF Moves
<1>8. CASE (\E t \in Transfers : Pay(t)) \/ (\E i \in DOMAIN chain : Mine(i)) \/ UNCHANGED vars
  BY <1>8, AloneFrame DEF Pay, Mine, vars, dbVars, procVars, historyVars
<1>9. ASSUME NEW p \in Procs, Abort(p) PROVE Alone'
  <2>1. Moves(p) /\ UNCHANGED <<attempts, retries>> /\ pc'[p] = "rest"
    BY <1>0, <1>9, AbortType DEF Abort, Throw, Goto, Inv, dbVars
  <2>2. CASE p = Worker
    BY <2>1, <2>2, AloneWorker DEF Acting, ReceiptLabels
  <2>3. CASE p # Worker
    BY <1>0, <2>1, <2>3, AloneFrame DEF Moves
  <2>. QED BY <2>2, <2>3
<1>. QED BY <1>0, <1>2, <1>3, <1>4, <1>5, <1>6, <1>7, <1>8, <1>9, AloneCall, AloneReceipt
     DEF Next, WorkerStep, WorkerLoop, Procs

LEMMA AloneHolds == Spec => [](Stations /\ Alone)
BY StationsInit, StationsNext, AloneInit, AloneNext, InvHolds, PTL DEF Spec

(* Without the owner a transfer has one transaction in flight at most, over   *)
(* top-ups and sweeps, receipts, errors and restarts of the worker.          *)
THEOREM OneInFlightHolds == Spec => []OneInFlight
<1>1. Alone => OneInFlight
  BY DEF Alone, OneOpen, OneInFlight
<1>. QED BY <1>1, AloneHolds, PTL

(* A failed attempt is the last one until the owner acts: the worker makes    *)
(* no attempt after it, whatever receipts arrive and whenever it restarts.   *)
THEOREM FailureNeedsOwnerHolds == Spec => FailureNeedsOwner
<1>1. ASSUME Inv, Stations, Alone, [Next]_vars,
             NEW a \in attempts, a.status = "failed", retries[a.transfer] = 0
      PROVE  {b \in attempts' : b.transfer = a.transfer} = {b \in attempts : b.transfer = a.transfer}
  <2>1. CASE UNCHANGED attempts
    BY <2>1
  <2>2. ASSUME NEW p \in Procs, EnsureSettlement(p), ~UNCHANGED attempts
        PROVE  {b \in attempts' : b.transfer = a.transfer} = {b \in attempts : b.transfer = a.transfer}
    <3>1. PICK r \in attempts' :
            /\ attempts' = attempts \union {r} /\ r.transfer = job[p].transfer
            /\ pc[p] = "record" \/ (pc[p] = "catch" /\ ~Taken(p))
      BY <1>1, <2>2, CallRows
    <3>2. r.transfer # a.transfer
      BY <1>1, <2>2, <3>1 DEF Alone, WorkerAlone, AllConfirmed, Acting, Stations, Procs
    <3>. QED BY <3>1, <3>2
  <2>3. ASSUME NEW i \in todo, CheckReceipt(i), ~UNCHANGED attempts
        PROVE  {b \in attempts' : b.transfer = a.transfer} = {b \in attempts : b.transfer = a.transfer}
    <3>1. PICK c \in attempts, r \in attempts' :
            attempts' = (attempts \ {c}) \union {r} /\ c.status = "submitted" /\ r.transfer = c.transfer
      BY <1>1, <2>3, ReceiptRows
    <3>2. c.transfer # a.transfer
      BY <1>1, <3>1 DEF Alone, OneOpen
    <3>. QED BY <3>1, <3>2
  <2>4. ASSUME ~UNCHANGED attempts
        PROVE  (\E p \in Procs : EnsureSettlement(p)) \/ (\E i \in todo : CheckReceipt(i))
    <3>1. ~(\E t \in Transfers : Detect(t) \/ Pay(t))
      BY <2>4 DEF Detect, Pay
    <3>2. ~((\E i \in todo : ConfirmTransfer(i)) \/ Announce \/ ReceiptWrite \/ ReceiptNotify)
      BY <2>4 DEF ConfirmTransfer, Announce, ReceiptWrite, ReceiptNotify
    <3>3. ~(NextPhase \/ (\E i \in DOMAIN chain : Mine(i)) \/ (\E p \in Procs : Abort(p)) \/ UNCHANGED vars)
      BY <2>4 DEF NextPhase, Mine, Abort, vars, dbVars
    <3>4. ~(\E o \in Owners, t \in Transfers : Retry(o, t))
      BY <2>4 DEF Retry, dbVars
    <3>. QED BY <1>1, <3>1, <3>2, <3>3, <3>4 DEF Next, WorkerStep, WorkerLoop, Procs
  <2>. QED BY <2>1, <2>2, <2>3, <2>4
<1>2. ASSUME Inv, Stations, Alone, [Next]_vars
      PROVE  [\A a \in attempts :
                a.status = "failed" /\ retries[a.transfer] = 0
                => {b \in attempts' : b.transfer = a.transfer}
                     = {b \in attempts : b.transfer = a.transfer}]_vars
  BY <1>1, <1>2
<1>. QED BY <1>2, AloneHolds, InvHolds, PTL DEF Spec, FailureNeedsOwner
-------------------------------------------------------------------------------
(***************************************************************************)
(* The money. A wallet holds no more than its payments less its successful *)
(* sweeps, each of which moves at least one of them.                       *)
(***************************************************************************)
Paid(w) == {t \in Transfers \ Direct : WalletOf[t] = w /\ status[t] # "unpaid"}
SweepsOf(w) ==
  {i \in DOMAIN chain : chain[i].kind = "sweep" /\ chain[i].wallet = w /\ chain[i].outcome = "success"}

Balanced == \A w \in Wallets : tokens[w] + Cardinality(SweepsOf(w)) <= Cardinality(Paid(w))

SweepsMove ==
  /\ \A i \in DOMAIN chain : chain[i].kind = "sweep" => chain[i].amount >= 1
  /\ \A p \in Procs :
       pc[p] \in {"number", "send"} /\ job[p].kind = "sweep" => job[p].amount >= 1

Funds == Balanced /\ SweepsMove

LEMMA FundsFinite ==
  ASSUME IsFiniteSet(Transfers), TypeOK, NEW w
  PROVE  /\ IsFiniteSet(Paid(w)) /\ Cardinality(Paid(w)) \in Nat
         /\ IsFiniteSet(SweepsOf(w)) /\ Cardinality(SweepsOf(w)) \in Nat
<1>1. IsFiniteSet(Paid(w))
  <2>1. Paid(w) \in SUBSET Transfers
    BY DEF Paid
  <2>. QED BY <2>1, FS_Subset
<1>2. IsFiniteSet(SweepsOf(w))
  <2>1. DOMAIN chain = 1 .. Len(chain) /\ Len(chain) \in Int
    BY DEF TypeOK
  <2>2. IsFiniteSet(DOMAIN chain)
    BY <2>1, FS_Interval
  <2>3. SweepsOf(w) \in SUBSET DOMAIN chain
    BY DEF SweepsOf
  <2>. QED BY <2>2, <2>3, FS_Subset
<1>. QED BY <1>1, <1>2, FS_CardinalityType

LEMMA FundsInit == Init => Funds
<1>. SUFFICES ASSUME Init PROVE Funds
  OBVIOUS
<1>1. ASSUME NEW w \in Wallets PROVE tokens[w] + Cardinality(SweepsOf(w)) <= Cardinality(Paid(w))
  <2>1. SweepsOf(w) = {} /\ Paid(w) = {} /\ tokens[w] = 0
    BY DEF Init, SweepsOf, Paid
  <2>. QED BY <2>1, FS_EmptySet
<1>2. SweepsMove
  BY DEF Init, SweepsMove
<1>. QED BY <1>1, <1>2 DEF Funds, Balanced

(* A step that moves no money *)
LEMMA FundsFrame ==
  ASSUME Funds, UNCHANGED tokens, SweepsMove',
         \A w \in Wallets : SweepsOf(w)' = SweepsOf(w) /\ Paid(w)' = Paid(w)
  PROVE  Funds'
BY DEF Funds, Balanced

(* A step that changes neither the chain nor what is paid *)
LEMMA FundsStay ==
  ASSUME Funds, UNCHANGED <<tokens, chain>>, SweepsMove',
         \A t \in Transfers : status'[t] # "unpaid" <=> status[t] # "unpaid"
  PROVE  Funds'
<1>1. \A w \in Wallets : SweepsOf(w)' = SweepsOf(w)
  BY DEF SweepsOf
<1>2. \A w \in Wallets : Paid(w)' = Paid(w)
  BY DEF Paid
<1>. QED BY <1>1, <1>2, FundsFrame

(* Where a process goes when it does not go to a send *)
LEMMA FundsMove ==
  ASSUME Inv, Funds, UNCHANGED chain, NEW p \in Procs, Moves(p),
         pc'[p] \in {"number", "send"} /\ job'[p].kind = "sweep" => job'[p].amount >= 1
  PROVE  SweepsMove'
<1>1. pc \in [Procs -> Labels] /\ job \in [Procs -> Jobs]
  BY DEF Inv, TypeInv, TypeOK
<1>2. \A q \in Procs : q # p => pc'[q] = pc[q] /\ job'[q] = job[q]
  BY <1>1 DEF Moves
<1>. QED BY <1>2 DEF Funds, SweepsMove

LEMMA FundsSend ==
  ASSUME Inv, Funds, NEW p \in Procs, Send(p)
  PROVE  Funds'
<1>0. /\ pc \in [Procs -> Labels] /\ job \in [Procs -> Jobs] /\ chain \in Seq(Transactions)
      /\ pc[p] = "send" /\ UNCHANGED <<tokens, status>> /\ Moves(p)
      /\ pc'[p] \in {"record", "catch"}
  BY CallStep DEF Inv, TypeInv, TypeOK, Send, dbVars, EnsureSettlement, Goto
<1> DEFINE x == [kind |-> job[p].kind, wallet |-> WalletOf[job[p].transfer],
                 amount |-> job[p].amount, outcome |-> "pending"]
<1>1. x \in Transactions
  BY <1>0, SettlementAssumption DEF Inv, TypeInv, LocalOK, Jobs, KindLabels, Transactions
<1>2. CASE UNCHANGED chain
  BY <1>0, <1>2, FundsMove, FundsStay
<1>3. CASE Broadcast(p)
  <2>1. /\ DOMAIN chain = 1 .. Len(chain) /\ DOMAIN chain' = 1 .. Len(chain) + 1
        /\ \A i \in 1 .. Len(chain) : chain'[i] = chain[i]
        /\ chain'[Len(chain) + 1] = x
        /\ Len(chain) \in Nat
    BY <1>0, <1>1, <1>3 DEF Broadcast
  <2>2. \A i \in DOMAIN chain' : i \in DOMAIN chain \/ i = Len(chain) + 1
    BY <2>1
  <2>3. DOMAIN chain \subseteq DOMAIN chain'
    BY <2>1
  <2>4. x.kind = "sweep" => x.amount >= 1
    BY <1>0 DEF Funds, SweepsMove
  <2>5. \A i \in DOMAIN chain' : chain'[i].kind = "sweep" => chain'[i].amount >= 1
    BY <2>1, <2>2, <2>4 DEF Funds, SweepsMove
  <2>6. \A q \in Procs : q # p => pc'[q] = pc[q] /\ job'[q] = job[q]
    BY <1>0 DEF Moves
  <2>7. SweepsMove'
    BY <1>0, <2>5, <2>6 DEF Funds, SweepsMove
  <2>8. x.outcome = "pending"
    OBVIOUS
  <2>9. \A w \in Wallets : SweepsOf(w)' = SweepsOf(w)
    BY <2>1, <2>2, <2>3, <2>8 DEF SweepsOf
  <2>10. \A w \in Wallets : Paid(w)' = Paid(w)
    BY <1>0 DEF Paid
  <2>. QED BY <1>0, <2>7, <2>9, <2>10, FundsFrame
<1>. QED BY <1>2, <1>3 DEF Send

LEMMA FundsCall ==
  ASSUME Inv, Funds, NEW p \in Procs, EnsureSettlement(p)
  PROVE  Funds'
<1>0. /\ Moves(p) /\ UNCHANGED status /\ pc \in [Procs -> Labels] /\ job \in [Procs -> Jobs]
      /\ tokens \in [Wallets -> Nat] /\ LocalOK(p, pc[p], job[p])
  BY CallStep DEF Inv, TypeInv, TypeOK
<1>1. CASE Send(p)
  BY <1>1, FundsSend
<1>2. CASE ~Send(p)
  <2>1. UNCHANGED <<tokens, chain>>
    BY <1>2 DEF EnsureSettlement, Gate, GasCheck, TokenCheck, Refuse, Number, Record, Mark, Notify, Catch,
                Fail, NotifyFailed, chainVars
  <2>2. pc'[p] \in {"number", "send"} /\ job'[p].kind = "sweep" => job'[p].amount >= 1
    <3>1. CASE Gate(p) \/ Refuse(p)
      BY <1>0, <3>1 DEF Gate, Refuse, Return, Goto
    <3>2. CASE GasCheck(p)
      BY <1>0, <3>2 DEF GasCheck, Goto, Jobs
    <3>3. CASE TokenCheck(p)
      <4>1. CASE pc'[p] = "refuse"
        BY <4>1
      <4>2. CASE /\ tokens[WalletOf[job[p].transfer]] > 0
                 /\ job' = [job EXCEPT ![p].amount = tokens[WalletOf[job[p].transfer]]]
        <5>1. pc[p] = "token_check" /\ job[p].transfer \in Transfers
          BY <1>0, <3>3 DEF TokenCheck, LocalOK
        <5>2. tokens[WalletOf[job[p].transfer]] \in Nat
          BY <1>0, <5>1, SettlementAssumption
        <5>3. job'[p].amount = tokens[WalletOf[job[p].transfer]]
          BY <1>0, <4>2 DEF Jobs
        <5>. QED BY <4>2, <5>2, <5>3
      <4>. QED BY <1>0, <3>3, <4>1, <4>2 DEF TokenCheck, Sweepable, Goto
    <3>4. CASE Number(p)
      <4>1. pc[p] = "number" /\ job'[p].kind = job[p].kind /\ job'[p].amount = job[p].amount
        BY <1>0, <3>4 DEF Number, Jobs
      <4>. QED BY <4>1 DEF Funds, SweepsMove
    <3>5. CASE Record(p) \/ Mark(p) \/ Notify(p)
      BY <1>0, <3>5 DEF Record, Mark, Notify, Return, Goto
    <3>6. CASE Catch(p) \/ Fail(p) \/ NotifyFailed(p)
      BY <1>0, <3>6 DEF Catch, Fail, NotifyFailed, Return, Throw, Goto
    <3>. QED BY <1>2, <3>1, <3>2, <3>3, <3>4, <3>5, <3>6 DEF EnsureSettlement
  <2>3. SweepsMove'
    BY <1>0, <2>1, <2>2, FundsMove
  <2>. QED BY <1>0, <2>1, <2>3, FundsStay
<1>. QED BY <1>1, <1>2

LEMMA FundsPay ==
  ASSUME IsFiniteSet(Transfers), Inv, Funds, NEW t \in Transfers, Pay(t)
  PROVE  Funds'
<1>0. /\ status \in [Transfers -> Statuses] /\ tokens \in [Wallets -> Nat] /\ TypeOK
      /\ status[t] = "unpaid" /\ status' = [status EXCEPT ![t] = "paid"]
      /\ UNCHANGED <<chain, pc, job>>
  BY DEF Pay, Inv, TypeInv, TypeOK, procVars
<1>1. SweepsMove'
  BY <1>0 DEF Funds, SweepsMove
<1>2. \A w \in Wallets : SweepsOf(w)' = SweepsOf(w)
  BY <1>0 DEF SweepsOf
<1>3. ASSUME NEW w \in Wallets
      PROVE  Paid(w)' = IF t \notin Direct /\ WalletOf[t] = w THEN Paid(w) \cup {t} ELSE Paid(w)
  BY <1>0 DEF Paid
<1>4. ASSUME NEW w \in Wallets
      PROVE  tokens'[w] = IF t \notin Direct /\ WalletOf[t] = w THEN tokens[w] + 1 ELSE tokens[w]
  <2>1. tokens' = IF t \in Direct THEN tokens ELSE [tokens EXCEPT ![WalletOf[t]] = @ + 1]
    BY DEF Pay
  <2>. QED BY <1>0, <2>1
<1>5. ASSUME NEW w \in Wallets
      PROVE  tokens'[w] + Cardinality(SweepsOf(w)') <= Cardinality(Paid(w)')
  <2>1. t \notin Paid(w)
    BY <1>0 DEF Paid
  <2>2. Cardinality(Paid(w) \cup {t}) = Cardinality(Paid(w)) + 1
    BY <1>0, <2>1, FundsFinite, FS_AddElement
  <2>3. tokens[w] + Cardinality(SweepsOf(w)) <= Cardinality(Paid(w))
    BY DEF Funds, Balanced
  <2>4. tokens[w] \in Nat /\ Cardinality(SweepsOf(w)) \in Nat /\ Cardinality(Paid(w)) \in Nat
    BY <1>0, FundsFinite
  <2>5. CASE t \notin Direct /\ WalletOf[t] = w
    <3>1. tokens'[w] = tokens[w] + 1 /\ Cardinality(Paid(w)') = Cardinality(Paid(w)) + 1
          /\ Cardinality(SweepsOf(w)') = Cardinality(SweepsOf(w))
      BY <1>2, <1>3, <1>4, <2>2, <2>5
    <3>. QED BY <2>3, <2>4, <3>1
  <2>6. CASE ~(t \notin Direct /\ WalletOf[t] = w)
    BY <1>2, <1>3, <1>4, <2>3, <2>6
  <2>. QED BY <2>5, <2>6
<1>. QED BY <1>1, <1>5 DEF Funds, Balanced

LEMMA FundsMine ==
  ASSUME IsFiniteSet(Transfers), Inv, Funds, NEW i \in DOMAIN chain, Mine(i)
  PROVE  Funds'
<1> DEFINE x == chain[i]
<1>0. /\ chain \in Seq(Transactions) /\ tokens \in [Wallets -> Nat] /\ TypeOK
      /\ UNCHANGED <<status, pc, job>> /\ x.outcome = "pending"
  BY DEF Mine, Inv, TypeInv, TypeOK, dbVars, procVars
<1>1. x \in Transactions
  BY <1>0
<1>2. PICK o \in {"success", "reverted"} :
        /\ chain' = [chain EXCEPT ![i].outcome = o]
        /\ \/ UNCHANGED tokens /\ (x.kind = "gas_top_up" \/ o = "reverted")
           \/ /\ o = "success" /\ x.kind = "sweep" /\ tokens[x.wallet] >= x.amount
              /\ tokens' = [tokens EXCEPT ![x.wallet] = @ - x.amount]
  BY DEF Mine
<1>3. /\ DOMAIN chain' = DOMAIN chain
      /\ \A j \in DOMAIN chain : j # i => chain'[j] = chain[j]
      /\ chain'[i].kind = x.kind /\ chain'[i].wallet = x.wallet /\ chain'[i].amount = x.amount
      /\ chain'[i].outcome = o
  BY <1>0, <1>1, <1>2 DEF Transactions
<1>4. SweepsMove'
  BY <1>0, <1>3 DEF Funds, SweepsMove
<1>5. \A w \in Wallets : Paid(w)' = Paid(w)
  BY <1>0 DEF Paid
<1>6. CASE UNCHANGED tokens /\ (x.kind = "gas_top_up" \/ o = "reverted")
  <2>1. \A w \in Wallets : SweepsOf(w)' = SweepsOf(w)
    BY <1>0, <1>3, <1>6 DEF SweepsOf
  <2>. QED BY <1>4, <1>5, <1>6, <2>1, FundsFrame
<1>7. CASE /\ o = "success" /\ x.kind = "sweep" /\ tokens[x.wallet] >= x.amount
           /\ tokens' = [tokens EXCEPT ![x.wallet] = @ - x.amount]
  <2>1. ASSUME NEW w \in Wallets
        PROVE  SweepsOf(w)' = IF x.wallet = w THEN SweepsOf(w) \cup {i} ELSE SweepsOf(w)
    BY <1>0, <1>3, <1>7 DEF SweepsOf
  <2>2. x.wallet \in Wallets /\ x.amount \in Nat /\ x.amount >= 1
    BY <1>1, <1>7 DEF Transactions, Funds, SweepsMove
  <2>3. ASSUME NEW w \in Wallets
        PROVE  tokens'[w] = IF x.wallet = w THEN tokens[w] - x.amount ELSE tokens[w]
    BY <1>0, <1>7, <2>2
  <2>4. ASSUME NEW w \in Wallets
        PROVE  tokens'[w] + Cardinality(SweepsOf(w)') <= Cardinality(Paid(w)')
    <3>1. i \notin SweepsOf(w)
      BY <1>0 DEF SweepsOf
    <3>2. Cardinality(SweepsOf(w) \cup {i}) = Cardinality(SweepsOf(w)) + 1
      BY <1>0, <3>1, FundsFinite, FS_AddElement
    <3>3. tokens[w] + Cardinality(SweepsOf(w)) <= Cardinality(Paid(w))
      BY DEF Funds, Balanced
    <3>4. tokens[w] \in Nat /\ Cardinality(SweepsOf(w)) \in Nat /\ Cardinality(Paid(w)) \in Nat
      BY <1>0, FundsFinite
    <3>5. CASE x.wallet = w
      <4>1. tokens'[w] = tokens[w] - x.amount /\ Cardinality(Paid(w)') = Cardinality(Paid(w))
            /\ Cardinality(SweepsOf(w)') = Cardinality(SweepsOf(w)) + 1
        BY <1>5, <2>1, <2>3, <3>2, <3>5
      <4>. QED BY <2>2, <3>3, <3>4, <4>1
    <3>6. CASE x.wallet # w
      BY <1>5, <2>1, <2>3, <3>3, <3>6
    <3>. QED BY <3>5, <3>6
  <2>. QED BY <1>4, <2>4 DEF Funds, Balanced
<1>. QED BY <1>2, <1>6, <1>7

LEMMA FundsNext ==
  ASSUME IsFiniteSet(Transfers), Inv, Stations, Funds, [Next]_vars
  PROVE  Funds'
<1>0. /\ pc \in [Procs -> Labels] /\ job \in [Procs -> Jobs] /\ status \in [Transfers -> Statuses]
      /\ Worker \in Procs
  BY WorkerIsProc DEF Inv, TypeInv, TypeOK
<1>1. ASSUME NEW p \in Procs, Moves(p), UNCHANGED <<tokens, chain>>, pc'[p] \notin {"number", "send"},
             \A t \in Transfers : status'[t] # "unpaid" <=> status[t] # "unpaid"
      PROVE  Funds'
  BY <1>1, FundsMove, FundsStay
<1>2. ASSUME NEW t \in Transfers, Detect(t) PROVE Funds'
  <2>1. /\ Moves(Worker) /\ UNCHANGED <<tokens, chain>> /\ pc'[Worker] = "announce"
    BY <1>0, <1>2 DEF Detect, Moves, StartJob, Goto, chainVars
  <2>2. status[t] = "paid" /\ \E s \in {"late", "detected"} : status' = [status EXCEPT ![t] = s]
    BY <1>2 DEF Detect
  <2>3. \A u \in Transfers : status'[u] # "unpaid" <=> status[u] # "unpaid"
    BY <1>0, <2>2
  <2>. QED BY <1>0, <1>1, <2>1, <2>3
<1>3. ASSUME NEW i \in todo, ConfirmTransfer(i) PROVE Funds'
  <2>1. /\ Moves(Worker) /\ UNCHANGED <<tokens, chain>> /\ pc'[Worker] = "announce"
        /\ status' = [status EXCEPT ![i.transfer] = "confirmed"]
    BY <1>0, <1>3 DEF ConfirmTransfer, Moves, StartJob, Goto, chainVars
  <2>2. status[i.transfer] = "detected"
    BY <1>3 DEF ConfirmTransfer, AtRest, Stations
  <2>3. \A u \in Transfers : status'[u] # "unpaid" <=> status[u] # "unpaid"
    BY <1>0, <2>1, <2>2
  <2>. QED BY <1>0, <1>1, <2>1, <2>3
<1>4. CASE Announce \/ ReceiptWrite \/ ReceiptNotify
  <2>1. UNCHANGED <<tokens, chain, status>>
    BY <1>4 DEF Announce, ReceiptWrite, ReceiptNotify, chainVars
  <2>2. Moves(Worker) /\ pc'[Worker] \notin {"number", "send"}
    <3>1. CASE Announce
      BY <1>0, <3>1 DEF Announce, Moves, Return, Goto
    <3>2. CASE ReceiptWrite
      BY <1>0, <3>2 DEF ReceiptWrite, Moves, Return, Goto, StartJob
    <3>3. CASE ReceiptNotify
      BY <1>0, <3>3 DEF ReceiptNotify, Moves, Return, Goto
    <3>. QED BY <1>4, <3>1, <3>2, <3>3
  <2>. QED BY <1>0, <1>1, <2>1, <2>2
<1>5. ASSUME NEW i \in todo, CheckReceipt(i) PROVE Funds'
  <2>1. UNCHANGED <<tokens, chain, status>>
    BY <1>5 DEF CheckReceipt, chainVars
  <2>2. Moves(Worker) /\ (pc'[Worker] \notin {"number", "send"} \/ UNCHANGED <<pc, job>>)
    BY <1>0, <1>5 DEF CheckReceipt, Moves, Goto
  <2>3. SweepsMove'
    BY <1>0, <2>1, <2>2, FundsMove DEF Funds, SweepsMove
  <2>. QED BY <2>1, <2>3, FundsStay
<1>6. CASE NextPhase \/ UNCHANGED vars
  <2>1. UNCHANGED <<tokens, chain, status, pc, job>>
    BY <1>6 DEF NextPhase, vars, chainVars, dbVars, procVars
  <2>2. SweepsMove'
    BY <2>1 DEF Funds, SweepsMove
  <2>. QED BY <2>1, <2>2, FundsStay
<1>7. ASSUME NEW o \in Owners, NEW t \in Transfers, Retry(o, t) PROVE Funds'
  <2>1. o \in Procs /\ Moves(o) /\ pc'[o] = "gate" /\ UNCHANGED <<tokens, chain, status>>
    BY <1>0, <1>7 DEF Retry, Moves, StartJob, Goto, chainVars, dbVars, Procs
  <2>. QED BY <1>1, <2>1
<1>8. ASSUME NEW p \in Procs, Abort(p) PROVE Funds'
  <2>1. Moves(p) /\ pc'[p] = "rest" /\ UNCHANGED <<tokens, chain, status>>
    BY <1>0, <1>8 DEF Abort, Throw, Moves, Goto, chainVars, dbVars
  <2>. QED BY <1>1, <2>1
<1>. QED BY <1>0, <1>2, <1>3, <1>4, <1>5, <1>6, <1>7, <1>8, FundsCall, FundsPay, FundsMine
     DEF Next, WorkerStep, WorkerLoop, Procs

(* The transfers of a wallet that are settled have each a sweep of their own *)
LEMMA SettledHaveSweeps ==
  ASSUME IsFiniteSet(Transfers), Inv, SettledBySweep, NEW w \in Wallets
  PROVE  Cardinality({t \in Paid(w) : settlement[t].status = "settled"}) <= Cardinality(SweepsOf(w))
<1> DEFINE settled == {t \in Paid(w) : settlement[t].status = "settled"}
           OwnSweep(a, t) == a.kind = "sweep" /\ a.transfer = t /\ a.status = "confirmed"
           f == [t \in settled |-> (CHOOSE a \in attempts : OwnSweep(a, t)).tx]
<1>1. \A t \in settled : \E a \in attempts : OwnSweep(a, t)
  BY DEF SettledBySweep, Paid
<1>2. \A t \in settled : \E a \in attempts : OwnSweep(a, t) /\ f[t] = a.tx
  BY <1>1
<1>3. RowsMatchChain
  BY DEF Inv, RowsInv
<1>4. \A t \in settled : f[t] \in SweepsOf(w)
  BY <1>2, <1>3 DEF RowsMatchChain, SweepsOf, Paid
<1>5. \A t, u \in settled : f[t] = f[u] => t = u
  BY <1>2, <1>3 DEF RowsMatchChain
<1>6. f \in Injection(settled, SweepsOf(w))
  BY <1>4, <1>5 DEF Injection, IsInjective
<1>7. IsFiniteSet(SweepsOf(w))
  BY FundsFinite DEF Inv, TypeInv
<1>. QED BY <1>6, <1>7, FS_Injection

(* No transfer is settled with the money of another: what the settled        *)
(* transfers of a wallet paid in has left it, however sweeps, retries and     *)
(* later payments to the same wallet interleave.                             *)
THEOREM SettledFundsLeftHolds ==
  ASSUME IsFiniteSet(Transfers)
  PROVE  Spec => []SettledFundsLeft
<1>1. Init => Funds
  BY FundsInit
<1>2. Inv /\ Stations /\ Funds /\ [Next]_vars => Funds'
  BY FundsNext
<1>3. Inv /\ SettledBySweep /\ Funds => SettledFundsLeft
  <2>. SUFFICES ASSUME Inv, SettledBySweep, Funds, NEW w \in Wallets
                PROVE  tokens[w] + Cardinality({t \in Paid(w) : settlement[t].status = "settled"})
                         <= Cardinality(Paid(w))
    BY DEF SettledFundsLeft, Paid
  <2> DEFINE settled == {t \in Paid(w) : settlement[t].status = "settled"}
  <2>1. Cardinality(settled) <= Cardinality(SweepsOf(w))
    BY SettledHaveSweeps
  <2>2. tokens[w] + Cardinality(SweepsOf(w)) <= Cardinality(Paid(w))
    BY DEF Funds, Balanced
  <2>3. IsFiniteSet(Paid(w)) /\ Cardinality(Paid(w)) \in Nat /\ Cardinality(SweepsOf(w)) \in Nat
    BY FundsFinite DEF Inv, TypeInv
  <2>4. Cardinality(settled) \in Nat
    <3>1. settled \in SUBSET Paid(w)
      OBVIOUS
    <3>2. IsFiniteSet(settled)
      BY <2>3, <3>1, FS_Subset
    <3>. QED BY <3>2, FS_CardinalityType
  <2>5. tokens[w] \in Nat
    BY DEF Inv, TypeInv, TypeOK
  <2>. QED BY <2>1, <2>2, <2>3, <2>4, <2>5
<1>. QED BY <1>1, <1>2, <1>3, InvHolds, AloneHolds, SettledBySweepHolds, PTL DEF Spec
-------------------------------------------------------------------------------
(***************************************************************************)
(* The settlement column of a transfer nobody retried, when nothing        *)
(* crashed and no statement failed.                                        *)
(***************************************************************************)
Undisturbed(t) == retries[t] = 0 /\ aborts = 0 /\ "db" \notin Faults

Waits(t, k) == \E a \in attempts : a.kind = k /\ a.transfer = t /\ a.status = "submitted"

Agree(t) ==
  \A k \in Kinds : settlement[t] = [status |-> "submitted", step |-> k] <=> Waits(t, k)

(* The number the worker read is still free *)
NumberFree ==
  LET t == job[Worker].transfer IN
  /\ pc[Worker] \in {"send", "record"} /\ retries[t] = 0 => ~Taken(Worker)
  /\ pc[Worker] = "catch" /\ Undisturbed(t) => ~Taken(Worker)

(* The places at which nothing of the worker's transfer waits for a receipt,  *)
(* or its row is there and the column is about to be written                 *)
Unmarked ==
  \/ pc[Worker] \in {"announce", "gate", "gas_check", "token_check", "refuse", "number", "send",
                     "record", "mark", "catch", "fail", "notify_failed"}
  \/ pc[Worker] = "receipt_notify" /\ job[Worker].kind = "sweep"

ColumnOfWorker ==
  LET t == job[Worker].transfer IN
  Undisturbed(t) =>
    /\ Unmarked => settlement[t].status # "submitted"
    /\ pc[Worker] = "notify" => settlement[t] = [status |-> "submitted", step |-> job[Worker].kind]
    /\ pc[Worker] \in {"mark", "notify"} => Waits(t, job[Worker].kind)

Columns ==
  /\ NumberFree
  /\ \A t \in Transfers : settlement[t].status = "submitted" => settlement[t].step \in Kinds
  /\ \A t \in Transfers : Undisturbed(t) /\ (pc[Worker] = "rest" \/ job[Worker].transfer # t) => Agree(t)
  /\ ColumnOfWorker

LEMMA ColumnsInit == Init => Columns
BY WorkerIsProc DEF Init, Columns, NumberFree, ColumnOfWorker, Unmarked, Agree, Waits

(* Nothing of t waits for a receipt, and the column does not say so *)
LEMMA NothingWaits ==
  ASSUME NEW t \in Transfers, settlement[t].status # "submitted",
         \A a \in attempts : a.transfer = t => a.status # "submitted"
  PROVE  Agree(t)
<1>1. \A k : settlement[t] # [status |-> "submitted", step |-> k]
  OBVIOUS
<1>. QED BY <1>1 DEF Agree, Waits

(* When the worker leaves a transfer with a failed attempt, nothing waits *)
LEMMA FailedIsLast ==
  ASSUME Alone, NEW a \in attempts, a.status = "failed", retries[a.transfer] = 0
  PROVE  \A b \in attempts : b.transfer = a.transfer => b.status # "submitted"
BY DEF Alone, OneOpen

(* Nothing of the worker's transfer waits at these places *)
LEMMA WorkerWaitsFor ==
  ASSUME Inv, Alone, Columns, retries[job[Worker].transfer] = 0,
         \/ Acting
         \/ pc[Worker] \in {"fail", "notify_failed", "receipt_write", "receipt_notify"}
         \/ pc[Worker] = "catch" /\ Undisturbed(job[Worker].transfer)
  PROVE  \A a \in attempts : a.transfer = job[Worker].transfer => a.status # "submitted"
<1>1. CASE Acting
  BY <1>1 DEF Alone, WorkerAlone, AllConfirmed
<1>2. CASE pc[Worker] = "catch" /\ Undisturbed(job[Worker].transfer)
  BY <1>1, <1>2 DEF Columns, NumberFree, Acting
<1>3. CASE pc[Worker] \in {"fail", "notify_failed"}
  <2>1. \E a \in attempts : a.transfer = job[Worker].transfer /\ a.status = "failed"
    BY <1>3, WorkerIsProc DEF Inv, RowsInv, ProcOK, IsRow
  <2>. QED BY <2>1, FailedIsLast
<1>4. CASE pc[Worker] \in {"receipt_write", "receipt_notify"} /\ ~Acting
  <2>1. \E a \in attempts : a.transfer = job[Worker].transfer /\ a.status = "failed"
    BY <1>4, WorkerIsProc DEF Inv, RowsInv, ProcOK, IsRow, Acting, ReceiptLabels, Succeeded, Result
  <2>. QED BY <2>1, FailedIsLast
<1>. QED BY <1>1, <1>2, <1>3, <1>4

(* Whoever makes a step writes to the column of its own transfer only *)
LEMMA CallColumn ==
  ASSUME Inv, NEW p \in Procs, EnsureSettlement(p), NEW u \in Transfers, u # job[p].transfer
  PROVE  settlement'[u] = settlement[u] /\ \A k : Waits(u, k)' <=> Waits(u, k)
<1>0. settlement \in [Transfers -> Settlements] /\ job[p].transfer \in Transfers
  BY CallStep DEF Inv, TypeInv, TypeOK, LocalOK
<1>1. settlement'[u] = settlement[u]
  <2>1. CASE Gate(p) \/ Refuse(p) \/ Mark(p) \/ Fail(p)
    BY <1>0, <2>1 DEF Gate, Refuse, Mark, Fail, SetSettlement
  <2>2. CASE GasCheck(p) \/ TokenCheck(p) \/ Number(p) \/ Send(p)
    BY <2>2 DEF GasCheck, TokenCheck, Number, Send, dbVars
  <2>3. CASE Record(p) \/ Notify(p) \/ Catch(p) \/ NotifyFailed(p)
    BY <2>3 DEF Record, Notify, Catch, NotifyFailed
  <2>. QED BY <2>1, <2>2, <2>3 DEF EnsureSettlement
<1>2. \A k : Waits(u, k)' <=> Waits(u, k)
  BY CallRows DEF Waits
<1>. QED BY <1>1, <1>2

(* A step of an owner's call, of the owner, the payer, the chain *)
LEMMA ColumnsFrame ==
  ASSUME Inv, Columns, pc'[Worker] = pc[Worker], job'[Worker] = job[Worker],
         \A t \in Transfers : Undisturbed(t)' =>
           /\ Undisturbed(t) /\ settlement'[t] = settlement[t]
           /\ \A k : Waits(t, k)' <=> Waits(t, k),
         \A t \in Transfers : retries'[t] = 0 => retries[t] = 0,
         \A b \in attempts' : retries'[b.transfer] = 0 => b \in attempts,
         \A t \in Transfers : settlement'[t].status = "submitted" => settlement'[t].step \in Kinds
  PROVE  Columns'
<1>0. pc[Worker] # "rest" => job[Worker].transfer \in Transfers
  BY WorkerIsProc DEF Inv, TypeInv, LocalOK
<1>1. NumberFree'
  <2>1. ASSUME retries'[job[Worker].transfer] = 0, pc[Worker] # "rest", Taken(Worker)' PROVE Taken(Worker)
    BY <2>1 DEF Taken, Numbers
  <2>2. pc[Worker] # "rest" /\ Undisturbed(job[Worker].transfer)' => Undisturbed(job[Worker].transfer)
    BY <1>0 DEF Undisturbed
  <2>3. ASSUME pc[Worker] \in {"send", "record"}, retries'[job[Worker].transfer] = 0 PROVE ~Taken(Worker)'
    BY <1>0, <2>1, <2>3 DEF Columns, NumberFree
  <2>4. ASSUME pc[Worker] = "catch", Undisturbed(job[Worker].transfer)' PROVE ~Taken(Worker)'
    <3>1. retries'[job[Worker].transfer] = 0
      BY <2>4 DEF Undisturbed
    <3>. QED BY <1>0, <2>1, <2>2, <2>4, <3>1 DEF Columns, NumberFree
  <2>. QED BY <2>3, <2>4 DEF NumberFree, Undisturbed
<1>2. ASSUME NEW t \in Transfers, Undisturbed(t)', pc[Worker] = "rest" \/ job[Worker].transfer # t
      PROVE  Agree(t)'
  <2>1. Agree(t)
    BY <1>2 DEF Columns
  <2>. QED BY <1>2, <2>1 DEF Agree
<1>3. ColumnOfWorker'
  <2>1. CASE pc[Worker] = "rest"
    BY <2>1 DEF ColumnOfWorker, Unmarked
  <2>2. ASSUME pc[Worker] # "rest", Undisturbed(job[Worker].transfer)'
        PROVE  /\ Undisturbed(job[Worker].transfer)
               /\ settlement'[job[Worker].transfer] = settlement[job[Worker].transfer]
               /\ Waits(job[Worker].transfer, job[Worker].kind)' <=> Waits(job[Worker].transfer, job[Worker].kind)
    BY <1>0, <2>2 DEF Undisturbed, Waits
  <2>. QED BY <1>0, <2>1, <2>2 DEF Columns, ColumnOfWorker, Unmarked, Undisturbed, Waits
<1>. QED BY <1>1, <1>2, <1>3 DEF Columns

(* A step of the worker with its transfer t, to which it keeps its writes *)
LEMMA ColumnsWorker ==
  ASSUME Inv, Columns, UNCHANGED <<retries, aborts>>, NumberFree', ColumnOfWorker',
         NEW t \in Transfers,
         pc[Worker] = "rest" \/ job[Worker].transfer = t,
         pc'[Worker] = "rest" \/ job'[Worker].transfer = t,
         \A u \in Transfers : u # t => settlement'[u] = settlement[u] /\ \A k : Waits(u, k)' <=> Waits(u, k),
         settlement'[t].status = "submitted" => settlement'[t].step \in Kinds,
         pc'[Worker] = "rest" /\ Undisturbed(t) => Agree(t)'
  PROVE  Columns'
<1>1. ASSUME NEW u \in Transfers, Undisturbed(u), pc'[Worker] = "rest" \/ job'[Worker].transfer # u
      PROVE  Agree(u)'
  <2>1. CASE u = t
    BY <1>1, <2>1
  <2>2. CASE u # t
    <3>1. Agree(u)
      BY <1>1, <2>2 DEF Columns
    <3>. QED BY <2>2, <3>1 DEF Agree
  <2>. QED BY <2>1, <2>2
<1>2. \A u \in Transfers : Undisturbed(u)' <=> Undisturbed(u)
  BY DEF Undisturbed
<1>3. \A u \in Transfers : settlement'[u].status = "submitted" => settlement'[u].step \in Kinds
  BY DEF Columns
<1>. QED BY <1>1, <1>2, <1>3 DEF Columns

(* The same of the next state, for a step that leaves the rows alone *)
LEMMA NothingWaitsNext ==
  ASSUME NEW t \in Transfers, UNCHANGED attempts, settlement'[t].status # "submitted",
         \A a \in attempts : a.transfer = t => a.status # "submitted"
  PROVE  Agree(t)'
<1>1. \A k : settlement'[t] # [status |-> "submitted", step |-> k]
  OBVIOUS
<1>. QED BY <1>1 DEF Agree, Waits

(* The number the worker just read is free *)
LEMMA NumberIsFree ==
  ASSUME Inv, Number(Worker)
  PROVE  ~Taken(Worker)'
<1> DEFINE k == job[Worker].kind
           t == job[Worker].transfer
<1>0. job \in [Procs -> Jobs] /\ Worker \in Procs /\ UNCHANGED attempts
  BY WorkerIsProc DEF Inv, TypeInv, TypeOK, Number, dbVars
<1>1. k \in Kinds /\ t \in Transfers
  BY WorkerIsProc DEF Inv, TypeInv, LocalOK, KindLabels, Number
<1>2. PICK n \in Nat : Numbers(k, t) = 1 .. n
  BY <1>1 DEF Inv, RowsInv, Counted
<1>3. LatestNumber(k, t) = n
  BY <1>2, LatestIsCount
<1>4. job'[Worker].number = n + 1 /\ job'[Worker].kind = k /\ job'[Worker].transfer = t
  BY <1>0, <1>3 DEF Number, Jobs
<1>5. n + 1 \notin Numbers(k, t)
  BY <1>2
<1>. QED BY <1>0, <1>4, <1>5 DEF Taken, Numbers

LEMMA FreeCall ==
  ASSUME Inv, Columns, EnsureSettlement(Worker)
  PROVE  NumberFree'
<1>0. /\ pc \in [Procs -> Labels] /\ job \in [Procs -> Jobs] /\ Worker \in Procs
      /\ UNCHANGED <<retries, aborts>>
  BY WorkerIsProc, CallStep DEF Inv, TypeInv, TypeOK
<1>1. ASSUME pc'[Worker] \notin {"send", "record", "catch"} PROVE NumberFree'
  BY <1>1 DEF NumberFree
<1>2. CASE Gate(Worker) \/ GasCheck(Worker) \/ TokenCheck(Worker) \/ Refuse(Worker)
  BY <1>0, <1>1, <1>2 DEF Gate, GasCheck, TokenCheck, Refuse, Return, Goto
<1>3. CASE Number(Worker)
  BY <1>3, NumberIsFree DEF NumberFree
<1>4. CASE Send(Worker)
  <2>1. /\ pc[Worker] = "send" /\ UNCHANGED attempts /\ job'[Worker].transfer = job[Worker].transfer
        /\ job'[Worker].kind = job[Worker].kind /\ job'[Worker].number = job[Worker].number
    BY <1>0, <1>4 DEF Send, dbVars, Jobs
  <2>2. Taken(Worker)' => Taken(Worker)
    BY <2>1 DEF Taken, Numbers
  <2>. QED BY <1>0, <2>1, <2>2 DEF Columns, NumberFree, Undisturbed
<1>5. CASE Record(Worker)
  <2>1. CASE pc'[Worker] = "mark"
    BY <1>1, <2>1
  <2>2. CASE /\ Taken(Worker) \/ "db" \in Faults
             /\ Goto(Worker, "catch")
             /\ UNCHANGED attempts
    <3>1. pc[Worker] = "record" /\ pc'[Worker] = "catch" /\ UNCHANGED job
      BY <1>0, <1>5, <2>2 DEF Record, Goto
    <3>2. retries[job[Worker].transfer] = 0 => ~Taken(Worker)
      BY <3>1 DEF Columns, NumberFree
    <3>. QED BY <1>0, <2>2, <3>1, <3>2 DEF NumberFree, Undisturbed
  <2>. QED BY <1>0, <1>5, <2>1, <2>2 DEF Record, Goto
<1>6. CASE Mark(Worker) \/ Notify(Worker)
  <2>1. pc'[Worker] = "catch" => "db" \in Faults
    BY <1>0, <1>6 DEF Mark, Notify, Return, Goto
  <2>2. pc'[Worker] \notin {"send", "record"}
    BY <1>0, <1>6 DEF Mark, Notify, Return, Goto
  <2>. QED BY <2>1, <2>2 DEF NumberFree, Undisturbed
<1>7. CASE Catch(Worker) \/ Fail(Worker) \/ NotifyFailed(Worker)
  BY <1>0, <1>1, <1>7 DEF Catch, Fail, NotifyFailed, Return, Throw, Goto
<1>. QED BY <1>2, <1>3, <1>4, <1>5, <1>6, <1>7 DEF EnsureSettlement

(* What a step of the worker has to show of its transfer t *)
LEMMA ColumnNext ==
  ASSUME UNCHANGED <<retries, aborts>>, NEW t, pc'[Worker] # "rest" => job'[Worker].transfer = t,
         ASSUME Undisturbed(t), pc'[Worker] # "rest"
         PROVE  /\ Unmarked' => settlement'[t].status # "submitted"
                /\ pc'[Worker] = "notify" => settlement'[t] = [status |-> "submitted", step |-> job'[Worker].kind]
                /\ pc'[Worker] \in {"mark", "notify"} =>
                     \E a \in attempts' : a.kind = job'[Worker].kind /\ a.transfer = t /\ a.status = "submitted"
  PROVE  ColumnOfWorker'
<1>1. CASE pc'[Worker] = "rest"
  BY <1>1 DEF ColumnOfWorker, Unmarked
<1>2. CASE pc'[Worker] # "rest"
  <2>1. ASSUME retries[t] = 0 /\ aborts = 0 /\ "db" \notin Faults PROVE Undisturbed(t)
    BY <2>1 DEF Undisturbed
  <2>. QED BY <1>2, <2>1 DEF ColumnOfWorker, Undisturbed, Waits
<1>. QED BY <1>1, <1>2

(* Before its transaction is recorded, the worker's call leaves the column    *)
(* of its transfer to other things than a receipt                            *)
LEMMA EarlyColumn ==
  ASSUME Inv, Columns, Undisturbed(job[Worker].transfer),
         \/ Gate(Worker) \/ GasCheck(Worker) \/ TokenCheck(Worker) \/ Refuse(Worker)
         \/ Number(Worker) \/ Send(Worker)
  PROVE  /\ settlement'[job[Worker].transfer].status # "submitted"
         /\ UNCHANGED attempts /\ Acting
         /\ pc'[Worker] \notin {"mark", "notify"}
<1>0. /\ pc \in [Procs -> Labels] /\ Worker \in Procs /\ settlement \in [Transfers -> Settlements]
  BY WorkerIsProc DEF Inv, TypeInv, TypeOK
<1>1. /\ pc[Worker] \in {"gate", "gas_check", "token_check", "refuse", "number", "send"}
      /\ UNCHANGED attempts
  BY DEF Gate, GasCheck, TokenCheck, Refuse, Number, Send, dbVars
<1>2. Unmarked /\ Acting
  BY <1>1 DEF Unmarked, Acting
<1>3. settlement[job[Worker].transfer].status # "submitted"
  BY <1>2 DEF Columns, ColumnOfWorker
<1>4. job[Worker].transfer \in Transfers
  BY <1>1, WorkerIsProc DEF Inv, TypeInv, LocalOK
<1>5. settlement'[job[Worker].transfer].status # "submitted"
  <2>1. CASE Gate(Worker) \/ Refuse(Worker)
    BY <1>0, <1>3, <1>4, <2>1 DEF Gate, Refuse, SetSettlement
  <2>2. CASE GasCheck(Worker) \/ TokenCheck(Worker) \/ Number(Worker) \/ Send(Worker)
    BY <1>3, <2>2 DEF GasCheck, TokenCheck, Number, Send, dbVars
  <2>. QED BY <2>1, <2>2
<1>6. pc'[Worker] \notin {"mark", "notify"}
  <2>1. CASE Gate(Worker) \/ Refuse(Worker)
    BY <1>0, <2>1 DEF Gate, Refuse, Return, Goto
  <2>2. CASE GasCheck(Worker) \/ TokenCheck(Worker) \/ Number(Worker) \/ Send(Worker)
    BY <1>0, <2>2 DEF GasCheck, TokenCheck, Number, Send, Goto
  <2>. QED BY <2>1, <2>2
<1>. QED BY <1>1, <1>2, <1>5, <1>6

LEMMA ColumnsCall ==
  ASSUME Inv, Alone, Columns, EnsureSettlement(Worker), NEW t \in Transfers, job[Worker].transfer = t
  PROVE  Columns'
<1> DEFINE k == job[Worker].kind
<1>0. /\ pc \in [Procs -> Labels] /\ job \in [Procs -> Jobs] /\ Worker \in Procs
      /\ settlement \in [Transfers -> Settlements]
      /\ UNCHANGED <<retries, aborts>> /\ pc[Worker] # "rest"
      /\ pc'[Worker] # "rest" => job'[Worker].transfer = t
  BY WorkerIsProc, CallStep DEF Inv, TypeInv, TypeOK
<1>1. \A u \in Transfers : u # t => settlement'[u] = settlement[u] /\ \A l : Waits(u, l)' <=> Waits(u, l)
  BY <1>0, CallColumn
<1>2. ASSUME ColumnOfWorker', settlement'[t].status = "submitted" => settlement'[t].step \in Kinds,
             pc'[Worker] = "rest" /\ Undisturbed(t) => Agree(t)'
      PROVE  Columns'
  BY <1>0, <1>1, <1>2, FreeCall, ColumnsWorker
<1>3. settlement[t].status = "submitted" => settlement[t].step \in Kinds
  BY <1>0 DEF Columns
<1>4. retries[t] = 0 /\ aborts = 0 /\ "db" \notin Faults <=> Undisturbed(t)
  BY DEF Undisturbed
<1>5. CASE \/ Gate(Worker) \/ GasCheck(Worker) \/ TokenCheck(Worker) \/ Refuse(Worker)
           \/ Number(Worker) \/ Send(Worker)
  <2>0. Undisturbed(t) => /\ settlement'[t].status # "submitted"
                          /\ UNCHANGED attempts /\ Acting
                          /\ pc'[Worker] \notin {"mark", "notify"}
    BY <1>5, EarlyColumn
  <2>1. ColumnOfWorker'
    BY <1>0, <2>0, ColumnNext
  <2>2. settlement'[t].status = "submitted" => settlement'[t].step \in Kinds
    <3>1. CASE Gate(Worker) \/ Refuse(Worker)
      BY <1>0, <1>3, <3>1 DEF Gate, Refuse, SetSettlement
    <3>2. CASE GasCheck(Worker) \/ TokenCheck(Worker) \/ Number(Worker) \/ Send(Worker)
      BY <1>3, <3>2 DEF GasCheck, TokenCheck, Number, Send, dbVars
    <3>. QED BY <1>5, <3>1, <3>2
  <2>3. ASSUME Undisturbed(t) PROVE Agree(t)'
    <3>1. \A a \in attempts : a.transfer = t => a.status # "submitted"
      BY <1>4, <2>0, <2>3, WorkerWaitsFor
    <3>. QED BY <2>0, <2>3, <3>1, NothingWaitsNext
  <2>. QED BY <1>2, <2>1, <2>2, <2>3
<1>6. CASE Record(Worker)
  <2>1. pc[Worker] = "record" /\ pc'[Worker] \in {"mark", "catch"} /\ UNCHANGED <<settlement, job>>
    BY <1>0, <1>6 DEF Record, Goto
  <2>2. Undisturbed(t) => settlement[t].status # "submitted"
    BY <2>1 DEF Columns, ColumnOfWorker, Unmarked
  <2>3. pc'[Worker] = "mark" => \E a \in attempts' : a.kind = k /\ a.transfer = t /\ a.status = "submitted"
    BY <1>0, <2>1, CallRows
  <2>4. ColumnOfWorker'
    BY <1>0, <2>1, <2>2, <2>3, ColumnNext
  <2>. QED BY <1>2, <1>3, <2>1, <2>4
<1>7. CASE Mark(Worker)
  <2>1. /\ pc[Worker] = "mark" /\ UNCHANGED <<attempts, job>> /\ pc'[Worker] \in {"notify", "catch"}
        /\ pc'[Worker] = "notify" => settlement'[t] = [status |-> "submitted", step |-> k]
        /\ pc'[Worker] = "catch" => "db" \in Faults /\ UNCHANGED settlement
    BY <1>0, <1>7 DEF Mark, Goto, SetSettlement
  <2>2. Undisturbed(t) => Waits(t, k)
    BY <2>1 DEF Columns, ColumnOfWorker
  <2>3. k \in Kinds
    BY <2>1, WorkerIsProc DEF Inv, TypeInv, LocalOK, KindLabels
  <2>4. ColumnOfWorker'
    BY <1>0, <1>4, <2>1, <2>2, ColumnNext DEF Waits, Unmarked
  <2>5. settlement'[t].status = "submitted" => settlement'[t].step \in Kinds
    BY <1>3, <2>1, <2>3
  <2>. QED BY <1>2, <2>1, <2>4, <2>5
<1>8. CASE Notify(Worker)
  <2>1. /\ pc[Worker] = "notify" /\ UNCHANGED <<attempts, settlement>> /\ pc'[Worker] \in {"rest", "catch"}
        /\ pc'[Worker] = "catch" => "db" \in Faults
    BY <1>0, <1>8 DEF Notify, Goto, Return
  <2>2. ASSUME Undisturbed(t) PROVE Agree(t)'
    <3>1. settlement[t] = [status |-> "submitted", step |-> k] /\ Waits(t, k)
      BY <2>1, <2>2 DEF Columns, ColumnOfWorker
    <3>2. \A l : Waits(t, l) => l = k
      BY <1>4, <2>2, <3>1 DEF Waits, Alone, OneOpen
    <3>3. \A l : settlement[t] = [status |-> "submitted", step |-> l] => l = k
      BY <3>1
    <3>. QED BY <2>1, <3>1, <3>2, <3>3 DEF Agree, Waits
  <2>3. ColumnOfWorker'
    BY <1>0, <1>4, <2>1, ColumnNext
  <2>. QED BY <1>2, <1>3, <2>1, <2>2, <2>3
<1>9. CASE Catch(Worker)
  <2>1. pc[Worker] = "catch" /\ UNCHANGED settlement /\ pc'[Worker] \in {"fail", "rest"}
        /\ (pc'[Worker] = "rest" => Taken(Worker))
    BY <1>0, <1>9 DEF Catch, Goto, Throw
  <2>2. Undisturbed(t) => ~Taken(Worker) /\ settlement[t].status # "submitted"
    BY <2>1 DEF Columns, NumberFree, ColumnOfWorker, Unmarked
  <2>3. ColumnOfWorker'
    BY <1>0, <2>1, <2>2, ColumnNext
  <2>. QED BY <1>2, <1>3, <2>1, <2>2, <2>3
<1>10. CASE Fail(Worker)
  <2>1. pc'[Worker] = "notify_failed" /\ settlement'[t].status = "pending"
    BY <1>0, <1>10 DEF Fail, Goto, SetSettlement
  <2>2. ColumnOfWorker'
    BY <1>0, <2>1, ColumnNext
  <2>. QED BY <1>2, <2>1, <2>2
<1>11. CASE NotifyFailed(Worker)
  <2>1. /\ pc[Worker] = "notify_failed" /\ UNCHANGED <<attempts, settlement>> /\ pc'[Worker] = "rest"
    BY <1>0, <1>11 DEF NotifyFailed, Goto, Return
  <2>2. Undisturbed(t) => settlement[t].status # "submitted"
    BY <2>1 DEF Columns, ColumnOfWorker, Unmarked
  <2>3. ASSUME Undisturbed(t) PROVE Agree(t)'
    <3>1. \A a \in attempts : a.transfer = t => a.status # "submitted"
      BY <1>4, <2>1, <2>3, WorkerWaitsFor
    <3>. QED BY <2>1, <2>2, <2>3, <3>1, NothingWaitsNext
  <2>4. ColumnOfWorker'
    BY <1>0, <2>1, ColumnNext
  <2>. QED BY <1>2, <1>3, <2>1, <2>3, <2>4
<1>. QED BY <1>5, <1>6, <1>7, <1>8, <1>9, <1>10, <1>11 DEF EnsureSettlement

(* A submitted column names a kind of attempt *)
LEMMA SubmittedKind ==
  ASSUME Inv, Columns, NEW p \in Procs, EnsureSettlement(p)
  PROVE  \A u \in Transfers : settlement'[u].status = "submitted" => settlement'[u].step \in Kinds
<1>0. /\ settlement \in [Transfers -> Settlements]
      /\ \A u \in Transfers : settlement[u].status = "submitted" => settlement[u].step \in Kinds
  BY DEF Inv, TypeInv, TypeOK, Columns
<1>1. CASE UNCHANGED settlement
  BY <1>0, <1>1
<1>2. ASSUME NEW t, NEW s, NEW k, SetSettlement(t, s, k), s = "submitted" => k \in Kinds
      PROVE  \A u \in Transfers : settlement'[u].status = "submitted" => settlement'[u].step \in Kinds
  BY <1>0, <1>2 DEF SetSettlement
<1>3. CASE Gate(p)
  BY <1>1, <1>2, <1>3 DEF Gate
<1>4. CASE Refuse(p) \/ Fail(p)
  BY <1>2, <1>4 DEF Refuse, Fail
<1>5. CASE Mark(p)
  <2>1. job[p].kind \in Kinds
    BY <1>5 DEF Mark, Inv, TypeInv, LocalOK, KindLabels
  <2>. QED BY <1>1, <1>2, <1>5, <2>1 DEF Mark
<1>6. CASE GasCheck(p) \/ TokenCheck(p) \/ Number(p) \/ Send(p)
  BY <1>1, <1>6 DEF GasCheck, TokenCheck, Number, Send, dbVars
<1>7. CASE Record(p) \/ Notify(p) \/ Catch(p) \/ NotifyFailed(p)
  BY <1>1, <1>7 DEF Record, Notify, Catch, NotifyFailed
<1>. QED BY <1>3, <1>4, <1>5, <1>6, <1>7 DEF EnsureSettlement

(* Rows, columns and the worker's place stay *)
LEMMA ColumnsStay ==
  ASSUME Inv, Columns, UNCHANGED <<settlement, attempts, retries, aborts>>,
         pc'[Worker] = pc[Worker], job'[Worker] = job[Worker]
  PROVE  Columns'
<1>1. \A t \in Transfers : Undisturbed(t)' => Undisturbed(t)
  BY DEF Undisturbed
<1>2. \A t \in Transfers : \A k : Waits(t, k)' <=> Waits(t, k)
  BY DEF Waits
<1>3. \A t \in Transfers : settlement'[t].status = "submitted" => settlement'[t].step \in Kinds
  BY DEF Columns
<1>. QED BY <1>1, <1>2, <1>3, ColumnsFrame

LEMMA ColumnsOwner ==
  ASSUME Inv, Stations, Columns, NEW o \in Owners, EnsureSettlement(o)
  PROVE  Columns'
<1>0. /\ o \in Procs /\ o # Worker /\ Worker \in Procs /\ Moves(o) /\ UNCHANGED <<retries, aborts>>
      /\ pc[o] # "rest" /\ pc \in [Procs -> Labels] /\ job \in [Procs -> Jobs]
  BY WorkerIsProc, SettlementAssumption, CallStep DEF Procs, Inv, TypeInv, TypeOK
<1>1. retries[job[o].transfer] # 0
  BY <1>0 DEF Stations
<1>2. pc'[Worker] = pc[Worker] /\ job'[Worker] = job[Worker]
  BY <1>0 DEF Moves
<1>3. ASSUME NEW t \in Transfers, Undisturbed(t)'
      PROVE  /\ Undisturbed(t) /\ settlement'[t] = settlement[t]
             /\ \A k : Waits(t, k)' <=> Waits(t, k)
  <2>1. Undisturbed(t) /\ t # job[o].transfer
    BY <1>0, <1>1, <1>3 DEF Undisturbed
  <2>. QED BY <1>0, <2>1, CallColumn
<1>4. \A b \in attempts' : retries'[b.transfer] = 0 => b \in attempts
  BY <1>0, <1>1, CallRows
<1>5. \A t \in Transfers : settlement'[t].status = "submitted" => settlement'[t].step \in Kinds
  BY <1>0, SubmittedKind
<1>. QED BY <1>0, <1>2, <1>3, <1>4, <1>5, ColumnsFrame

(* A transfer that is not settling has no attempt, and its column says so *)
LEMMA NotSubmittedYet ==
  ASSUME Inv, Stations, Columns, NEW t \in Transfers, ~Settling(t), Undisturbed(t), pc[Worker] = "rest"
  PROVE  settlement[t].status # "submitted"
<1>. SUFFICES ASSUME settlement[t].status = "submitted" PROVE FALSE
  OBVIOUS
<1>1. Agree(t) /\ settlement[t].step \in Kinds /\ settlement[t] \in Settlements
  BY DEF Columns, Inv, TypeInv, TypeOK
<1>2. settlement[t] = [status |-> "submitted", step |-> settlement[t].step]
  BY <1>1 DEF Settlements
<1>3. Waits(t, settlement[t].step)
  BY <1>1, <1>2 DEF Agree
<1>. QED BY <1>3 DEF Waits, Stations

(* The worker takes up a transfer *)
LEMMA ColumnsStart ==
  ASSUME Inv, Stations, Columns, NEW t \in Transfers, ~Settling(t), pc[Worker] = "rest",
         UNCHANGED <<settlement, attempts, retries, aborts>>,
         pc'[Worker] = "announce", job'[Worker].transfer = t
  PROVE  Columns'
<1>1. settlement[t].status = "submitted" => settlement[t].step \in Kinds
  BY DEF Columns
<1>2. NumberFree'
  BY DEF NumberFree
<1>3. ColumnOfWorker'
  BY <1>1, NotSubmittedYet, ColumnNext
<1>4. \A u \in Transfers : u # t => settlement'[u] = settlement[u] /\ \A k : Waits(u, k)' <=> Waits(u, k)
  BY DEF Waits
<1>. QED BY <1>1, <1>2, <1>3, <1>4, ColumnsWorker

LEMMA ColumnsReceipt ==
  ASSUME Inv, Columns, NEW i \in todo, CheckReceipt(i)
  PROVE  Columns'
<1>0. UNCHANGED <<settlement, retries, aborts>> /\ pc[Worker] = "rest" /\ attempts \subseteq Attempts
  BY DEF CheckReceipt, AtRest, Inv, TypeInv, TypeOK
<1>1. CASE UNCHANGED <<attempts, pc, job>>
  BY <1>0, <1>1, ColumnsStay
<1>2. CASE ~UNCHANGED <<attempts, pc, job>>
  <2>1. PICK a \in attempts, r \in attempts' :
          /\ attempts' = (attempts \ {a}) \union {r}
          /\ r.transfer = a.transfer
          /\ job'[Worker].transfer = a.transfer /\ job'[Worker].kind = a.kind
          /\ pc'[Worker] = IF a.kind = "sweep" THEN "receipt_write" ELSE "receipt_notify"
    BY <1>2, ReceiptRows
  <2>2. PICK t \in Transfers : t = a.transfer
    BY <1>0, <2>1 DEF Attempts
  <2>3. ~Unmarked' /\ pc'[Worker] \in {"receipt_write", "receipt_notify"}
    BY <2>1 DEF Unmarked
  <2>4. NumberFree' /\ ColumnOfWorker'
    BY <2>3 DEF NumberFree, ColumnOfWorker
  <2>5. \A u \in Transfers : u # t => settlement'[u] = settlement[u] /\ \A k : Waits(u, k)' <=> Waits(u, k)
    BY <1>0, <2>1, <2>2 DEF Waits
  <2>6. settlement'[t].status = "submitted" => settlement'[t].step \in Kinds
    BY <1>0 DEF Columns
  <2>. QED BY <1>0, <2>1, <2>2, <2>3, <2>4, <2>5, <2>6, ColumnsWorker
<1>. QED BY <1>1, <1>2

(* The worker announces its transfer, or writes what a receipt means for it *)
LEMMA ColumnsTurn ==
  ASSUME Inv, Alone, Columns, Announce \/ ReceiptWrite \/ ReceiptNotify,
         NEW t \in Transfers, job[Worker].transfer = t
  PROVE  Columns'
<1>0. /\ pc \in [Procs -> Labels] /\ job \in [Procs -> Jobs] /\ Worker \in Procs
      /\ settlement \in [Transfers -> Settlements]
      /\ settlement[t].status = "submitted" => settlement[t].step \in Kinds
  BY WorkerIsProc DEF Inv, TypeInv, TypeOK, Columns
<1>1. /\ pc[Worker] \in {"announce", "receipt_write", "receipt_notify"}
      /\ UNCHANGED <<attempts, retries, aborts>>
  BY DEF Announce, ReceiptWrite, ReceiptNotify, historyVars
<1>2. job[Worker].kind \in Kinds \/ pc[Worker] = "announce"
  BY <1>1, WorkerIsProc DEF Inv, TypeInv, LocalOK, KindLabels
<1>3. \A u \in Transfers : u # t => settlement'[u] = settlement[u]
  BY <1>0 DEF Announce, ReceiptWrite, ReceiptNotify, SetSettlement
<1>4. \A u \in Transfers : u # t => settlement'[u] = settlement[u] /\ \A k : Waits(u, k)' <=> Waits(u, k)
  BY <1>1, <1>3 DEF Waits
<1>5. Undisturbed(t) => \A a \in attempts : a.transfer = t => a.status # "submitted"
  BY <1>1, WorkerWaitsFor DEF Undisturbed, Acting
<1>6. Undisturbed(t) /\ Unmarked => settlement[t].status # "submitted"
  BY DEF Columns, ColumnOfWorker
<1>7. /\ pc'[Worker] \in {"rest", "gate", "receipt_write", "receipt_notify"}
      /\ pc'[Worker] # "rest" => job'[Worker].transfer = t
      /\ \/ UNCHANGED settlement /\ (Unmarked \/ pc'[Worker] = "receipt_write")
         \/ settlement'[t].status \in {"pending", "settled"}
  <2>1. CASE Announce
    BY <1>0, <2>1 DEF Announce, Return, Goto, Unmarked
  <2>2. CASE ReceiptWrite
    <3>1. settlement'[t].status \in {"pending", "settled"}
      BY <1>0, <2>2 DEF ReceiptWrite, SetSettlement
    <3>2. /\ pc'[Worker] \in {"rest", "gate", "receipt_notify"}
          /\ pc'[Worker] # "rest" => job'[Worker].transfer = t
      BY <1>0, <2>2 DEF ReceiptWrite, Return, Goto, StartJob, NoJob
    <3>. QED BY <3>1, <3>2
  <2>3. CASE ReceiptNotify
    <3>1. pc[Worker] = "receipt_notify" /\ UNCHANGED settlement
      BY <2>3 DEF ReceiptNotify
    <3>2. \/ job[Worker].kind = "sweep" /\ pc'[Worker] = "rest"
          \/ pc'[Worker] = "receipt_write" /\ UNCHANGED job
      BY <1>0, <2>3 DEF ReceiptNotify, Return, Goto
    <3>. QED BY <3>1, <3>2 DEF Unmarked
  <2>. QED BY <2>1, <2>2, <2>3
<1>8. NumberFree'
  BY <1>7 DEF NumberFree
<1>9. ColumnOfWorker'
  <2>1. Undisturbed(t) /\ Unmarked' => settlement'[t].status # "submitted"
    BY <1>6, <1>7 DEF Unmarked
  <2>. QED BY <1>1, <1>7, <2>1, ColumnNext
<1>10. settlement'[t].status = "submitted" => settlement'[t].step \in Kinds
  BY <1>0, <1>7
<1>11. ASSUME pc'[Worker] = "rest", Undisturbed(t) PROVE Agree(t)'
  <2>1. settlement'[t].status # "submitted"
    BY <1>6, <1>7, <1>11
  <2>. QED BY <1>1, <1>5, <1>11, <2>1, NothingWaitsNext
<1>. QED BY <1>1, <1>4, <1>7, <1>8, <1>9, <1>10, <1>11, ColumnsWorker

LEMMA ColumnsNext ==
  ASSUME Inv, Stations, Alone, Columns, [Next]_vars
  PROVE  Columns'
<1>0. /\ pc \in [Procs -> Labels] /\ job \in [Procs -> Jobs] /\ Worker \in Procs /\ Worker \notin Owners
      /\ retries \in [Transfers -> Nat] /\ aborts \in Nat
  BY WorkerIsProc, SettlementAssumption DEF Inv, TypeInv, TypeOK
<1>1. CASE EnsureSettlement(Worker)
  <2>1. PICK t \in Transfers : job[Worker].transfer = t
    BY <1>0, <1>1, CallStep DEF Inv, TypeInv, LocalOK
  <2>. QED BY <1>1, <2>1, ColumnsCall
<1>2. ASSUME NEW o \in Owners, EnsureSettlement(o) PROVE Columns'
  BY <1>2, ColumnsOwner
<1>3. ASSUME NEW t \in Transfers, Detect(t) PROVE Columns'
  <2>1. pc'[Worker] = "announce" /\ job'[Worker].transfer = t
    BY <1>0, <1>3 DEF Detect, StartJob, NoJob, Goto
  <2>. QED BY <1>3, <2>1, ColumnsStart DEF Detect, AtRest, Settling, historyVars
<1>4. ASSUME NEW i \in todo, ConfirmTransfer(i) PROVE Columns'
  <2>1. pc'[Worker] = "announce" /\ job'[Worker].transfer = i.transfer
    BY <1>0, <1>4 DEF ConfirmTransfer, StartJob, NoJob, Goto
  <2>2. PICK t \in Transfers : t = i.transfer /\ status[t] = "detected"
    BY <1>4 DEF ConfirmTransfer, AtRest, Stations, Inv, TypeInv, TypeOK, Items
  <2>. QED BY <1>4, <2>1, <2>2, ColumnsStart DEF ConfirmTransfer, AtRest, Settling, historyVars
<1>5. CASE Announce \/ ReceiptWrite \/ ReceiptNotify
  <2>1. pc[Worker] # "rest"
    BY <1>5 DEF Announce, ReceiptWrite, ReceiptNotify
  <2>2. PICK t \in Transfers : job[Worker].transfer = t
    BY <1>0, <2>1 DEF Inv, TypeInv, LocalOK
  <2>. QED BY <1>5, <2>2, ColumnsTurn
<1>6. CASE NextPhase \/ (\E t \in Transfers : Pay(t)) \/ (\E i \in DOMAIN chain : Mine(i)) \/ UNCHANGED vars
  <2>1. UNCHANGED <<settlement, attempts, retries, aborts, pc, job>>
    BY <1>6 DEF NextPhase, Pay, Mine, vars, dbVars, procVars, historyVars
  <2>. QED BY <2>1, ColumnsStay
<1>7. ASSUME NEW o \in Owners, NEW t \in Transfers, Retry(o, t) PROVE Columns'
  <2>1. Moves(o) /\ UNCHANGED <<attempts, settlement, aborts>> /\ retries' = [retries EXCEPT ![t] = @ + 1]
    BY <1>7, RetryType DEF Retry, Inv, dbVars
  <2>2. pc'[Worker] = pc[Worker] /\ job'[Worker] = job[Worker]
    BY <1>0, <2>1 DEF Moves
  <2>3. \A u \in Transfers : retries'[u] = 0 => retries[u] = 0
    BY <1>0, <2>1
  <2>4. \A u \in Transfers : Undisturbed(u)' => Undisturbed(u)
    BY <2>1, <2>3 DEF Undisturbed
  <2>5. \A u \in Transfers : \A k : Waits(u, k)' <=> Waits(u, k)
    BY <2>1 DEF Waits
  <2>6. \A u \in Transfers : settlement'[u].status = "submitted" => settlement'[u].step \in Kinds
    BY <2>1 DEF Columns
  <2>. QED BY <2>1, <2>2, <2>3, <2>4, <2>5, <2>6, ColumnsFrame
<1>8. ASSUME NEW p \in Procs, Abort(p) PROVE Columns'
  <2>1. Moves(p) /\ UNCHANGED <<attempts, settlement, retries>> /\ pc'[p] = "rest" /\ aborts' = aborts + 1
    BY <1>0, <1>8, AbortType DEF Abort, Throw, Goto, Inv, dbVars
  <2>2. aborts' # 0
    BY <1>0, <2>1
  <2>3. pc'[Worker] = "rest" \/ (pc'[Worker] = pc[Worker] /\ job'[Worker] = job[Worker])
    BY <1>0, <2>1 DEF Moves
  <2>4. NumberFree'
    <3>1. CASE pc'[Worker] = "rest"
      BY <3>1 DEF NumberFree
    <3>2. CASE pc'[Worker] = pc[Worker] /\ job'[Worker] = job[Worker]
      <4>1. Taken(Worker)' => Taken(Worker)
        BY <2>1, <3>2 DEF Taken, Numbers
      <4>. QED BY <2>1, <2>2, <3>2, <4>1 DEF Columns, NumberFree, Undisturbed
    <3>. QED BY <2>3, <3>1, <3>2
  <2>. QED BY <2>1, <2>2, <2>4 DEF Columns, ColumnOfWorker, Undisturbed
<1>. QED BY <1>1, <1>2, <1>3, <1>4, <1>5, <1>6, <1>7, <1>8, ColumnsReceipt DEF Next, WorkerStep, WorkerLoop, Procs

(* While nothing crashed and the owner did not step in, a transfer nobody     *)
(* works on waits for a receipt exactly when its column says so: no receipt   *)
(* is waited for that was already consumed, and none is forgotten.           *)
THEOREM SettlementReflectsAttemptsHolds == Spec => []SettlementReflectsAttempts
<1>1. Inv /\ Columns => SettlementReflectsAttempts
  <2>. SUFFICES ASSUME Columns, NEW t \in Transfers, Undisturbed(t), job[Worker].transfer # t
                PROVE  \A k \in Kinds : settlement[t] = [status |-> "submitted", step |-> k] <=>
                         \E a \in attempts : a.kind = k /\ a.transfer = t /\ a.status = "submitted"
    BY DEF SettlementReflectsAttempts, Undisturbed
  <2>. QED BY DEF Columns, Agree, Waits
<1>2. Init => Columns
  BY ColumnsInit
<1>3. Inv /\ Stations /\ Alone /\ Columns /\ [Next]_vars => Columns'
  BY ColumnsNext
<1>. QED BY <1>1, <1>2, <1>3, InvHolds, AloneHolds, PTL DEF Spec
===============================================================================
