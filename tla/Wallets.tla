-------------------------------- MODULE Wallets --------------------------------
(***************************************************************************)
(* The gas wallet of one network and the transactions its owner sends from *)
(* it: generateGasWallet and createWalletTransaction (dashboard-service.ts)*)
(* and the worker's confirmWalletTransactions (deposit-worker.ts).         *)
(*                                                                         *)
(* A call makes one transaction and one row at most, so transactions and   *)
(* rows are named by the call that made them.  createWalletTransaction     *)
(* draws the row's id once: its second insert, in the catch block, uses    *)
(* the id of the first.                                                    *)
(***************************************************************************)
EXTENDS Naturals, FiniteSets

CONSTANTS Calls,      \* calls of createWalletTransaction
          ListLimit,  \* rows the worker reads per tick (100)
          Faults,     \* what may go wrong, a subset of AllFaults
          MaxFaults,  \* bound: failures, crashes included
          MaxKeys     \* bound: gas wallets generated

AllFaults == {"refused", "lost", "insert", "connection", "crash", "worker"}

ASSUME WalletsAssumption ==
  /\ IsFiniteSet(Calls)
  /\ ListLimit \in Nat \ {0}
  /\ Faults \subseteq AllFaults
  /\ MaxFaults \in Nat /\ MaxKeys \in Nat

VARIABLES
  (* Postgres. *)
  key,      \* the gas wallet's key; each generation overwrites the last
  row,      \* row[c]: the wallet transaction of a call
  (* The chain. *)
  chain,    \* chain[c]: the transaction a call sent
  (* The server and the worker. *)
  pc,       \* where each call is
  source,   \* source[c]: the wallet as the call read it
  answer,   \* answer[c]: what the server answers
  todo,     \* rows the worker has listed and not looked at
  (* History and bounds. *)
  cut,      \* calls that met an error after their transaction went out
  faults

walletVars == <<key, row, chain, pc, source, answer, todo, cut, faults>>

NoRow == [status |-> "none", hash |-> "null", from |-> 0, at |-> 0]
NoTx == [state |-> "none", from |-> 0]
Keys == 1 .. MaxKeys + 1
RowStatus == {"none", "submitted", "confirmed", "failed"}
TxStates == {"none", "pending", "success", "reverted"}
Rows == [status: RowStatus, hash: {"null", "hash"}, from: Keys \union {0}, at: Nat]
Txs == [state: TxStates, from: Keys \union {0}]
Answers == {"none", "submitted", "failed", "error"}

Init ==
  /\ key = 1
  /\ row = [c \in Calls |-> NoRow]
  /\ chain = [c \in Calls |-> NoTx]
  /\ pc = [c \in Calls |-> "rest"]
  /\ source = [c \in Calls |-> 0]
  /\ answer = [c \in Calls |-> "none"]
  /\ todo = {}
  /\ cut = {}
  /\ faults = 0

Goto(c, l) == pc' = [pc EXCEPT ![c] = l]
Sent(c) == chain[c].state # "none"
Listed == {c \in Calls : row[c] # NoRow}
HasHash(c) == row[c].hash = "hash"

(* Something goes wrong, which a run may exclude and bounds *)
Fail(kind) == kind \in Faults /\ faults < MaxFaults /\ faults' = faults + 1

-------------------------------------------------------------------------------
(***************************************************************************)
(* The server.                                                             *)
(***************************************************************************)

(* upsertOperationalWallet finds the scope key: address and key are replaced *)
GenerateGasWallet ==
  /\ key <= MaxKeys
  /\ key' = key + 1
  /\ UNCHANGED <<row, chain, pc, source, answer, todo, cut, faults>>

(* A request arrives: getOperationalWallet *)
ReadSource(c) ==
  /\ pc[c] = "rest"
  /\ source' = [source EXCEPT ![c] = key]
  /\ Goto(c, "send")
  /\ UNCHANGED <<key, row, chain, answer, todo, cut, faults>>

(* Mutant: the key is read again when the transaction is signed. *)
SignerIsCurrent(c) == key

(* The wallet that signs is the one the call read *)
Signer(c) == source[c]

(* sendNativeTransfer or sendTokenTransfer: the transaction goes out, is     *)
(* refused, or goes out and its answer is lost                               *)
Send(c) ==
  /\ pc[c] = "send"
  /\ \/ /\ chain' = [chain EXCEPT ![c] = [state |-> "pending", from |-> Signer(c)]]
        /\ \/ /\ Goto(c, "record")
              /\ UNCHANGED <<cut, faults>>
           \/ /\ Fail("lost")
              /\ Goto(c, "catch")
              /\ cut' = cut \union {c}
     \/ /\ Fail("refused")
        /\ Goto(c, "catch")
        /\ UNCHANGED <<chain, cut>>
  /\ UNCHANGED <<key, row, source, answer, todo>>

(* createdAt: a row is younger than those there are *)
Now == Cardinality(Listed) + 1

(* Mutant: txHash stays null, as in txInput. *)
InsertWithoutHash(c, status, hash) ==
  row' = [row EXCEPT ![c] = [status |-> status, hash |-> "null", from |-> source[c], at |-> Now]]

Insert(c, status, hash) ==
  row' = [row EXCEPT ![c] = [status |-> status, hash |-> hash, from |-> source[c], at |-> Now]]

Answer(c, a) == Goto(c, "done") /\ answer' = [answer EXCEPT ![c] = a]

(* createWalletTransaction inside the try block; when the insert or its      *)
(* answer fails, the catch block takes the error for that of the send        *)
Record(c) ==
  /\ pc[c] = "record"
  /\ \/ /\ Insert(c, "submitted", "hash")
        /\ Answer(c, "submitted")
        /\ UNCHANGED <<cut, faults>>
     \/ /\ Fail("insert")
        /\ Goto(c, "catch") /\ cut' = cut \union {c}
        /\ UNCHANGED <<row, answer>>
     \/ /\ Fail("connection")
        /\ Insert(c, "submitted", "hash")
        /\ Goto(c, "catch") /\ cut' = cut \union {c}
        /\ UNCHANGED answer
  /\ UNCHANGED <<key, chain, source, todo>>

(* The failed row has the id of the other: when that one is in the table     *)
(* after all, the primary key refuses it, and the answer is 500, not 422     *)
RecordFailure(c) ==
  /\ pc[c] = "catch"
  /\ \/ /\ c \notin Listed
        /\ Insert(c, "failed", "null")
        /\ Answer(c, "failed")
        /\ UNCHANGED faults
     \/ /\ \/ c \in Listed /\ UNCHANGED faults
           \/ Fail("insert")
        /\ Answer(c, "error")
        /\ UNCHANGED row
  /\ UNCHANGED <<key, chain, source, todo, cut>>

(* The server stops: every call it was handling ends without an answer *)
Crash ==
  LET running == {c \in Calls : pc[c] \in {"send", "record", "catch"}} IN
  /\ running # {}
  /\ Fail("crash")
  /\ pc' = [c \in Calls |-> IF c \in running THEN "done" ELSE pc[c]]
  /\ answer' = [c \in Calls |-> IF c \in running THEN "error" ELSE answer[c]]
  /\ cut' = cut \union {c \in running : Sent(c)}
  /\ UNCHANGED <<key, row, chain, source, todo>>

-------------------------------------------------------------------------------
(***************************************************************************)
(* The chain and the worker.                                               *)
(***************************************************************************)

(* A transaction is mined; some never are *)
Mine(c) ==
  /\ chain[c].state = "pending"
  /\ \E state \in {"success", "reverted"} : chain' = [chain EXCEPT ![c].state = state]
  /\ UNCHANGED <<key, row, pc, source, answer, todo, cut, faults>>

Submitted == {c \in Calls : row[c].status = "submitted"}
Older(c) == {d \in Submitted : row[d].at < row[c].at}

(* Mutant: the youngest rows, as the other lists are ordered. *)
ListYoungest ==
  /\ todo = {} /\ Submitted # {}
  /\ todo' = {c \in Submitted : Cardinality({d \in Submitted : c \in Older(d)}) < ListLimit}
  /\ UNCHANGED <<key, row, chain, pc, source, answer, cut, faults>>

(* listSubmittedWalletTransactions: the oldest ListLimit rows *)
List ==
  /\ todo = {} /\ Submitted # {}
  /\ todo' = {c \in Submitted : Cardinality(Older(c)) < ListLimit}
  /\ UNCHANGED <<key, row, chain, pc, source, answer, cut, faults>>

ReceiptStatus(c) == IF chain[c].state = "success" THEN "confirmed" ELSE "failed"

RestOfList(c) == todo \ {c}

(* One row, the oldest first: getTransactionReceipt and, when there is one,  *)
(* updateWalletTransactionStatus; a receipt stays what it is, so nothing can *)
(* come between the two                                                      *)
Confirm(c) ==
  /\ c \in todo
  /\ \A d \in todo \ {c} : row[c].at < row[d].at
  /\ IF chain[c].state = "pending"
     THEN UNCHANGED row
     ELSE row' = [row EXCEPT ![c].status = ReceiptStatus(c)]
  /\ todo' = RestOfList(c)
  /\ UNCHANGED <<key, chain, pc, source, answer, cut, faults>>

(* The worker stops, or a chain or database call throws out of the tick *)
AbortTick ==
  /\ todo # {}
  /\ Fail("worker")
  /\ todo' = {}
  /\ UNCHANGED <<key, row, chain, pc, source, answer, cut>>

Worker == List \/ \E c \in Calls : Confirm(c)
Handler(c) == Send(c) \/ Record(c) \/ RecordFailure(c)

(* What goes on whoever sends the requests *)
Progress ==
  \/ \E c \in Calls : Handler(c) \/ Mine(c)
  \/ Crash \/ AbortTick \/ Worker

Next == Progress \/ GenerateGasWallet \/ \E c \in Calls : ReadSource(c)

Spec == Init /\ [][Next]_walletVars
-------------------------------------------------------------------------------
(***************************************************************************)
(* Properties.                                                             *)
(***************************************************************************)

(* Every variable holds a value of its column, local variable or answer. *)
TypeOK ==
  /\ key \in Keys
  /\ row \in [Calls -> Rows]
  /\ chain \in [Calls -> Txs]
  /\ pc \in [Calls -> {"rest", "send", "record", "catch", "done"}]
  /\ source \in [Calls -> Keys \union {0}]
  /\ answer \in [Calls -> Answers]
  /\ todo \subseteq Calls
  /\ cut \subseteq Calls
  /\ faults \in 0 .. MaxFaults

(* A row with a hash tells what the chain tells of its transaction: it was   *)
(* sent by the address the row names, even when the wallet was generated     *)
(* anew while the call ran, and the status the worker wrote, from a list it  *)
(* had read before, is the outcome of that transaction.                      *)
RowIsTrue(c) ==
  HasHash(c) =>
    /\ Sent(c) /\ chain[c].from = row[c].from
    /\ row[c].status = "confirmed" => chain[c].state = "success"
    /\ row[c].status = "failed" => chain[c].state = "reverted"

RowsTellTheChain == \A c \in Calls : RowIsTrue(c)

(* What the owner is told is so: a transaction called submitted is recorded  *)
(* with its hash, and one recorded as failed without a hash did not go out,  *)
(* unless an error came after it went out (cut): the catch block cannot tell *)
(* those from a refused send.  No call leaves money on its way without a row *)
(* otherwise.                                                                *)
AnswersAreTrue ==
  \A c \in Calls :
    /\ answer[c] = "submitted" => HasHash(c) /\ Sent(c)
    /\ answer[c] = "failed" => c \in Listed /\ ~ HasHash(c)
    /\ pc[c] = "done" /\ c \notin cut => (Sent(c) <=> HasHash(c))

(* Every recorded transaction that is mined is resolved, unless ListLimit    *)
(* transactions recorded before it are not mined: those may never be, and    *)
(* fill the list.  Fewer of them hold up nothing, and neither does any row   *)
(* recorded later, although the list leaves rows out.                        *)
Stuck(c) == {d \in Older(c) : chain[d].state = "pending"}
MinedIsResolved ==
  \A c \in Calls :
    /\ row[c].status = "submitted" /\ chain[c].state # "pending"
    /\ Cardinality(Stuck(c)) < ListLimit
    ~> row[c].status # "submitted"
===============================================================================
