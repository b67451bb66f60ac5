----------------------------- MODULE DashboardProofs -----------------------------
(***************************************************************************)
(* Theorems about Wallets and Dashboard.                                   *)
(*                                                                         *)
(* RowsTellTheChain and AnswersAreTrue are not inductive: what the catch   *)
(* block writes is right or wrong according to what went before it.  IInv  *)
(* adds what each call knows at each of its places (CallOK) and that the   *)
(* worker's list holds rows with a hash.  A step of the dashboard is a     *)
(* step of Wallets or leaves its variables alone, so what holds of Wallets *)
(* holds with any browser in front of it.                                  *)
(***************************************************************************)
EXTENDS Dashboard, FiniteSetTheorems, TLAPS

USE DEF Listed, Sent, HasHash, NoRow, NoTx

(* A call before its end: nothing is sent or recorded before it is due, and *)
(* in the catch block what is on its way is known to be cut                 *)
PlaceOK(c) ==
  /\ pc[c] \in {"rest", "send"} => row[c] = NoRow /\ chain[c] = NoTx
  /\ pc[c] = "record" => row[c] = NoRow /\ Sent(c)
  /\ pc[c] = "catch" => /\ row[c] = NoRow \/ HasHash(c)
                        /\ Sent(c) => c \in cut
  /\ pc[c] # "done" => answer[c] = "none"

(* Whose transaction and row they are, and what the server answered *)
RecordOK(c) ==
  /\ Sent(c) => chain[c].from = source[c]
  /\ HasHash(c) => row[c].status # "none"
  /\ row[c].status \in {"submitted", "confirmed"} => HasHash(c)
  /\ row[c].status = "none" => row[c] = NoRow
  /\ RowIsTrue(c)

AnswerOK(c) ==
  /\ answer[c] = "submitted" => HasHash(c) /\ Sent(c)
  /\ answer[c] = "failed" => row[c] # NoRow /\ ~ HasHash(c)
  /\ pc[c] = "done" /\ c \notin cut => (Sent(c) <=> HasHash(c))

CallOK(c) == PlaceOK(c) /\ RecordOK(c) /\ AnswerOK(c)

IInv ==
  /\ TypeOK
  /\ \A c \in Calls : CallOK(c)
  /\ \A c \in todo : HasHash(c)

(* A new row's createdAt is a number *)
LEMMA NowIsNat == Now \in Nat
<1>1. IsFiniteSet(Listed)
  BY WalletsAssumption, FS_Subset, Listed \subseteq Calls
<1>. QED
  BY <1>1, FS_CardinalityType DEF Now

(* A bounded failure leaves the count in its bounds *)
LEMMA FailType == ASSUME TypeOK, NEW k, Fail(k) PROVE faults' \in 0 .. MaxFaults
BY WalletsAssumption DEF TypeOK, Fail

(* A row that is inserted or updated is a row *)
LEMMA InsertType ==
  ASSUME TypeOK, NEW c \in Calls, NEW status \in RowStatus, NEW hash \in {"null", "hash"},
         Insert(c, status, hash)
  PROVE  row' \in [Calls -> Rows]
<1>1. [status |-> status, hash |-> hash, from |-> source[c], at |-> Now] \in Rows
  BY NowIsNat DEF TypeOK, Rows
<1>. QED
  BY <1>1 DEF TypeOK, Insert

LEMMA InitInv == Init => IInv
BY WalletsAssumption DEF Init, IInv, TypeOK, Keys, Rows, RowStatus, Txs, TxStates, Answers, CallOK, PlaceOK,
   RecordOK, AnswerOK, RowIsTrue

LEMMA SendInv ==
  ASSUME IInv, NEW c \in Calls, Send(c)
  PROVE  IInv'
<1>1. TypeOK'
  <2>1. [state |-> "pending", from |-> source[c]] \in Txs
    BY DEF IInv, TypeOK, Txs, TxStates
  <2>2. chain' \in [Calls -> Txs]
    BY <2>1 DEF IInv, TypeOK, Send, Signer
  <2>3. faults' \in 0 .. MaxFaults
    BY FailType DEF IInv, TypeOK, Send
  <2>. QED
    BY <2>2, <2>3 DEF IInv, TypeOK, Send, Goto
<1>2. \A d \in Calls : CallOK(d)'
  BY DEF IInv, TypeOK, Rows, Txs, Send, Fail, Goto, Signer, CallOK, PlaceOK, RecordOK, AnswerOK, RowIsTrue
<1>3. \A d \in todo' : HasHash(d)'
  BY DEF IInv, Send
<1>. QED
  BY <1>1, <1>2, <1>3 DEF IInv

LEMMA RecordInv ==
  ASSUME IInv, NEW c \in Calls, Record(c)
  PROVE  IInv'
<1>1. TypeOK'
  <2>1. row' \in [Calls -> Rows]
    BY InsertType DEF IInv, TypeOK, Record, RowStatus
  <2>2. faults' \in 0 .. MaxFaults
    BY FailType DEF IInv, TypeOK, Record
  <2>. QED
    BY <2>1, <2>2 DEF IInv, TypeOK, Record, Answer, Goto, Answers
<1>2. \A d \in Calls : CallOK(d)'
  BY NowIsNat DEF IInv, TypeOK, Rows, Txs, Record, Insert, Answer, Fail, Goto, CallOK, PlaceOK, RecordOK, AnswerOK,
     RowIsTrue, TxStates
<1>3. \A d \in todo' : HasHash(d)'
  BY DEF IInv, TypeOK, Record, Insert
<1>. QED
  BY <1>1, <1>2, <1>3 DEF IInv

LEMMA RecordFailureInv ==
  ASSUME IInv, NEW c \in Calls, RecordFailure(c)
  PROVE  IInv'
<1>1. TypeOK'
  <2>1. row' \in [Calls -> Rows]
    BY InsertType DEF IInv, TypeOK, RecordFailure, RowStatus
  <2>2. faults' \in 0 .. MaxFaults
    BY FailType DEF IInv, TypeOK, RecordFailure
  <2>. QED
    BY <2>1, <2>2 DEF IInv, TypeOK, RecordFailure, Answer, Goto, Answers
<1>2. \A d \in Calls : CallOK(d)'
  BY NowIsNat DEF IInv, TypeOK, Rows, Txs, RecordFailure, Insert, Answer, Fail, Goto, CallOK, PlaceOK, RecordOK,
     AnswerOK, RowIsTrue, TxStates
<1>3. \A d \in todo' : HasHash(d)'
  BY DEF IInv, TypeOK, RecordFailure, Insert, CallOK, PlaceOK
<1>. QED
  BY <1>1, <1>2, <1>3 DEF IInv

LEMMA CrashInv == ASSUME IInv, Crash PROVE IInv'
<1>1. TypeOK'
  BY WalletsAssumption DEF IInv, TypeOK, Crash, Fail, Answers
<1>2. \A d \in Calls : CallOK(d)'
  BY DEF IInv, TypeOK, Rows, Txs, Crash, Fail, CallOK, PlaceOK, RecordOK, AnswerOK, RowIsTrue
<1>3. \A d \in todo' : HasHash(d)'
  BY DEF IInv, Crash
<1>. QED
  BY <1>1, <1>2, <1>3 DEF IInv

LEMMA MineInv ==
  ASSUME IInv, NEW c \in Calls, Mine(c)
  PROVE  IInv'
<1>1. TypeOK'
  BY DEF IInv, TypeOK, Mine, Txs, TxStates
<1>2. \A d \in Calls : CallOK(d)'
  BY DEF IInv, TypeOK, Rows, Txs, Mine, CallOK, PlaceOK, RecordOK, AnswerOK, RowIsTrue
<1>3. \A d \in todo' : HasHash(d)'
  BY DEF IInv, Mine
<1>. QED
  BY <1>1, <1>2, <1>3 DEF IInv

LEMMA ConfirmInv ==
  ASSUME IInv, NEW c \in Calls, Confirm(c)
  PROVE  IInv'
<1>0. HasHash(c) /\ CallOK(c) /\ chain[c].state \in TxStates
  BY DEF IInv, TypeOK, Txs, Confirm
<1>1. TypeOK'
  <2>1. [row[c] EXCEPT !.status = ReceiptStatus(c)] \in Rows
    BY DEF IInv, TypeOK, Rows, ReceiptStatus, RowStatus
  <2>. QED
    BY <2>1 DEF IInv, TypeOK, Confirm, RestOfList
<1>2. \A d \in Calls : CallOK(d)'
  BY <1>0 DEF IInv, TypeOK, Rows, Txs, Confirm, ReceiptStatus, CallOK, PlaceOK, RecordOK, AnswerOK, RowIsTrue, TxStates
<1>3. \A d \in todo' : HasHash(d)'
  BY DEF IInv, TypeOK, Confirm, RestOfList
<1>. QED
  BY <1>1, <1>2, <1>3 DEF IInv

LEMMA ListInv == ASSUME IInv, List PROVE IInv'
<1>1. todo' \subseteq Submitted /\ Submitted \subseteq Calls
  BY DEF List, Submitted
<1>2. TypeOK'
  BY <1>1 DEF IInv, TypeOK, List
<1>3. \A d \in todo' : HasHash(d)'
  BY <1>1 DEF IInv, CallOK, RecordOK, List, Submitted
<1>. QED
  BY <1>2, <1>3 DEF IInv, List, CallOK, PlaceOK, RecordOK, AnswerOK, RowIsTrue

(* The other steps change neither rows nor transactions nor answers *)
LEMMA OtherInv ==
  ASSUME IInv, GenerateGasWallet \/ AbortTick \/ (\E c \in Calls : ReadSource(c))
  PROVE  IInv'
<1>1. TypeOK'
  BY WalletsAssumption DEF IInv, TypeOK, GenerateGasWallet, AbortTick, ReadSource, Fail, Goto, Keys
<1>2. \A d \in Calls : CallOK(d)'
  <2>1. CASE GenerateGasWallet \/ AbortTick
    BY <2>1 DEF IInv, GenerateGasWallet, AbortTick, CallOK, PlaceOK, RecordOK, AnswerOK, RowIsTrue
  <2>2. CASE \E c \in Calls : ReadSource(c)
    BY <2>2 DEF IInv, TypeOK, ReadSource, Goto, CallOK, PlaceOK, RecordOK, AnswerOK, RowIsTrue
  <2>. QED
    BY <2>1, <2>2
<1>3. \A d \in todo' : HasHash(d)'
  BY DEF IInv, GenerateGasWallet, AbortTick, ReadSource
<1>. QED
  BY <1>1, <1>2, <1>3 DEF IInv

LEMMA NextInv == IInv /\ [Next]_walletVars => IInv'
<1> SUFFICES ASSUME IInv, [Next]_walletVars PROVE IInv'
  OBVIOUS
<1>1. CASE UNCHANGED walletVars
  BY <1>1 DEF walletVars, IInv, TypeOK, CallOK, PlaceOK, RecordOK, AnswerOK, RowIsTrue
<1>2. CASE Next
  BY <1>2, SendInv, RecordInv, RecordFailureInv, CrashInv, MineInv, ConfirmInv, ListInv, OtherInv
     DEF Next, Progress, Handler, Worker
<1>. QED
  BY <1>1, <1>2

LEMMA WalletsInv == Spec => []IInv
BY InitInv, NextInv, PTL DEF Spec

(* The dashboard in front of the server: every step is one of Wallets or     *)
(* leaves server, database and chain alone (generateGasWallet,               *)
(* createWalletTransaction and confirmWalletTransactions are all that        *)
(* change them).                                                             *)
THEOREM ImplementsWallets == DashboardSpec => Spec
<1>1. Init /\ BrowserInit => Init
  OBVIOUS
<1>2. [DashboardNext]_vars => [Next]_walletVars
  <2> SUFFICES ASSUME [DashboardNext]_vars PROVE [Next]_walletVars
    OBVIOUS
  <2>1. CASE UNCHANGED vars
    BY <2>1 DEF vars
  <2>2. CASE Browser
    BY <2>2 DEF Browser, Login, Logout, Expire, Reload, PressRefresh, ServeRefresh, ReceiveData,
       ReceiveError, ReceiveSuccess, ReceiveFailure
  <2>3. CASE \E c \in Calls : Submit(c)
    BY <2>3 DEF Submit, Next
  <2>4. CASE Crash \/ (\E c \in Calls : Handler(c))
    BY <2>4 DEF Next, Progress
  <2>5. CASE Worker \/ AbortTick \/ GenerateGasWallet \/ (\E c \in Calls : ReadSource(c) \/ Mine(c))
    BY <2>5 DEF Next, Progress
  <2>. QED
    BY <2>1, <2>2, <2>3, <2>4, <2>5 DEF DashboardNext
<1>. QED
  BY <1>1, <1>2, PTL DEF DashboardSpec, DashboardInit, Spec

(* Every column, local variable and answer keeps its type (Wallets). *)
THEOREM TypeCorrect == Spec => []TypeOK
<1>1. IInv => TypeOK
  BY DEF IInv
<1>. QED
  BY <1>1, WalletsInv, PTL

(* Rows with a hash name the address that sent and tell the outcome of their *)
(* transaction (createWalletTransaction, updateWalletTransactionStatus), for *)
(* any calls, faults, wallets and browser.                                   *)
THEOREM RowsTellTheChainHolds == DashboardSpec => []RowsTellTheChain
<1>1. IInv => RowsTellTheChain
  BY DEF IInv, CallOK, RecordOK, RowsTellTheChain
<1>. QED
  BY <1>1, WalletsInv, ImplementsWallets, PTL

(* What createWalletTransaction answers is so, and no transaction is on its  *)
(* way without its row, unless an error came after the send.                 *)
THEOREM AnswersAreTrueHolds == DashboardSpec => []AnswersAreTrue
<1>1. IInv => AnswersAreTrue
  BY DEF IInv, CallOK, AnswerOK, AnswersAreTrue
<1>. QED
  BY <1>1, WalletsInv, ImplementsWallets, PTL

-------------------------------------------------------------------------------
(***************************************************************************)
(* The browser tab.                                                        *)
(*                                                                         *)
(* SessionIsKept: without a login in between (crossed), whatever is in     *)
(* flight carries the session in force (SessionInv).                       *)
(*                                                                         *)
(* ScreenShowsSubmitted: a refresh that runs alone was sent after the      *)
(* refreshes of the mutations that are over, hence after their rows were   *)
(* there (ScreenInv).                                                      *)
(***************************************************************************)
RefreshStates == {"none", "sent", "ok", "unauthorized"}
ClickStates == {"none", "waiting", "refreshing", "over"}
Screens == [loaded: BOOLEAN, calls: SUBSET Calls]
Refreshes == [state: RefreshStates, session: Nat, data: Screens, alone: BOOLEAN]

BrowserType ==
  /\ issued \in Nat /\ expired \in Nat /\ session \in Nat
  /\ data \in Screens
  /\ refresh \in [Slots -> Refreshes]
  /\ click \in [Calls -> [state: ClickStates, session: Nat]]
  /\ told \in [Calls -> {"nothing", "submitted", "failed", "error"}]

LEMMA BrowserTypeInit == BrowserInit => BrowserType
BY DEF BrowserInit, BrowserType, NoData, NoRefresh, NoClick, Screens, Refreshes, RefreshStates, ClickStates

(* A refresh that another one is sent beside *)
LEMMA BesideOK ==
  ASSUME NEW r \in Refreshes
  PROVE  /\ [r EXCEPT !.alone = FALSE] \in Refreshes
         /\ [r EXCEPT !.alone = FALSE].state = r.state
         /\ [r EXCEPT !.alone = FALSE].session = r.session
         /\ [r EXCEPT !.alone = FALSE].data = r.data
         /\ [r EXCEPT !.alone = FALSE].alone = FALSE
<1>1. [r EXCEPT !.alone = FALSE] \in Refreshes
  BY Zenon DEF Refreshes
<1>. QED
  BY <1>1 DEF Refreshes

(* The server's answer to a refresh *)
LEMMA ServedOK ==
  ASSUME NEW r \in Refreshes, NEW L \in SUBSET Calls
  PROVE  /\ [r EXCEPT !.state = "ok", !.data = [loaded |-> TRUE, calls |-> L]] \in Refreshes
         /\ [r EXCEPT !.state = "unauthorized"] \in Refreshes
<1>1. [loaded |-> TRUE, calls |-> L] \in Screens
  BY Zenon DEF Screens
<1>. QED
  BY <1>1, Zenon DEF Refreshes, RefreshStates

(* A refresh that is sent keeps the types *)
LEMMA SendingType ==
  ASSUME BrowserType, NEW s \in Slots, NEW n \in Nat, Sending(s, n)
  PROVE  refresh' \in [Slots -> Refreshes]
<1>1. [NoRefresh EXCEPT !.state = "sent", !.session = n, !.alone = (InFlight = {})]
        \in Refreshes
  BY DEF NoRefresh, NoData, Screens, Refreshes, RefreshStates
<1>2. \A r \in Slots : [refresh[r] EXCEPT !.alone = FALSE]
        \in Refreshes
  BY BesideOK DEF BrowserType
<1>. QED
  BY <1>1, <1>2 DEF Sending

(* The end of a refresh keeps the types *)
LEMMA EndsType ==
  ASSUME BrowserType, NEW s \in Slots, Ends(s)
  PROVE  /\ refresh' \in [Slots -> Refreshes]
         /\ click' \in [Calls -> [state: ClickStates, session: Nat]]
<1>1. NoRefresh \in Refreshes
  BY DEF NoRefresh, NoData, Screens, Refreshes, RefreshStates
<1>2. \A c \in Calls : [click[c] EXCEPT !.state = "over"] \in [state: ClickStates, session: Nat]
  BY DEF BrowserType, ClickStates
<1>. QED
  BY <1>1, <1>2 DEF Ends, BrowserType

LEMMA BrowserTypeNext == ASSUME BrowserType, [DashboardNext]_vars PROVE BrowserType'
<1>1. CASE UNCHANGED browserVars
  BY <1>1 DEF browserVars, BrowserType
<1>2. ASSUME NEW s \in Pages, Login(s) PROVE BrowserType'
  BY <1>2, SendingType, issued + 1 \in Nat DEF Login, BrowserType, Slots
<1>3. CASE Logout
  BY <1>3 DEF Logout, BrowserType, NoData, Screens
<1>4. CASE Expire
  BY <1>4 DEF Expire, BrowserType
<1>5. ASSUME NEW s \in Pages, Reload(s) PROVE BrowserType'
  <2>1. /\ NoRefresh \in Refreshes
        /\ [NoRefresh EXCEPT !.state = "sent", !.session = session, !.alone = TRUE]
             \in Refreshes
    BY DEF BrowserType, NoRefresh, NoData, Screens, Refreshes, RefreshStates
  <2>2. \A c \in Calls : [click[c] EXCEPT !.state = "over"] \in [state: ClickStates, session: Nat]
    BY DEF BrowserType, ClickStates
  <2>. QED
    BY <1>5, <2>1, <2>2 DEF Reload, BrowserType, NoData, Screens, NoClick, ClickStates
<1>6. ASSUME NEW s \in Pages, PressRefresh(s) PROVE BrowserType'
  BY <1>6, SendingType DEF PressRefresh, BrowserType, Slots
<1>7. ASSUME NEW s \in Slots, ServeRefresh(s) PROVE BrowserType'
  <2>1. refresh[s] \in Refreshes
    BY DEF BrowserType
  <2>2. Listed \in SUBSET Calls
    BY DEF Listed
  <2>3. [refresh EXCEPT ![s] =
          IF Valid(@.session)
          THEN [@ EXCEPT !.state = "ok", !.data = [loaded |-> TRUE, calls |-> Listed]]
          ELSE [@ EXCEPT !.state = "unauthorized"]] \in [Slots -> Refreshes]
    BY <2>1, <2>2, ServedOK DEF BrowserType
  <2>. QED
    BY <1>7, <2>3 DEF ServeRefresh, BrowserType
<1>8. ASSUME NEW s \in Slots, ReceiveData(s) \/ ReceiveError(s) PROVE BrowserType'
  BY <1>8, EndsType DEF ReceiveData, ReceiveError, BrowserType, Refreshes
<1>9. ASSUME NEW c \in Calls, ReceiveSuccess(c) PROVE BrowserType'
  <2>1. refresh' \in [Slots -> Refreshes]
    BY <1>9, SendingType DEF ReceiveSuccess, AfterSuccess, BrowserType, Slots
  <2>. QED
    BY <1>9, <2>1 DEF ReceiveSuccess, AfterSuccess, BrowserType, ClickStates
<1>10. ASSUME NEW c \in Calls, ReceiveFailure(c) PROVE BrowserType'
  BY <1>10 DEF ReceiveFailure, BrowserType, ClickStates
<1>11. ASSUME NEW c \in Calls, Submit(c) PROVE BrowserType'
  BY <1>11 DEF Submit, BrowserType, ClickStates
<1>. QED
  BY <1>1, <1>2, <1>3, <1>4, <1>5, <1>6, <1>7, <1>8, <1>9, <1>10, <1>11
     DEF DashboardNext, Browser, vars, browserVars

-------------------------------------------------------------------------------
(***************************************************************************)
(* The session.                                                            *)
(***************************************************************************)

(* What is in flight carries the session in force, and a refused session has *)
(* expired                                                                   *)
SessionInv ==
  /\ session <= issued
  /\ \A s \in Slots :
       /\ refresh[s].session <= issued
       /\ refresh[s].state = "unauthorized" => refresh[s].session <= expired
       /\ session # 0 /\ ~ crossed /\ refresh[s].state # "none" => refresh[s].session = session
  /\ \A c \in Calls :
       /\ click[c].session <= issued
       /\ session # 0 /\ ~ crossed /\ click[c].state = "waiting" => click[c].session = session

(* A refresh that is sent keeps SessionInv when its session is in force *)
LEMMA SendingSession ==
  ASSUME BrowserType, SessionInv, NEW s \in Slots, NEW n \in Nat, n <= issued, Sending(s, n),
         UNCHANGED <<session, issued, expired, crossed>>,
         session # 0 /\ ~ crossed => n = session
  PROVE  \A r \in Slots :
           /\ refresh'[r].session <= issued'
           /\ refresh'[r].state = "unauthorized" => refresh'[r].session <= expired'
           /\ session' # 0 /\ ~ crossed' /\ refresh'[r].state # "none" => refresh'[r].session = session'
<1> SUFFICES ASSUME NEW r \in Slots
             PROVE  /\ refresh'[r].session <= issued
                    /\ refresh'[r].state = "unauthorized" => refresh'[r].session <= expired
                    /\ session # 0 /\ ~ crossed /\ refresh'[r].state # "none" => refresh'[r].session = session
  OBVIOUS
<1>1. CASE r = s
  BY <1>1 DEF Sending, NoRefresh
<1>2. CASE r # s
  <2>1. refresh'[r] = [refresh[r] EXCEPT !.alone = FALSE]
    BY <1>2 DEF Sending
  <2>2. refresh'[r].session = refresh[r].session /\ refresh'[r].state = refresh[r].state
    BY <2>1, BesideOK DEF BrowserType
  <2>. QED
    BY <2>2 DEF SessionInv
<1>. QED
  BY <1>1, <1>2

LEMMA SessionInit == BrowserInit => SessionInv
BY DEF BrowserInit, SessionInv, NoRefresh, NoClick

LEMMA SessionNext == ASSUME BrowserType, SessionInv, [DashboardNext]_vars PROVE SessionInv'
<1>1. CASE UNCHANGED browserVars
  BY <1>1 DEF browserVars, SessionInv
<1>2. ASSUME NEW s \in Pages, Login(s) PROVE SessionInv'
  <2>1. s \in Slots
    BY DEF Slots
  <2>2. \A r \in Slots :
          /\ refresh'[r].session <= issued'
          /\ refresh'[r].state = "unauthorized" => refresh'[r].session <= expired'
          /\ ~ crossed' /\ refresh'[r].state # "none" => refresh'[r].session = session'
    <3> SUFFICES ASSUME NEW r \in Slots
                 PROVE  /\ refresh'[r].session <= issued + 1
                        /\ refresh'[r].state = "unauthorized" => refresh'[r].session <= expired
                        /\ ~ crossed' /\ refresh'[r].state # "none" => refresh'[r].session = issued + 1
      BY <1>2 DEF Login
    <3>1. CASE r = s
      <4>1. refresh'[r] = [NoRefresh EXCEPT !.state = "sent", !.session = issued + 1, !.alone = (InFlight = {})]
        BY <1>2, <3>1 DEF Login, Sending
      <4>2. refresh'[r].session = issued + 1 /\ refresh'[r].state = "sent"
        BY <4>1 DEF NoRefresh
      <4>. QED
        BY <4>2 DEF BrowserType
    <3>2. CASE r # s
      <4>1. refresh'[r] = [refresh[r] EXCEPT !.alone = FALSE]
        BY <1>2, <3>2 DEF Login, Sending
      <4>2. refresh'[r].session = refresh[r].session /\ refresh'[r].state = refresh[r].state
        BY <4>1, BesideOK DEF BrowserType, Refreshes
      <4>3. ~ crossed' => refresh[r].state = "none"
        BY <1>2 DEF Login, InFlight
      <4>4. refresh[r].session \in Nat
        BY DEF BrowserType, Refreshes
      <4>. QED
        BY <4>2, <4>3, <4>4 DEF SessionInv, BrowserType, Refreshes
    <3>. QED
      BY <3>1, <3>2
  <2>3. \A c \in Calls : click'[c].session <= issued' /\ (~ crossed' => click'[c].state # "waiting")
    <3>1. \A c \in Calls : click[c].session \in Nat /\ click[c].session <= issued
      BY DEF SessionInv, BrowserType
    <3>2. click' = click /\ issued' = issued + 1 /\ (~ crossed' => Waiting = {})
      BY <1>2 DEF Login
    <3>3. \A c \in Calls : ~ crossed' => click[c].state # "waiting"
      BY <3>2 DEF Waiting
    <3>. QED
      BY <3>1, <3>2, <3>3 DEF BrowserType
  <2>. QED
    BY <1>2, <2>2, <2>3 DEF Login, SessionInv, BrowserType, Refreshes
<1>3. CASE Logout
  BY <1>3 DEF Logout, SessionInv, BrowserType
<1>4. CASE Expire
  BY <1>4 DEF Expire, SessionInv, BrowserType, Refreshes
<1>5. ASSUME NEW s \in Pages, Reload(s) PROVE SessionInv'
  BY <1>5 DEF Reload, SessionInv, BrowserType, Refreshes, NoRefresh, NoClick
<1>6. ASSUME NEW s \in Pages, PressRefresh(s) PROVE SessionInv'
  BY <1>6, SendingSession DEF PressRefresh, SessionInv, BrowserType, Refreshes, Slots
<1>7. ASSUME NEW s \in Slots, ServeRefresh(s) PROVE SessionInv'
  <2>1. refresh[s].session <= issued /\ refresh[s].session \in Nat
    BY DEF SessionInv, BrowserType, Refreshes
  <2>2. ~ Valid(refresh[s].session) => refresh[s].session <= expired
    BY <2>1 DEF Valid, BrowserType
  <2>. QED
    BY <1>7, <2>2 DEF ServeRefresh, SessionInv, BrowserType, Refreshes
<1>8. ASSUME NEW s \in Slots, ReceiveData(s) \/ ReceiveError(s) PROVE SessionInv'
  <2>1. /\ UNCHANGED <<issued, expired, crossed>>
        /\ session' \in {0, session}
        /\ Ends(s)
    BY <1>8 DEF ReceiveData, ReceiveError
  <2>2. \A c \in Calls : click'[c].session = click[c].session /\ click'[c].state \in {click[c].state, "over"}
    BY <2>1 DEF Ends, BrowserType
  <2>3. \A r \in Slots : refresh'[r] \in {refresh[r], NoRefresh}
    BY <2>1 DEF Ends, BrowserType
  <2>. QED
    BY <2>1, <2>2, <2>3 DEF SessionInv, BrowserType, NoRefresh
<1>9. ASSUME NEW c \in Calls, ReceiveSuccess(c) PROVE SessionInv'
  <2>1. click[c].session \in Nat /\ c \in Slots
    BY DEF BrowserType, Slots
  <2>2. UNCHANGED <<session, issued, expired, crossed>> /\ Sending(c, click[c].session)
        /\ click' = [click EXCEPT ![c].state = "refreshing"]
    BY <1>9 DEF ReceiveSuccess, AfterSuccess
  <2>3. click[c].session <= issued /\ (session # 0 /\ ~ crossed => click[c].session = session)
    BY <1>9 DEF ReceiveSuccess, SessionInv
  <2>. QED
    BY <2>1, <2>2, <2>3, SendingSession DEF SessionInv, BrowserType
<1>10. ASSUME NEW c \in Calls, ReceiveFailure(c) PROVE SessionInv'
  BY <1>10 DEF ReceiveFailure, SessionInv, BrowserType
<1>11. ASSUME NEW c \in Calls, Submit(c) PROVE SessionInv'
  BY <1>11 DEF Submit, SessionInv, BrowserType
<1>. QED
  BY <1>1, <1>2, <1>3, <1>4, <1>5, <1>6, <1>7, <1>8, <1>9, <1>10, <1>11
     DEF DashboardNext, Browser, vars, browserVars

(* isUnauthorized and logout: the owner's session ends when it has expired,  *)
(* by logout, or by a refused refresh from before the login.                 *)
THEOREM SessionIsKeptHolds == DashboardSpec => SessionIsKept
<1>1. Init /\ BrowserInit => BrowserType /\ SessionInv
  BY BrowserTypeInit, SessionInit
<1>2. BrowserType /\ SessionInv /\ [DashboardNext]_vars => (BrowserType /\ SessionInv)'
  BY BrowserTypeNext, SessionNext
<1>3. BrowserType /\ SessionInv /\ [DashboardNext]_vars
        => [session # 0 /\ session' = 0 => session <= expired \/ crossed \/ Logout]_vars
  <2> SUFFICES ASSUME BrowserType, SessionInv, DashboardNext, session # 0, session' = 0
               PROVE  session <= expired \/ crossed \/ Logout
    OBVIOUS
  <2>1. CASE UNCHANGED browserVars \/ Expire
    BY <2>1 DEF browserVars, Expire
  <2>2. ASSUME NEW s \in Slots, ReceiveError(s) PROVE session <= expired \/ crossed
    BY <2>2 DEF ReceiveError, EndsSession, SessionInv
  <2>3. ASSUME NEW s \in Slots,
               \/ Login(s) \/ Reload(s) \/ PressRefresh(s)
               \/ ServeRefresh(s) \/ ReceiveData(s)
        PROVE  FALSE
    BY <2>3 DEF Login, Reload, PressRefresh, ServeRefresh, ReceiveData, BrowserType
  <2>4. ASSUME NEW c \in Calls, ReceiveSuccess(c) \/ ReceiveFailure(c) \/ Submit(c)
        PROVE  FALSE
    BY <2>4 DEF ReceiveSuccess, ReceiveFailure, Submit
  <2>. QED
    BY <2>1, <2>2, <2>3, <2>4 DEF DashboardNext, Browser, Slots
<1>. QED
  BY <1>1, <1>2, <1>3, PTL DEF DashboardSpec, DashboardInit, SessionIsKept

-------------------------------------------------------------------------------
(***************************************************************************)
(* The screen.                                                             *)
(***************************************************************************)

(* No step takes a row out of the list *)
LEMMA ListedGrows == ASSUME IInv, [Next]_walletVars PROVE Listed \subseteq Listed'
<1>1. CASE UNCHANGED row
  BY <1>1 DEF Listed
<1>2. ASSUME NEW c \in Calls, NEW status \in {"submitted", "failed"}, NEW hash,
             Insert(c, status, hash)
      PROVE  Listed \subseteq Listed'
  BY <1>2 DEF IInv, TypeOK, Insert, Listed, NoRow
<1>3. ASSUME NEW c \in Calls, Confirm(c) PROVE Listed \subseteq Listed'
  <2>1. CASE row' = [row EXCEPT ![c].status = ReceiptStatus(c)]
    <3>1. row'[c].status \in {"confirmed", "failed"}
      BY <2>1 DEF IInv, TypeOK, Rows, ReceiptStatus
    <3>. QED
      BY <2>1, <3>1 DEF IInv, TypeOK, Listed, NoRow
  <2>. QED
    BY <1>1, <1>3, <2>1 DEF Confirm
<1>4. ASSUME NEW c \in Calls, Record(c) \/ RecordFailure(c) PROVE Listed \subseteq Listed'
  BY <1>1, <1>2, <1>4 DEF Record, RecordFailure
<1>5. UNCHANGED row \/ (\E c \in Calls : Confirm(c) \/ Record(c) \/ RecordFailure(c))
  BY DEF Next, Progress, Handler, Worker, walletVars, Send, Crash, Mine, List, AbortTick,
     GenerateGasWallet, ReadSource
<1>. QED
  BY <1>1, <1>3, <1>4, <1>5

ScreenInv ==
  /\ \A c \in Calls : told[c] = "submitted" =>
       c \in Listed /\ click[c].state \in {"refreshing", "over"}
  /\ \A c \in Calls, s \in Slots :
       told[c] = "submitted" /\ refresh[s].state = "ok" /\ refresh[s].alone
         => c \in refresh[s].data.calls
  /\ ScreenShowsSubmitted

LEMMA ScreenInit == BrowserInit => ScreenInv
BY DEF BrowserInit, ScreenInv, ScreenShowsSubmitted

(* After a refresh is sent no answer that is there counts as alone *)
LEMMA SendingScreen ==
  ASSUME BrowserType, NEW s \in Slots, NEW n \in Nat, Sending(s, n)
  PROVE  \A r \in Slots : ~ (refresh'[r].state = "ok" /\ refresh'[r].alone)
<1> SUFFICES ASSUME NEW r \in Slots PROVE ~ (refresh'[r].state = "ok" /\ refresh'[r].alone)
  OBVIOUS
<1>1. CASE r = s
  <2>1. refresh'[r] = [NoRefresh EXCEPT !.state = "sent", !.session = n, !.alone = (InFlight = {})]
    BY <1>1 DEF Sending
  <2>. QED
    BY <2>1 DEF NoRefresh
<1>2. CASE r # s
  <2>1. refresh'[r] = [refresh[r] EXCEPT !.alone = FALSE]
    BY <1>2 DEF Sending
  <2>2. refresh'[r].alone = FALSE
    BY <2>1, BesideOK DEF BrowserType
  <2>. QED
    BY <2>2
<1>. QED
  BY <1>1, <1>2

(* The end of a refresh leaves the others as they are *)
LEMMA EndsScreen ==
  ASSUME BrowserType, NEW s \in Slots, Ends(s)
  PROVE  /\ \A r \in Slots : refresh'[r].state = "ok" => r # s /\ refresh'[r] = refresh[r]
         /\ \A c \in Calls : c # s => click'[c] = click[c]
         /\ \A c \in Calls : click[c].state = "over" => click'[c].state = "over"
         /\ \A c \in Calls : c = s => click'[c].state = "over"
BY DEF Ends, BrowserType, NoRefresh

LEMMA ScreenNext ==
  ASSUME BrowserType, IInv, ScreenInv, [DashboardNext]_vars, [Next]_walletVars
  PROVE  ScreenInv'
<1>0. Listed \subseteq Listed'
  BY ListedGrows
<1>1. CASE UNCHANGED browserVars
  BY <1>0, <1>1 DEF browserVars, ScreenInv, ScreenShowsSubmitted
<1>2. ASSUME NEW s \in Pages, Login(s) PROVE ScreenInv'
  <2>1. \A r \in Slots : ~ (refresh'[r].state = "ok" /\ refresh'[r].alone)
    BY <1>2, SendingScreen, issued + 1 \in Nat DEF Login, BrowserType, Slots
  <2>. QED
    BY <1>0, <1>2, <2>1 DEF Login, ScreenInv, ScreenShowsSubmitted
<1>3. CASE Logout \/ Expire
  BY <1>0, <1>3 DEF Logout, Expire, ScreenInv, ScreenShowsSubmitted, NoData
<1>4. ASSUME NEW s \in Pages, Reload(s) PROVE ScreenInv'
  <2>1. \A r \in Slots : refresh'[r].state # "ok"
    BY <1>4 DEF Reload, NoRefresh
  <2>2. \A c \in Calls : click[c].state # "none" => click'[c].state = "over"
    BY <1>4 DEF Reload, BrowserType
  <2>3. ~ data'.loaded
    BY <1>4 DEF Reload, NoData
  <2>. QED
    BY <1>0, <1>4, <2>1, <2>2, <2>3 DEF Reload, ScreenInv, ScreenShowsSubmitted
<1>5. ASSUME NEW s \in Pages, PressRefresh(s) PROVE ScreenInv'
  <2>1. \A r \in Slots : ~ (refresh'[r].state = "ok" /\ refresh'[r].alone)
    BY <1>5, SendingScreen DEF PressRefresh, BrowserType, Slots
  <2>. QED
    BY <1>0, <1>5, <2>1 DEF PressRefresh, ScreenInv, ScreenShowsSubmitted
<1>6. ASSUME NEW s \in Slots, ServeRefresh(s) PROVE ScreenInv'
  <2>1. \A r \in Slots : refresh'[r].state = "ok" => refresh'[r] = refresh[r] \/ refresh'[r].data.calls = Listed
    BY <1>6 DEF ServeRefresh, BrowserType, Refreshes
  <2>. QED
    BY <1>0, <1>6, <2>1 DEF ServeRefresh, ScreenInv, ScreenShowsSubmitted
<1>7. ASSUME NEW s \in Slots, ReceiveData(s) PROVE ScreenInv'
  <2>1. /\ refresh[s].state = "ok" /\ data' = refresh[s].data
        /\ doubtful' = ~ refresh[s].alone
        /\ told' = told
        /\ Ends(s)
    BY <1>7 DEF ReceiveData
  <2>2. \A c \in Calls : told[c] = "submitted" =>
          c \in Listed' /\ click'[c].state \in {"refreshing", "over"}
    BY <1>0, <2>1, EndsScreen DEF ScreenInv
  <2>3. \A c \in Calls, r \in Slots :
          told[c] = "submitted" /\ refresh'[r].state = "ok" /\ refresh'[r].alone
            => c \in refresh'[r].data.calls
    BY <2>1, EndsScreen DEF ScreenInv
  <2>4. \A c \in Calls : told[c] = "submitted" /\ ~ doubtful' => c \in data'.calls
    BY <2>1 DEF ScreenInv
  <2>. QED
    BY <2>1, <2>2, <2>3, <2>4 DEF ScreenInv, ScreenShowsSubmitted
<1>8. ASSUME NEW s \in Slots, ReceiveError(s) PROVE ScreenInv'
  <2>1. doubtful' /\ told' = told /\ Ends(s)
    BY <1>8 DEF ReceiveError
  <2>. QED
    BY <1>0, <2>1, EndsScreen DEF ScreenInv, ScreenShowsSubmitted
<1>9. ASSUME NEW c \in Calls, ReceiveSuccess(c) PROVE ScreenInv'
  <2>1. \A r \in Slots : ~ (refresh'[r].state = "ok" /\ refresh'[r].alone)
    BY <1>9, SendingScreen DEF ReceiveSuccess, AfterSuccess, BrowserType, Slots
  <2>2. c \in Listed
    BY <1>9 DEF ReceiveSuccess, IInv, CallOK, AnswerOK, Listed, HasHash, NoRow
  <2>3. click' = [click EXCEPT ![c].state = "refreshing"] /\ told' = [told EXCEPT ![c] = "submitted"]
        /\ UNCHANGED <<data, doubtful>>
    BY <1>9 DEF ReceiveSuccess, AfterSuccess
  <2>. QED
    BY <1>0, <2>1, <2>2, <2>3 DEF ScreenInv, ScreenShowsSubmitted, BrowserType
<1>10. ASSUME NEW c \in Calls, ReceiveFailure(c) PROVE ScreenInv'
  BY <1>0, <1>10 DEF ReceiveFailure, ScreenInv, ScreenShowsSubmitted, BrowserType
<1>11. ASSUME NEW c \in Calls, Submit(c) PROVE ScreenInv'
  BY <1>0, <1>11 DEF Submit, ScreenInv, ScreenShowsSubmitted, BrowserType
<1>. QED
  BY <1>1, <1>2, <1>3, <1>4, <1>5, <1>6, <1>7, <1>8, <1>9, <1>10, <1>11
     DEF DashboardNext, Browser, vars, browserVars

(* refresh and mutate: a transaction the owner was told is submitted is on   *)
(* the screen, for any number of calls, logins, reloads and refreshes.       *)
THEOREM ScreenShowsSubmittedHolds == DashboardSpec => []ScreenShowsSubmitted
<1>1. Init /\ BrowserInit => BrowserType /\ ScreenInv
  BY BrowserTypeInit, ScreenInit
<1>2. BrowserType /\ IInv /\ ScreenInv /\ [DashboardNext]_vars /\ [Next]_walletVars
        => (BrowserType /\ ScreenInv)'
  BY BrowserTypeNext, ScreenNext
<1>3. ScreenInv => ScreenShowsSubmitted
  BY DEF ScreenInv
<1>. QED
  BY <1>1, <1>2, <1>3, WalletsInv, ImplementsWallets, PTL DEF DashboardSpec, DashboardInit, Spec
===============================================================================
