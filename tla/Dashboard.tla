------------------------------- MODULE Dashboard -------------------------------
(***************************************************************************)
(* The owner's dashboard in one browser tab (main.tsx) in front of the     *)
(* server of Wallets: the session, the data on the screen, and the form    *)
(* that sends wallet transactions.                                         *)
(*                                                                         *)
(* Requests overlap: the form has no busy state, a refresh runs after      *)
(* login, on the button and after every mutation, and each of them keeps   *)
(* the token of the render it was started in.  A request's answer is       *)
(* computed at the server at some time and arrives later, in any order.    *)
(* Login, whose button is disabled meanwhile, is one step.                 *)
(***************************************************************************)
EXTENDS Wallets

CONSTANTS Clicks,       \* calls the tab may make; the others come from elsewhere
          Pages,        \* refreshes of the page itself that may be in flight
          MaxSessions,  \* bound: logins
          MaxMisses     \* bound: refreshes that fail

ASSUME DashboardAssumption ==
  /\ Clicks \subseteq Calls
  /\ \A p \in Pages : p \notin Calls
  /\ MaxSessions \in Nat /\ MaxMisses \in Nat

VARIABLES
  issued,    \* sessions issued; a session is the number of its login
  expired,   \* sessions 1 .. expired have expired: all live equally long
  session,   \* the token in the state and in sessionStorage, 0 when none
  data,      \* what the screen shows: NoData, or the wallet transactions listed
  refresh,   \* the refreshes in flight, named by the page or the mutation
  loading,   \* the button is disabled: a refresh started, and none ended since
  click,     \* click[c]: the form's submit of a call
  told,      \* told[c]: what the notice or the error said of it
  (* History and bounds. *)
  crossed,   \* the owner logged in while a request of before was in flight
  doubtful,  \* the last refresh failed, or another one ran next to it
  misses,
  followed   \* TRUE: a tab is followed; FALSE: requests come from anywhere

browserVars == <<issued, expired, session, data, refresh, loading, click, told,
                 crossed, doubtful, misses, followed>>
vars == <<walletVars, browserVars>>

Slots == Pages \union Calls
NoData == [loaded |-> FALSE, calls |-> {}]
NoRefresh == [state |-> "none", session |-> 0, data |-> NoData, alone |-> FALSE]
NoClick == [state |-> "none", session |-> 0]
InFlight == {s \in Slots : refresh[s].state # "none"}
Waiting == {c \in Calls : click[c].state = "waiting"}

BrowserInit ==
  /\ issued = 0 /\ expired = 0 /\ session = 0
  /\ data = NoData
  /\ refresh = [s \in Slots |-> NoRefresh]
  /\ loading = FALSE
  /\ click = [c \in Calls |-> NoClick]
  /\ told = [c \in Calls |-> "nothing"]
  /\ crossed = FALSE /\ doubtful = FALSE /\ misses = 0
  /\ followed \in BOOLEAN

(* verifyAdminSessionToken: the signature holds, so only the time decides *)
Valid(n) == n \in expired + 1 .. issued

(* A refresh is sent with the token of its closure; those it runs next to    *)
(* may answer before or after it                                             *)
Sending(s, n) ==
  /\ loading' = TRUE
  /\ refresh' = [r \in Slots |->
       IF r = s
       THEN [NoRefresh EXCEPT !.state = "sent", !.session = n, !.alone = (InFlight = {})]
       ELSE [refresh[r] EXCEPT !.alone = FALSE]]

-------------------------------------------------------------------------------
(***************************************************************************)
(* The session.                                                            *)
(***************************************************************************)

(* LoginScreen.submit, createAdminSessionToken and onLogin, which refreshes  *)
Login(s) ==
  /\ followed /\ session = 0 /\ issued < MaxSessions
  /\ s \notin InFlight
  /\ issued' = issued + 1
  /\ session' = issued + 1
  /\ crossed' = (InFlight \union Waiting # {})
  /\ Sending(s, issued + 1)
  /\ UNCHANGED <<expired, data, click, told, doubtful, misses, followed, walletVars>>

Logout ==
  /\ session # 0
  /\ session' = 0
  /\ data' = NoData
  /\ UNCHANGED <<issued, expired, refresh, loading, click, told, crossed, doubtful, misses,
                 followed, walletVars>>

(* adminSessionTtlSeconds go by *)
Expire ==
  /\ expired < issued
  /\ expired' = expired + 1
  /\ UNCHANGED <<issued, session, data, refresh, loading, click, told, crossed, doubtful,
                 misses, followed, walletVars>>

(* The page is loaded again: state and requests are gone, sessionStorage is  *)
(* not, and the effect of App refreshes                                      *)
Reload(s) ==
  /\ session # 0
  /\ data' = NoData
  /\ refresh' = [r \in Slots |->
       IF r = s THEN [NoRefresh EXCEPT !.state = "sent", !.session = session, !.alone = TRUE]
       ELSE NoRefresh]
  /\ click' = [c \in Calls |->
       IF click[c].state = "none" THEN NoClick ELSE [click[c] EXCEPT !.state = "over"]]
  /\ loading' = TRUE
  /\ crossed' = FALSE
  /\ UNCHANGED <<issued, expired, session, told, doubtful, misses, followed, walletVars>>

-------------------------------------------------------------------------------
(***************************************************************************)
(* Refreshes.                                                              *)
(***************************************************************************)

(* The button, which the end of any refresh enables, others in flight or not *)
PressRefresh(s) ==
  /\ session # 0 /\ ~ loading
  /\ s \notin InFlight
  /\ Sending(s, session)
  /\ UNCHANGED <<issued, expired, session, data, click, told, crossed, doubtful, misses,
                 followed, walletVars>>

(* dashboardAuthMiddleware, then getOverview and listDashboardData: the      *)
(* browser waits for both                                                    *)
ServeRefresh(s) ==
  /\ refresh[s].state = "sent"
  /\ refresh' = [refresh EXCEPT ![s] =
       IF Valid(@.session)
       THEN [@ EXCEPT !.state = "ok", !.data = [loaded |-> TRUE, calls |-> Listed]]
       ELSE [@ EXCEPT !.state = "unauthorized"]]
  /\ UNCHANGED <<issued, expired, session, data, loading, click, told, crossed, doubtful, misses,
                 followed, walletVars>>

(* The refresh of a mutation ends the mutation *)
Ends(s) ==
  /\ refresh' = [refresh EXCEPT ![s] = NoRefresh]
  /\ loading' = FALSE
  /\ click' = IF s \in Calls THEN [click EXCEPT ![s].state = "over"] ELSE click

(* setOverview and setData, whatever came in between *)
ReceiveData(s) ==
  /\ refresh[s].state = "ok"
  /\ data' = refresh[s].data
  /\ doubtful' = ~ refresh[s].alone
  /\ Ends(s)
  /\ UNCHANGED <<issued, expired, session, told, crossed, misses, followed, walletVars>>

(* Mutant: every error ends the session. *)
EndsSessionAlways(s) == TRUE

(* isUnauthorized; the token of the refresh need not be the one it removes   *)
EndsSession(s) == refresh[s].state = "unauthorized"

(* The catch block: the answer is 401, or an error or none at all *)
ReceiveError(s) ==
  /\ \/ refresh[s].state = "unauthorized" /\ UNCHANGED misses
     \/ /\ refresh[s].state = "sent" /\ misses < MaxMisses
        /\ misses' = misses + 1
  /\ session' = IF EndsSession(s) THEN 0 ELSE session
  /\ doubtful' = TRUE
  /\ Ends(s)
  /\ UNCHANGED <<issued, expired, data, told, crossed, followed, walletVars>>

-------------------------------------------------------------------------------
(***************************************************************************)
(* Wallet transactions.                                                    *)
(***************************************************************************)

(* WalletTransactionForm.submit, which a second click calls again; the       *)
(* request arrives, with the token of the render.  With an expired token it  *)
(* would get an error and nothing else                                       *)
Submit(c) ==
  /\ c \in Clicks
  /\ session # 0 /\ data.loaded
  /\ Valid(session)
  /\ click[c].state = "none"
  /\ click' = [click EXCEPT ![c] = [state |-> "waiting", session |-> session]]
  /\ ReadSource(c)
  /\ UNCHANGED <<issued, expired, session, data, refresh, loading, told, crossed, doubtful,
                 misses, followed>>

(* Mutant: the mutation is over without a refresh. *)
AfterSuccessNoRefresh(c) ==
  /\ click' = [click EXCEPT ![c].state = "over"]
  /\ UNCHANGED <<refresh, loading>>

(* await refresh() *)
AfterSuccess(c) ==
  /\ Sending(c, click[c].session)
  /\ click' = [click EXCEPT ![c].state = "refreshing"]

(* mutate: the request succeeded *)
ReceiveSuccess(c) ==
  /\ click[c].state = "waiting" /\ answer[c] = "submitted"
  /\ told' = [told EXCEPT ![c] = "submitted"]
  /\ AfterSuccess(c)
  /\ UNCHANGED <<issued, expired, session, data, crossed, doubtful, misses, followed, walletVars>>

(* mutate: the request failed, and the screen stays as it is *)
ReceiveFailure(c) ==
  /\ click[c].state = "waiting" /\ answer[c] \in {"failed", "error"}
  /\ told' = [told EXCEPT ![c] = answer[c]]
  /\ click' = [click EXCEPT ![c].state = "over"]
  /\ UNCHANGED <<issued, expired, session, data, refresh, loading, crossed, doubtful, misses,
                 followed, walletVars>>

-------------------------------------------------------------------------------
(***************************************************************************)
(* The screen lists transactions; their status, all that the chain and the *)
(* worker change, and the wallet's key are nothing the tab decides by.  So *)
(* these change in the behaviours that follow no tab.                      *)
(***************************************************************************)
Browser ==
  \/ Logout \/ Expire
  \/ \E s \in Pages : Login(s) \/ Reload(s) \/ PressRefresh(s)
  \/ \E s \in Slots : ServeRefresh(s) \/ ReceiveData(s) \/ ReceiveError(s)
  \/ \E c \in Calls : ReceiveSuccess(c) \/ ReceiveFailure(c)

DashboardNext ==
  \/ Browser
  \/ \E c \in Calls : Submit(c)
  \/ (Crash \/ \E c \in Calls : Handler(c)) /\ UNCHANGED browserVars
  \/ /\ ~ followed
     /\ Worker \/ AbortTick \/ GenerateGasWallet \/ \E c \in Calls : ReadSource(c) \/ Mine(c)
     /\ UNCHANGED browserVars

DashboardInit == Init /\ BrowserInit

DashboardSpec == DashboardInit /\ [][DashboardNext]_vars

(* The worker's loop goes on *)
FairSpec == DashboardSpec /\ WF_vars(~ followed /\ Worker /\ UNCHANGED browserVars)
-------------------------------------------------------------------------------
(***************************************************************************)
(* Properties.                                                             *)
(***************************************************************************)

(* The owner is logged out by nothing but the end of the session, whatever   *)
(* answers arrive late, unless the login happened while an earlier           *)
(* session's request was in flight: refresh removes the token in force, not  *)
(* the one that was refused.                                                 *)
SessionIsKept ==
  [][session # 0 /\ session' = 0 => session <= expired \/ crossed \/ Logout]_vars

(* A transaction the owner was told is submitted is on the screen once the   *)
(* refresh that follows is over, and stays there, unless refreshes           *)
(* overlapped or failed and none has run by itself since: the answer that    *)
(* arrives last is shown, not the last one asked for.                        *)
ScreenShowsSubmitted ==
  \A c \in Calls :
    told[c] = "submitted" /\ click[c].state = "over" /\ data.loaded /\ ~ doubtful
      => c \in data.calls
===============================================================================
