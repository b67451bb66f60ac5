----------------------------- MODULE DepositsProofs -----------------------------
(***************************************************************************)
(* What a tick of the worker and the manual matches of Deposits keep true, *)
(* whatever the requests, payments, amounts and window, and however often  *)
(* a process dies between two statements.                                  *)
(***************************************************************************)
EXTENDS Deposits, TLAPS

(* Where the worker and a manual match can be *)
WorkerLabels == {"rest", "expire", "scan", "insert", "announce", "settle", "sweep_check",
                 "list", "record", "mark", "settle_match", "announce_match", "confirm",
                 "announce_confirmed"}
OwnerLabels == {"rest", "check_request", "check_transfer", "create", "update", "announce",
                "announce_confirmed"}

(* What the local variables hold at each place *)
Places ==
  /\ pc[Worker] \in WorkerLabels
  /\ pc[Worker] \notin {"rest", "expire", "scan", "confirm"} => job[Worker].log \in Logs
  /\ pc[Worker] \in {"insert", "mark"} => job[Worker].request \in Requests
  /\ pc[Worker] = "expire" => todo \subseteq Requests
  /\ pc[Worker] \notin {"rest", "expire"} => todo \subseteq Logs
  /\ \A o \in Owners :
       /\ pc[o] \in OwnerLabels
       /\ pc[o] # "rest" => job[o].log \in Logs /\ job[o].request \in Requests

TInv == TypeOK /\ Places
-------------------------------------------------------------------------------
(* What a step does to one process's local variables keeps their type *)
LEMMA NewJobType ==
  ASSUME NEW l \in Logs \union {NoLog}, NEW r \in Requests \union {NoRequest}, NEW b \in BOOLEAN
  PROVE  /\ NoJob \in Jobs
         /\ [NoJob EXCEPT !.log = l] \in Jobs
         /\ [NoJob EXCEPT !.log = l, !.request = r] \in Jobs
         /\ [NoJob EXCEPT !.log = l, !.request = r, !.late = b] \in Jobs
BY Zenon DEF Jobs, NoJob

LEMMA JobType ==
  ASSUME NEW j \in Jobs
  PROVE  /\ \A r \in Requests : [j EXCEPT !.request = r] \in Jobs
         /\ \A found \in SUBSET Direct : [j EXCEPT !.found = found] \in Jobs
         /\ \A b \in BOOLEAN : [j EXCEPT !.created = b] \in Jobs
         /\ \A updates \in SUBSET Updates : [j EXCEPT !.updates = updates] \in Jobs
BY Zenon DEF Jobs

(* ... and leaves the other fields alone *)
LEMMA NewJobFields ==
  ASSUME NEW l, NEW r, NEW b \in BOOLEAN
  PROVE  /\ [NoJob EXCEPT !.log = l].log = l
         /\ [NoJob EXCEPT !.log = l, !.request = r].log = l
         /\ [NoJob EXCEPT !.log = l, !.request = r].request = r
         /\ [NoJob EXCEPT !.log = l, !.request = r, !.late = b].log = l
         /\ [NoJob EXCEPT !.log = l, !.request = r, !.late = b].request = r
         /\ [NoJob EXCEPT !.log = l, !.request = r, !.late = b].late = b
BY DEF NoJob

LEMMA JobFields ==
  ASSUME NEW j \in Jobs, NEW x
  PROVE  /\ [j EXCEPT !.request = x].log = j.log
         /\ [j EXCEPT !.request = x].request = x
         /\ [j EXCEPT !.found = x].log = j.log
         /\ [j EXCEPT !.found = x].found = x
         /\ [j EXCEPT !.created = x].log = j.log
         /\ [j EXCEPT !.created = x].request = j.request
         /\ [j EXCEPT !.created = x].created = x
         /\ [j EXCEPT !.updates = x].log = j.log
         /\ [j EXCEPT !.updates = x].request = j.request
         /\ [j EXCEPT !.updates = x].created = j.created
BY Zenon DEF Jobs
-------------------------------------------------------------------------------
(* Every process has its local variables of their types, at every step *)
LEMMA JobsStep ==
  ASSUME TInv, Next
  PROVE  job' \in [Procs -> Jobs]
<1> USE DEF TInv, Procs
<1>0. /\ job \in [Procs -> Jobs]
      /\ NoJob \in Jobs
      /\ Worker \in Procs
      /\ DOMAIN job = Procs
  BY NewJobType DEF TypeOK
<1>1. ASSUME NEW p \in Procs, NEW j \in Jobs, job' = [job EXCEPT ![p] = j]
      PROVE  job' \in [Procs -> Jobs]
  BY <1>0, <1>1, Zenon
<1>2. ASSUME NEW p \in Procs, NEW lbl, Done(p, lbl)
      PROVE  job' \in [Procs -> Jobs]
  BY <1>0, <1>1, <1>2 DEF Done
<1>3. CASE UNCHANGED job
  BY <1>0, <1>3
<1>4. ASSUME NEW l \in Logs, Lookup(l)
      PROVE  job' \in [Procs -> Jobs]
  <2>1. CASE job' = [job EXCEPT ![Worker] = [NoJob EXCEPT !.log = l]]
    BY <2>1, <1>0, <1>1, NewJobType
  <2>2. ASSUME NEW r \in Holders(Recipient[l]),
               job' = [job EXCEPT ![Worker] =
                        [NoJob EXCEPT !.log = l, !.request = r, !.late = IsLate(r)]]
        PROVE  job' \in [Procs -> Jobs]
    <3>1. r \in Requests /\ IsLate(r) \in BOOLEAN
      BY DEF Holders, IsLate
    <3>2. [NoJob EXCEPT !.log = l, !.request = r, !.late = IsLate(r)] \in Jobs
      BY <3>1, NewJobType
    <3> QED
      BY <2>2, <3>2, <1>0, <1>1
  <2> QED
    BY <1>4, <2>1, <2>2 DEF Lookup
<1>5. CASE ListOpen
  <2>1. Candidates(job[Worker].log) \in SUBSET Direct
    BY <1>5, DepositsAssumption DEF ListOpen, Candidates, Places
  <2>2. [job[Worker] EXCEPT !.found = Candidates(job[Worker].log)] \in Jobs
    <3>1. job[Worker] \in Jobs
      BY <1>0
    <3> QED
      BY <2>1, <3>1, JobType
  <2> QED
    BY <1>5, <2>2, <1>0, <1>1 DEF ListOpen
<1>6. CASE RecordMatch
  <2>1. PICK r \in job[Worker].found :
          \/ Done(Worker, "scan")
          \/ job' = [job EXCEPT ![Worker].request = r]
    BY <1>6 DEF RecordMatch
  <2>2. r \in Requests
    BY <1>0, DepositsAssumption DEF Jobs
  <2>3. [job[Worker] EXCEPT !.request = r] \in Jobs
    <3>1. job[Worker] \in Jobs
      BY <1>0
    <3> QED
      BY <2>2, <3>1, JobType
  <2> QED
    BY <2>1, <2>3, <1>0, <1>1, <1>2
<1>8. ASSUME NEW l \in Logs, Confirm(l)
      PROVE  job' \in [Procs -> Jobs]
  <2>1. [NoJob EXCEPT !.log = l] \in Jobs
    BY NewJobType
  <2> QED
    BY <1>8, <2>1, <1>0, <1>1 DEF Confirm
<1>9. ASSUME NEW o \in Owners, NEW l \in Logs, NEW r \in Requests, StartMatch(o, l, r)
      PROVE  job' \in [Procs -> Jobs]
  <2>1. [NoJob EXCEPT !.log = l, !.request = r] \in Jobs
    BY NewJobType
  <2> QED
    BY <1>9, <2>1, <1>0, <1>1 DEF StartMatch
<1>10. ASSUME NEW o \in Owners, CheckTransfer(o) \/ CreateTransfer(o) \/ \E u \in Updates : Update(o, u)
       PROVE  job' \in [Procs -> Jobs]
  <2>1. job[o] \in Jobs /\ job[o].updates \in SUBSET Updates
    BY <1>0 DEF Jobs
  <2>2. [job[o] EXCEPT !.updates = Updates] \in Jobs
    BY <2>1, JobType
  <2>3. ASSUME NEW u PROVE [job[o] EXCEPT !.updates = job[o].updates \ {u}] \in Jobs
    <3>1. job[o].updates \ {u} \in SUBSET Updates
      BY <2>1
    <3> QED
      BY <2>1, <3>1, JobType
  <2>4. [job[o] EXCEPT !.created = Created(job[o].log)] \in Jobs
    BY <2>1, JobType DEF Created
  <2>5. CASE CheckTransfer(o)
    BY <2>5, <2>2, <1>0, <1>1, <1>2 DEF CheckTransfer
  <2>6. CASE CreateTransfer(o)
    BY <2>6, <2>4, <1>0, <1>1 DEF CreateTransfer
  <2>7. ASSUME NEW u \in Updates, Update(o, u)
        PROVE  job' \in [Procs -> Jobs]
    BY <2>7, <2>3, <1>0, <1>1, <1>2 DEF Update
  <2> QED
    BY <1>10, <2>5, <2>6, <2>7
<1>11. ASSUME NEW r \in Requests, AnnounceExpired(r) \/ CreateRequest(r) \/ Close(r) \/ Deadline(r)
       PROVE  UNCHANGED job
  BY <1>11 DEF AnnounceExpired, CreateRequest, Close, Deadline, procVars
<1>12. ASSUME Expire \/ StartScan \/ SaveCursor \/ EndTick \/ Mark \/ SettleMatch
              \/ AnnounceConfirmed \/ NewBlock \/ \E s \in Sweeps : Sweep(s)
       PROVE  UNCHANGED job
  BY <1>12 DEF Expire, StartScan, SaveCursor, EndTick, Mark, SettleMatch, AnnounceConfirmed,
               NewBlock, Sweep, procVars
<1>13. ASSUME Insert \/ Announce \/ Settle \/ CheckSweep \/ RecordReview \/ AnnounceMatch
       PROVE  UNCHANGED job \/ \E lbl \in Labels : Done(Worker, lbl)
  BY <1>13 DEF Insert, Announce, Settle, CheckSweep, RecordReview, AnnounceMatch, Labels
<1>14. ASSUME NEW o \in Owners, CheckRequest(o) \/ AnnounceManual(o)
       PROVE  UNCHANGED job \/ \E lbl \in Labels : Done(o, lbl)
  BY <1>14 DEF CheckRequest, AnnounceManual, Labels
<1>15. ASSUME NEW p \in Procs, Abort(p)
       PROVE  Done(p, "rest")
  BY <1>15 DEF Abort
<1> QED
  BY <1>0, <1>2, <1>3, <1>4, <1>5, <1>6, <1>8, <1>9, <1>10, <1>11, <1>12, <1>13, <1>14, <1>15
     DEF Next, WorkerStep, MatchStep
-------------------------------------------------------------------------------
LEMMA TypeInit == Init => TInv
<1> SUFFICES ASSUME Init PROVE TInv
  OBVIOUS
<1>1. job \in [Procs -> Jobs]
  BY NewJobType DEF Init
<1> QED
  BY <1>1, DepositsAssumption DEF Init, TInv, TypeOK, Places, Procs, Labels, WorkerLabels, OwnerLabels

(* The chain, the clock and the bound of aborts *)
LEMMA ChainTypeStep ==
  ASSUME TInv, Next
  PROVE  /\ head' \in Nat /\ head' >= head
         /\ block' \in [Logs -> 0 .. head']
         /\ due' \subseteq Requests
         /\ swept' \subseteq Sweeps
         /\ aborts' \in Nat
<1> USE DEF TInv, TypeOK
<1>1. ASSUME chainVars' = chainVars, swept' = swept, aborts' = aborts
      PROVE  /\ head' \in Nat /\ head' >= head
             /\ block' \in [Logs -> 0 .. head']
             /\ due' \subseteq Requests
             /\ swept' \subseteq Sweeps
             /\ aborts' \in Nat
  BY <1>1 DEF chainVars
<1>2. CASE WorkerStep
  <2>1. chainVars' = chainVars /\ swept' = swept /\ aborts' = aborts
    BY <1>2 DEF WorkerStep, Expire, StartScan, SaveCursor, EndTick, AnnounceExpired, Lookup, Confirm,
         Insert, Announce, Settle, CheckSweep, ListOpen, RecordReview, RecordMatch, Mark,
         SettleMatch, AnnounceMatch, AnnounceConfirmed, dbVars
  <2> QED
    BY <2>1, <1>1
<1>3. ASSUME NEW o \in Owners, MatchStep(o) \/ \E l \in Logs, r \in Requests : StartMatch(o, l, r)
      PROVE  chainVars' = chainVars /\ swept' = swept /\ aborts' = aborts
  BY <1>3 DEF MatchStep, StartMatch, CheckRequest, CheckTransfer, CreateTransfer, Update,
       AnnounceManual, dbVars
<1>4. ASSUME NEW r \in Requests, CreateRequest(r) \/ Close(r)
      PROVE  chainVars' = chainVars /\ swept' = swept /\ aborts' = aborts
  BY <1>4 DEF CreateRequest, Close
<1>5. CASE NewBlock
  BY <1>5 DEF NewBlock, dbVars
<1>6. ASSUME NEW s \in Sweeps, Sweep(s)
      PROVE  /\ head' \in Nat /\ head' >= head
             /\ block' \in [Logs -> 0 .. head']
             /\ due' \subseteq Requests
             /\ swept' \subseteq Sweeps
             /\ aborts' \in Nat
  <2>1. /\ head' = head + 1
        /\ block' = [block EXCEPT ![s] = head + 1]
        /\ due' = due
        /\ swept' = swept \/ swept' = swept \union {s}
        /\ aborts' = aborts \/ aborts' = aborts + 1
    BY <1>6 DEF Sweep
  <2>2. s \in Logs
    BY DepositsAssumption
  <2>3. head' \in Nat /\ head' >= head /\ aborts' \in Nat
    BY <2>1
  <2>4. block' \in [Logs -> 0 .. head']
    BY <2>1, <2>2
  <2>5. swept' \subseteq Sweeps
    BY <2>1
  <2> QED
    BY <2>1, <2>3, <2>4, <2>5
<1>7. ASSUME NEW r \in Requests, Deadline(r)
      PROVE  /\ UNCHANGED <<head, block, dbVars, aborts>>
             /\ due' \subseteq Requests
  BY <1>7 DEF Deadline
<1>8. ASSUME NEW p \in Procs, Abort(p)
      PROVE  /\ UNCHANGED <<chainVars, dbVars>>
             /\ aborts' \in Nat
  BY <1>8 DEF Abort
<1> QED
  BY <1>1, <1>2, <1>3, <1>4, <1>5, <1>6, <1>7, <1>8 DEF Next, chainVars, dbVars

(* The rows of Postgres *)
RowsType ==
  /\ request \in [Requests -> {"none", "active", "expired", "closed", "completed"}]
  /\ match \in [Requests -> Logs \union {NoLog}]
  /\ transfer \in [Logs -> {"none", "detected", "late", "confirmed"}]
  /\ payer \in [Logs -> Requests \union {NoRequest}]
  /\ settled \subseteq Logs
  /\ review \in [Logs -> {"none", "unmatched", "ambiguous", "matched"}]
  /\ reviewed \in [Logs -> Requests \union {NoRequest}]
  /\ outbox \subseteq Events

LEMMA RowsTypeStep ==
  ASSUME TInv, Next
  PROVE  RowsType'
<1> USE DEF TInv, RowsType
<1>0. RowsType
  BY DEF TypeOK
<1>1. ASSUME UNCHANGED <<requestVars, transferVars, reviewVars, outbox>>
      PROVE  RowsType'
  BY <1>0, <1>1 DEF requestVars, transferVars, reviewVars
<1>2. ASSUME NEW l \in Logs, NEW r \in Requests, NEW st \in {"late", "detected", "confirmed"},
             InsertTransfer(l, r, st), UNCHANGED <<requestVars, settled, reviewVars, outbox>>
      PROVE  RowsType'
  BY <1>0, <1>2 DEF InsertTransfer, requestVars, reviewVars
<1>3. ASSUME NEW t \in {"transfer.detected", "deposit.late_detected", "deposit.confirmed"},
             NEW l \in Logs, Enqueue(t, l), UNCHANGED <<requestVars, transferVars, reviewVars>>
      PROVE  RowsType'
  BY <1>0, <1>3 DEF Enqueue, Event, Events, requestVars, transferVars, reviewVars
<1>4. CASE Expire
  BY <1>0, <1>4 DEF Expire, transferVars, reviewVars
<1>5. ASSUME NEW r \in Requests, AnnounceExpired(r)
      PROVE  RowsType'
  BY <1>0, <1>5 DEF AnnounceExpired, Enqueue, Event, Events, requestVars, transferVars, reviewVars
<1>6. CASE StartScan \/ SaveCursor \/ EndTick \/ CheckSweep \/ ListOpen \/ \E l \in Logs : Lookup(l)
  <2>1. UNCHANGED <<requestVars, transferVars, reviewVars, outbox>>
    BY <1>6 DEF StartScan, SaveCursor, EndTick, CheckSweep, ListOpen, Lookup, dbVars
  <2> QED
    BY <2>1, <1>1
<1>7. CASE Insert
  BY <1>0, <1>7, <1>2 DEF Insert, Places
<1>8. CASE Announce \/ AnnounceMatch \/ AnnounceConfirmed
  BY <1>8, <1>3 DEF Announce, AnnounceMatch, AnnounceConfirmed, Places
<1>9. CASE Settle \/ SettleMatch
  BY <1>0, <1>9 DEF Settle, SettleMatch, Places, requestVars, reviewVars
<1>10. CASE RecordReview
  BY <1>0, <1>10 DEF RecordReview, InsertReview, requestVars, transferVars
<1>11. CASE RecordMatch
  <2>1. PICK r \in job[Worker].found : InsertTransfer(job[Worker].log, r, "detected")
    BY <1>11 DEF RecordMatch
  <2>2. r \in Requests /\ job[Worker].log \in Logs
    <3>1. job[Worker] \in Jobs
      BY DEF TypeOK, Procs
    <3> QED
      BY <3>1, <1>11, DepositsAssumption DEF Jobs, RecordMatch, Places
  <2> QED
    BY <2>1, <2>2, <1>2, <1>11 DEF RecordMatch
<1>12. CASE Mark
  BY <1>0, <1>12 DEF Mark, MarkMatched, Places, transferVars, reviewVars
<1>13. ASSUME NEW l \in Logs, Confirm(l)
       PROVE  RowsType'
  BY <1>0, <1>13 DEF Confirm, requestVars, reviewVars
<1>14. ASSUME NEW o \in Owners, CheckRequest(o) \/ CheckTransfer(o)
                                \/ \E l \in Logs, r \in Requests : StartMatch(o, l, r)
       PROVE  RowsType'
  <2>1. UNCHANGED <<requestVars, transferVars, reviewVars, outbox>>
    BY <1>14 DEF CheckRequest, CheckTransfer, StartMatch, dbVars
  <2> QED
    BY <2>1, <1>1
<1>15. ASSUME NEW o \in Owners, CreateTransfer(o)
       PROVE  RowsType'
  BY <1>15, <1>2 DEF CreateTransfer, Places
<1>16. ASSUME NEW o \in Owners, NEW u \in Updates, Update(o, u)
       PROVE  RowsType'
  <2>1. job[o].log \in Logs /\ job[o].request \in Requests
    BY <1>16 DEF Update, Places
  <2> QED
    BY <1>0, <2>1, <1>16 DEF Update, MarkMatched, SetReview, requestVars, reviewVars
<1>17. ASSUME NEW o \in Owners, AnnounceManual(o)
       PROVE  RowsType'
  BY <1>17, <1>3 DEF AnnounceManual, Places
<1>18. ASSUME NEW r \in Requests, CreateRequest(r) \/ Close(r)
       PROVE  RowsType'
  BY <1>0, <1>18 DEF CreateRequest, Close, transferVars, reviewVars
<1>19. ASSUME NewBlock \/ (\E r \in Requests : Deadline(r)) \/ (\E s \in Sweeps : Sweep(s))
              \/ \E p \in Procs : Abort(p)
       PROVE  UNCHANGED <<requestVars, transferVars, reviewVars, outbox>>
  BY <1>19 DEF NewBlock, Deadline, Sweep, Abort, dbVars
<1> QED
  BY <1>1, <1>4, <1>5, <1>6, <1>7, <1>8, <1>9, <1>10, <1>11, <1>12, <1>13, <1>14, <1>15, <1>16,
     <1>17, <1>18, <1>19 DEF Next, WorkerStep, MatchStep

(* Where the processes are, and the window of the scan *)
LEMMA PlacesStep ==
  ASSUME TInv, Next
  PROVE  /\ pc' \in [Procs -> Labels]
         /\ todo' \subseteq Requests \union Logs
         /\ cursor' \in 0 .. head' /\ to' \in 0 .. head'
         /\ Places'
<1> DEFINE Goal == /\ pc' \in [Procs -> Labels]
                   /\ todo' \subseteq Requests \union Logs
                   /\ cursor' \in 0 .. head' /\ to' \in 0 .. head'
                   /\ Places'
           Kept == cursor' = cursor /\ to' = to
           OwnersKept == \A o \in Owners : pc'[o] = pc[o] /\ job'[o] = job[o]
           WorkerKept == pc'[Worker] = pc[Worker] /\ job'[Worker] = job[Worker] /\ todo' = todo
<1> USE DEF TInv, Procs
<1>0. /\ head' \in Nat /\ head' >= head
      /\ job' \in [Procs -> Jobs]
      /\ job \in [Procs -> Jobs]
      /\ pc \in [Procs -> Labels]
      /\ head \in Nat /\ cursor \in 0 .. head /\ to \in 0 .. head
      /\ Worker \notin Owners
      /\ todo \subseteq Requests \union Logs
  BY ChainTypeStep, JobsStep, DepositsAssumption DEF TypeOK
<1>1. WorkerLabels \subseteq Labels /\ OwnerLabels \subseteq Labels
  BY DEF WorkerLabels, OwnerLabels, Labels
<1> HIDE DEF TInv
<1>2. ASSUME NEW p \in Procs, NEW lbl, Goto(p, lbl), p = Worker => lbl \in WorkerLabels,
             p \in Owners => lbl \in OwnerLabels
      PROVE  /\ pc' \in [Procs -> Labels]
             /\ pc'[p] = lbl
             /\ \A q \in Procs \ {p} : pc'[q] = pc[q]
  BY <1>0, <1>1, <1>2 DEF Goto
<1>3. ASSUME NEW p \in Procs, NEW j, job' = [job EXCEPT ![p] = j]
      PROVE  /\ job'[p] = j
             /\ \A q \in Procs \ {p} : job'[q] = job[q]
  BY <1>0, <1>3
<1>4. ASSUME NEW lbl \in WorkerLabels, Goto(Worker, lbl)
      PROVE  /\ pc' \in [Procs -> Labels]
             /\ pc'[Worker] = lbl
             /\ \A o \in Owners : pc'[o] = pc[o]
  BY <1>0, <1>2, <1>4
<1>5. ASSUME NEW j, job' = [job EXCEPT ![Worker] = j]
      PROVE  /\ job'[Worker] = j
             /\ \A o \in Owners : job'[o] = job[o]
  BY <1>0, <1>3, <1>5
<1>6. ASSUME NEW lbl \in WorkerLabels, Done(Worker, lbl)
      PROVE  /\ pc' \in [Procs -> Labels]
             /\ pc'[Worker] = lbl
             /\ OwnersKept
  BY <1>4, <1>5, <1>6 DEF Done
<1>7. ASSUME OwnersKept
      PROVE  \A o \in Owners : /\ pc'[o] \in OwnerLabels
                               /\ pc'[o] # "rest" => job'[o].log \in Logs /\ job'[o].request \in Requests
  BY <1>7 DEF Places, TInv
<1>8. CASE Expire
  BY <1>8, <1>0, <1>4, <1>7 DEF Expire, Places, WorkerLabels, Expiring, chainVars, TInv
<1>9. ASSUME NEW r \in Requests, AnnounceExpired(r)
      PROVE  Goal
  BY <1>9, <1>0, <1>7 DEF AnnounceExpired, Places, TInv
<1>10. CASE StartScan
  <2>1. Ready \subseteq Logs /\ TransferLogs(FromBlock, ToBlock) \subseteq Logs
    BY DEF Ready, TransferLogs
  <2>2. ToBlock >= FromBlock => ToBlock \in 0 .. head
    BY <1>0, DepositsAssumption DEF FromBlock, ToBlock
  <2> QED
    BY <1>10, <2>1, <2>2, <1>0, <1>4, <1>7 DEF StartScan, Places, WorkerLabels, chainVars, dbVars, TInv
<1>11. ASSUME NEW l \in Logs, Lookup(l)
       PROVE  Goal
  <2>1. OwnersKept /\ Kept /\ todo' = todo \ {l}
    BY <1>11, <1>4, <1>5 DEF Lookup, dbVars, WorkerLabels
  <2>2. todo \subseteq Logs
    BY <1>11 DEF Lookup, Places, TInv
  <2>3. CASE /\ job' = [job EXCEPT ![Worker] = [NoJob EXCEPT !.log = l]]
             /\ Goto(Worker, "sweep_check")
    BY <2>1, <2>2, <2>3, <1>0, <1>4, <1>5, <1>7, NewJobFields DEF Places, WorkerLabels
  <2>4. ASSUME NEW r \in Holders(Recipient[l]),
               job' = [job EXCEPT ![Worker] =
                        [NoJob EXCEPT !.log = l, !.request = r, !.late = IsLate(r)]],
               Goto(Worker, "insert")
        PROVE  Goal
    <3>1. r \in Requests /\ IsLate(r) \in BOOLEAN
      BY DEF Holders, IsLate
    <3>2. job'[Worker] = [NoJob EXCEPT !.log = l, !.request = r, !.late = IsLate(r)]
      BY <2>4, <1>5, Zenon
    <3>3. job'[Worker].log = l /\ job'[Worker].request = r
      BY <3>2, Zenon DEF NoJob
    <3> QED
      BY <2>1, <2>2, <2>4, <3>1, <3>3, <1>0, <1>4, <1>7 DEF Places, WorkerLabels
  <2> QED
    BY <1>11, <2>3, <2>4 DEF Lookup
<1>12. ASSUME Insert \/ Announce \/ Settle \/ CheckSweep \/ Mark \/ SettleMatch \/ AnnounceMatch
              \/ RecordReview \/ AnnounceConfirmed
       PROVE  Goal
  <2>1. /\ pc[Worker] \notin {"rest", "expire", "scan", "confirm"}
        /\ Kept /\ todo' = todo
        /\ \/ Done(Worker, "scan") \/ Done(Worker, "confirm")
           \/ /\ UNCHANGED job
              /\ \E lbl \in {"announce", "settle", "list", "settle_match", "announce_match"} :
                   Goto(Worker, lbl)
    BY <1>12 DEF Insert, Announce, Settle, CheckSweep, Mark, SettleMatch, AnnounceMatch,
       RecordReview, AnnounceConfirmed, chainVars, dbVars
  <2>2. todo \subseteq Logs /\ job[Worker].log \in Logs
    BY <2>1 DEF Places, TInv
  <2>3. OwnersKept /\ pc' \in [Procs -> Labels]
    BY <2>1, <1>4, <1>6 DEF WorkerLabels
  <2>4. Places'
    <3>1. CASE Done(Worker, "scan") \/ Done(Worker, "confirm")
      BY <3>1, <2>1, <2>2, <2>3, <1>6, <1>7 DEF Places, WorkerLabels
    <3>2. ASSUME UNCHANGED job,
                 NEW lbl \in {"announce", "settle", "list", "settle_match", "announce_match"},
                 Goto(Worker, lbl)
          PROVE  Places'
      BY <3>2, <2>1, <2>2, <2>3, <1>4, <1>7 DEF Places, WorkerLabels
    <3> QED
      BY <2>1, <3>1, <3>2
  <2> QED
    BY <2>1, <2>3, <2>4, <1>0
<1>13. CASE ListOpen
  <2>1. job'[Worker].log = job[Worker].log
    BY <1>13, <1>0, JobFields DEF ListOpen
  <2> QED
    BY <1>13, <2>1, <1>0, <1>4, <1>5, <1>7 DEF ListOpen, Places, WorkerLabels, dbVars, TInv
<1>14. CASE RecordMatch
  <2>1. PICK r \in job[Worker].found :
          \/ Done(Worker, "scan")
          \/ job' = [job EXCEPT ![Worker].request = r] /\ Goto(Worker, "mark")
    BY <1>14 DEF RecordMatch
  <2>2. /\ r \in Requests /\ job[Worker] \in Jobs /\ job[Worker].log \in Logs
        /\ todo \subseteq Logs
    BY <1>0, <1>14, DepositsAssumption DEF Jobs, RecordMatch, Places, TInv
  <2>3. Kept /\ todo' = todo
    BY <1>14 DEF RecordMatch, chainVars
  <2>4. CASE Done(Worker, "scan")
    BY <2>2, <2>3, <2>4, <1>0, <1>6, <1>7 DEF Places, WorkerLabels
  <2>5. CASE job' = [job EXCEPT ![Worker].request = r] /\ Goto(Worker, "mark")
    <3>1. job'[Worker] = [job[Worker] EXCEPT !.request = r]
      BY <2>5, <1>5, Zenon
    <3>2. job'[Worker].log = job[Worker].log /\ job'[Worker].request = r
      BY <2>2, <3>1, Zenon DEF Jobs
    <3> QED
      BY <2>2, <2>3, <2>5, <3>2, <1>0, <1>4, <1>5, <1>7 DEF Places, WorkerLabels
  <2> QED
    BY <2>1, <2>4, <2>5
<1>15. CASE SaveCursor
  BY <1>15, <1>0, <1>4, <1>7 DEF SaveCursor, Places, WorkerLabels, chainVars, TInv, Ready
<1>16. ASSUME NEW l \in Logs, Confirm(l)
       PROVE  Goal
  <2>1. job'[Worker].log = l
    <3>1. job' = [job EXCEPT ![Worker] = [NoJob EXCEPT !.log = l]]
      BY <1>16 DEF Confirm
    <3>2. job'[Worker] = [NoJob EXCEPT !.log = l]
      BY <3>1, <1>5, Zenon
    <3> QED
      BY <3>2, Zenon DEF NoJob
  <2> QED
    BY <1>16, <2>1, <1>0, <1>4, <1>5, <1>7 DEF Confirm, Places, WorkerLabels, chainVars, TInv
<1>17. CASE EndTick
  BY <1>17, <1>0, <1>4, <1>7 DEF EndTick, Places, WorkerLabels, dbVars, TInv
<1>18. ASSUME NEW o \in Owners, NEW lbl \in OwnerLabels, Goto(o, lbl),
              lbl # "rest" => job'[o].log \in Logs /\ job'[o].request \in Requests,
              \A q \in Procs \ {o} : job'[q] = job[q], todo' = todo, Kept
       PROVE  Goal
  <2>1. /\ pc' \in [Procs -> Labels]
        /\ pc'[o] = lbl
        /\ \A q \in Procs \ {o} : pc'[q] = pc[q]
    BY <1>0, <1>2, <1>18
  <2> QED
    BY <2>1, <1>0, <1>18 DEF Places, TInv
<1>19. ASSUME NEW o \in Owners, NEW l \in Logs, NEW r \in Requests, StartMatch(o, l, r)
       PROVE  Goal
  <2>1. /\ job'[o].log = l /\ job'[o].request = r
        /\ \A q \in Procs \ {o} : job'[q] = job[q]
    <3>1. job' = [job EXCEPT ![o] = [NoJob EXCEPT !.log = l, !.request = r]]
      BY <1>19 DEF StartMatch
    <3>2. /\ job'[o] = [NoJob EXCEPT !.log = l, !.request = r]
          /\ \A q \in Procs \ {o} : job'[q] = job[q]
      BY <3>1, <1>3, Zenon
    <3> QED
      BY <3>2, Zenon DEF NoJob
  <2> QED
    BY <1>18, <1>19, <2>1 DEF StartMatch, dbVars, OwnerLabels
<1>20. ASSUME NEW o \in Owners, MatchStep(o)
       PROVE  Goal
  <2>0. /\ job[o] \in Jobs
        /\ pc[o] # "rest"
        /\ job[o].log \in Logs /\ job[o].request \in Requests
        /\ todo' = todo /\ Kept
    BY <1>20, <1>0 DEF MatchStep, CheckRequest, CheckTransfer, CreateTransfer, Update,
       AnnounceManual, Places, TInv, dbVars, chainVars
  <2>1. ASSUME NEW lbl \in OwnerLabels, Goto(o, lbl), NEW x,
               \/ UNCHANGED job
               \/ job' = [job EXCEPT ![o].updates = x]
               \/ job' = [job EXCEPT ![o].created = x]
        PROVE  Goal
    <3>1. /\ job'[o].log = job[o].log /\ job'[o].request = job[o].request
          /\ \A q \in Procs \ {o} : job'[q] = job[q]
      <4>1. ASSUME job' = [job EXCEPT ![o].updates = x]
            PROVE  /\ job'[o] = [job[o] EXCEPT !.updates = x]
                   /\ \A q \in Procs \ {o} : job'[q] = job[q]
        BY <4>1, <1>3, Zenon
      <4>2. ASSUME job' = [job EXCEPT ![o].created = x]
            PROVE  /\ job'[o] = [job[o] EXCEPT !.created = x]
                   /\ \A q \in Procs \ {o} : job'[q] = job[q]
        BY <4>2, <1>3, Zenon
      <4> QED
        BY <2>0, <2>1, <4>1, <4>2, Zenon DEF Jobs
    <3> QED
      BY <1>18, <2>0, <2>1, <3>1
  <2>2. ASSUME Done(o, "rest")
        PROVE  Goal
    BY <1>3, <1>18, <2>0, <2>2 DEF Done, OwnerLabels
  <2>3. CASE CheckRequest(o)
    BY <2>1, <2>2, <2>3 DEF CheckRequest, OwnerLabels
  <2>4. CASE CheckTransfer(o)
    BY <2>1, <2>2, <2>4 DEF CheckTransfer, OwnerLabels
  <2>5. CASE CreateTransfer(o)
    BY <2>1, <2>5 DEF CreateTransfer, OwnerLabels
  <2>6. ASSUME NEW u \in Updates, Update(o, u)
        PROVE  Goal
    BY <2>1, <2>2, <2>6 DEF Update, OwnerLabels
  <2>7. CASE AnnounceManual(o)
    BY <2>1, <2>2, <2>7 DEF AnnounceManual, OwnerLabels
  <2> QED
    BY <1>20, <2>3, <2>4, <2>5, <2>6, <2>7 DEF MatchStep
<1>21. ASSUME NewBlock \/ (\E r \in Requests : CreateRequest(r) \/ Close(r) \/ Deadline(r))
              \/ (\E s \in Sweeps : Sweep(s))
       PROVE  Goal
  <2>1. UNCHANGED <<pc, job, todo, to, cursor>>
    BY <1>21 DEF NewBlock, CreateRequest, Close, Deadline, Sweep, procVars, dbVars
  <2> QED
    BY <2>1, <1>0 DEF Places, TInv
<1>22. ASSUME NEW p \in Procs, Abort(p)
       PROVE  Goal
  <2>1. CASE p = Worker
    BY <1>22, <2>1, <1>0, <1>6, <1>7 DEF Abort, Places, WorkerLabels, dbVars
  <2>2. CASE p \in Owners
    BY <1>22, <2>2, <1>0, <1>3, <1>18 DEF Abort, Done, OwnerLabels, dbVars
  <2> QED
    BY <2>1, <2>2
<1> QED
  BY <1>8, <1>9, <1>10, <1>11, <1>12, <1>13, <1>14, <1>15, <1>16, <1>17, <1>19, <1>20, <1>21, <1>22
     DEF Next, WorkerStep

LEMMA TypeStep ==
  ASSUME TInv, [Next]_vars
  PROVE  TInv'
<1>1. CASE Next
  BY <1>1, ChainTypeStep, RowsTypeStep, PlacesStep, JobsStep DEF TInv, TypeOK, RowsType
<1>2. CASE UNCHANGED vars
  BY <1>2 DEF vars, chainVars, dbVars, requestVars, transferVars, reviewVars, procVars,
              TInv, TypeOK, Places
<1> QED
  BY <1>1, <1>2

LEMMA TypeInvariant == Spec => []TInv
BY TypeInit, TypeStep, PTL DEF Spec

(* Every variable holds a value of its column or local variable, and neither *)
(* the cursor nor the window of a scan runs ahead of the confirmed head.     *)
THEOREM TypeCorrect == Spec => []TypeOK
BY TypeInvariant, PTL DEF TInv
-------------------------------------------------------------------------------
(***************************************************************************)
(* Who moves: a step of the worker leaves the matches where they are, and  *)
(* a step of a match leaves the worker and the other matches.              *)
(***************************************************************************)
WorkerSame == pc'[Worker] = pc[Worker] /\ job'[Worker] = job[Worker] /\ UNCHANGED <<todo, to, cursor>>
OwnerSame(o) == pc'[o] = pc[o] /\ job'[o] = job[o]

(* Requests are created and closed, time passes, blocks come *)
Environment == \/ NewBlock
               \/ \E r \in Requests : CreateRequest(r) \/ Close(r) \/ Deadline(r)
               \/ \E s \in Sweeps : Sweep(s)

(* One match runs, starts or is cut off *)
OwnerStep(o) == MatchStep(o) \/ (\E l \in Logs, r \in Requests : StartMatch(o, l, r)) \/ Abort(o)

LEMMA Actors ==
  ASSUME Next
  PROVE  \/ WorkerStep \/ Abort(Worker)
         \/ \E o \in Owners : OwnerStep(o)
         \/ Environment
BY DEF Next, OwnerStep, Environment, Procs

LEMMA WorkerFrame ==
  ASSUME TInv, WorkerStep \/ Abort(Worker)
  PROVE  \A o \in Owners : OwnerSame(o)
<1>1. pc' = [pc EXCEPT ![Worker] = pc'[Worker]] \/ pc' = pc
  BY DEF TInv, TypeOK, Procs, WorkerStep, Expire, StartScan, SaveCursor, EndTick, AnnounceExpired,
     Lookup, Confirm, Insert, Announce, Settle, CheckSweep, ListOpen, RecordReview, RecordMatch, Mark,
     SettleMatch, AnnounceMatch, AnnounceConfirmed, Abort, Goto, Done
<1>2. \/ \E j : job' = [job EXCEPT ![Worker] = j]
      \/ job' = job
  BY Zenon DEF WorkerStep, Expire, StartScan, SaveCursor, EndTick, AnnounceExpired,
     Lookup, Confirm, Insert, Announce, Settle, CheckSweep, ListOpen, RecordReview, RecordMatch, Mark,
     SettleMatch, AnnounceMatch, AnnounceConfirmed, Abort, Done
<1>3. job \in [Procs -> Jobs] /\ pc \in [Procs -> Labels] /\ Owners \subseteq Procs \ {Worker}
  BY DepositsAssumption DEF TInv, TypeOK, Procs
<1> QED
  BY <1>1, <1>2, <1>3 DEF OwnerSame

LEMMA OwnerFrame ==
  ASSUME TInv, NEW o \in Owners, OwnerStep(o)
  PROVE  WorkerSame /\ \A q \in Owners \ {o} : OwnerSame(q)
<1>1. \/ \E lbl \in Labels : pc' = [pc EXCEPT ![o] = lbl]
      \/ pc' = pc
  BY DEF OwnerStep, MatchStep, StartMatch, CheckRequest, CheckTransfer, CreateTransfer, Update,
     AnnounceManual, Abort, Goto, Done, Labels
<1>2. \/ \E j : job' = [job EXCEPT ![o] = j]
      \/ job' = job
  BY Zenon DEF OwnerStep, MatchStep, StartMatch, CheckRequest, CheckTransfer, CreateTransfer, Update,
     AnnounceManual, Abort, Done
<1>3. /\ job \in [Procs -> Jobs] /\ pc \in [Procs -> Labels]
      /\ Owners \subseteq Procs \ {Worker} /\ Worker \in Procs
      /\ o # Worker
  BY DepositsAssumption DEF TInv, TypeOK, Procs
<1>4. UNCHANGED <<todo, to, cursor>>
  BY <1>3 DEF OwnerStep, MatchStep, StartMatch, CheckRequest, CheckTransfer, CreateTransfer, Update,
     AnnounceManual, Abort, dbVars
<1> QED
  BY <1>1, <1>2, <1>3, <1>4 DEF OwnerSame, WorkerSame

LEMMA EnvironmentFrame ==
  ASSUME Environment
  PROVE  /\ UNCHANGED <<procVars, transferVars, cursor, outbox, match, reviewVars>>
         /\ WorkerSame /\ \A o \in Owners : OwnerSame(o)
BY DEF Environment, NewBlock, CreateRequest, Close, Deadline, Sweep, procVars, dbVars, requestVars,
       transferVars, reviewVars, WorkerSame, OwnerSame
-------------------------------------------------------------------------------
(***************************************************************************)
(* Credits.  The worker is in a scan iff its window is open (to # 0); what *)
(* it found detected stays detected until it confirms it, because nothing  *)
(* else changes a transfer that has a row.                                 *)
(***************************************************************************)
ScanLabels == {"scan", "insert", "announce", "sweep_check", "list", "record", "mark",
               "settle_match", "announce_match"}

(* The row of the log the worker works on, at each place *)
WorkersRow ==
  LET j == job[Worker] IN
  /\ pc[Worker] \in ScanLabels => to # 0
  /\ pc[Worker] \in {"rest", "expire", "confirm", "announce_confirmed"} => to = 0
  /\ pc[Worker] = "announce" => transfer[j.log] = IF j.late THEN "late" ELSE "detected"
  /\ pc[Worker] = "settle" => transfer[j.log] = IF to = 0 THEN "confirmed" ELSE "late"
  /\ pc[Worker] \in {"mark", "settle_match", "announce_match"} => transfer[j.log] = "detected"
  /\ pc[Worker] = "announce_confirmed" => transfer[j.log] = "confirmed"

(* What the worker is about to confirm *)
Unconfirmed ==
  pc[Worker] \notin {"rest", "expire"} /\ to = 0 => \A l \in todo : transfer[l] = "detected"

(* The row a manual match made *)
MatchRow(o) ==
  /\ pc[o] \in {"check_request", "check_transfer"} => ~job[o].created
  /\ pc[o] \in {"announce", "announce_confirmed"} => job[o].created
  /\ pc[o] \in {"update", "announce", "announce_confirmed"} /\ job[o].created =>
       transfer[job[o].log] = "confirmed"

MatchesRow == \A o \in Owners : MatchRow(o)

CInv == TInv /\ WorkersRow /\ Unconfirmed /\ MatchesRow

(* A row stays with its request; only the worker changes its status, from *)
(* detected to confirmed.                                                 *)
LEMMA TransferStep ==
  ASSUME CInv, Next, NEW l \in Logs, transfer[l] # "none"
  PROVE  /\ payer'[l] = payer[l]
         /\ \/ transfer'[l] = transfer[l]
            \/ Confirm(l) /\ transfer[l] = "detected" /\ transfer'[l] = "confirmed"
<1> DEFINE Goal == /\ payer'[l] = payer[l]
                   /\ \/ transfer'[l] = transfer[l]
                      \/ Confirm(l) /\ transfer[l] = "detected" /\ transfer'[l] = "confirmed"
<1>0. /\ transfer \in [Logs -> {"none", "detected", "late", "confirmed"}]
      /\ payer \in [Logs -> Requests \union {NoRequest}]
  BY DEF CInv, TInv, TypeOK
<1>1. ASSUME UNCHANGED <<transfer, payer>>
      PROVE  Goal
  BY <1>1
<1>2. ASSUME NEW m, NEW r, NEW st, InsertTransfer(m, r, st)
      PROVE  Goal
  BY <1>0, <1>2 DEF InsertTransfer, Created
<1>3. ASSUME NEW m \in Logs, Confirm(m)
      PROVE  Goal
  <2>1. transfer[m] = "detected"
    BY <1>3 DEF Confirm, CInv, Unconfirmed, WorkersRow
  <2> QED
    BY <1>0, <1>3, <2>1 DEF Confirm
<1>4. ASSUME Expire \/ StartScan \/ SaveCursor \/ EndTick \/ (\E r \in Requests : AnnounceExpired(r))
             \/ (\E m \in Logs : Lookup(m)) \/ Announce \/ Settle \/ CheckSweep \/ ListOpen
             \/ RecordReview \/ Mark \/ SettleMatch \/ AnnounceMatch \/ AnnounceConfirmed
      PROVE  UNCHANGED <<transfer, payer>>
  BY <1>4 DEF Expire, StartScan, SaveCursor, EndTick, AnnounceExpired, Lookup, Announce, Settle,
     CheckSweep, ListOpen, RecordReview, Mark, SettleMatch, AnnounceMatch, AnnounceConfirmed,
     dbVars, transferVars
<1>5. CASE Insert \/ RecordMatch
  BY <1>5, <1>2 DEF Insert, RecordMatch
<1>6. CASE WorkerStep
  BY <1>1, <1>3, <1>4, <1>5, <1>6 DEF WorkerStep
<1>7. ASSUME NEW o \in Owners, CreateTransfer(o)
      PROVE  Goal
  BY <1>7, <1>2 DEF CreateTransfer
<1>8. ASSUME NEW o \in Owners, CheckRequest(o) \/ CheckTransfer(o) \/ (\E u \in Updates : Update(o, u))
             \/ AnnounceManual(o) \/ \E m \in Logs, r \in Requests : StartMatch(o, m, r)
      PROVE  UNCHANGED <<transfer, payer>>
  BY <1>8 DEF CheckRequest, CheckTransfer, Update, AnnounceManual, StartMatch, dbVars, transferVars
<1>9. ASSUME NEW p \in Procs, Abort(p)
      PROVE  UNCHANGED <<transfer, payer>>
  BY <1>9 DEF Abort, dbVars, transferVars
<1>10. CASE Environment
  BY <1>1, <1>10, EnvironmentFrame DEF transferVars
<1> QED
  BY <1>1, <1>6, <1>7, <1>8, <1>9, <1>10 DEF Next, Environment, MatchStep

LEMMA CreditInit == Init => CInv
<1> SUFFICES ASSUME Init PROVE CInv
  OBVIOUS
<1> QED
  BY TypeInit, DepositsAssumption DEF Init, CInv, WorkersRow, Unconfirmed, MatchesRow, MatchRow, ScanLabels, Procs

LEMMA MatchesRowStep ==
  ASSUME CInv, Next
  PROVE  MatchesRow'
<1> USE DEF CInv
<1>1. ASSUME NEW o \in Owners, OwnerSame(o)
      PROVE  MatchRow(o)'
  <2>1. CASE pc[o] \in {"update", "announce", "announce_confirmed"} /\ job[o].created
    <3>1. job[o].log \in Logs /\ transfer[job[o].log] = "confirmed"
      BY <2>1 DEF MatchesRow, MatchRow, TInv, Places
    <3> QED
      BY <1>1, <3>1, TransferStep DEF OwnerSame, MatchesRow, MatchRow
  <2> QED
    BY <1>1, <2>1 DEF OwnerSame, MatchesRow, MatchRow
<1>2. ASSUME NEW o \in Owners, OwnerStep(o)
      PROVE  MatchRow(o)'
  <2>0. /\ pc \in [Procs -> Labels] /\ job \in [Procs -> Jobs] /\ o \in Procs
        /\ job[o] \in Jobs
        /\ transfer \in [Logs -> {"none", "detected", "late", "confirmed"}]
        /\ pc[o] # "rest" => job[o].log \in Logs
        /\ MatchRow(o)
    BY DEF TInv, TypeOK, Procs, Places, MatchesRow
  <2>1. CASE Abort(o)
    BY <2>0, <2>1 DEF Abort, Done, Goto, MatchRow
  <2>2. ASSUME NEW l \in Logs, NEW r \in Requests, StartMatch(o, l, r)
        PROVE  MatchRow(o)'
    <3>1. job' = [job EXCEPT ![o] = [NoJob EXCEPT !.log = l, !.request = r]]
      BY <2>2 DEF StartMatch
    <3>2. job'[o] = [NoJob EXCEPT !.log = l, !.request = r]
      BY <3>1, <2>0, Zenon
    <3>3. ~job'[o].created
      BY <3>2, Zenon DEF NoJob
    <3> QED
      BY <2>0, <2>2, <3>3 DEF StartMatch, Goto, MatchRow
  <2>3. CASE CheckRequest(o)
    BY <2>0, <2>3 DEF CheckRequest, Done, Goto, MatchRow
  <2>4. CASE CheckTransfer(o)
    <3>1. job' = [job EXCEPT ![o].updates = Updates] => ~job'[o].created
      <4>1. job' = [job EXCEPT ![o].updates = Updates] =>
              job'[o] = [job[o] EXCEPT !.updates = Updates]
        BY <2>0, Zenon
      <4>2. ~job[o].created
        BY <2>0, <2>4 DEF CheckTransfer, MatchRow
      <4> QED
        BY <2>0, <4>1, <4>2, Zenon DEF Jobs
    <3> QED
      BY <2>0, <2>4, <3>1 DEF CheckTransfer, Done, Goto, MatchRow
  <2>5. CASE CreateTransfer(o)
    <3>1. job' = [job EXCEPT ![o].created = Created(job[o].log)]
      BY <2>5 DEF CreateTransfer
    <3>2. job'[o] = [job[o] EXCEPT !.created = Created(job[o].log)]
      BY <3>1, <2>0, Zenon
    <3>3. job'[o].created = Created(job[o].log) /\ job'[o].log = job[o].log
      BY <3>2, <2>0, Zenon DEF Jobs
    <3>4. pc'[o] = "update" /\ job[o].log \in Logs
      BY <2>0, <2>5 DEF CreateTransfer, Goto
    <3>5. Created(job[o].log) => transfer'[job[o].log] = "confirmed"
      BY <2>0, <2>5, <3>4 DEF CreateTransfer, InsertTransfer
    <3> QED
      BY <3>3, <3>4, <3>5 DEF MatchRow
  <2>6. ASSUME NEW u \in Updates, Update(o, u)
        PROVE  MatchRow(o)'
    <3>1. CASE Done(o, "rest")
      BY <2>0, <3>1 DEF Done, Goto, MatchRow
    <3>2. CASE ~Done(o, "rest")
      <4>1. /\ job' = [job EXCEPT ![o].updates = job[o].updates \ {u}]
            /\ job[o].updates = {u} => job[o].created
            /\ Goto(o, IF job[o].updates = {u} THEN "announce" ELSE "update")
            /\ pc[o] = "update" /\ transfer' = transfer
        BY <2>6, <3>2 DEF Update
      <4>2. job'[o] = [job[o] EXCEPT !.updates = job[o].updates \ {u}]
        BY <2>0, <4>1, Zenon
      <4>3. job'[o].created = job[o].created /\ job'[o].log = job[o].log
        BY <2>0, <4>2, Zenon DEF Jobs
      <4> QED
        BY <2>0, <4>1, <4>3 DEF Goto, MatchRow
    <3> QED
      BY <3>1, <3>2
  <2>7. CASE AnnounceManual(o)
    BY <2>0, <2>7 DEF AnnounceManual, Done, Goto, MatchRow, transferVars
  <2> QED
    BY <1>2, <2>1, <2>2, <2>3, <2>4, <2>5, <2>6, <2>7 DEF OwnerStep, MatchStep
<1> QED
  BY <1>1, <1>2, Actors, WorkerFrame, OwnerFrame, EnvironmentFrame DEF MatchesRow

LEMMA WorkersRowStep ==
  ASSUME CInv, Next
  PROVE  WorkersRow' /\ Unconfirmed'
<1> DEFINE Goal == WorkersRow' /\ Unconfirmed'
           j == job[Worker]
<1>0. /\ pc \in [Procs -> Labels] /\ job \in [Procs -> Jobs] /\ Worker \in Procs
      /\ job[Worker] \in Jobs
      /\ transfer \in [Logs -> {"none", "detected", "late", "confirmed"}]
      /\ cursor \in Nat /\ to \in Nat
      /\ Places /\ WorkersRow /\ Unconfirmed
  BY DEF CInv, TInv, TypeOK, Procs
<1>1. ASSUME WorkerSame
      PROVE  Goal
  <2>1. ASSUME NEW l \in Logs, transfer[l] # "none"
        PROVE  transfer'[l] = transfer[l]
    <3>1. ~Confirm(l)
      BY <1>0, <1>1 DEF Confirm, Goto, WorkerSame
    <3> QED
      BY <2>1, <3>1, TransferStep
  <2>2. CASE pc[Worker] \notin {"rest", "expire", "scan", "confirm"}
    <3>1. j.log \in Logs /\ (transfer[j.log] # "none" => transfer'[j.log] = transfer[j.log])
      BY <1>0, <2>1, <2>2 DEF Places
    <3>2. WorkersRow'
      BY <1>0, <1>1, <3>1 DEF WorkerSame, WorkersRow
    <3> QED
      BY <1>0, <1>1, <2>1, <3>2 DEF WorkerSame, Unconfirmed, Places
  <2>3. CASE pc[Worker] \in {"rest", "expire", "scan", "confirm"}
    BY <1>0, <1>1, <2>1, <2>3 DEF WorkerSame, WorkersRow, Unconfirmed, Places
  <2> QED
    BY <2>2, <2>3
<1>2. CASE (\E o \in Owners : OwnerStep(o)) \/ Environment
  BY <1>1, <1>2, OwnerFrame, EnvironmentFrame DEF CInv
<1>3. ASSUME NEW lbl, Goto(Worker, lbl)
      PROVE  pc'[Worker] = lbl
  BY <1>0, <1>3 DEF Goto
<1>4. CASE Expire
  BY <1>0, <1>3, <1>4 DEF Expire, WorkersRow, Unconfirmed, ScanLabels
<1>5. ASSUME NEW r \in Requests, AnnounceExpired(r)
      PROVE  Goal
  BY <1>0, <1>5 DEF AnnounceExpired, WorkersRow, Unconfirmed, ScanLabels, transferVars
<1>6. CASE StartScan
  <2>1. CASE UNCHANGED to /\ todo' = Ready /\ Goto(Worker, "confirm")
    BY <1>0, <1>3, <1>6, <2>1 DEF StartScan, Ready, WorkersRow, Unconfirmed, ScanLabels, dbVars, transferVars
  <2>2. CASE to' = ToBlock /\ ToBlock >= FromBlock /\ Goto(Worker, "scan")
    <3>1. to' # 0
      BY <1>0, <2>2 DEF FromBlock
    <3> QED
      BY <1>3, <2>2, <3>1 DEF WorkersRow, Unconfirmed, ScanLabels
  <2> QED
    BY <1>6, <2>1, <2>2 DEF StartScan
<1>7. ASSUME NEW l \in Logs, Lookup(l)
      PROVE  Goal
  <2>1. to' = to /\ to # 0 /\ pc'[Worker] \in {"insert", "sweep_check"}
    BY <1>0, <1>3, <1>7 DEF Lookup, WorkersRow, ScanLabels
  <2> QED
    BY <2>1 DEF WorkersRow, Unconfirmed, ScanLabels
<1>8. CASE Insert
  <2>1. to' = to /\ to # 0 /\ pc'[Worker] \in {"announce", "scan"}
    BY <1>0, <1>3, <1>8 DEF Insert, Done, WorkersRow, ScanLabels
  <2>2. CASE pc'[Worker] = "announce"
    <3>1. job' = job /\ Created(j.log) /\ j.log \in Logs
      BY <1>0, <1>3, <1>8, <2>2 DEF Insert, Done, Places
    <3>2. transfer'[j.log] = IF j.late THEN "late" ELSE "detected"
      BY <1>0, <1>8, <3>1 DEF Insert, InsertTransfer
    <3> QED
      BY <2>1, <2>2, <3>1, <3>2 DEF WorkersRow, Unconfirmed, ScanLabels
  <2> QED
    BY <2>1, <2>2 DEF WorkersRow, Unconfirmed, ScanLabels
<1>9. CASE Announce
  <2>1. /\ to' = to /\ to # 0 /\ transfer' = transfer
        /\ transfer[j.log] = IF j.late THEN "late" ELSE "detected"
        /\ \/ pc'[Worker] = "settle" /\ job' = job /\ j.late
           \/ pc'[Worker] = "scan"
    BY <1>0, <1>3, <1>9 DEF Announce, Done, WorkersRow, ScanLabels, transferVars
  <2> QED
    BY <2>1 DEF WorkersRow, Unconfirmed, ScanLabels
<1>10. CASE Settle
  <2>1. /\ to' = to /\ transfer' = transfer /\ todo' = todo
        /\ pc'[Worker] = IF to = 0 THEN "confirm" ELSE "scan"
    BY <1>0, <1>3, <1>10 DEF Settle, Done, WorkersRow
  <2>2. to = 0 => \A l \in todo : transfer[l] = "detected"
    BY <1>0, <1>10 DEF Settle, Unconfirmed
  <2> QED
    BY <2>1, <2>2 DEF WorkersRow, Unconfirmed, ScanLabels
<1>11. CASE CheckSweep \/ ListOpen \/ RecordReview \/ AnnounceMatch
  <2>1. to' = to /\ to # 0 /\ pc'[Worker] \in {"scan", "list", "record"}
    BY <1>0, <1>3, <1>11 DEF CheckSweep, ListOpen, RecordReview, AnnounceMatch, Done, WorkersRow, ScanLabels
  <2> QED
    BY <2>1 DEF WorkersRow, Unconfirmed, ScanLabels
<1>12. CASE RecordMatch
  <2>1. to' = to /\ to # 0 /\ j.log \in Logs
    BY <1>0, <1>12 DEF RecordMatch, WorkersRow, ScanLabels, Places
  <2>2. CASE Done(Worker, "scan")
    BY <1>3, <2>1, <2>2 DEF Done, WorkersRow, Unconfirmed, ScanLabels
  <2>3. CASE ~Done(Worker, "scan")
    <3>1. PICK r : /\ InsertTransfer(j.log, r, "detected") /\ Created(j.log)
                   /\ job' = [job EXCEPT ![Worker].request = r]
                   /\ Goto(Worker, "mark")
      BY <1>12, <2>3 DEF RecordMatch
    <3>2. transfer'[j.log] = "detected"
      BY <1>0, <2>1, <3>1 DEF InsertTransfer
    <3>3. job'[Worker] = [job[Worker] EXCEPT !.request = r]
      BY <1>0, <3>1, Zenon
    <3>4. job'[Worker].log = j.log
      BY <1>0, <3>3, Zenon DEF Jobs
    <3> QED
      BY <1>3, <2>1, <3>1, <3>2, <3>4 DEF WorkersRow, Unconfirmed, ScanLabels
  <2> QED
    BY <2>2, <2>3
<1>13. CASE Mark \/ SettleMatch
  <2>1. /\ to' = to /\ to # 0 /\ transfer' = transfer /\ job' = job
        /\ transfer[j.log] = "detected"
        /\ pc'[Worker] \in {"settle_match", "announce_match"}
    BY <1>0, <1>3, <1>13 DEF Mark, SettleMatch, WorkersRow, ScanLabels, transferVars
  <2> QED
    BY <2>1 DEF WorkersRow, Unconfirmed, ScanLabels
<1>14. CASE SaveCursor
  BY <1>0, <1>3, <1>14 DEF SaveCursor, Ready, WorkersRow, Unconfirmed, ScanLabels, transferVars
<1>15. ASSUME NEW l \in Logs, Confirm(l)
       PROVE  Goal
  <2>1. /\ to' = to /\ to = 0 /\ todo' = todo \ {l}
        /\ transfer' = [transfer EXCEPT ![l] = "confirmed"]
        /\ pc'[Worker] = "announce_confirmed"
        /\ \A m \in todo : m \in Logs /\ transfer[m] = "detected"
    BY <1>0, <1>3, <1>15 DEF Confirm, WorkersRow, Unconfirmed, Places
  <2>2. job'[Worker].log = l
    <3>1. job' = [job EXCEPT ![Worker] = [NoJob EXCEPT !.log = l]]
      BY <1>15 DEF Confirm
    <3>2. job'[Worker] = [NoJob EXCEPT !.log = l]
      BY <1>0, <3>1, Zenon
    <3> QED
      BY <3>2, Zenon DEF NoJob
  <2> QED
    BY <1>0, <2>1, <2>2 DEF WorkersRow, Unconfirmed, ScanLabels
<1>16. CASE AnnounceConfirmed
  <2>1. /\ to' = to /\ to = 0 /\ todo' = todo /\ transfer' = transfer /\ job' = job
        /\ transfer[j.log] = "confirmed"
        /\ pc'[Worker] = "settle"
        /\ \A m \in todo : transfer[m] = "detected"
    BY <1>0, <1>3, <1>16 DEF AnnounceConfirmed, WorkersRow, Unconfirmed, transferVars
  <2> QED
    BY <2>1 DEF WorkersRow, Unconfirmed, ScanLabels
<1>17. CASE EndTick
  BY <1>0, <1>3, <1>17 DEF EndTick, WorkersRow, Unconfirmed, ScanLabels
<1>18. CASE Abort(Worker)
  BY <1>0, <1>3, <1>18 DEF Abort, Done, WorkersRow, Unconfirmed, ScanLabels
<1> QED
  BY <1>2, <1>4, <1>5, <1>6, <1>7, <1>8, <1>9, <1>10, <1>11, <1>12, <1>13, <1>14, <1>15, <1>16, <1>17,
     <1>18, Actors DEF WorkerStep

LEMMA CreditStep ==
  ASSUME CInv, [Next]_vars
  PROVE  CInv'
<1>1. CASE Next
  BY <1>1, TypeStep, MatchesRowStep, WorkersRowStep DEF CInv
<1>2. CASE UNCHANGED vars
  <2>1. TInv'
    BY <1>2, TypeStep DEF CInv
  <2> QED
    BY <1>2, <2>1 DEF vars, dbVars, transferVars, procVars, CInv, WorkersRow, Unconfirmed, MatchesRow, MatchRow
<1> QED
  BY <1>1, <1>2

LEMMA CreditInvariant == Spec => []CInv
BY CreditInit, CreditStep, PTL DEF Spec

(* A payment credited to a request stays credited to it: neither a rescan    *)
(* nor a manual match moves the transfer to another request, and late and    *)
(* confirmed are final.                                                      *)
THEOREM CreditIsFinalHolds == Spec => CreditIsFinal
<1>1. ASSUME CInv, [Next]_vars
      PROVE  [\A l \in Logs : transfer[l] # "none" =>
               /\ payer'[l] = payer[l]
               /\ transfer[l] # "detected" => transfer'[l] = transfer[l]]_vars
  BY <1>1, TransferStep
<1> QED
  BY <1>1, CreditInvariant, PTL DEF Spec, CreditIsFinal
-------------------------------------------------------------------------------
(***************************************************************************)
(* No payment is lost.  Within the window of a scan, whatever has no row   *)
(* is still on the list or is the log the worker has in hand.              *)
(***************************************************************************)
InHand(l) == job[Worker].log = l /\ pc[Worker] \in {"insert", "sweep_check", "list", "record"}

Window ==
  \A l \in Logs : block[l] \in cursor + 1 .. to => l \in todo \/ InHand(l) \/ Recorded(l)

(* Who writes to treasury_transfers *)
LEMMA ReviewStep ==
  ASSUME Next
  PROVE  \/ reviewVars' = reviewVars
         \/ RecordReview
         \/ \E o \in Owners, u \in Updates : Update(o, u)
BY DEF Next, WorkerStep, Expire, StartScan, SaveCursor, EndTick, AnnounceExpired, Lookup, Confirm,
   Insert, Announce, Settle, CheckSweep, ListOpen, RecordMatch, Mark,
   SettleMatch, AnnounceMatch, AnnounceConfirmed, MatchStep, StartMatch, CheckRequest, CheckTransfer,
   CreateTransfer, AnnounceManual, CreateRequest, Close, NewBlock, Sweep, Deadline, Abort, dbVars

LEMMA ReviewStays ==
  ASSUME TInv, Next, NEW l \in Logs, review[l] # "none"
  PROVE  review'[l] # "none"
<1>0. review \in [Logs -> {"none", "unmatched", "ambiguous", "matched"}]
  BY DEF TInv, TypeOK
<1>1. CASE RecordReview
  BY <1>0, <1>1 DEF RecordReview, InsertReview
<1>2. ASSUME NEW o \in Owners, NEW u \in Updates, Update(o, u)
      PROVE  review'[l] # "none"
  BY <1>0, <1>2 DEF Update, SetReview, reviewVars
<1> QED
  BY <1>1, <1>2, ReviewStep DEF reviewVars

(* A row stays *)
LEMMA RecordedStays ==
  ASSUME CInv, Next, NEW l \in Logs, Recorded(l)
  PROVE  Recorded(l)'
<1>1. transfer[l] # "none" => transfer'[l] # "none"
  BY TransferStep
<1>2. swept \subseteq swept'
  BY DEF Next, WorkerStep, Expire, StartScan, SaveCursor, EndTick, AnnounceExpired, Lookup, Confirm,
     Insert, Announce, Settle, CheckSweep, ListOpen, RecordReview, RecordMatch, Mark,
     SettleMatch, AnnounceMatch, AnnounceConfirmed, MatchStep, StartMatch, CheckRequest, CheckTransfer,
     CreateTransfer, Update, AnnounceManual, CreateRequest, Close, NewBlock, Sweep, Deadline, Abort, dbVars
<1>3. review[l] # "none" => review'[l] # "none"
  BY ReviewStays DEF CInv
<1> QED
  BY <1>1, <1>2, <1>3 DEF Recorded

LEMMA WindowStep ==
  ASSUME CInv, Window, Next
  PROVE  Window'
<1>0. /\ pc \in [Procs -> Labels] /\ job \in [Procs -> Jobs] /\ Worker \in Procs
      /\ job[Worker] \in Jobs
      /\ block \in [Logs -> 0 .. head] /\ head \in Nat /\ cursor \in 0 .. head /\ to \in 0 .. head
      /\ transfer \in [Logs -> {"none", "detected", "late", "confirmed"}]
      /\ review \in [Logs -> {"none", "unmatched", "ambiguous", "matched"}]
      /\ Places /\ WorkersRow
  BY DEF CInv, TInv, TypeOK, Procs
<1>1. ASSUME NEW lbl, Goto(Worker, lbl)
      PROVE  pc'[Worker] = lbl
  BY <1>0, <1>1 DEF Goto
<1>2. ASSUME UNCHANGED <<cursor, to>>, \A l \in Logs : block'[l] # block[l] => block'[l] = head + 1,
             \A l \in Logs : l \in todo \/ InHand(l) => l \in todo' \/ InHand(l)' \/ Recorded(l)'
      PROVE  Window'
  <2> SUFFICES ASSUME NEW l \in Logs, block'[l] \in cursor + 1 .. to
               PROVE  l \in todo' \/ InHand(l)' \/ Recorded(l)'
    BY <1>2 DEF Window
  <2>1. block[l] = block'[l]
    BY <1>0, <1>2
  <2>2. CASE Recorded(l)
    BY <2>2, RecordedStays
  <2> QED
    BY <1>2, <2>1, <2>2 DEF Window
<1>3. ASSUME to' = 0
      PROVE  Window'
  <2>1. cursor' \in Nat
    BY TypeStep DEF CInv, TInv, TypeOK
  <2> QED
    BY <1>3, <2>1 DEF Window
<1>4. CASE to = 0 /\ to' = to
  BY <1>3, <1>4
<1>5. ASSUME WorkerSame, \A l \in Logs : block'[l] # block[l] => block'[l] = head + 1
      PROVE  Window'
  BY <1>2, <1>5 DEF WorkerSame, InHand
<1>6. ASSUME NEW o \in Owners, OwnerStep(o)
      PROVE  Window'
  <2>1. block' = block
    BY <1>6, DepositsAssumption DEF OwnerStep, MatchStep, StartMatch, CheckRequest, CheckTransfer, CreateTransfer,
       Update, AnnounceManual, Abort, chainVars
  <2> QED
    BY <1>5, <1>6, <2>1, OwnerFrame DEF CInv
<1>7. CASE Environment
  <2>1. \A l \in Logs : block'[l] # block[l] => block'[l] = head + 1
    BY <1>0, <1>7 DEF Environment, NewBlock, Sweep, CreateRequest, Close, Deadline, chainVars
  <2> QED
    BY <1>5, <1>7, <2>1, EnvironmentFrame
<1>8. CASE Expire \/ (\E r \in Requests : AnnounceExpired(r)) \/ EndTick \/ AnnounceConfirmed
           \/ \E l \in Logs : Confirm(l)
  <2>1. to = 0 /\ to' = to
    BY <1>0, <1>8 DEF Expire, AnnounceExpired, EndTick, AnnounceConfirmed, Confirm, WorkersRow
  <2> QED
    BY <2>1, <1>4
<1>9. CASE SaveCursor \/ Abort(Worker)
  BY <1>3, <1>9 DEF SaveCursor, Abort
<1>10. CASE StartScan
  <2>1. CASE UNCHANGED to
    BY <1>0, <1>4, <1>10, <2>1 DEF StartScan, WorkersRow
  <2>2. CASE to' = ToBlock /\ todo' = TransferLogs(FromBlock, ToBlock)
    BY <1>10, <2>2 DEF StartScan, TransferLogs, FromBlock, Window, chainVars, dbVars
  <2> QED
    BY <1>10, <2>1, <2>2 DEF StartScan
<1>11. ASSUME NEW l \in Logs, Lookup(l)
       PROVE  Window'
  <2>1. UNCHANGED <<cursor, to, block>> /\ todo' = todo \ {l} /\ pc[Worker] = "scan"
    BY <1>11 DEF Lookup, chainVars, dbVars
  <2>2. InHand(l)'
    <3>1. CASE /\ job' = [job EXCEPT ![Worker] = [NoJob EXCEPT !.log = l]]
               /\ Goto(Worker, "sweep_check")
      <4>1. job'[Worker] = [NoJob EXCEPT !.log = l]
        BY <1>0, <3>1, Zenon
      <4>2. job'[Worker].log = l
        BY <4>1, Zenon DEF NoJob
      <4> QED
        BY <1>1, <3>1, <4>2 DEF InHand
    <3>2. ASSUME NEW r \in Holders(Recipient[l]),
                 job' = [job EXCEPT ![Worker] =
                          [NoJob EXCEPT !.log = l, !.request = r, !.late = IsLate(r)]],
                 Goto(Worker, "insert")
          PROVE  InHand(l)'
      <4>1. job'[Worker] = [NoJob EXCEPT !.log = l, !.request = r, !.late = IsLate(r)]
        BY <1>0, <3>2, Zenon
      <4>2. job'[Worker].log = l
        BY <4>1, Zenon DEF NoJob
      <4> QED
        BY <1>1, <3>2, <4>2 DEF InHand
    <3> QED
      BY <1>11, <3>1, <3>2 DEF Lookup
  <2> QED
    BY <1>2, <2>1, <2>2 DEF InHand
<1>12. ASSUME Announce \/ Settle \/ Mark \/ SettleMatch \/ AnnounceMatch
       PROVE  Window'
  <2>1. /\ UNCHANGED <<cursor, to, block, todo>>
        /\ pc[Worker] \notin {"insert", "sweep_check", "list", "record"}
    BY <1>12 DEF Announce, Settle, Mark, SettleMatch, AnnounceMatch, chainVars
  <2> QED
    BY <1>2, <2>1 DEF InHand
<1>13. ASSUME Insert \/ CheckSweep \/ ListOpen \/ RecordReview \/ RecordMatch
       PROVE  Window'
  <2>1. /\ UNCHANGED <<cursor, to, block, todo>>
        /\ job[Worker].log \in Logs
    BY <1>0, <1>13 DEF Insert, CheckSweep, ListOpen, RecordReview, RecordMatch, chainVars, dbVars, Places
  <2>2. ASSUME NEW l \in Logs, l = job[Worker].log
        PROVE  InHand(l)' \/ Recorded(l)'
    <3>1. CASE Insert \/ RecordMatch
      BY <1>0, <2>2, <3>1 DEF Insert, RecordMatch, InsertTransfer, Created, Recorded
    <3>2. CASE RecordReview
      BY <1>0, <2>2, <3>2 DEF RecordReview, InsertReview, Recorded
    <3>3. CASE ListOpen
      <4>1. job'[Worker] = [job[Worker] EXCEPT !.found = Candidates(job[Worker].log)]
        BY <1>0, <3>3, Zenon DEF ListOpen
      <4>2. job'[Worker].log = job[Worker].log
        BY <1>0, <4>1, Zenon DEF Jobs
      <4> QED
        BY <1>1, <2>2, <3>3, <4>2 DEF ListOpen, InHand
    <3>4. CASE CheckSweep
      BY <1>1, <2>2, <3>4 DEF CheckSweep, Recorded, InHand, dbVars
    <3> QED
      BY <1>13, <3>1, <3>2, <3>3, <3>4
  <2>3. \A l \in Logs : InHand(l) => InHand(l)' \/ Recorded(l)'
    BY <2>2 DEF InHand
  <2> QED
    BY <1>2, <2>1, <2>3
<1> QED
  BY <1>6, <1>7, <1>8, <1>9, <1>10, <1>11, <1>12, <1>13, Actors DEF WorkerStep

LEMMA NothingLostStep ==
  ASSUME CInv, Window, NothingLost, Next
  PROVE  NothingLost'
<1>0. /\ block \in [Logs -> 0 .. head] /\ head \in Nat /\ cursor \in 0 .. head /\ to \in 0 .. head
  BY DEF CInv, TInv, TypeOK
<1>1. \A l \in Logs : block'[l] # block[l] => block'[l] = head + 1
  BY <1>0 DEF Next, WorkerStep, Expire, StartScan, SaveCursor, EndTick, AnnounceExpired, Lookup, Confirm,
     Insert, Announce, Settle, CheckSweep, ListOpen, RecordReview, RecordMatch, Mark,
     SettleMatch, AnnounceMatch, AnnounceConfirmed, MatchStep, StartMatch, CheckRequest, CheckTransfer,
     CreateTransfer, Update, AnnounceManual, CreateRequest, Close, NewBlock, Sweep, Deadline, Abort,
     chainVars
<1>2. CASE cursor' = cursor
  BY <1>0, <1>1, <1>2, RecordedStays DEF NothingLost
<1>3. CASE SaveCursor
  <2>1. block' = block /\ cursor' = to /\ todo = {} /\ pc[Worker] = "scan"
    BY <1>3 DEF SaveCursor, chainVars
  <2>2. ASSUME NEW l \in Logs, block[l] \in 1 .. to
        PROVE  Recorded(l)
    BY <1>0, <2>1, <2>2 DEF Window, InHand, NothingLost
  <2> QED
    BY <2>1, <2>2, RecordedStays DEF NothingLost
<1>4. cursor' = cursor \/ SaveCursor
  BY DEF Next, WorkerStep, Expire, StartScan, EndTick, AnnounceExpired, Lookup, Confirm,
     Insert, Announce, Settle, CheckSweep, ListOpen, RecordReview, RecordMatch, Mark,
     SettleMatch, AnnounceMatch, AnnounceConfirmed, MatchStep, StartMatch, CheckRequest, CheckTransfer,
     CreateTransfer, Update, AnnounceManual, CreateRequest, Close, NewBlock, Sweep, Deadline, Abort, dbVars
<1> QED
  BY <1>2, <1>3, <1>4

LEMMA WindowInvariant == Spec => [](Window /\ NothingLost)
<1>1. Init => Window /\ NothingLost
  BY DEF Init, Window, NothingLost
<1>2. ASSUME CInv, Window, NothingLost, [Next]_vars
      PROVE  Window' /\ NothingLost'
  <2>1. CASE UNCHANGED vars
    BY <1>2, <2>1 DEF vars, chainVars, dbVars, transferVars, reviewVars, procVars, Window, NothingLost,
                      InHand, Recorded
  <2> QED
    BY <1>2, <2>1, WindowStep, NothingLostStep
<1> QED
  BY <1>1, <1>2, CreditInvariant, PTL DEF Spec

(* No payment is lost: whatever the cursor has passed has a token transfer,  *)
(* waits for review, or is a sweep of ours, although the worker may die      *)
(* between any two statements and scans the window again.                    *)
THEOREM NothingLostHolds == Spec => []NothingLost
BY WindowInvariant, PTL
-------------------------------------------------------------------------------
(***************************************************************************)
(* Callbacks.  Whoever made or confirmed the row of a transfer owes its    *)
(* callback; of each callback there is one debtor at most, and no event.   *)
(***************************************************************************)
OwesDetection(p) ==
  \/ p = Worker /\ pc[p] \in {"announce", "mark", "settle_match", "announce_match"}
  \/ p \in Owners /\ pc[p] \in {"update", "announce"} /\ job[p].created

OwesConfirmation(p) ==
  \/ p = Worker /\ pc[p] = "announce_confirmed"
  \/ p \in Owners /\ pc[p] \in {"update", "announce", "announce_confirmed"} /\ job[p].created

DetectionOwed ==
  \A p \in Procs : OwesDetection(p) =>
    /\ Event("transfer.detected", job[p].log) \notin outbox
    /\ Event("deposit.late_detected", job[p].log) \notin outbox
    /\ \A q \in Procs \ {p} : OwesDetection(q) => job[q].log # job[p].log

ConfirmationOwed ==
  \A p \in Procs : OwesConfirmation(p) =>
    /\ Event("deposit.confirmed", job[p].log) \notin outbox
    /\ \A q \in Procs \ {p} : OwesConfirmation(q) => job[q].log # job[p].log

ExpiryOwed ==
  pc[Worker] = "expire" =>
    \A r \in todo : request[r] \in {"expired", "completed"} /\ Event("expired", r) \notin outbox

AInv == CInv /\ AnnouncementsStayTrue /\ ExpiryOwed /\ DetectionOwed /\ ConfirmationOwed

LEMMA EventFields ==
  ASSUME NEW t, NEW x
  PROVE  /\ Event(t, x).type = t /\ Event(t, x).subject = x
         /\ \A u, y : Event(t, x) = Event(u, y) => t = u /\ x = y
BY DEF Event

(* A request that was reported expired stays expired or is matched *)
LEMMA ExpiredStays ==
  ASSUME TInv, Next, NEW r \in Requests, request[r] \in {"expired", "completed"}
  PROVE  request'[r] \in {"expired", "completed"}
<1>0. request \in [Requests -> {"none", "active", "expired", "closed", "completed"}]
  BY DEF TInv, TypeOK
<1>1. ASSUME NEW s, NEW l, MarkMatched(s, l)
      PROVE  request'[r] \in {"expired", "completed"}
  BY <1>0, <1>1 DEF MarkMatched
<1>2. CASE Expire
  BY <1>0, <1>2 DEF Expire, Expiring
<1>3. ASSUME NEW s \in Requests, CreateRequest(s) \/ Close(s)
      PROVE  request'[r] \in {"expired", "completed"}
  BY <1>0, <1>3 DEF CreateRequest, Close
<1>4. CASE Mark
  BY <1>1, <1>4 DEF Mark
<1>5. ASSUME NEW o \in Owners, NEW u \in Updates, Update(o, u)
      PROVE  request'[r] \in {"expired", "completed"}
  BY <1>1, <1>5 DEF Update, requestVars
<1>6. \/ UNCHANGED request
      \/ Expire \/ Mark
      \/ \E s \in Requests : CreateRequest(s) \/ Close(s)
      \/ \E o \in Owners, u \in Updates : Update(o, u)
  BY DEF Next, WorkerStep, StartScan, SaveCursor, EndTick, AnnounceExpired, Lookup, Confirm,
     Insert, Announce, Settle, CheckSweep, ListOpen, RecordReview, RecordMatch,
     SettleMatch, AnnounceMatch, AnnounceConfirmed, MatchStep, StartMatch, CheckRequest, CheckTransfer,
     CreateTransfer, AnnounceManual, NewBlock, Sweep, Deadline, Abort, dbVars, requestVars
<1> QED
  BY <1>2, <1>3, <1>4, <1>5, <1>6

(* What a step can add to the outbox *)
LEMMA OutboxStep ==
  ASSUME CInv, Next, NEW e \in outbox', e \notin outbox
  PROVE  \/ \E r \in Requests : AnnounceExpired(r) /\ e = Event("expired", r)
         \/ /\ Announce /\ job[Worker].late
            /\ e = Event("deposit.late_detected", job[Worker].log)
         \/ /\ Announce /\ ~job[Worker].late
            /\ e = Event("transfer.detected", job[Worker].log)
         \/ AnnounceMatch /\ e = Event("transfer.detected", job[Worker].log)
         \/ AnnounceConfirmed /\ e = Event("deposit.confirmed", job[Worker].log)
         \/ \E o \in Owners :
              /\ AnnounceManual(o) /\ pc[o] = "announce" /\ pc'[o] = "announce_confirmed"
              /\ e = Event("transfer.detected", job[o].log)
         \/ \E o \in Owners :
              /\ AnnounceManual(o) /\ pc[o] = "announce_confirmed" /\ pc'[o] = "rest"
              /\ e = Event("deposit.confirmed", job[o].log)
<1>0. pc \in [Procs -> Labels] /\ Owners \subseteq Procs
  BY DEF CInv, TInv, TypeOK, Procs
<1>1. \/ \E r \in Requests : AnnounceExpired(r)
      \/ Announce \/ AnnounceMatch \/ AnnounceConfirmed
      \/ \E o \in Owners : AnnounceManual(o)
  BY DEF Next, WorkerStep, Expire, StartScan, SaveCursor, EndTick, Lookup, Confirm,
     Insert, Settle, CheckSweep, ListOpen, RecordReview, RecordMatch, Mark,
     SettleMatch, MatchStep, StartMatch, CheckRequest, CheckTransfer,
     CreateTransfer, Update, CreateRequest, Close, NewBlock, Sweep, Deadline, Abort, dbVars
<1>2. CASE \E r \in Requests : AnnounceExpired(r)
  BY <1>2 DEF AnnounceExpired, Enqueue
<1>3. CASE Announce
  BY <1>3 DEF Announce, Enqueue
<1>4. CASE AnnounceMatch
  BY <1>4 DEF AnnounceMatch, Enqueue
<1>5. CASE AnnounceConfirmed
  BY <1>5 DEF AnnounceConfirmed, Enqueue
<1>6. CASE \E o \in Owners : AnnounceManual(o)
  BY <1>0, <1>6 DEF AnnounceManual, Enqueue, Goto, Done
<1> QED
  BY <1>1, <1>2, <1>3, <1>4, <1>5, <1>6

(* What a debtor works on has a row of the right status *)
LEMMA DebtorsRow ==
  ASSUME CInv, NEW p \in Procs
  PROVE  /\ OwesDetection(p) => /\ job[p].log \in Logs /\ transfer[job[p].log] # "none"
                                /\ (p \in Owners => transfer[job[p].log] = "confirmed")
         /\ OwesConfirmation(p) => job[p].log \in Logs /\ transfer[job[p].log] = "confirmed"
BY DepositsAssumption DEF CInv, TInv, Places, WorkersRow, MatchesRow, MatchRow,
   OwesDetection, OwesConfirmation, Procs

LEMMA TruthStep ==
  ASSUME CInv, AnnouncementsStayTrue, ExpiryOwed, Next
  PROVE  AnnouncementsStayTrue'
<1> DEFINE True(e) ==
      /\ e.type = "expired" => request'[e.subject] \in {"expired", "completed"}
      /\ e.type = "transfer.detected" => transfer'[e.subject] \in {"detected", "confirmed"}
      /\ e.type = "deposit.late_detected" => transfer'[e.subject] = "late"
      /\ e.type = "deposit.confirmed" => transfer'[e.subject] = "confirmed"
<1>1. ASSUME NEW e \in outbox
      PROVE  True(e)
  <2>1. CASE e.type = "expired"
    <3>1. e.subject \in Requests
      BY <2>1 DEF CInv, TInv, TypeOK, Events
    <3> QED
      BY <2>1, <3>1, ExpiredStays DEF AnnouncementsStayTrue, CInv
  <2>2. CASE e.type # "expired"
    <3>1. e.subject \in Logs
      BY <2>2 DEF CInv, TInv, TypeOK, Events
    <3> QED
      BY <2>2, <3>1, TransferStep DEF AnnouncementsStayTrue
  <2> QED
    BY <2>1, <2>2
<1>2. ASSUME NEW e \in outbox', e \notin outbox
      PROVE  True(e)
  <2>0. ASSUME NEW l \in Logs, transfer[l] # "none", ~Confirm(l)
        PROVE  transfer'[l] = transfer[l]
    BY <2>0, TransferStep
  <2>1. ASSUME NEW r \in Requests, AnnounceExpired(r), e = Event("expired", r)
        PROVE  True(e)
    BY <2>1, EventFields DEF AnnounceExpired, ExpiryOwed, requestVars
  <2>2. CASE Announce /\ e = Event(IF job[Worker].late THEN "deposit.late_detected"
                                   ELSE "transfer.detected", job[Worker].log)
    BY <2>2, EventFields DEF Announce, transferVars, CInv, WorkersRow
  <2>3. CASE AnnounceMatch /\ e = Event("transfer.detected", job[Worker].log)
    BY <2>3, EventFields DEF AnnounceMatch, transferVars, CInv, WorkersRow
  <2>4. CASE AnnounceConfirmed /\ e = Event("deposit.confirmed", job[Worker].log)
    BY <2>4, EventFields DEF AnnounceConfirmed, transferVars, CInv, WorkersRow
  <2>5. ASSUME NEW o \in Owners, AnnounceManual(o),
               \/ e = Event("transfer.detected", job[o].log)
               \/ e = Event("deposit.confirmed", job[o].log)
        PROVE  True(e)
    BY <2>5, EventFields DEF AnnounceManual, transferVars, CInv, MatchesRow, MatchRow
  <2> QED
    BY <1>2, <2>1, <2>2, <2>3, <2>4, <2>5, OutboxStep
<1> QED
  BY <1>1, <1>2 DEF AnnouncementsStayTrue

LEMMA ExpiryOwedStep ==
  ASSUME CInv, AnnouncementsStayTrue, ExpiryOwed, Next
  PROVE  ExpiryOwed'
<1>0. /\ pc \in [Procs -> Labels] /\ Worker \in Procs /\ Places
      /\ request \in [Requests -> {"none", "active", "expired", "closed", "completed"}]
  BY DEF CInv, TInv, TypeOK, Procs
<1>1. CASE Expire
  <2>1. /\ todo' = Expiring /\ outbox' = outbox
        /\ \A r \in Expiring : r \in Requests /\ request[r] = "active" /\ request'[r] = "expired"
    BY <1>1 DEF Expire, Expiring
  <2>2. \A r \in Expiring : Event("expired", r) \notin outbox
    BY <2>1, EventFields DEF AnnouncementsStayTrue
  <2> QED
    BY <2>1, <2>2 DEF ExpiryOwed
<1>2. ASSUME NEW x \in Requests, AnnounceExpired(x)
      PROVE  ExpiryOwed'
  BY <1>2, EventFields DEF AnnounceExpired, ExpiryOwed, Enqueue, requestVars
<1>3. CASE WorkerSame
  <2> SUFFICES ASSUME pc[Worker] = "expire", NEW r \in todo
               PROVE  request'[r] \in {"expired", "completed"} /\ Event("expired", r) \notin outbox'
    BY <1>3 DEF ExpiryOwed, WorkerSame
  <2>1. r \in Requests /\ request[r] \in {"expired", "completed"} /\ Event("expired", r) \notin outbox
    BY <1>0 DEF Places, ExpiryOwed
  <2>2. request'[r] \in {"expired", "completed"}
    BY <2>1, ExpiredStays DEF CInv
  <2>3. ASSUME Event("expired", r) \in outbox'
        PROVE  FALSE
    <3>1. \/ AnnounceExpired(r)
          \/ \E t \in {"deposit.late_detected", "transfer.detected", "deposit.confirmed"} : \E l :
               Event("expired", r) = Event(t, l)
      BY <2>1, <2>3, OutboxStep, EventFields
    <3>2. AnnounceExpired(r)
      BY <3>1, EventFields
    <3> QED
      BY <1>3, <3>2 DEF AnnounceExpired, WorkerSame
  <2> QED
    BY <2>2, <2>3
<1>4. CASE (\E o \in Owners : OwnerStep(o)) \/ Environment
  BY <1>3, <1>4, OwnerFrame, EnvironmentFrame DEF CInv
<1>5. ASSUME NEW lbl \in Labels \ {"expire"}, Goto(Worker, lbl)
      PROVE  ExpiryOwed'
  BY <1>0, <1>5 DEF Goto, ExpiryOwed
<1>6. CASE Abort(Worker)
  BY <1>5, <1>6 DEF Abort, Done, Labels
<1>7. ASSUME WorkerStep, ~Expire, \A r \in Requests : ~AnnounceExpired(r)
      PROVE  \E lbl \in Labels \ {"expire"} : Goto(Worker, lbl)
  BY <1>7 DEF WorkerStep, StartScan, SaveCursor, EndTick, Lookup, Confirm, Insert, Announce, Settle,
     CheckSweep, ListOpen, RecordReview, RecordMatch, Mark, SettleMatch, AnnounceMatch,
     AnnounceConfirmed, Done, Labels
<1> QED
  BY <1>1, <1>2, <1>4, <1>5, <1>6, <1>7, Actors DEF WorkerStep

(* Where debts come from: a debtor owed already, or made or confirmed the *)
(* row with this step, alone.                                             *)
LEMMA DebtStep ==
  ASSUME CInv, Next, NEW p \in Procs
  PROVE  /\ OwesDetection(p)' =>
              \/ OwesDetection(p) /\ job'[p].log = job[p].log
              \/ /\ transfer[job'[p].log] = "none"
                 /\ \A q \in Procs \ {p} : OwnerSame(q)
         /\ OwesConfirmation(p)' =>
              \/ OwesConfirmation(p) /\ job'[p].log = job[p].log
              \/ /\ transfer[job'[p].log] \in {"none", "detected"}
                 /\ \A q \in Procs \ {p} : OwnerSame(q)
<1> DEFINE Goal == /\ OwesDetection(p)' =>
                        \/ OwesDetection(p) /\ job'[p].log = job[p].log
                        \/ /\ transfer[job'[p].log] = "none"
                           /\ \A q \in Procs \ {p} : OwnerSame(q)
                   /\ OwesConfirmation(p)' =>
                        \/ OwesConfirmation(p) /\ job'[p].log = job[p].log
                        \/ /\ transfer[job'[p].log] \in {"none", "detected"}
                           /\ \A q \in Procs \ {p} : OwnerSame(q)
<1>0. /\ pc \in [Procs -> Labels] /\ job \in [Procs -> Jobs]
      /\ Procs = {Worker} \union Owners /\ Worker \notin Owners
      /\ \A q \in Procs : job[q] \in Jobs
      /\ TInv /\ WorkersRow /\ Unconfirmed /\ MatchesRow
  BY DepositsAssumption DEF CInv, TInv, TypeOK, Procs
<1>1. CASE OwnerSame(p)
  BY <1>0, <1>1 DEF OwnerSame, OwesDetection, OwesConfirmation
<1>2. ASSUME p = Worker, WorkerStep \/ Abort(Worker)
      PROVE  Goal
  <2>0. \A q \in Procs \ {p} : OwnerSame(q)
    BY <1>0, <1>2, WorkerFrame
  <2>1. ASSUME NEW lbl, Goto(Worker, lbl)
        PROVE  pc'[Worker] = lbl
    BY <1>0, <2>1 DEF Goto
  <2>2. ASSUME NEW lbl \in {"rest", "expire", "scan", "insert", "settle", "sweep_check", "list",
                            "record", "confirm"}, Goto(Worker, lbl)
        PROVE  Goal
    BY <1>0, <1>2, <2>1, <2>2 DEF OwesDetection, OwesConfirmation
  <2>3. ASSUME Expire \/ StartScan \/ SaveCursor \/ EndTick \/ (\E l \in Logs : Lookup(l)) \/ Announce
               \/ Settle \/ CheckSweep \/ ListOpen \/ RecordReview \/ AnnounceMatch \/ AnnounceConfirmed
               \/ Abort(Worker)
        PROVE  \E lbl \in {"rest", "expire", "scan", "insert", "settle", "sweep_check", "list",
                           "record", "confirm"} : Goto(Worker, lbl)
    BY <1>0, <2>3 DEF WorkersRow, Expire, StartScan, SaveCursor, EndTick, Lookup, Announce, Settle, CheckSweep,
       ListOpen, RecordReview, AnnounceMatch, AnnounceConfirmed, Abort, Done
  <2>4. ASSUME NEW r \in Requests, AnnounceExpired(r)
        PROVE  Goal
    BY <1>0, <1>2, <2>4 DEF AnnounceExpired, OwesDetection, OwesConfirmation
  <2>5. CASE Insert \/ RecordMatch
    <3>1. CASE Done(Worker, "scan")
      BY <2>2, <3>1 DEF Done
    <3>2. CASE ~Done(Worker, "scan")
      <4>1. /\ Created(job[Worker].log) /\ pc'[Worker] \in {"announce", "mark"}
            /\ \/ job' = job
               \/ \E r : job' = [job EXCEPT ![Worker].request = r]
        BY <2>1, <2>5, <3>2 DEF Insert, RecordMatch
      <4>2. job'[Worker].log = job[Worker].log
        <5>1. ASSUME NEW r, job' = [job EXCEPT ![Worker].request = r]
              PROVE  job'[Worker].log = job[Worker].log
          <6>1. job'[Worker] = [job[Worker] EXCEPT !.request = r]
            BY <1>0, <5>1, Zenon
          <6> QED
            BY <1>0, <6>1, Zenon DEF Jobs
        <5> QED
          BY <4>1, <5>1
      <4> QED
        BY <1>0, <1>2, <2>0, <4>1, <4>2 DEF Created, OwesConfirmation
    <3> QED
      BY <3>1, <3>2
  <2>6. CASE Mark \/ SettleMatch
    BY <1>0, <1>2, <2>1, <2>6 DEF Mark, SettleMatch, OwesDetection, OwesConfirmation
  <2>7. ASSUME NEW l \in Logs, Confirm(l)
        PROVE  Goal
    <3>1. transfer[l] = "detected" /\ pc'[Worker] = "announce_confirmed"
      BY <1>0, <2>1, <2>7 DEF Confirm, Unconfirmed, WorkersRow
    <3>2. job'[Worker].log = l
      <4>1. job' = [job EXCEPT ![Worker] = [NoJob EXCEPT !.log = l]]
        BY <2>7 DEF Confirm
      <4>2. job'[Worker] = [NoJob EXCEPT !.log = l]
        BY <1>0, <4>1, Zenon
      <4> QED
        BY <4>2, Zenon DEF NoJob
    <3> QED
      BY <1>0, <1>2, <2>0, <3>1, <3>2 DEF OwesDetection
  <2> QED
    BY <1>2, <2>2, <2>3, <2>4, <2>5, <2>6, <2>7 DEF WorkerStep
<1>3. ASSUME p \in Owners, OwnerStep(p)
      PROVE  Goal
  <2>0. \A q \in Procs \ {p} : OwnerSame(q)
    BY <1>0, <1>3, OwnerFrame DEF OwnerSame, WorkerSame
  <2>1. ASSUME NEW lbl, Goto(p, lbl)
        PROVE  pc'[p] = lbl
    BY <1>0, <2>1 DEF Goto
  <2>2. ASSUME NEW lbl \in {"rest", "check_request", "check_transfer", "create"}, Goto(p, lbl)
        PROVE  Goal
    BY <1>0, <1>3, <2>1, <2>2 DEF OwesDetection, OwesConfirmation
  <2>3. CASE CheckRequest(p) \/ Abort(p) \/ \E l \in Logs, r \in Requests : StartMatch(p, l, r)
    BY <2>2, <2>3 DEF CheckRequest, Abort, StartMatch, Done
  <2>4. CASE CheckTransfer(p)
    <3>1. CASE Done(p, "rest")
      BY <2>2, <3>1 DEF Done
    <3>2. CASE ~Done(p, "rest")
      <4>1. job' = [job EXCEPT ![p].updates = Updates]
        BY <2>4, <3>2 DEF CheckTransfer
      <4>2. job'[p] = [job[p] EXCEPT !.updates = Updates]
        BY <1>0, <4>1, Zenon
      <4>3. job'[p].created = job[p].created
        BY <1>0, <4>2, Zenon DEF Jobs
      <4>4. ~job[p].created
        BY <1>0, <1>3, <2>4 DEF CheckTransfer, MatchesRow, MatchRow
      <4> QED
        BY <1>0, <1>3, <4>3, <4>4 DEF OwesDetection, OwesConfirmation
    <3> QED
      BY <3>1, <3>2
  <2>5. CASE CreateTransfer(p)
    <3>1. job' = [job EXCEPT ![p].created = Created(job[p].log)]
      BY <2>5 DEF CreateTransfer
    <3>2. job'[p] = [job[p] EXCEPT !.created = Created(job[p].log)]
      BY <3>1, <1>0, Zenon
    <3>3. job'[p].created = Created(job[p].log) /\ job'[p].log = job[p].log
      BY <3>2, <1>0, Zenon DEF Jobs
    <3> QED
      BY <1>0, <1>3, <2>0, <3>3 DEF Created, OwesDetection, OwesConfirmation
  <2>6. ASSUME NEW u \in Updates, Update(p, u)
        PROVE  Goal
    <3>1. CASE Done(p, "rest")
      BY <2>2, <3>1 DEF Done
    <3>2. CASE ~Done(p, "rest")
      <4>1. /\ job' = [job EXCEPT ![p].updates = job[p].updates \ {u}]
            /\ pc[p] = "update" /\ pc'[p] \in {"announce", "update"}
        BY <2>1, <2>6, <3>2 DEF Update
      <4>2. job'[p] = [job[p] EXCEPT !.updates = job[p].updates \ {u}]
        BY <1>0, <4>1, Zenon
      <4>3. job'[p].created = job[p].created /\ job'[p].log = job[p].log
        BY <1>0, <4>2, Zenon DEF Jobs
      <4> QED
        BY <1>0, <1>3, <4>1, <4>3 DEF OwesDetection, OwesConfirmation
    <3> QED
      BY <3>1, <3>2
  <2>7. CASE AnnounceManual(p)
    <3>1. CASE Done(p, "rest")
      BY <2>2, <3>1 DEF Done
    <3>2. CASE ~Done(p, "rest")
      BY <1>0, <1>3, <2>1, <2>7, <3>2 DEF AnnounceManual, OwesDetection, OwesConfirmation
    <3> QED
      BY <3>1, <3>2
  <2> QED
    BY <1>3, <2>3, <2>4, <2>5, <2>6, <2>7 DEF OwnerStep, MatchStep
<1>4. CASE p = Worker
  <2>1. WorkerSame => OwnerSame(p)
    BY <1>4 DEF WorkerSame, OwnerSame
  <2> QED
    BY <1>0, <1>1, <1>2, <1>4, <2>1, Actors, OwnerFrame, EnvironmentFrame
<1>5. CASE p \in Owners
  BY <1>0, <1>1, <1>3, <1>5, Actors, WorkerFrame, OwnerFrame, EnvironmentFrame
<1> QED
  BY <1>0, <1>4, <1>5

(* ... and where they go: an event is its debtor's, who owes no more *)
LEMMA PaidStep ==
  ASSUME CInv, Next, NEW l
  PROVE  /\ \A t \in {"transfer.detected", "deposit.late_detected"} :
              Event(t, l) \in outbox' /\ Event(t, l) \notin outbox =>
                \E p \in Procs : OwesDetection(p) /\ ~OwesDetection(p)' /\ job[p].log = l
         /\ Event("deposit.confirmed", l) \in outbox' /\ Event("deposit.confirmed", l) \notin outbox =>
              \E p \in Procs : OwesConfirmation(p) /\ ~OwesConfirmation(p)' /\ job[p].log = l
<1>0. /\ pc \in [Procs -> Labels] /\ Worker \in Procs /\ Owners \subseteq Procs /\ Worker \notin Owners
      /\ MatchesRow
  BY DepositsAssumption DEF CInv, TInv, TypeOK, Procs
<1>1. ASSUME Announce \/ AnnounceMatch
      PROVE  OwesDetection(Worker) /\ ~OwesDetection(Worker)'
  BY <1>0, <1>1 DEF Announce, AnnounceMatch, Goto, Done, OwesDetection
<1>2. ASSUME AnnounceConfirmed
      PROVE  OwesConfirmation(Worker) /\ ~OwesConfirmation(Worker)'
  BY <1>0, <1>2 DEF AnnounceConfirmed, Goto, OwesConfirmation
<1>3. ASSUME NEW o \in Owners, AnnounceManual(o), pc[o] = "announce", pc'[o] = "announce_confirmed"
      PROVE  OwesDetection(o) /\ ~OwesDetection(o)'
  BY <1>0, <1>3 DEF OwesDetection, MatchesRow, MatchRow
<1>4. ASSUME NEW o \in Owners, AnnounceManual(o), pc[o] = "announce_confirmed", pc'[o] = "rest"
      PROVE  OwesConfirmation(o) /\ ~OwesConfirmation(o)'
  BY <1>0, <1>4 DEF OwesConfirmation, MatchesRow, MatchRow
<1>5. ASSUME NEW t \in {"transfer.detected", "deposit.late_detected"},
             Event(t, l) \in outbox', Event(t, l) \notin outbox
      PROVE  \E p \in Procs : OwesDetection(p) /\ ~OwesDetection(p)' /\ job[p].log = l
  <2>1. \/ /\ Announce \/ AnnounceMatch
           /\ job[Worker].log = l
        \/ \E o \in Owners : /\ AnnounceManual(o) /\ pc[o] = "announce" /\ pc'[o] = "announce_confirmed"
                             /\ job[o].log = l
    BY <1>5, OutboxStep, EventFields
  <2> QED
    BY <1>0, <1>1, <1>3, <2>1
<1>6. ASSUME Event("deposit.confirmed", l) \in outbox', Event("deposit.confirmed", l) \notin outbox
      PROVE  \E p \in Procs : OwesConfirmation(p) /\ ~OwesConfirmation(p)' /\ job[p].log = l
  <2>1. \/ AnnounceConfirmed /\ job[Worker].log = l
        \/ \E o \in Owners : /\ AnnounceManual(o) /\ pc[o] = "announce_confirmed" /\ pc'[o] = "rest"
                             /\ job[o].log = l
    BY <1>6, OutboxStep, EventFields
  <2> QED
    BY <1>0, <1>2, <1>4, <2>1
<1> QED
  BY <1>5, <1>6

LEMMA DetectionOwedStep ==
  ASSUME CInv, AnnouncementsStayTrue, DetectionOwed, Next
  PROVE  DetectionOwed'
<1> SUFFICES ASSUME NEW p \in Procs, OwesDetection(p)'
             PROVE  /\ \A t \in {"transfer.detected", "deposit.late_detected"} :
                         Event(t, job'[p].log) \notin outbox'
                    /\ \A q \in Procs \ {p} : OwesDetection(q)' => job'[q].log # job'[p].log
  BY DEF DetectionOwed
<1>1. ASSUME NEW q \in Procs, OwesDetection(q)
      PROVE  transfer[job[q].log] # "none"
  BY <1>1, DebtorsRow
<1>2. ASSUME NEW t \in {"transfer.detected", "deposit.late_detected"}, NEW x, Event(t, x) \in outbox
      PROVE  transfer[x] # "none"
  BY <1>2, EventFields DEF AnnouncementsStayTrue
<1>3. CASE OwesDetection(p) /\ job'[p].log = job[p].log
  <2>1. \A t \in {"transfer.detected", "deposit.late_detected"} : Event(t, job'[p].log) \notin outbox'
    BY <1>3, PaidStep DEF DetectionOwed
  <2>2. ASSUME NEW q \in Procs \ {p}, OwesDetection(q)'
        PROVE  job'[q].log # job'[p].log
    BY <1>1, <1>3, <2>2, DebtStep DEF DetectionOwed
  <2> QED
    BY <2>1, <2>2
<1>4. CASE /\ transfer[job'[p].log] = "none"
           /\ \A q \in Procs \ {p} : OwnerSame(q)
  <2>1. \A t \in {"transfer.detected", "deposit.late_detected"} : Event(t, job'[p].log) \notin outbox'
    BY <1>1, <1>2, <1>4, PaidStep
  <2>2. ASSUME NEW q \in Procs \ {p}, OwesDetection(q)'
        PROVE  job'[q].log # job'[p].log
    BY <1>1, <1>4, <2>2 DEF OwnerSame, OwesDetection
  <2> QED
    BY <2>1, <2>2
<1> QED
  BY <1>3, <1>4, DebtStep

LEMMA ConfirmationOwedStep ==
  ASSUME CInv, AnnouncementsStayTrue, ConfirmationOwed, Next
  PROVE  ConfirmationOwed'
<1> SUFFICES ASSUME NEW p \in Procs, OwesConfirmation(p)'
             PROVE  /\ Event("deposit.confirmed", job'[p].log) \notin outbox'
                    /\ \A q \in Procs \ {p} : OwesConfirmation(q)' => job'[q].log # job'[p].log
  BY DEF ConfirmationOwed
<1>1. ASSUME NEW q \in Procs, OwesConfirmation(q)
      PROVE  transfer[job[q].log] = "confirmed"
  BY <1>1, DebtorsRow
<1>2. ASSUME NEW x, Event("deposit.confirmed", x) \in outbox
      PROVE  transfer[x] = "confirmed"
  BY <1>2, EventFields DEF AnnouncementsStayTrue
<1>3. CASE OwesConfirmation(p) /\ job'[p].log = job[p].log
  <2>1. Event("deposit.confirmed", job'[p].log) \notin outbox'
    BY <1>3, PaidStep DEF ConfirmationOwed
  <2>2. ASSUME NEW q \in Procs \ {p}, OwesConfirmation(q)'
        PROVE  job'[q].log # job'[p].log
    BY <1>1, <1>3, <2>2, DebtStep DEF ConfirmationOwed
  <2> QED
    BY <2>1, <2>2
<1>4. CASE /\ transfer[job'[p].log] \in {"none", "detected"}
           /\ \A q \in Procs \ {p} : OwnerSame(q)
  <2>1. Event("deposit.confirmed", job'[p].log) \notin outbox'
    BY <1>1, <1>2, <1>4, PaidStep
  <2>2. ASSUME NEW q \in Procs \ {p}, OwesConfirmation(q)'
        PROVE  job'[q].log # job'[p].log
    BY <1>1, <1>4, <2>2 DEF OwnerSame, OwesConfirmation
  <2> QED
    BY <2>1, <2>2
<1> QED
  BY <1>3, <1>4, DebtStep

LEMMA AnnouncementInvariant == Spec => []AInv
<1>1. Init => AInv
  <2> SUFFICES ASSUME Init PROVE AInv
    OBVIOUS
  <2>1. pc = [p \in Procs |-> "rest"] /\ outbox = {} /\ Worker \in Procs /\ Owners \subseteq Procs
    BY DEF Init, Procs
  <2> QED
    BY <2>1, CreditInit DEF AInv, AnnouncementsStayTrue, ExpiryOwed, DetectionOwed, ConfirmationOwed,
       OwesDetection, OwesConfirmation
<1>2. ASSUME AInv, [Next]_vars
      PROVE  AInv'
  <2>1. CASE Next
    BY <1>2, <2>1, CreditStep, TruthStep, ExpiryOwedStep, DetectionOwedStep, ConfirmationOwedStep DEF AInv
  <2>2. CASE UNCHANGED vars
    <3>1. CInv'
      BY <1>2, CreditStep DEF AInv
    <3> QED
      BY <1>2, <2>2, <3>1 DEF vars, dbVars, requestVars, transferVars, procVars, AInv, AnnouncementsStayTrue,
         ExpiryOwed, DetectionOwed, ConfirmationOwed, OwesDetection, OwesConfirmation
  <2> QED
    BY <1>2, <2>1, <2>2
<1> QED
  BY <1>1, <1>2, PTL DEF Spec

(* What a callback said stays true: confirmed is not taken back, a late      *)
(* transfer is never confirmed as well, and a request that was reported      *)
(* expired is expired or was matched since.                                  *)
THEOREM AnnouncementsStayTrueHolds == Spec => []AnnouncementsStayTrue
BY AnnouncementInvariant, PTL DEF AInv

(* Who is about to send a callback owes it *)
LEMMA OwedIsNew ==
  ASSUME AInv
  PROVE  NothingAnnouncedTwice
<1>0. TInv /\ MatchesRow /\ Worker \notin Owners
  BY DepositsAssumption DEF AInv, CInv
<1>1. ASSUME NEW p \in Procs, pc[p] \in {"announce", "announce_match"}
      PROVE  OwesDetection(p)
  BY <1>0, <1>1 DEF Procs, OwesDetection, MatchesRow, MatchRow, TInv, Places, OwnerLabels
<1>2. ASSUME NEW p \in Procs, pc[p] = "announce_confirmed"
      PROVE  OwesConfirmation(p)
  BY <1>0, <1>2 DEF Procs, OwesConfirmation, MatchesRow, MatchRow
<1> QED
  BY <1>1, <1>2 DEF AInv, NothingAnnouncedTwice, DetectionOwed, ConfirmationOwed, ExpiryOwed

(* No callback about a payment or an expiry is enqueued twice: a rescan of   *)
(* the same logs announces nothing it has announced before.                  *)
THEOREM NothingAnnouncedTwiceHolds == Spec => []NothingAnnouncedTwice
BY OwedIsNew, AnnouncementInvariant, PTL
-------------------------------------------------------------------------------
(***************************************************************************)
(* Reviews.  As long as nothing was cut off, a log is handled once: until  *)
(* it is, it has no row of either kind.                                    *)
(***************************************************************************)
InHands == pc[Worker] \in {"insert", "sweep_check", "list", "record"}

(* The list of a scan and the log in hand are parts of its window *)
ScanList ==
  /\ to # 0 => to > cursor /\ \A l \in todo : block[l] \in cursor + 1 .. to
  /\ InHands => job[Worker].log \notin todo /\ block[job[Worker].log] \in cursor + 1 .. to

(* No scan has handled the log *)
Ahead(l) == \/ block[l] = 0
            \/ block[l] > cursor /\ (to = 0 \/ block[l] > to \/ l \in todo \/ InHand(l))

Untouched == aborts = 0 => \A l \in Logs : Ahead(l) => transfer[l] = "none" /\ review[l] = "none"

(* A match works on a row of treasury_transfers, and has its update to make *)
MatchReview(o) ==
  /\ pc[o] # "rest" => review[job[o].log] # "none"
  /\ pc[o] = "create" => "review" \in job[o].updates
  /\ pc[o] \notin {"create", "update"} => "review" \notin job[o].updates

RInv == CInv /\ ScanList /\ Untouched /\ (\A o \in Owners : MatchReview(o)) /\ CreditedIsReviewed

(* Blocks come at the head, and a crash is counted *)
LEMMA ChainStep ==
  ASSUME TInv, Next
  PROVE  /\ \A l \in Logs : block'[l] # block[l] => block[l] = 0 /\ block'[l] = head + 1
         /\ aborts' = aborts \/ aborts' = aborts + 1
         /\ \A p \in Procs : Abort(p) => aborts' # 0
<1>0. block \in [Logs -> 0 .. head] /\ head \in Nat /\ aborts \in Nat
  BY DEF TInv, TypeOK
<1>1. \/ block' = block
      \/ NewBlock
      \/ \E s \in Sweeps : Sweep(s)
  BY DEF Next, WorkerStep, Expire, StartScan, SaveCursor, EndTick, AnnounceExpired, Lookup, Confirm,
     Insert, Announce, Settle, CheckSweep, ListOpen, RecordReview, RecordMatch, Mark,
     SettleMatch, AnnounceMatch, AnnounceConfirmed, MatchStep, StartMatch, CheckRequest, CheckTransfer,
     CreateTransfer, Update, AnnounceManual, CreateRequest, Close, Deadline, Abort, chainVars
<1>2. \A l \in Logs : block'[l] # block[l] => block[l] = 0 /\ block'[l] = head + 1
  BY <1>0, <1>1 DEF NewBlock, Sweep, Payable
<1>3. aborts' = aborts \/ aborts' = aborts + 1
  BY DEF Next, WorkerStep, Expire, StartScan, SaveCursor, EndTick, AnnounceExpired, Lookup, Confirm,
     Insert, Announce, Settle, CheckSweep, ListOpen, RecordReview, RecordMatch, Mark,
     SettleMatch, AnnounceMatch, AnnounceConfirmed, MatchStep, StartMatch, CheckRequest, CheckTransfer,
     CreateTransfer, Update, AnnounceManual, CreateRequest, Close, Deadline, NewBlock, Sweep, Abort
<1>4. \A p \in Procs : Abort(p) => aborts' # 0
  BY <1>0 DEF Abort
<1> QED
  BY <1>2, <1>3, <1>4

LEMMA MatchReviewStep ==
  ASSUME CInv, Next, NEW o \in Owners, MatchReview(o)
  PROVE  MatchReview(o)'
<1>0. /\ pc \in [Procs -> Labels] /\ job \in [Procs -> Jobs] /\ o \in Procs
      /\ job[o] \in Jobs
      /\ TInv
      /\ pc[o] # "rest" => job[o].log \in Logs
  BY DEF CInv, TInv, TypeOK, Procs, Places
<1>1. CASE OwnerSame(o)
  BY <1>0, <1>1, ReviewStays DEF OwnerSame, MatchReview
<1>2. CASE OwnerStep(o)
  <2>1. ASSUME Done(o, "rest")
        PROVE  MatchReview(o)'
    <3>1. job'[o] = NoJob /\ pc'[o] = "rest"
      BY <1>0, <2>1 DEF Done, Goto
    <3>2. NoJob.updates = {}
      BY DEF NoJob
    <3> QED
      BY <3>1, <3>2 DEF MatchReview
  <2>2. ASSUME NEW lbl, Goto(o, lbl)
        PROVE  pc'[o] = lbl
    BY <1>0, <2>2 DEF Goto
  <2>3. CASE Abort(o)
    BY <2>1, <2>3 DEF Abort
  <2>4. ASSUME NEW l \in Logs, NEW r \in Requests, StartMatch(o, l, r)
        PROVE  MatchReview(o)'
    <3>1. job' = [job EXCEPT ![o] = [NoJob EXCEPT !.log = l, !.request = r]]
      BY <2>4 DEF StartMatch
    <3>2. job'[o] = [NoJob EXCEPT !.log = l, !.request = r]
      BY <1>0, <3>1, Zenon
    <3>3. job'[o].log = l /\ job'[o].updates = {}
      BY <3>2, Zenon DEF NoJob
    <3> QED
      BY <2>2, <2>4, <3>3, ReviewStays, <1>0 DEF StartMatch, MatchReview
  <2>5. CASE CheckRequest(o)
    <3>1. CASE Goto(o, "check_transfer") /\ UNCHANGED job
      BY <1>0, <2>2, <2>5, <3>1, ReviewStays DEF CheckRequest, MatchReview
    <3> QED
      BY <2>1, <2>5, <3>1 DEF CheckRequest
  <2>6. CASE CheckTransfer(o)
    <3>1. CASE Done(o, "rest")
      BY <2>1, <3>1
    <3>2. CASE ~Done(o, "rest")
      <4>1. /\ job' = [job EXCEPT ![o].updates = Updates]
            /\ pc'[o] \in {"create", "update"} /\ pc[o] # "rest"
        BY <2>2, <2>6, <3>2 DEF CheckTransfer
      <4>2. job'[o] = [job[o] EXCEPT !.updates = Updates]
        BY <1>0, <4>1, Zenon
      <4>3. job'[o].updates = Updates /\ job'[o].log = job[o].log
        BY <1>0, <4>2, Zenon DEF Jobs
      <4> QED
        BY <1>0, <4>1, <4>3, ReviewStays DEF MatchReview, Updates
    <3> QED
      BY <3>1, <3>2
  <2>7. CASE CreateTransfer(o)
    <3>1. job' = [job EXCEPT ![o].created = Created(job[o].log)]
      BY <2>7 DEF CreateTransfer
    <3>2. job'[o] = [job[o] EXCEPT !.created = Created(job[o].log)]
      BY <3>1, <1>0, Zenon
    <3>3. job'[o].updates = job[o].updates /\ job'[o].log = job[o].log
      BY <3>2, <1>0, Zenon DEF Jobs
    <3> QED
      BY <1>0, <2>2, <2>7, <3>3, ReviewStays DEF CreateTransfer, MatchReview
  <2>8. ASSUME NEW u \in Updates, Update(o, u)
        PROVE  MatchReview(o)'
    <3>1. CASE Done(o, "rest")
      BY <2>1, <3>1
    <3>2. CASE ~Done(o, "rest")
      <4>1. /\ job' = [job EXCEPT ![o].updates = job[o].updates \ {u}]
            /\ pc[o] = "update"
            /\ pc'[o] = IF job[o].updates = {u} THEN "announce" ELSE "update"
        BY <2>2, <2>8, <3>2 DEF Update
      <4>2. job'[o] = [job[o] EXCEPT !.updates = job[o].updates \ {u}]
        BY <1>0, <4>1, Zenon
      <4>3. job'[o].updates = job[o].updates \ {u} /\ job'[o].log = job[o].log
        BY <1>0, <4>2, Zenon DEF Jobs
      <4> QED
        BY <1>0, <4>1, <4>3, ReviewStays DEF MatchReview
    <3> QED
      BY <3>1, <3>2
  <2>9. CASE AnnounceManual(o)
    <3>1. CASE Goto(o, "announce_confirmed") /\ UNCHANGED job
      BY <1>0, <2>2, <2>9, <3>1, ReviewStays DEF AnnounceManual, MatchReview
    <3> QED
      BY <2>1, <2>9, <3>1 DEF AnnounceManual
  <2> QED
    BY <1>2, <2>3, <2>4, <2>5, <2>6, <2>7, <2>8, <2>9 DEF OwnerStep, MatchStep
<1> QED
  BY <1>0, <1>1, <1>2, Actors, WorkerFrame, OwnerFrame, EnvironmentFrame

(* The worker takes a log off its list and into its hands, and handles it *)
LEMMA HandsStep ==
  ASSUME CInv, WorkerStep, UNCHANGED <<cursor, to>>, to # 0
  PROVE  /\ UNCHANGED block
         /\ \/ \E l \in todo : todo' = todo \ {l} /\ job'[Worker].log = l /\ InHands'
                               /\ UNCHANGED <<transferVars, reviewVars>>
            \/ todo' = todo /\ (InHands' => InHands /\ job'[Worker].log = job[Worker].log
                                                    /\ UNCHANGED <<transferVars, reviewVars>>)
<1>0. /\ pc \in [Procs -> Labels] /\ job \in [Procs -> Jobs] /\ Worker \in Procs
      /\ job[Worker] \in Jobs
      /\ WorkersRow
  BY DEF CInv, TInv, TypeOK, Procs
<1>1. ASSUME NEW lbl, Goto(Worker, lbl)
      PROVE  pc'[Worker] = lbl
  BY <1>0, <1>1 DEF Goto
<1>2. ASSUME NEW l \in Logs, Lookup(l)
      PROVE  /\ UNCHANGED <<block, transferVars, reviewVars>>
             /\ l \in todo /\ todo' = todo \ {l} /\ job'[Worker].log = l /\ InHands'
  <2>1. CASE /\ job' = [job EXCEPT ![Worker] = [NoJob EXCEPT !.log = l]]
             /\ Goto(Worker, "sweep_check")
    <3>1. job'[Worker] = [NoJob EXCEPT !.log = l]
      BY <1>0, <2>1, Zenon
    <3>2. job'[Worker].log = l
      BY <3>1, Zenon DEF NoJob
    <3> QED
      BY <1>1, <1>2, <2>1, <3>2 DEF Lookup, InHands, chainVars, dbVars
  <2>2. ASSUME NEW r \in Holders(Recipient[l]),
               job' = [job EXCEPT ![Worker] =
                        [NoJob EXCEPT !.log = l, !.request = r, !.late = IsLate(r)]],
               Goto(Worker, "insert")
        PROVE  job'[Worker].log = l /\ InHands'
    <3>1. job'[Worker] = [NoJob EXCEPT !.log = l, !.request = r, !.late = IsLate(r)]
      BY <1>0, <2>2, Zenon
    <3>2. job'[Worker].log = l
      BY <3>1, Zenon DEF NoJob
    <3> QED
      BY <1>1, <2>2, <3>2 DEF InHands
  <2> QED
    BY <1>2, <2>1, <2>2 DEF Lookup, chainVars, dbVars
<1>3. CASE CheckSweep
  BY <1>1, <1>3 DEF CheckSweep, Done, InHands, chainVars, dbVars
<1>4. CASE ListOpen
  <2>1. job'[Worker] = [job[Worker] EXCEPT !.found = Candidates(job[Worker].log)]
    BY <1>0, <1>4, Zenon DEF ListOpen
  <2>2. job'[Worker].log = job[Worker].log
    BY <1>0, <2>1, Zenon DEF Jobs
  <2> QED
    BY <1>4, <2>2 DEF ListOpen, InHands, chainVars, dbVars
<1>5. CASE Insert \/ Announce \/ Settle \/ RecordReview \/ RecordMatch \/ Mark \/ SettleMatch \/ AnnounceMatch
           \/ AnnounceConfirmed
  <2>1. /\ UNCHANGED <<block, todo>>
        /\ pc'[Worker] \in {"announce", "settle", "scan", "confirm", "mark", "settle_match", "announce_match"}
    BY <1>1, <1>5 DEF Insert, Announce, Settle, RecordReview, RecordMatch, Mark, SettleMatch, AnnounceMatch,
       AnnounceConfirmed, Done, chainVars
  <2> QED
    BY <2>1 DEF InHands
<1>6. ~Expire /\ ~StartScan /\ ~SaveCursor /\ ~EndTick /\ (\A r \in Requests : ~AnnounceExpired(r))
      /\ (\A l \in Logs : ~Confirm(l))
  BY <1>0 DEF WorkersRow, Expire, StartScan, SaveCursor, EndTick, AnnounceExpired, Confirm
<1> QED
  BY <1>2, <1>3, <1>4, <1>5, <1>6 DEF WorkerStep

LEMMA WindowMoves ==
  ASSUME CInv, WorkerStep \/ Abort(Worker)
  PROVE  \/ WorkerStep /\ UNCHANGED <<cursor, to>>
         \/ cursor' = cursor /\ to' = 0 /\ Abort(Worker)
         \/ cursor' = to /\ to' = 0 /\ SaveCursor
         \/ cursor' = cursor /\ to = 0 /\ to' = ToBlock /\ ToBlock >= FromBlock /\ StartScan
            /\ todo' = TransferLogs(FromBlock, ToBlock)
BY DEF CInv, WorkersRow, WorkerStep, Expire, StartScan, SaveCursor, EndTick, AnnounceExpired, Lookup, Confirm,
   Insert, Announce, Settle, CheckSweep, ListOpen, RecordReview, RecordMatch, Mark, SettleMatch,
   AnnounceMatch, AnnounceConfirmed, Abort, dbVars

LEMMA ScanListStep ==
  ASSUME CInv, ScanList, Next
  PROVE  ScanList'
<1>0. /\ pc \in [Procs -> Labels] /\ Worker \in Procs
      /\ block \in [Logs -> 0 .. head] /\ head \in Nat /\ cursor \in 0 .. head /\ to \in 0 .. head
      /\ Places /\ WorkersRow
      /\ CInv' /\ to' \in Nat
      /\ InHands' => to' # 0
      /\ InHands => to # 0
  <2>1. CInv'
    BY CreditStep
  <2> QED
    BY <2>1 DEF CInv, TInv, TypeOK, Procs, WorkersRow, InHands, ScanLabels
<1>1. CASE to' = 0
  BY <1>0, <1>1 DEF ScanList
<1>2. CASE WorkerSame
  <2>1. \A l \in Logs : block[l] # 0 => block'[l] = block[l]
    BY <1>0, ChainStep DEF CInv
  <2>2. to # 0 => todo \subseteq Logs
    BY <1>0 DEF Places, WorkersRow
  <2>3. InHands => job[Worker].log \in Logs
    BY <1>0 DEF Places, InHands
  <2>4. \A l \in Logs : block[l] \in cursor + 1 .. to => block'[l] \in cursor + 1 .. to
    BY <1>0, <2>1
  <2>5. InHands' = InHands
    BY <1>2 DEF WorkerSame, InHands
  <2> QED
    BY <1>2, <2>2, <2>3, <2>4, <2>5 DEF WorkerSame, ScanList
<1>3. CASE WorkerStep /\ UNCHANGED <<cursor, to>> /\ to # 0
  BY <1>3, HandsStep DEF ScanList
<1>4. CASE /\ cursor' = cursor /\ to' = ToBlock /\ ToBlock >= FromBlock /\ StartScan
           /\ todo' = TransferLogs(FromBlock, ToBlock)
  <2>1. /\ block' = block /\ to' > cursor'
        /\ \A l \in todo' : block'[l] \in cursor' + 1 .. to'
    BY <1>0, <1>4 DEF StartScan, FromBlock, TransferLogs, chainVars
  <2>2. ~InHands'
    BY <1>0, <1>4, TypeStep DEF StartScan, Goto, InHands, WorkersRow
  <2> QED
    BY <2>1, <2>2 DEF ScanList
<1> QED
  BY <1>0, <1>1, <1>2, <1>3, <1>4, Actors, WindowMoves, OwnerFrame, EnvironmentFrame DEF CInv

(* A log that no scan has handled after a step had not been handled before *)
LEMMA AheadStep ==
  ASSUME CInv, ScanList, Next, aborts' = 0, NEW l \in Logs, Ahead(l)'
  PROVE  Ahead(l)
<1>0. /\ block \in [Logs -> 0 .. head] /\ head \in Nat /\ cursor \in 0 .. head /\ to \in 0 .. head
      /\ block[l] \in 0 .. head
      /\ block'[l] # block[l] => block[l] = 0
      /\ ~Abort(Worker)
  BY ChainStep DEF CInv, TInv, TypeOK, Procs
<1>1. CASE WorkerSame
  BY <1>0, <1>1 DEF WorkerSame, Ahead, InHand
<1>2. CASE WorkerStep /\ UNCHANGED <<cursor, to>>
  <2>1. CASE to = 0
    BY <1>0, <1>2, <2>1 DEF Ahead
  <2>2. CASE to # 0
    BY <1>0, <1>2, <2>2, HandsStep DEF Ahead, InHand, InHands
  <2> QED
    BY <2>1, <2>2
<1>3. CASE cursor' = to /\ to' = 0 /\ SaveCursor
  BY <1>0, <1>3 DEF Ahead, ScanList, SaveCursor, CInv, WorkersRow, ScanLabels, chainVars
<1>4. CASE cursor' = cursor /\ to = 0 /\ StartScan
  BY <1>0, <1>4 DEF Ahead, StartScan, chainVars
<1> QED
  BY <1>0, <1>1, <1>2, <1>3, <1>4, Actors, WindowMoves, OwnerFrame, EnvironmentFrame DEF CInv

LEMMA UntouchedStep ==
  ASSUME CInv, ScanList, Untouched, \A o \in Owners : MatchReview(o), Next
  PROVE  Untouched'
<1> SUFFICES ASSUME aborts' = 0, NEW l \in Logs, Ahead(l)'
             PROVE  transfer'[l] = "none" /\ review'[l] = "none"
  BY DEF Untouched
<1>0. /\ aborts \in Nat /\ aborts = 0
      /\ transfer \in [Logs -> {"none", "detected", "late", "confirmed"}]
      /\ payer \in [Logs -> Requests \union {NoRequest}]
      /\ review \in [Logs -> {"none", "unmatched", "ambiguous", "matched"}]
      /\ Ahead(l) /\ transfer[l] = "none" /\ review[l] = "none"
      /\ pc \in [Procs -> Labels] /\ Worker \in Procs
  BY AheadStep, ChainStep DEF CInv, TInv, TypeOK, Untouched, Procs
<1>1. CASE UNCHANGED <<transferVars, reviewVars>>
  BY <1>0, <1>1 DEF transferVars, reviewVars
<1>2. CASE Environment
  BY <1>1, <1>2, EnvironmentFrame
<1>3. ASSUME NEW o \in Owners, OwnerStep(o)
      PROVE  transfer'[l] = "none" /\ review'[l] = "none"
  <2>1. pc[o] # "rest" => job[o].log # l
    BY <1>0 DEF MatchReview
  <2>2. CASE CreateTransfer(o)
    BY <1>0, <2>1, <2>2 DEF CreateTransfer, InsertTransfer, reviewVars
  <2>3. ASSUME NEW u \in Updates, Update(o, u)
        PROVE  transfer'[l] = "none" /\ review'[l] = "none"
    BY <1>0, <2>1, <2>3 DEF Update, SetReview, reviewVars
  <2>4. ASSUME CheckRequest(o) \/ CheckTransfer(o) \/ AnnounceManual(o) \/ Abort(o)
               \/ \E m \in Logs, r \in Requests : StartMatch(o, m, r)
        PROVE  UNCHANGED <<transferVars, reviewVars>>
    BY <2>4 DEF CheckRequest, CheckTransfer, AnnounceManual, Abort, StartMatch, dbVars
  <2> QED
    BY <1>1, <1>3, <2>2, <2>3, <2>4 DEF OwnerStep, MatchStep
<1>4. CASE WorkerStep
  <2>1. ASSUME Insert \/ RecordMatch \/ RecordReview
        PROVE  transfer'[l] = "none" /\ review'[l] = "none"
    <3>1. ~InHands' /\ UNCHANGED <<cursor, to, todo, block>> /\ InHands
      BY <1>0, <2>1 DEF Insert, RecordMatch, RecordReview, Done, Goto, InHands, chainVars
    <3>2. job[Worker].log # l
      BY <3>1 DEF ScanList, Ahead, InHand, InHands, CInv, TInv, TypeOK
    <3> QED
      BY <1>0, <2>1, <3>2 DEF Insert, RecordMatch, RecordReview, InsertTransfer, InsertReview, reviewVars, transferVars
  <2>2. ASSUME NEW m \in Logs, Confirm(m)
        PROVE  transfer'[l] = "none" /\ review'[l] = "none"
    BY <1>0, <2>2 DEF Confirm, CInv, WorkersRow, Unconfirmed, reviewVars
  <2>3. ASSUME Expire \/ StartScan \/ SaveCursor \/ EndTick \/ (\E r \in Requests : AnnounceExpired(r))
               \/ (\E m \in Logs : Lookup(m)) \/ Announce \/ Settle \/ CheckSweep \/ ListOpen
               \/ Mark \/ SettleMatch \/ AnnounceMatch \/ AnnounceConfirmed
        PROVE  UNCHANGED <<transfer, reviewVars>>
    BY <2>3 DEF Expire, StartScan, SaveCursor, EndTick, AnnounceExpired, Lookup, Announce, Settle,
       CheckSweep, ListOpen, Mark, SettleMatch, AnnounceMatch, AnnounceConfirmed, dbVars, transferVars
  <2> QED
    BY <1>0, <1>4, <2>1, <2>2, <2>3 DEF WorkerStep, reviewVars
<1> QED
  BY <1>2, <1>3, <1>4, ChainStep, Actors DEF CInv, Procs

LEMMA CreditedIsReviewedStep ==
  ASSUME CInv, ScanList, Untouched, \A o \in Owners : MatchReview(o), CreditedIsReviewed, Next
  PROVE  CreditedIsReviewed'
<1> SUFFICES ASSUME aborts' = 0, NEW l \in Logs, transfer'[l] # "none", review'[l] \in {"unmatched", "ambiguous"}
             PROVE  \E o \in Owners : job'[o].log = l /\ "review" \in job'[o].updates
  BY DEF CreditedIsReviewed
<1>0. /\ aborts = 0 /\ \A p \in Procs : ~Abort(p)
      /\ transfer \in [Logs -> {"none", "detected", "late", "confirmed"}]
      /\ payer \in [Logs -> Requests \union {NoRequest}]
      /\ review \in [Logs -> {"none", "unmatched", "ambiguous", "matched"}]
      /\ job \in [Procs -> Jobs] /\ pc \in [Procs -> Labels]
      /\ Procs = {Worker} \union Owners
      /\ InHands => Ahead(job[Worker].log) /\ job[Worker].log \in Logs
  BY ChainStep DEF CInv, TInv, TypeOK, Procs, Places, ScanList, InHands, Ahead, InHand
<1>1. CASE transfer[l] # "none" /\ review[l] \in {"unmatched", "ambiguous"}
  <2>1. PICK o \in Owners : job[o].log = l /\ "review" \in job[o].updates
    BY <1>0, <1>1 DEF CreditedIsReviewed
  <2>2. CASE OwnerSame(o)
    BY <2>1, <2>2 DEF OwnerSame
  <2>3. CASE OwnerStep(o)
    <3>0. o \in Procs /\ job[o] \in Jobs /\ pc[o] \in {"create", "update"}
      BY <1>0, <2>1 DEF MatchReview
    <3>1. CASE CreateTransfer(o)
      <4>1. job'[o] = [job[o] EXCEPT !.created = Created(job[o].log)]
        BY <1>0, <3>0, <3>1, Zenon DEF CreateTransfer
      <4>2. job'[o].updates = job[o].updates /\ job'[o].log = job[o].log
        BY <3>0, <4>1, Zenon DEF Jobs
      <4> QED
        BY <2>1, <4>2
    <3>2. ASSUME NEW u \in Updates, Update(o, u)
          PROVE  job'[o].log = l /\ "review" \in job'[o].updates
      <4>1. u # "review"
        BY <1>0, <2>1, <3>2 DEF Update, SetReview
      <4>2. job' = [job EXCEPT ![o].updates = job[o].updates \ {u}]
        BY <2>1, <3>2, <4>1 DEF Update
      <4>3. job'[o] = [job[o] EXCEPT !.updates = job[o].updates \ {u}]
        BY <1>0, <3>0, <4>2, Zenon
      <4>4. job'[o].updates = job[o].updates \ {u} /\ job'[o].log = job[o].log
        BY <3>0, <4>3, Zenon DEF Jobs
      <4> QED
        BY <2>1, <4>1, <4>4
    <3>3. \/ CreateTransfer(o)
          \/ \E u \in Updates : Update(o, u)
      BY <1>0, <2>3, <3>0 DEF OwnerStep, MatchStep, CheckRequest, CheckTransfer, AnnounceManual, StartMatch
    <3> QED
      BY <3>1, <3>2, <3>3
  <2> QED
    BY <1>0, <2>2, <2>3, Actors, WorkerFrame, OwnerFrame, EnvironmentFrame DEF CInv
<1>2. CASE transfer[l] = "none"
  <2>1. CASE Insert \/ RecordMatch
    <3>1. job[Worker].log = l /\ InHands /\ review' = review
      BY <1>0, <1>2, <2>1 DEF Insert, RecordMatch, InsertTransfer, InHands, reviewVars
    <3> QED
      BY <1>0, <3>1 DEF Untouched
  <2>2. ASSUME NEW o \in Owners, CreateTransfer(o)
        PROVE  job'[o].log = l /\ "review" \in job'[o].updates
    <3>0. o \in Procs /\ job[o] \in Jobs
      BY <1>0
    <3>1. job[o].log = l /\ "review" \in job[o].updates
      BY <1>0, <1>2, <2>2 DEF CreateTransfer, InsertTransfer, MatchReview
    <3>2. job'[o] = [job[o] EXCEPT !.created = Created(job[o].log)]
      BY <1>0, <2>2, <3>0, Zenon DEF CreateTransfer
    <3>3. job'[o].updates = job[o].updates /\ job'[o].log = job[o].log
      BY <3>0, <3>2, Zenon DEF Jobs
    <3> QED
      BY <3>1, <3>3
  <2>3. ASSUME NEW m \in Logs, Confirm(m)
        PROVE  FALSE
    BY <1>0, <1>2, <2>3 DEF Confirm, CInv, WorkersRow, Unconfirmed
  <2>4. \/ transfer' = transfer
        \/ Insert \/ RecordMatch
        \/ \E m \in Logs : Confirm(m)
        \/ \E o \in Owners : CreateTransfer(o)
    BY <1>0 DEF Next, WorkerStep, Expire, StartScan, SaveCursor, EndTick, AnnounceExpired, Lookup,
     Announce, Settle, CheckSweep, ListOpen, RecordReview, Mark,
     SettleMatch, AnnounceMatch, AnnounceConfirmed, MatchStep, StartMatch, CheckRequest, CheckTransfer,
     Update, AnnounceManual, CreateRequest, Close, Deadline, NewBlock, Sweep, dbVars, transferVars
  <2> QED
    BY <1>2, <2>1, <2>2, <2>3, <2>4
<1>3. CASE transfer[l] # "none" /\ review[l] \notin {"unmatched", "ambiguous"}
  <2>1. CASE RecordReview
    <3>1. job[Worker].log = l /\ InHands
      BY <1>0, <1>3, <2>1 DEF RecordReview, InsertReview, InHands
    <3> QED
      BY <1>0, <1>3, <3>1 DEF Untouched
  <2>2. ASSUME NEW o \in Owners, NEW u \in Updates, Update(o, u)
        PROVE  FALSE
    BY <1>0, <1>3, <2>2 DEF Update, SetReview, reviewVars
  <2> QED
    BY <1>3, <2>1, <2>2, ReviewStep DEF reviewVars
<1> QED
  BY <1>1, <1>2, <1>3

LEMMA ReviewInvariant == Spec => []RInv
<1>1. Init => RInv
  <2> SUFFICES ASSUME Init PROVE RInv
    OBVIOUS
  <2>1. /\ pc[Worker] = "rest" /\ \A o \in Owners : pc[o] = "rest" /\ job[o] = NoJob
        /\ cursor = 0 /\ to = 0
        /\ \A l \in Logs : transfer[l] = "none" /\ review[l] = "none"
    BY DEF Init, Procs
  <2>2. NoJob.updates = {}
    BY DEF NoJob
  <2> QED
    BY <2>1, <2>2, CreditInit DEF RInv, ScanList, InHands, Untouched, MatchReview, CreditedIsReviewed
<1>2. ASSUME RInv, [Next]_vars
      PROVE  RInv'
  <2>1. CASE Next
    BY <1>2, <2>1, CreditStep, ScanListStep, UntouchedStep, MatchReviewStep, CreditedIsReviewedStep DEF RInv
  <2>2. CASE UNCHANGED vars
    <3>1. CInv'
      BY <1>2, CreditStep DEF RInv
    <3> QED
      BY <1>2, <2>2, <3>1 DEF vars, chainVars, dbVars, transferVars, reviewVars, procVars, RInv, ScanList, InHands,
         Untouched, Ahead, InHand, MatchReview, CreditedIsReviewed
  <2> QED
    BY <1>2, <2>1, <2>2
<1> QED
  BY <1>1, <1>2, PTL DEF Spec

(* A payment is not credited and waiting for review at the same time, but    *)
(* for a manual match that is not through yet, unless a match was cut off.   *)
THEOREM CreditedIsReviewedHolds == Spec => []CreditedIsReviewed
<1>1. RInv => CreditedIsReviewed
  BY DEF RInv
<1> QED
  BY <1>1, ReviewInvariant, PTL
-------------------------------------------------------------------------------
(***************************************************************************)
(* The refinement.  What a step has in hand exists, and a confirmation is  *)
(* due only after the detection was sent, unless something was cut off.    *)
(***************************************************************************)
Exists(r) == request[r] # "none"

WorkersRequest ==
  /\ pc[Worker] \in {"insert", "mark"} => Exists(job[Worker].request)
  /\ pc[Worker] = "record" => \A r \in job[Worker].found : Exists(r)

MatchRequest(o) == pc[o] \in {"check_transfer", "create", "update"} => Exists(job[o].request)

Told(l) == Event("transfer.detected", l) \in outbox

DetectedFirst ==
  /\ aborts = 0 => \A l \in Logs : transfer[l] = "detected" =>
       Told(l) \/ (OwesDetection(Worker) /\ job[Worker].log = l)
  /\ aborts = 0 /\ pc[Worker] = "announce_confirmed" => Told(job[Worker].log)
  /\ \A o \in Owners : pc[o] = "announce_confirmed" => Told(job[o].log)

EInv == WorkersRequest /\ (\A o \in Owners : MatchRequest(o)) /\ DetectedFirst

(* A row of deposit_addresses stays, and an event in the outbox *)
LEMMA RequestStays ==
  ASSUME TInv, Next, NEW r \in Requests, Exists(r)
  PROVE  Exists(r)'
<1>0. request \in [Requests -> {"none", "active", "expired", "closed", "completed"}]
  BY DEF TInv, TypeOK
<1>1. ASSUME NEW s, NEW l, MarkMatched(s, l)
      PROVE  Exists(r)'
  BY <1>0, <1>1 DEF MarkMatched, Exists
<1>2. CASE Expire
  BY <1>0, <1>2 DEF Expire, Exists
<1>3. ASSUME NEW s \in Requests, CreateRequest(s) \/ Close(s)
      PROVE  Exists(r)'
  BY <1>0, <1>3 DEF CreateRequest, Close, Exists
<1>4. CASE Mark
  BY <1>1, <1>4 DEF Mark
<1>5. ASSUME NEW o \in Owners, NEW u \in Updates, Update(o, u)
      PROVE  Exists(r)'
  BY <1>1, <1>5 DEF Update, requestVars, Exists
<1>6. \/ UNCHANGED request
      \/ Expire \/ Mark
      \/ \E s \in Requests : CreateRequest(s) \/ Close(s)
      \/ \E o \in Owners, u \in Updates : Update(o, u)
  BY DEF Next, WorkerStep, StartScan, SaveCursor, EndTick, AnnounceExpired, Lookup, Confirm,
     Insert, Announce, Settle, CheckSweep, ListOpen, RecordReview, RecordMatch,
     SettleMatch, AnnounceMatch, AnnounceConfirmed, MatchStep, StartMatch, CheckRequest, CheckTransfer,
     CreateTransfer, AnnounceManual, NewBlock, Sweep, Deadline, Abort, dbVars, requestVars
<1> QED
  BY <1>2, <1>3, <1>4, <1>5, <1>6 DEF Exists

LEMMA OutboxGrows ==
  ASSUME Next
  PROVE  outbox \subseteq outbox'
BY DEF Next, WorkerStep, Expire, StartScan, SaveCursor, EndTick, AnnounceExpired, Lookup, Confirm,
   Insert, Announce, Settle, CheckSweep, ListOpen, RecordReview, RecordMatch, Mark,
   SettleMatch, AnnounceMatch, AnnounceConfirmed, MatchStep, StartMatch, CheckRequest, CheckTransfer,
   CreateTransfer, Update, AnnounceManual, CreateRequest, Close, NewBlock, Sweep, Deadline, Abort, dbVars,
   Enqueue

LEMMA WorkersRequestStep ==
  ASSUME CInv, WorkersRequest, Next
  PROVE  WorkersRequest'
<1>0. /\ pc \in [Procs -> Labels] /\ job \in [Procs -> Jobs] /\ Worker \in Procs
      /\ job[Worker] \in Jobs
      /\ Places /\ TInv /\ Direct \subseteq Requests
  BY DepositsAssumption DEF CInv, TInv, TypeOK, Procs
<1>1. CASE WorkerSame
  <2>1. \A r \in job[Worker].found : r \in Requests
    BY <1>0 DEF Jobs
  <2> QED
    BY <1>0, <1>1, <2>1, RequestStays DEF WorkerSame, WorkersRequest, Places
<1>2. ASSUME NEW lbl, Goto(Worker, lbl)
      PROVE  pc'[Worker] = lbl
  BY <1>0, <1>2 DEF Goto
<1>3. ASSUME NEW lbl, lbl \notin {"insert", "mark", "record"}, Goto(Worker, lbl)
      PROVE  WorkersRequest'
  BY <1>2, <1>3 DEF WorkersRequest
<1>4. ASSUME NEW j \in Jobs, job' = [job EXCEPT ![Worker] = j]
      PROVE  job'[Worker] = j
  BY <1>0, <1>4
<1>5. ASSUME NEW l \in Logs, Lookup(l)
      PROVE  WorkersRequest'
  <2>1. ASSUME NEW r \in Holders(Recipient[l]), Goto(Worker, "insert"),
               job' = [job EXCEPT ![Worker] = [NoJob EXCEPT !.log = l, !.request = r, !.late = IsLate(r)]]
        PROVE  WorkersRequest'
    <3>1. r \in Requests /\ Exists(r) /\ IsLate(r) \in BOOLEAN
      BY DEF Holders, Exists, IsLate
    <3>2. job'[Worker].request = r
      <4>1. [NoJob EXCEPT !.log = l, !.request = r, !.late = IsLate(r)] \in Jobs
        BY <3>1, NewJobType
      <4>2. job'[Worker] = [NoJob EXCEPT !.log = l, !.request = r, !.late = IsLate(r)]
        BY <1>4, <2>1, <4>1
      <4> QED
        BY <3>1, <4>2, NewJobFields
    <3>3. Exists(r)'
      BY <1>0, <3>1, RequestStays
    <3> QED
      BY <1>2, <2>1, <3>2, <3>3 DEF WorkersRequest
  <2>2. CASE Goto(Worker, "sweep_check")
    BY <1>3, <2>2
  <2>3. CASE ~Goto(Worker, "sweep_check")
    <3>1. PICK r \in Holders(Recipient[l]) :
            /\ job' = [job EXCEPT ![Worker] = [NoJob EXCEPT !.log = l, !.request = r, !.late = IsLate(r)]]
            /\ Goto(Worker, "insert")
      BY <1>5, <2>3 DEF Lookup
    <3> QED
      BY <2>1, <3>1
  <2> QED
    BY <2>2, <2>3
<1>6. CASE ListOpen
  <2>1. \A r \in Candidates(job[Worker].log) : r \in Direct /\ Exists(r)
    BY <1>0, <1>6, DepositsAssumption DEF ListOpen, Candidates, Places, Exists
  <2>2. Candidates(job[Worker].log) \in SUBSET Direct
    BY <2>1
  <2>3. job'[Worker].found = Candidates(job[Worker].log)
    <3>1. [job[Worker] EXCEPT !.found = Candidates(job[Worker].log)] \in Jobs
      BY <1>0, <2>2, JobType
    <3>2. job'[Worker] = [job[Worker] EXCEPT !.found = Candidates(job[Worker].log)]
      BY <1>4, <1>6, <3>1 DEF ListOpen
    <3> QED
      BY <1>0, <3>2, JobFields
  <2>4. \A r \in Candidates(job[Worker].log) : Exists(r)'
    BY <1>0, <2>1, RequestStays
  <2> QED
    BY <1>2, <1>6, <2>3, <2>4 DEF ListOpen, WorkersRequest
<1>7. CASE RecordMatch
  <2>1. PICK r \in job[Worker].found :
          \/ Done(Worker, "scan")
          \/ job' = [job EXCEPT ![Worker].request = r] /\ Goto(Worker, "mark")
    BY <1>7 DEF RecordMatch
  <2>2. r \in Requests /\ Exists(r)
    BY <1>0, <1>7 DEF Jobs, RecordMatch, WorkersRequest
  <2>3. CASE job' = [job EXCEPT ![Worker].request = r] /\ Goto(Worker, "mark")
    <3>1. job'[Worker].request = r
      <4>1. [job[Worker] EXCEPT !.request = r] \in Jobs
        BY <1>0, <2>2, JobType
      <4>2. job'[Worker] = [job[Worker] EXCEPT !.request = r]
        BY <1>4, <2>3, <4>1
      <4> QED
        BY <1>0, <4>2, JobFields
    <3>2. Exists(r)'
      BY <1>0, <2>2, RequestStays
    <3> QED
      BY <1>2, <2>3, <3>1, <3>2 DEF WorkersRequest
  <2> QED
    BY <1>3, <2>1, <2>3 DEF Done
<1>8. ASSUME \/ Expire \/ StartScan \/ SaveCursor \/ EndTick \/ Insert \/ Announce \/ Settle \/ CheckSweep
             \/ RecordReview \/ Mark \/ SettleMatch \/ AnnounceMatch \/ AnnounceConfirmed
             \/ (\E l \in Logs : Confirm(l)) \/ Abort(Worker)
      PROVE  \E lbl \in Labels \ {"insert", "mark", "record"} : Goto(Worker, lbl)
  BY <1>8 DEF Expire, StartScan, SaveCursor, EndTick, Insert, Announce, Settle, CheckSweep, RecordReview, Mark,
     SettleMatch, AnnounceMatch, AnnounceConfirmed, Confirm, Abort, Done, Labels
<1>9. ASSUME NEW r \in Requests, AnnounceExpired(r)
      PROVE  WorkersRequest'
  BY <1>9 DEF AnnounceExpired, WorkersRequest
<1>10. CASE WorkerStep \/ Abort(Worker)
  BY <1>3, <1>5, <1>6, <1>7, <1>8, <1>9, <1>10 DEF WorkerStep
<1> QED
  BY <1>0, <1>1, <1>10, Actors, OwnerFrame, EnvironmentFrame

LEMMA MatchRequestStep ==
  ASSUME CInv, NEW o \in Owners, MatchRequest(o), Next
  PROVE  MatchRequest(o)'
<1>0. /\ pc \in [Procs -> Labels] /\ job \in [Procs -> Jobs] /\ o \in Procs
      /\ job[o] \in Jobs /\ job[o].updates \in SUBSET Updates
      /\ Places /\ TInv
      /\ pc[o] # "rest" => job[o].request \in Requests
  BY DEF CInv, TInv, TypeOK, Procs, Places, Jobs
<1>1. CASE OwnerSame(o)
  BY <1>0, <1>1, RequestStays DEF OwnerSame, MatchRequest
<1>2. ASSUME NEW lbl, Goto(o, lbl)
      PROVE  pc'[o] = lbl
  BY <1>0, <1>2 DEF Goto
<1>3. ASSUME NEW lbl, lbl \notin {"check_transfer", "create", "update"}, Goto(o, lbl)
      PROVE  MatchRequest(o)'
  BY <1>2, <1>3 DEF MatchRequest
<1>4. ASSUME pc[o] # "rest", Exists(job[o].request), job'[o].request = job[o].request
      PROVE  MatchRequest(o)'
  BY <1>0, <1>4, RequestStays DEF MatchRequest
<1>5. CASE CheckRequest(o)
  <2>1. CASE Done(o, "rest")
    BY <1>3, <2>1 DEF Done
  <2>2. CASE ~Done(o, "rest")
    BY <1>4, <1>5, <2>2 DEF CheckRequest, Exists
  <2> QED
    BY <2>1, <2>2
<1>6. CASE CheckTransfer(o)
  <2>1. CASE Done(o, "rest")
    BY <1>3, <2>1 DEF Done
  <2>2. CASE ~Done(o, "rest")
    <3>1. job' = [job EXCEPT ![o].updates = Updates] /\ pc[o] = "check_transfer"
      BY <1>6, <2>2 DEF CheckTransfer
    <3>2. job'[o] = [job[o] EXCEPT !.updates = Updates]
      BY <1>0, <3>1, Zenon
    <3>3. job'[o].request = job[o].request
      BY <1>0, <3>2, JobFields
    <3> QED
      BY <1>4, <3>1, <3>3 DEF MatchRequest
  <2> QED
    BY <2>1, <2>2
<1>7. CASE CreateTransfer(o)
  <2>1. job' = [job EXCEPT ![o].created = Created(job[o].log)] /\ pc[o] = "create"
    BY <1>7 DEF CreateTransfer
  <2>2. job'[o] = [job[o] EXCEPT !.created = Created(job[o].log)]
    BY <1>0, <2>1, Zenon
  <2>3. job'[o].request = job[o].request
    BY <1>0, <2>2, JobFields
  <2> QED
    BY <1>4, <2>1, <2>3 DEF MatchRequest
<1>8. ASSUME NEW u \in Updates, Update(o, u)
      PROVE  MatchRequest(o)'
  <2>1. CASE Done(o, "rest")
    BY <1>3, <2>1 DEF Done
  <2>2. CASE ~Done(o, "rest")
    <3>1. job' = [job EXCEPT ![o].updates = job[o].updates \ {u}] /\ pc[o] = "update"
      BY <1>8, <2>2 DEF Update
    <3>2. job'[o] = [job[o] EXCEPT !.updates = job[o].updates \ {u}]
      BY <1>0, <3>1, Zenon
    <3>3. job'[o].request = job[o].request
      BY <1>0, <3>2, JobFields
    <3> QED
      BY <1>4, <3>1, <3>3 DEF MatchRequest
  <2> QED
    BY <2>1, <2>2
<1>9. CASE AnnounceManual(o) \/ Abort(o) \/ \E l \in Logs, r \in Requests : StartMatch(o, l, r)
  BY <1>3, <1>9 DEF AnnounceManual, Abort, StartMatch, Done
<1>10. CASE OwnerStep(o)
  BY <1>5, <1>6, <1>7, <1>8, <1>9, <1>10 DEF OwnerStep, MatchStep
<1> QED
  BY <1>0, <1>1, <1>10, Actors, WorkerFrame, OwnerFrame, EnvironmentFrame

(* A detection that was not told is in the worker's hands *)
LEMMA DetectedFirstStep ==
  ASSUME CInv, DetectedFirst, Next
  PROVE  DetectedFirst'
<1>0. /\ pc \in [Procs -> Labels] /\ job \in [Procs -> Jobs] /\ Worker \in Procs /\ Owners \subseteq Procs
      /\ Worker \notin Owners
      /\ \A p \in Procs : job[p] \in Jobs
      /\ transfer \in [Logs -> {"none", "detected", "late", "confirmed"}]
      /\ aborts \in Nat
      /\ Places /\ TInv /\ WorkersRow /\ Unconfirmed
  BY DepositsAssumption DEF CInv, TInv, TypeOK, Procs
<1> DEFINE ToldNow(l) == Event("transfer.detected", l) \in outbox'
<1>1. \A l : Told(l) => ToldNow(l)
  BY OutboxGrows DEF Told
<1>2. aborts' = 0 => aborts = 0 /\ ~Abort(Worker)
  BY <1>0, ChainStep
<1>3. WorkerSame \/ WorkerStep \/ Abort(Worker)
  BY <1>0, Actors, OwnerFrame, EnvironmentFrame
<1>4. ASSUME NEW lbl, Goto(Worker, lbl)
      PROVE  pc'[Worker] = lbl
  BY <1>0, <1>4 DEF Goto
<1>5. ASSUME NEW l \in Logs, OwesDetection(Worker), job[Worker].log = l, transfer[l] = "detected", ~Abort(Worker)
      PROVE  ToldNow(l) \/ (OwesDetection(Worker)' /\ job'[Worker].log = l)
  <2>1. CASE WorkerSame
    BY <1>5, <2>1 DEF WorkerSame, OwesDetection
  <2>2. CASE WorkerStep
    <3>1. Announce \/ Mark \/ SettleMatch \/ AnnounceMatch
      BY <1>0, <1>5, <2>2 DEF OwesDetection, WorkerStep, Expire, StartScan, SaveCursor, EndTick, AnnounceExpired,
         Lookup, Confirm, Insert, Settle, CheckSweep, ListOpen, RecordReview, RecordMatch, AnnounceConfirmed
    <3>2. CASE Announce \/ AnnounceMatch
      BY <1>5, <3>2, <1>0 DEF Announce, AnnounceMatch, Enqueue, Told, WorkersRow
    <3>3. CASE Mark \/ SettleMatch
      BY <1>4, <1>5, <3>3, <1>0 DEF Mark, SettleMatch, OwesDetection
    <3> QED
      BY <3>1, <3>2, <3>3
  <2> QED
    BY <1>3, <1>5, <2>1, <2>2
<1>6. ASSUME aborts' = 0, NEW l \in Logs, transfer'[l] = "detected"
      PROVE  ToldNow(l) \/ (OwesDetection(Worker)' /\ job'[Worker].log = l)
  <2>1. CASE transfer[l] # "none"
    <3>1. transfer[l] = "detected"
      BY <1>6, <2>1, TransferStep
    <3> QED
      BY <1>1, <1>2, <1>5, <1>6, <3>1 DEF DetectedFirst
  <2>2. CASE transfer[l] = "none"
    <3>1. CASE Insert \/ RecordMatch
      <4>1. job[Worker].log = l /\ Created(job[Worker].log)
        BY <1>0, <1>6, <2>2, <3>1 DEF Insert, RecordMatch, InsertTransfer, Created
      <4>2. /\ pc'[Worker] \in {"announce", "mark"}
            /\ \/ job' = job
               \/ \E r : job' = [job EXCEPT ![Worker].request = r]
        BY <1>4, <3>1, <4>1 DEF Insert, RecordMatch
      <4>3. job'[Worker].log = job[Worker].log
        <5>1. ASSUME NEW r, job' = [job EXCEPT ![Worker].request = r]
              PROVE  job'[Worker].log = job[Worker].log
          <6>1. job'[Worker] = [job[Worker] EXCEPT !.request = r]
            BY <1>0, <5>1, Zenon
          <6> QED
            BY <1>0, <6>1, JobFields
        <5> QED
          BY <4>2, <5>1
      <4> QED
        BY <4>1, <4>2, <4>3 DEF OwesDetection
    <3>2. ASSUME NEW m \in Logs, Confirm(m)
          PROVE  FALSE
      BY <1>0, <1>6, <2>2, <3>2 DEF Confirm
    <3>3. ASSUME NEW o \in Owners, CreateTransfer(o)
          PROVE  FALSE
      BY <1>0, <1>6, <2>2, <3>3 DEF CreateTransfer, InsertTransfer
    <3>4. \/ UNCHANGED transfer
          \/ Insert \/ RecordMatch
          \/ \E m \in Logs : Confirm(m)
          \/ \E o \in Owners : CreateTransfer(o)
      BY DEF Next, WorkerStep, Expire, StartScan, SaveCursor, EndTick, AnnounceExpired, Lookup,
         Announce, Settle, CheckSweep, ListOpen, RecordReview, Mark,
         SettleMatch, AnnounceMatch, AnnounceConfirmed, MatchStep, StartMatch, CheckRequest, CheckTransfer,
         Update, AnnounceManual, CreateRequest, Close, NewBlock, Sweep, Deadline, Abort, dbVars, transferVars
    <3> QED
      BY <1>6, <2>2, <3>1, <3>2, <3>3, <3>4
  <2> QED
    BY <2>1, <2>2
<1>7. ASSUME aborts' = 0, pc'[Worker] = "announce_confirmed"
      PROVE  ToldNow(job'[Worker].log)
  <2>1. CASE WorkerSame
    BY <1>1, <1>2, <1>7, <2>1 DEF WorkerSame, DetectedFirst
  <2>2. ASSUME NEW l \in Logs, Confirm(l)
        PROVE  ToldNow(job'[Worker].log)
    <3>1. transfer[l] = "detected" /\ ~OwesDetection(Worker)
      BY <1>0, <2>2 DEF Confirm, Unconfirmed, WorkersRow, OwesDetection
    <3>2. Told(l)
      BY <1>2, <1>7, <3>1 DEF DetectedFirst
    <3>3. job'[Worker].log = l
      <4>1. job'[Worker] = [NoJob EXCEPT !.log = l]
        BY <1>0, <2>2, Zenon DEF Confirm
      <4> QED
        BY <4>1, NewJobFields
    <3> QED
      BY <1>1, <3>2, <3>3
  <2>3. ASSUME NEW lbl \in Labels \ {"announce_confirmed"}, Goto(Worker, lbl)
        PROVE  FALSE
    BY <1>4, <1>7, <2>3
  <2>4. ASSUME NEW r \in Requests, AnnounceExpired(r)
        PROVE  FALSE
    BY <1>7, <2>4 DEF AnnounceExpired
  <2>5. ASSUME \/ Expire \/ StartScan \/ SaveCursor \/ EndTick \/ Insert \/ Announce \/ Settle \/ CheckSweep
               \/ ListOpen \/ RecordReview \/ RecordMatch \/ Mark \/ SettleMatch \/ AnnounceMatch
               \/ AnnounceConfirmed \/ (\E l \in Logs : Lookup(l)) \/ Abort(Worker)
        PROVE  \E lbl \in Labels \ {"announce_confirmed"} : Goto(Worker, lbl)
    BY <2>5 DEF Expire, StartScan, SaveCursor, EndTick, Insert, Announce, Settle, CheckSweep, ListOpen,
       RecordReview, RecordMatch, Mark, SettleMatch, AnnounceMatch, AnnounceConfirmed, Lookup, Abort, Done, Labels
  <2> QED
    BY <1>3, <2>1, <2>2, <2>3, <2>4, <2>5 DEF WorkerStep
<1>8. ASSUME NEW o \in Owners, pc'[o] = "announce_confirmed"
      PROVE  ToldNow(job'[o].log)
  <2>1. CASE OwnerSame(o)
    BY <1>1, <1>8, <2>1 DEF OwnerSame, DetectedFirst
  <2>2. CASE OwnerStep(o)
    <3>1. ASSUME NEW lbl \in Labels \ {"announce_confirmed"}, Goto(o, lbl)
          PROVE  FALSE
      BY <1>0, <1>8, <3>1 DEF Goto
    <3>2. CASE AnnounceManual(o)
      BY <1>0, <1>8, <3>1, <3>2 DEF AnnounceManual, Enqueue, Told, Done, Labels
    <3>3. ASSUME \/ CheckRequest(o) \/ CheckTransfer(o) \/ CreateTransfer(o) \/ (\E u \in Updates : Update(o, u))
                 \/ Abort(o) \/ \E l \in Logs, r \in Requests : StartMatch(o, l, r)
          PROVE  \E lbl \in Labels \ {"announce_confirmed"} : Goto(o, lbl)
      BY <3>3 DEF CheckRequest, CheckTransfer, CreateTransfer, Update, Abort, StartMatch, Done, Labels
    <3> QED
      BY <2>2, <3>1, <3>2, <3>3 DEF OwnerStep, MatchStep
  <2> QED
    BY <1>0, <2>1, <2>2, Actors, WorkerFrame, OwnerFrame, EnvironmentFrame
<1> QED
  BY <1>6, <1>7, <1>8 DEF DetectedFirst, Told

LEMMA ExistsInvariant == Spec => []EInv
<1>1. Init => EInv
  BY DepositsAssumption DEF Init, EInv, WorkersRequest, MatchRequest, DetectedFirst, Procs
<1>2. ASSUME CInv, EInv, [Next]_vars
      PROVE  EInv'
  <2>1. CASE Next
    BY <1>2, <2>1, WorkersRequestStep, MatchRequestStep, DetectedFirstStep DEF EInv
  <2>2. CASE UNCHANGED vars
    BY <1>2, <2>2 DEF vars, dbVars, requestVars, transferVars, procVars, EInv, WorkersRequest, MatchRequest,
       DetectedFirst, Exists, Told, OwesDetection
  <2> QED
    BY <1>2, <2>1, <2>2
<1> QED
  BY <1>1, <1>2, CreditInvariant, PTL DEF Spec
-------------------------------------------------------------------------------
Aside == {l \in Logs : review[l] # "none"} \union swept
Passed == {l \in Logs : block[l] \in 1 .. cursor}

(* New blocks lie behind the cursor *)
LEMMA PassedStays ==
  ASSUME TInv, Next, cursor' = cursor
  PROVE  Passed' = Passed
<1>1. /\ \A l \in Logs : block[l] \in Nat /\ (block'[l] = block[l] \/ (block[l] = 0 /\ block'[l] = head + 1))
      /\ head \in Nat /\ cursor \in 0 .. head
  BY ChainStep DEF TInv, TypeOK
<1>2. \A l \in Logs : block'[l] \in 1 .. cursor <=> block[l] \in 1 .. cursor
  BY <1>1
<1> QED
  BY <1>2 DEF Passed

(* The steps of Credits, in terms of the variables of Deposits *)
LEMMA CreditsSteps ==
  ASSUME Passed' = Passed
  PROVE  /\ UNCHANGED <<request, transfer, payer, outbox, aborts>> /\ Aside' = Aside
            => UNCHANGED Merchants!vars
         /\ \A l \in Logs : UNCHANGED <<request, transfer, payer, outbox, aborts>> /\ Aside' = Aside \union {l}
            => Merchants!SetAside(l)
         /\ UNCHANGED <<request, transfer, payer, outbox>> /\ aborts' = aborts + 1 /\ Aside' = Aside
            => Merchants!CutOff
         /\ \A r \in Requests : \A l, status :
              /\ transfer[l] = "none" /\ Exists(r)
              /\ InsertTransfer(l, r, status) /\ UNCHANGED <<request, outbox, aborts>> /\ Aside' = Aside
            => Merchants!Credit(l, r, status)
         /\ \A r \in Requests : \A l :
              Exists(r) /\ MarkMatched(r, l) /\ UNCHANGED <<transfer, payer, outbox, aborts>> /\ Aside' = Aside
            => Merchants!Complete(r)
<1> DEFINE rows == {l \in Logs : review[l] # "none"} \union swept
           scanned == {l \in Logs : block[l] \in 1 .. cursor}
<1>1. Aside = rows /\ Aside' = rows' /\ Passed = scanned /\ Passed' = scanned'
  BY DEF Aside, Passed
<1> HIDE DEF rows, scanned
<1>2. UNCHANGED <<request, transfer, payer, outbox, aborts>> /\ Aside' = Aside => UNCHANGED Merchants!vars
  BY <1>1 DEF Merchants!vars, rows, scanned
<1>3. \A l \in Logs : UNCHANGED <<request, transfer, payer, outbox, aborts>> /\ Aside' = Aside \union {l}
        => Merchants!SetAside(l)
  BY <1>1 DEF Merchants!SetAside, rows, scanned
<1>4. UNCHANGED <<request, transfer, payer, outbox>> /\ aborts' = aborts + 1 /\ Aside' = Aside => Merchants!CutOff
  BY <1>1 DEF Merchants!CutOff, rows, scanned
<1>5. \A r \in Requests : \A l, status :
        /\ transfer[l] = "none" /\ Exists(r)
        /\ InsertTransfer(l, r, status) /\ UNCHANGED <<request, outbox, aborts>> /\ Aside' = Aside
        => Merchants!Credit(l, r, status)
  BY <1>1 DEF Merchants!Credit, InsertTransfer, Created, Exists, rows, scanned
<1>6. \A r \in Requests : \A l :
        Exists(r) /\ MarkMatched(r, l) /\ UNCHANGED <<transfer, payer, outbox, aborts>> /\ Aside' = Aside
        => Merchants!Complete(r)
  BY <1>1 DEF Merchants!Complete, MarkMatched, Exists, rows, scanned
<1> QED
  BY <1>2, <1>3, <1>4, <1>5, <1>6

LEMMA CreditsRequests ==
  ASSUME Passed' = Passed, Aside' = Aside, UNCHANGED <<transfer, payer, outbox, aborts>>
  PROVE  /\ \A r : request[r] = "none" /\ request' = [request EXCEPT ![r] = "active"] => Merchants!Open(r)
         /\ \A r : request[r] = "active" /\ request' = [request EXCEPT ![r] = "closed"] => Merchants!Close(r)
         /\ \A ended : /\ \A r \in ended : request[r] = "active"
                       /\ request' = [r \in Requests |-> IF r \in ended THEN "expired" ELSE request[r]]
                       => Merchants!Expire(ended)
<1> DEFINE rows == {l \in Logs : review[l] # "none"} \union swept
           scanned == {l \in Logs : block[l] \in 1 .. cursor}
<1>1. Aside = rows /\ Aside' = rows' /\ Passed = scanned /\ Passed' = scanned'
  BY DEF Aside, Passed
<1> HIDE DEF rows, scanned
<1> QED
  BY <1>1 DEF Merchants!Open, Merchants!Close, Merchants!Expire, rows, scanned

LEMMA CreditsCallbacks ==
  ASSUME Passed' = Passed, Aside' = Aside, UNCHANGED <<request, transfer, payer, aborts>>,
         NEW type, NEW x, Enqueue(type, x), Event(type, x) \notin outbox
  PROVE  /\ type = "expired" /\ request[x] \in {"expired", "completed"} => Merchants!SayExpired(x)
         /\ type = "transfer.detected" /\ transfer[x] \in {"detected", "confirmed"} => Merchants!SayDetected(x)
         /\ type = "deposit.late_detected" /\ transfer[x] = "late" => Merchants!SayLate(x)
         /\ type = "deposit.confirmed" /\ transfer[x] = "confirmed" /\ (Told(x) \/ aborts > 0)
            => Merchants!SayConfirmed(x)
<1> DEFINE rows == {l \in Logs : review[l] # "none"} \union swept
           scanned == {l \in Logs : block[l] \in 1 .. cursor}
<1>1. Aside = rows /\ Aside' = rows' /\ Passed = scanned /\ Passed' = scanned'
  BY DEF Aside, Passed
<1> HIDE DEF rows, scanned
<1>2. Merchants!Say(Event(type, x))
  BY <1>1 DEF Merchants!Say, Enqueue, rows, scanned
<1>3. /\ Merchants!Expired(x) = Event("expired", x)
      /\ Merchants!Detected(x) = Event("transfer.detected", x)
      /\ Merchants!Late(x) = Event("deposit.late_detected", x)
      /\ Merchants!Confirmed(x) = Event("deposit.confirmed", x)
  BY DEF Event, Merchants!Expired, Merchants!Detected, Merchants!Late, Merchants!Confirmed
<1> QED
  BY <1>2, <1>3 DEF Merchants!SayExpired, Merchants!SayDetected, Merchants!SayLate, Merchants!SayConfirmed, Told

LEMMA CreditsRows ==
  ASSUME UNCHANGED <<request, payer, outbox, aborts>>, Aside' = Aside
  PROVE  /\ \A l : /\ transfer[l] = "detected" /\ transfer' = [transfer EXCEPT ![l] = "confirmed"]
                   /\ Passed' = Passed
                   => Merchants!Confirm(l)
         /\ transfer' = transfer /\ Passed \subseteq Passed' /\ (\A l \in Passed' : Recorded(l))
            => \E seen \in SUBSET Logs : Merchants!Pass(seen)
<1> DEFINE rows == {l \in Logs : review[l] # "none"} \union swept
           scanned == {l \in Logs : block[l] \in 1 .. cursor}
<1>1. Aside = rows /\ Aside' = rows' /\ Passed = scanned /\ Passed' = scanned'
  BY DEF Aside, Passed
<1>2. \A l \in Logs : Recorded(l) => l \in {k \in Logs : transfer[k] # "none"} \union rows
  BY DEF Recorded
<1>3. \A l \in Passed' : l \in Logs
  BY DEF Passed
<1> HIDE DEF rows, scanned
<1>4. \A l : /\ transfer[l] = "detected" /\ transfer' = [transfer EXCEPT ![l] = "confirmed"]
             /\ Passed' = Passed
             => Merchants!Confirm(l)
  BY <1>1 DEF Merchants!Confirm, rows, scanned
<1>5. ASSUME transfer' = transfer, Passed \subseteq Passed', \A l \in Passed' : Recorded(l)
      PROVE  \E seen \in SUBSET Logs : Merchants!Pass(seen)
  <2>1. PICK seen : seen = Passed'
    OBVIOUS
  <2>2. seen \subseteq Merchants!Known /\ seen \subseteq Logs
    BY <1>2, <1>3, <1>5, <2>1 DEF Merchants!Known, rows
  <2>3. scanned' = scanned \union seen
    BY <1>1, <1>5, <2>1
  <2>4. Merchants!Pass(seen)
    BY <1>1, <1>5, <2>2, <2>3 DEF Merchants!Pass, rows, scanned
  <2> QED
    BY <2>2, <2>4
<1> QED
  BY <1>4, <1>5

(* All that is known when a step is mapped to one of Credits *)
KInv == AInv /\ RInv /\ EInv /\ Window /\ NothingLost

(* Each step of the worker is one of Credits, or none *)
LEMMA WorkerKeeps ==
  ASSUME KInv, Next, WorkerStep
  PROVE  Merchants!Next \/ UNCHANGED Merchants!vars
<1> DEFINE Goal == Merchants!Next \/ UNCHANGED Merchants!vars
           j == job[Worker]
<1>0. /\ AInv /\ CInv /\ TInv /\ Places /\ WorkersRow /\ Unconfirmed /\ NothingAnnouncedTwice
      /\ WorkersRequest /\ DetectedFirst /\ RInv /\ Window /\ NothingLost
      /\ AnnouncementsStayTrue' /\ NothingLost'
      /\ job[Worker] \in Jobs /\ Worker \in Procs /\ aborts \in Nat /\ Direct \subseteq Requests
      /\ review \in [Logs -> {"none", "unmatched", "ambiguous", "matched"}]
  BY DepositsAssumption, OwedIsNew, TruthStep, NothingLostStep
     DEF KInv, AInv, CInv, TInv, TypeOK, EInv, Procs
<1>1. cursor' = cursor => Passed' = Passed
  BY <1>0, PassedStays
<1>2. UNCHANGED <<reviewVars, swept>> => Aside' = Aside
  BY DEF Aside, reviewVars
<1>3. CASE \/ StartScan \/ EndTick \/ CheckSweep \/ ListOpen \/ Settle \/ SettleMatch
           \/ (\E l \in Logs : Lookup(l))
  <2>1. UNCHANGED <<cursor, reviewVars, swept, request, transfer, payer, outbox, aborts>>
    BY <1>3 DEF StartScan, EndTick, CheckSweep, ListOpen, Settle, SettleMatch, Lookup, dbVars, requestVars,
       transferVars
  <2> QED
    BY <1>1, <1>2, <2>1, CreditsSteps
<1>4. CASE Expire
  <2>1. /\ UNCHANGED <<cursor, reviewVars, swept, transfer, payer, outbox, aborts>>
        /\ Expiring \in SUBSET Requests /\ \A r \in Expiring : request[r] = "active"
        /\ request' = [r \in Requests |-> IF r \in Expiring THEN "expired" ELSE request[r]]
    BY <1>4 DEF Expire, Expiring, transferVars
  <2>2. Merchants!Expire(Expiring)
    BY <1>1, <1>2, <2>1, CreditsRequests
  <2> QED
    BY <2>1, <2>2 DEF Merchants!Next
<1>5. ASSUME NEW r \in Requests, AnnounceExpired(r)
      PROVE  Goal
  <2>1. /\ UNCHANGED <<cursor, reviewVars, swept, request, transfer, payer, aborts>>
        /\ Enqueue("expired", r) /\ Event("expired", r) \notin outbox
        /\ request[r] \in {"expired", "completed"}
    BY <1>0, <1>5 DEF AnnounceExpired, requestVars, transferVars, AInv, ExpiryOwed
  <2>2. Merchants!SayExpired(r)
    BY <1>1, <1>2, <2>1, CreditsCallbacks
  <2> QED
    BY <2>2 DEF Merchants!Next
<1>6. CASE SaveCursor
  <2>1. /\ UNCHANGED <<reviewVars, swept, request, transfer, payer, outbox, aborts, block>>
        /\ cursor' = to /\ pc[Worker] = "scan"
    BY <1>6 DEF SaveCursor, chainVars, requestVars, transferVars
  <2>2. cursor' >= cursor
    BY <1>0, <2>1 DEF WorkersRow, ScanLabels, RInv, ScanList, TInv, TypeOK
  <2>3. Passed \subseteq Passed'
    BY <1>0, <2>1, <2>2 DEF Passed, TInv, TypeOK
  <2>4. \A l \in Passed' : Recorded(l)
    BY <1>0, <2>1 DEF Passed, NothingLost, Recorded, reviewVars
  <2>5. \E seen \in SUBSET Logs : Merchants!Pass(seen)
    BY <1>2, <2>1, <2>3, <2>4, CreditsRows
  <2> QED
    BY <2>5 DEF Merchants!Next
<1>7. ASSUME NEW r \in Requests, Exists(r), NEW status \in {"detected", "late"}, j.log \in Logs,
             InsertTransfer(j.log, r, status),
             UNCHANGED <<cursor, reviewVars, swept, request, outbox, aborts>>
      PROVE  Goal
  <2>1. CASE transfer[j.log] = "none"
    <3>1. Merchants!Credit(j.log, r, status)
      BY <1>1, <1>2, <1>7, <2>1, CreditsSteps
    <3> QED
      BY <1>7, <3>1 DEF Merchants!Next
  <2>2. CASE transfer[j.log] # "none"
    BY <1>1, <1>2, <1>7, <2>2, CreditsSteps DEF InsertTransfer, Created
  <2> QED
    BY <2>1, <2>2
<1>8. CASE Insert
  <2>1. j.request \in Requests /\ Exists(j.request) /\ j.log \in Logs
    BY <1>0, <1>8 DEF Insert, Places, WorkersRequest
  <2> QED
    BY <1>7, <1>8, <2>1 DEF Insert, requestVars
<1>9. CASE RecordMatch
  <2>1. PICK r \in j.found : InsertTransfer(j.log, r, "detected")
    BY <1>9 DEF RecordMatch
  <2>2. r \in Requests /\ Exists(r) /\ j.log \in Logs
    BY <1>0, <1>9, <2>1 DEF RecordMatch, Places, WorkersRequest, Jobs
  <2> QED
    BY <1>7, <1>9, <2>1, <2>2 DEF RecordMatch, requestVars
<1>10. CASE RecordReview
  <2>1. /\ UNCHANGED <<cursor, swept, request, transfer, payer, outbox, aborts>>
        /\ j.log \in Logs
        /\ \E st \in {"unmatched", "ambiguous"} : InsertReview(j.log, st)
    BY <1>0, <1>10 DEF RecordReview, requestVars, transferVars, Places
  <2>2. PICK l \in Logs : l = j.log
    BY <2>1
  <2>3. Aside' = Aside \union {l}
    BY <1>0, <2>1, <2>2 DEF InsertReview, Aside
  <2>4. Merchants!SetAside(l)
    BY <1>1, <2>1, <2>3, CreditsSteps
  <2> QED
    BY <2>4 DEF Merchants!Next
<1>11. CASE Mark
  <2>1. /\ UNCHANGED <<cursor, reviewVars, swept, transfer, payer, outbox, aborts>>
        /\ j.request \in Requests /\ Exists(j.request) /\ MarkMatched(j.request, j.log)
    BY <1>0, <1>11 DEF Mark, Places, WorkersRequest, transferVars
  <2>2. Merchants!Complete(j.request)
    BY <1>1, <1>2, <2>1, CreditsSteps
  <2> QED
    BY <2>1, <2>2 DEF Merchants!Next
<1>12. ASSUME NEW l \in Logs, Confirm(l)
       PROVE  Goal
  <2>1. /\ UNCHANGED <<cursor, reviewVars, swept, request, payer, outbox, aborts>>
        /\ transfer[l] = "detected" /\ transfer' = [transfer EXCEPT ![l] = "confirmed"]
    BY <1>0, <1>12 DEF Confirm, Unconfirmed, WorkersRow, requestVars
  <2>2. Merchants!Confirm(l)
    BY <1>1, <1>2, <2>1, CreditsRows
  <2> QED
    BY <2>2 DEF Merchants!Next
<1>13. CASE Announce \/ AnnounceMatch \/ AnnounceConfirmed
  <2>1. /\ UNCHANGED <<cursor, reviewVars, swept, request, transfer, payer, aborts>>
        /\ j.log \in Logs
    BY <1>0, <1>13 DEF Announce, AnnounceMatch, AnnounceConfirmed, requestVars, transferVars, Places
  <2>2. CASE Enqueue("transfer.detected", j.log) /\ transfer[j.log] = "detected"
             /\ pc[Worker] \in {"announce", "announce_match"}
    <3>1. Merchants!SayDetected(j.log)
      BY <1>0, <1>1, <1>2, <2>1, <2>2, CreditsCallbacks DEF NothingAnnouncedTwice
    <3> QED
      BY <2>1, <3>1 DEF Merchants!Next
  <2>3. CASE Enqueue("deposit.late_detected", j.log) /\ transfer[j.log] = "late" /\ pc[Worker] = "announce"
    <3>1. Merchants!SayLate(j.log)
      BY <1>0, <1>1, <1>2, <2>1, <2>3, CreditsCallbacks DEF NothingAnnouncedTwice
    <3> QED
      BY <2>1, <3>1 DEF Merchants!Next
  <2>4. CASE Enqueue("deposit.confirmed", j.log) /\ transfer[j.log] = "confirmed"
             /\ pc[Worker] = "announce_confirmed"
    <3>1. Told(j.log) \/ aborts > 0
      BY <1>0, <2>4 DEF DetectedFirst
    <3>2. Merchants!SayConfirmed(j.log)
      BY <1>0, <1>1, <1>2, <2>1, <2>4, <3>1, CreditsCallbacks DEF NothingAnnouncedTwice
    <3> QED
      BY <2>1, <3>2 DEF Merchants!Next
  <2> QED
    BY <1>0, <1>13, <2>2, <2>3, <2>4 DEF Announce, AnnounceMatch, AnnounceConfirmed, WorkersRow
<1> QED
  BY <1>3, <1>4, <1>5, <1>6, <1>8, <1>9, <1>10, <1>11, <1>12, <1>13 DEF WorkerStep

(* ... and of a manual match, *)
LEMMA MatchKeeps ==
  ASSUME KInv, Next, NEW o \in Owners,
         MatchStep(o) \/ \E l \in Logs, r \in Requests : StartMatch(o, l, r)
  PROVE  Merchants!Next \/ UNCHANGED Merchants!vars
<1> DEFINE Goal == Merchants!Next \/ UNCHANGED Merchants!vars
           j == job[o]
<1>0. /\ AInv /\ CInv /\ TInv /\ MatchRow(o) /\ NothingAnnouncedTwice /\ MatchRequest(o) /\ DetectedFirst
      /\ pc[o] # "rest" => j.log \in Logs /\ j.request \in Requests
      /\ o \in Procs /\ aborts \in Nat
      /\ review \in [Logs -> {"none", "unmatched", "ambiguous", "matched"}]
  BY OwedIsNew DEF KInv, AInv, CInv, TInv, TypeOK, EInv, Procs, MatchesRow, Places
<1>1. cursor' = cursor => Passed' = Passed
  BY <1>0, PassedStays
<1>2. UNCHANGED <<reviewVars, swept>> => Aside' = Aside
  BY DEF Aside, reviewVars
<1>3. CASE CheckRequest(o) \/ CheckTransfer(o) \/ \E l \in Logs, r \in Requests : StartMatch(o, l, r)
  <2>1. UNCHANGED <<cursor, reviewVars, swept, request, transfer, payer, outbox, aborts>>
    BY <1>3 DEF CheckRequest, CheckTransfer, StartMatch, dbVars, requestVars, transferVars
  <2> QED
    BY <1>1, <1>2, <2>1, CreditsSteps
<1>4. CASE CreateTransfer(o)
  <2>1. /\ UNCHANGED <<cursor, reviewVars, swept, request, outbox, aborts>>
        /\ InsertTransfer(j.log, j.request, "confirmed")
        /\ Exists(j.request) /\ j.log \in Logs /\ j.request \in Requests
    BY <1>0, <1>4 DEF CreateTransfer, MatchRequest, requestVars
  <2>2. CASE transfer[j.log] = "none"
    <3>1. Merchants!Credit(j.log, j.request, "confirmed")
      BY <1>1, <1>2, <2>1, <2>2, CreditsSteps
    <3> QED
      BY <2>1, <3>1 DEF Merchants!Next
  <2>3. CASE transfer[j.log] # "none"
    BY <1>1, <1>2, <2>1, <2>3, CreditsSteps DEF InsertTransfer, Created
  <2> QED
    BY <2>2, <2>3
<1>5. ASSUME NEW u \in Updates, Update(o, u)
      PROVE  Goal
  <2>1. /\ UNCHANGED <<cursor, swept, transfer, payer, outbox, aborts>>
        /\ Exists(j.request) /\ j.log \in Logs /\ j.request \in Requests
    BY <1>0, <1>5 DEF Update, MatchRequest
  <2>2. CASE u = "request"
    <3>1. MarkMatched(j.request, j.log) /\ UNCHANGED reviewVars
      BY <1>5, <2>2 DEF Update
    <3>2. Merchants!Complete(j.request)
      BY <1>1, <1>2, <2>1, <3>1, CreditsSteps
    <3> QED
      BY <2>1, <3>2 DEF Merchants!Next
  <2>3. CASE u = "review"
    <3>1. SetReview(j.log, "matched", j.request) /\ UNCHANGED request
      BY <1>5, <2>3 DEF Update, requestVars
    <3>2. PICK l \in Logs : l = j.log
      BY <2>1
    <3>3. Aside' = Aside \union {l}
      BY <1>0, <2>1, <3>1, <3>2 DEF SetReview, Aside
    <3>4. Merchants!SetAside(l)
      BY <1>1, <2>1, <3>1, <3>3, CreditsSteps
    <3> QED
      BY <3>4 DEF Merchants!Next
  <2>4. CASE u = "settlement"
    <3>1. UNCHANGED <<reviewVars, request>>
      BY <1>5, <2>4 DEF Update, requestVars
    <3> QED
      BY <1>1, <1>2, <2>1, <3>1, CreditsSteps
  <2> QED
    BY <2>2, <2>3, <2>4 DEF Updates
<1>6. CASE AnnounceManual(o)
  <2>1. /\ UNCHANGED <<cursor, reviewVars, swept, request, transfer, payer, aborts>>
        /\ j.log \in Logs /\ transfer[j.log] = "confirmed"
    BY <1>0, <1>6 DEF AnnounceManual, requestVars, transferVars, MatchRow
  <2>2. CASE pc[o] = "announce" /\ Enqueue("transfer.detected", j.log)
    <3>1. Merchants!SayDetected(j.log)
      BY <1>0, <1>1, <1>2, <2>1, <2>2, CreditsCallbacks DEF NothingAnnouncedTwice
    <3> QED
      BY <2>1, <3>1 DEF Merchants!Next
  <2>3. CASE pc[o] = "announce_confirmed" /\ Enqueue("deposit.confirmed", j.log)
    <3>1. Merchants!SayConfirmed(j.log)
      BY <1>0, <1>1, <1>2, <2>1, <2>3, CreditsCallbacks DEF NothingAnnouncedTwice, DetectedFirst
    <3> QED
      BY <2>1, <3>1 DEF Merchants!Next
  <2> QED
    BY <1>6, <2>2, <2>3 DEF AnnounceManual
<1> QED
  BY <1>3, <1>4, <1>5, <1>6 DEF MatchStep

(* ... of the API, the chain and the clock, and a crash.                     *)
LEMMA EnvironmentKeeps ==
  ASSUME KInv, Next, Environment \/ \E p \in Procs : Abort(p)
  PROVE  Merchants!Next \/ UNCHANGED Merchants!vars
<1> DEFINE Goal == Merchants!Next \/ UNCHANGED Merchants!vars
<1>0. TInv
  BY DEF KInv, AInv, CInv
<1>1. Passed' = Passed
  <2>1. cursor' = cursor
    BY EnvironmentFrame DEF Abort, dbVars
  <2> QED
    BY <1>0, <2>1, PassedStays
<1>2. UNCHANGED <<reviewVars, swept>> => Aside' = Aside
  BY DEF Aside, reviewVars
<1>3. CASE NewBlock \/ \E r \in Requests : Deadline(r)
  <2>1. UNCHANGED <<reviewVars, swept, request, transfer, payer, outbox, aborts>>
    BY <1>3 DEF NewBlock, Deadline, dbVars, requestVars, transferVars
  <2> QED
    BY <1>1, <1>2, <2>1, CreditsSteps
<1>4. ASSUME NEW r \in Requests, CreateRequest(r) \/ Close(r)
      PROVE  Goal
  <2>1. UNCHANGED <<reviewVars, swept, transfer, payer, outbox, aborts>>
    BY <1>4 DEF CreateRequest, Close, transferVars
  <2>2. Merchants!Open(r) \/ Merchants!Close(r)
    BY <1>1, <1>2, <1>4, <2>1, CreditsRequests DEF CreateRequest, Close
  <2> QED
    BY <2>2 DEF Merchants!Next
<1>5. ASSUME NEW s \in Sweeps, Sweep(s)
      PROVE  Goal
  <2>1. UNCHANGED <<reviewVars, request, transfer, payer, outbox>> /\ s \in Logs
    BY <1>5, DepositsAssumption DEF Sweep, requestVars, transferVars
  <2>2. CASE swept' = swept \union {s} /\ aborts' = aborts
    <3>1. Aside' = Aside \union {s}
      BY <2>1, <2>2 DEF Aside, reviewVars
    <3>2. Merchants!SetAside(s)
      BY <1>1, <2>1, <2>2, <3>1, CreditsSteps
    <3> QED
      BY <2>1, <3>2 DEF Merchants!Next
  <2>3. CASE swept' = swept /\ aborts' = aborts + 1
    <3>1. Merchants!CutOff
      BY <1>1, <1>2, <2>1, <2>3, CreditsSteps
    <3> QED
      BY <3>1 DEF Merchants!Next
  <2> QED
    BY <1>5, <2>2, <2>3 DEF Sweep
<1>6. ASSUME NEW p \in Procs, Abort(p)
      PROVE  Goal
  <2>1. UNCHANGED <<reviewVars, swept, request, transfer, payer, outbox>> /\ aborts' = aborts + 1
    BY <1>6 DEF Abort, dbVars, requestVars, transferVars
  <2>2. Merchants!CutOff
    BY <1>1, <1>2, <2>1, CreditsSteps
  <2> QED
    BY <2>2 DEF Merchants!Next
<1> QED
  BY <1>3, <1>4, <1>5, <1>6 DEF Environment

(* Worker, manual matches and crashes together keep what merchants are       *)
(* promised: every step of Deposits is a step of Credits or a stutter.       *)
THEOREM KeepsCreditsHolds == Spec => KeepsCredits
<1>1. Init => Merchants!Init
  <2> SUFFICES ASSUME Init
               PROVE  Merchants!Init
    OBVIOUS
  <2>1. {l \in Logs : review[l] # "none"} \union swept = {}
    BY DEF Init
  <2>2. {l \in Logs : block[l] \in 1 .. cursor} = {}
    BY DEF Init
  <2> QED
    BY <2>1, <2>2 DEF Init, Merchants!Init, NoRequest
<1>2. KInv /\ [Next]_vars => [Merchants!Next]_(Merchants!vars)
  <2>1. ASSUME UNCHANGED vars
        PROVE  UNCHANGED Merchants!vars
    BY <2>1 DEF vars, chainVars, dbVars, requestVars, transferVars, reviewVars, Merchants!vars
  <2>2. ASSUME KInv, Next
        PROVE  Merchants!Next \/ UNCHANGED Merchants!vars
    BY <2>2, WorkerKeeps, MatchKeeps, EnvironmentKeeps DEF Next, Environment
  <2> QED
    BY <2>1, <2>2
<1>3. AInv /\ RInv /\ EInv /\ (Window /\ NothingLost) => KInv
  BY DEF KInv
<1> QED
  BY <1>1, <1>2, <1>3, AnnouncementInvariant, ReviewInvariant, ExistsInvariant, WindowInvariant, PTL
     DEF Spec, KeepsCredits, Merchants!Promise
===============================================================================
