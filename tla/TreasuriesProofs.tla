---------------------------- MODULE TreasuriesProofs ----------------------------
(***************************************************************************)
(* What holds of the treasury wallets for any number of addresses, calls   *)
(* and callers: types and locks, one default at most, and that it is the   *)
(* chosen one.                                                             *)
(***************************************************************************)
EXTENDS Treasuries, FiniteSetTheorems, TLAPS

Types ==
  /\ table \in [Addresses -> Rows]
  /\ draft \in [Callers -> [Addresses -> Rows]]
  /\ pc \in [Callers -> {"rest", "existing", "defaults", "snapshot", "clear", "write", "commit"}]
  /\ call \in [Callers -> Calls]
  /\ todo \in [Callers -> SUBSET Addresses]
  /\ default \in Addresses \union {NoAddress}
  /\ mixed \in BOOLEAN
  /\ calls \in 0 .. MaxCalls /\ aborts \in 0 .. MaxAborts

(* Two transactions never hold the same row.                                 *)
Locks == \A o, p \in Callers : \A a \in Addresses : draft[o][a].exists /\ draft[p][a].exists => o = p

(* Where a call is, and what it has found out by then.                       *)
Chosen(o) == call[o].kind \in Choosing
Running(o) ==
  /\ pc[o] = "rest" <=> call[o].kind = "none"
  /\ pc[o] # "rest" => call[o].address \in Addresses
  /\ pc[o] \in {"existing", "defaults"} => call[o].kind # "set"
  /\ pc[o] \in {"snapshot", "clear"} => call[o].makeDefault
  /\ Chosen(o) /\ pc[o] \in {"snapshot", "clear", "write", "commit"} => call[o].makeDefault

(* What a transaction has written by then: only its own row as the default,  *)
(* and that as the last of its writes.                                       *)
Drafted(o) ==
  /\ pc[o] \in {"rest", "existing", "defaults", "snapshot"} => \A a \in Addresses : ~ draft[o][a].exists
  /\ pc[o] = "write" /\ ~ call[o].makeDefault => \A a \in Addresses : ~ draft[o][a].exists
  /\ pc[o] = "commit" /\ ~ call[o].makeDefault
     => \A a \in Addresses : draft[o][a].exists => a = call[o].address
  /\ pc[o] = "commit" => draft[o][call[o].address] = [exists |-> TRUE, isDefault |-> NewDefault(o)]
  /\ \A a \in Addresses : draft[o][a].isDefault =>
       pc[o] = "commit" /\ a = call[o].address /\ draft[o][a].exists

(* The unique index on the default: who has written a default leaves room    *)
(* for no other, neither in its own view nor in another transaction.         *)
Sole(o) ==
  \A a \in Addresses : draft[o][a].isDefault =>
    /\ \A b \in Addresses : b # a => ~ Current(o, b).isDefault
    /\ \A p \in Callers : \A b \in Addresses : draft[p][b].isDefault => p = o

OneDefault == \A a, b \in Addresses : table[a].isDefault /\ table[b].isDefault => a = b

TInv ==
  /\ Types /\ Locks /\ OneDefault
  /\ \A o \in Callers : Running(o) /\ Drafted(o) /\ Sole(o)

(* What did not run side by side. While there is no default, a registration  *)
(* runs alone; and nobody registers the address another call chooses.        *)
Apart ==
  ~ mixed => \A o, p \in Callers :
    o # p /\ call[o].kind = "register" /\ pc[p] # "rest"
    => Defaults # {} /\ (Chosen(p) => call[o].address # call[p].address)

(* A registration wants the default if, and only if, there is none.          *)
RegisterKnows ==
  ~ mixed => \A o \in Callers :
    call[o].kind = "register" /\ pc[o] \in {"snapshot", "clear", "write", "commit"}
    => (call[o].makeDefault <=> Defaults = {})

(* What it read of its row can have lost the default since, never gained it. *)
RegisterRead ==
  ~ mixed => \A o \in Callers :
    /\ call[o].kind = "register" /\ pc[o] \notin {"rest", "existing"}
    /\ table[call[o].address].isDefault
    => call[o].existing.isDefault

DInv == Apart /\ RegisterKnows /\ RegisterRead /\ DefaultIsChosen

-------------------------------------------------------------------------------
LEMMA InitTInv == Init => TInv
<1> SUFFICES ASSUME Init PROVE TInv
  OBVIOUS
<1>1. NoRow \in Rows /\ NoCall \in Calls /\ Empty \in [Addresses -> Rows]
  BY DEF NoRow, Rows, NoCall, Calls, Kinds, Empty
<1>2. Types
  <2>1. /\ table \in [Addresses -> Rows] /\ draft \in [Callers -> [Addresses -> Rows]]
        /\ call \in [Callers -> Calls]
    BY <1>1 DEF Init
  <2>2. todo \in [Callers -> SUBSET Addresses]
    BY DEF Init
  <2>3. calls \in 0 .. MaxCalls /\ aborts \in 0 .. MaxAborts
    BY TreasuriesAssumption DEF Init
  <2> QED BY <2>1, <2>2, <2>3 DEF Init, Types
<1>3. \A a \in Addresses : Empty[a] = NoRow
  BY DEF Empty
<1>4. Locks /\ OneDefault
  BY <1>3 DEF Init, Locks, OneDefault, NoRow
<1>5. \A o \in Callers : Running(o)
  BY DEF Init, Running, Chosen, NoCall
<1>6. \A o \in Callers : Drafted(o) /\ Sole(o)
  BY <1>3 DEF Init, Drafted, Sole, NoRow
<1> QED BY <1>2, <1>4, <1>5, <1>6 DEF TInv

(* One call moves at a time, and only a commit changes the table.            *)
Starts(o) ==
  \E a \in Addresses :
    StartSet(o, a) \/ \E kind \in {"register", "configure"} : StartUpsert(o, kind, a)
Fails(o) == BreakDeadlock(o) \/ Abort(o)
Step(o) == Starts(o) \/ Run(o) \/ Abort(o)

LEMMA NextIsStep == Next => \E o \in Callers : Step(o)
BY DEF Next, Step, Starts

LEMMA OthersStay ==
  ASSUME Types, NEW o \in Callers, Step(o), NEW q \in Callers, q # o
  PROVE  pc'[q] = pc[q] /\ call'[q] = call[q] /\ draft'[q] = draft[q]
<1> USE DEF Types
<1>1. ASSUME Starts(o) PROVE pc'[q] = pc[q] /\ call'[q] = call[q] /\ draft'[q] = draft[q]
  BY <1>1 DEF Starts, StartSet, StartUpsert, Goto
<1>2. CASE ReadExisting(o) \/ ReadDefaults(o) \/ StartClear(o) \/ EndClear(o)
  BY <1>2 DEF ReadExisting, ReadDefaults, StartClear, EndClear, Goto
<1>3. ASSUME NEW a \in Addresses, ClearRow(o, a)
      PROVE  pc'[q] = pc[q] /\ call'[q] = call[q] /\ draft'[q] = draft[q]
  BY <1>3 DEF ClearRow
<1>4. CASE Write(o)
  BY <1>4 DEF Write, End, Goto
<1>5. CASE Commit(o) \/ Fails(o)
  BY <1>5 DEF Commit, Fails, BreakDeadlock, Abort, End, Goto
<1> QED BY <1>1, <1>2, <1>3, <1>4, <1>5 DEF Step, Run, Fails

(* The end of a transaction, whichever way: nothing of it is left.            *)
LEMMA EndLeavesNothing ==
  ASSUME Types, NEW o \in Callers, End(o)
  PROVE  pc'[o] = "rest" /\ call'[o] = NoCall /\ draft'[o] = Empty
BY DEF Types, End, Goto

LEMMA TypesStep ==
  ASSUME TInv, [Next]_vars
  PROVE  Types'
<1> USE DEF TInv, Types
<1>0. NoRow \in Rows /\ NoCall \in Calls /\ Empty \in [Addresses -> Rows]
  BY DEF NoRow, Rows, NoCall, Calls, Kinds, Empty
<1>1. ASSUME NEW o \in Callers, NEW a \in Addresses, NEW kind \in {"register", "configure"}, StartUpsert(o, kind, a)
      PROVE  Types'
  <2>1. [NoCall EXCEPT !.kind = kind, !.address = a] \in Calls
    BY DEF NoCall, Calls, Kinds, NoRow, Rows
  <2> QED BY <1>1, <2>1, TreasuriesAssumption DEF StartUpsert, Goto
<1>2. ASSUME NEW o \in Callers, NEW a \in Addresses, StartSet(o, a) PROVE Types'
  <2>1. [kind |-> "set", address |-> a, existing |-> table[a], makeDefault |-> TRUE] \in Calls
    BY DEF Calls, Kinds
  <2> QED BY <1>2, <2>1, TreasuriesAssumption DEF StartSet, Goto
<1>3. ASSUME NEW o \in Callers, ReadExisting(o) PROVE Types'
  <2> DEFINE read == table[call[o].address]
  <2>1. read \in Rows
    BY <1>3 DEF ReadExisting, TInv, Running
  <2> HIDE DEF read
  <2>2. [call[o] EXCEPT !.existing = read] \in Calls
    BY <2>1 DEF Calls
  <2>3. call' = [call EXCEPT ![o] = [call[o] EXCEPT !.existing = read]]
    BY <1>3 DEF ReadExisting, read
  <2> QED BY <1>3, <2>2, <2>3 DEF ReadExisting, Goto
<1>4. ASSUME NEW o \in Callers, ReadDefaults(o) PROVE Types'
  <2>1. ShouldBeDefault(o) \in BOOLEAN
    BY DEF ShouldBeDefault
  <2>2. [call[o] EXCEPT !.makeDefault = ShouldBeDefault(o)] \in Calls
    BY <2>1 DEF Calls
  <2> QED BY <1>4, <2>2 DEF ReadDefaults, Goto
<1>5. ASSUME NEW o \in Callers, StartClear(o) PROVE Types'
  BY <1>5 DEF StartClear, Goto, Registered
<1>6. ASSUME NEW o \in Callers, NEW a \in Addresses, ClearRow(o, a) PROVE Types'
  <2>1. [exists |-> TRUE, isDefault |-> FALSE] \in Rows
    BY DEF Rows
  <2>2. draft' \in [Callers -> [Addresses -> Rows]]
    BY <1>6, <2>1 DEF ClearRow
  <2>3. todo' \in [Callers -> SUBSET Addresses]
    BY <1>6 DEF ClearRow
  <2> QED BY <1>6, <2>2, <2>3 DEF ClearRow
<1>7. ASSUME NEW o \in Callers, EndClear(o) PROVE Types'
  BY <1>7 DEF EndClear, Goto
<1>8. ASSUME NEW o \in Callers, Write(o) PROVE Types'
  <2>1. CASE End(o)
    BY <1>0, <1>8, <2>1 DEF Write, End, Goto
  <2>2. CASE ~ End(o)
    <3>1. NewDefault(o) \in BOOLEAN
      BY DEF NewDefault, Calls, Rows
    <3>2. [exists |-> TRUE, isDefault |-> NewDefault(o)] \in Rows
      BY <3>1 DEF Rows
    <3> DEFINE new == [exists |-> TRUE, isDefault |-> NewDefault(o)]
    <3>3. call[o].address \in Addresses /\ draft' = [draft EXCEPT ![o][call[o].address] = new]
      BY <1>8, <2>2 DEF Write, TInv, Running
    <3> HIDE DEF new
    <3>4. draft' \in [Callers -> [Addresses -> Rows]]
      BY <3>2, <3>3 DEF new
    <3> QED BY <1>8, <2>2, <3>4 DEF Write, Goto
  <2> QED BY <2>1, <2>2
<1>9. ASSUME NEW o \in Callers, Commit(o) PROVE Types'
  <2>1. \A a \in Addresses : Current(o, a) \in Rows
    BY DEF Current
  <2>2. table' \in [Addresses -> Rows]
    BY <1>9, <2>1 DEF Commit
  <2>3. default' \in Addresses \union {NoAddress}
    BY <1>9 DEF Commit, Calls
  <2> QED BY <1>0, <1>9, <2>2, <2>3 DEF Commit, End, Goto
<1>10. ASSUME NEW o \in Callers, BreakDeadlock(o) PROVE Types'
  BY <1>0, <1>10 DEF BreakDeadlock, End, Goto
<1>11. ASSUME NEW o \in Callers, Abort(o) PROVE Types'
  BY <1>0, <1>11, TreasuriesAssumption DEF Abort, End, Goto
<1>12. CASE UNCHANGED vars
  BY <1>12 DEF vars
<1> QED
  BY <1>1, <1>2, <1>3, <1>4, <1>5, <1>6, <1>7, <1>8, <1>9, <1>10, <1>11, <1>12 DEF Next, Run

(* An update and an insert wait for who holds the row.                       *)
LEMMA LocksStep ==
  ASSUME TInv, NEW o \in Callers, Step(o)
  PROVE  Locks'
<1> USE DEF TInv, Types
<1>0. Empty \in [Addresses -> Rows] /\ \A b \in Addresses : ~ Empty[b].exists
  BY DEF Empty, NoRow, Rows
<1>1. SUFFICES ASSUME NEW q \in Callers, q # o, NEW b \in Addresses,
                      draft'[o][b].exists, draft[q][b].exists
               PROVE  FALSE
  <2>1. \A q \in Callers : q # o => draft'[q] = draft[q]
    BY OthersStay
  <2> QED BY <2>1 DEF Locks
<1>2. CASE draft'[o] = draft[o]
  BY <1>1, <1>2 DEF Locks
<1>3. CASE End(o)
  BY <1>0, <1>1, <1>3, EndLeavesNothing
<1>4. ASSUME NEW a \in Addresses, ClearRow(o, a) PROVE FALSE
  <2>1. b # a => draft'[o][b] = draft[o][b]
    BY <1>4 DEF ClearRow
  <2>2. ~ draft[q][a].exists
    BY <1>1, <1>4 DEF ClearRow, Holders, Written
  <2> QED BY <1>1, <2>1, <2>2 DEF Locks
<1>5. CASE Write(o) /\ ~ End(o)
  <2> DEFINE a == call[o].address
  <2>1. b # a => draft'[o][b] = draft[o][b]
    BY <1>5 DEF Write
  <2>2. a \in Addresses
    BY <1>5 DEF Write, Running
  <2>3. Holders(o, a) = {}
    BY <1>5 DEF Write, Blockers
  <2>4. ~ draft[q][a].exists
    BY <1>1, <2>2, <2>3 DEF Holders, Written
  <2> QED BY <1>1, <2>1, <2>4 DEF Locks
<1>6. CASE Starts(o) \/ ReadExisting(o) \/ ReadDefaults(o) \/ StartClear(o) \/ EndClear(o)
  BY <1>2, <1>6 DEF Starts, StartSet, StartUpsert, ReadExisting, ReadDefaults, StartClear, EndClear
<1> QED BY <1>3, <1>4, <1>5, <1>6 DEF Step, Run, Commit, BreakDeadlock, Abort

(* Who has not ended goes on where its last step left it.                    *)
LEMMA RunningStep ==
  ASSUME TInv, NEW o \in Callers, Step(o), NEW q \in Callers
  PROVE  Running(q)'
<1> USE DEF TInv, Types, Running, Chosen, Choosing
<1>1. CASE q # o
  BY <1>1, OthersStay
<1>2. CASE q = o
  <2>1. CASE End(o)
    BY <1>2, <2>1, EndLeavesNothing DEF NoCall
  <2>2. ASSUME NEW a \in Addresses, NEW kind \in {"register", "configure"}, StartUpsert(o, kind, a)
        PROVE  Running(q)'
    BY <1>2, <2>2 DEF StartUpsert, Goto, NoCall
  <2>3. ASSUME NEW a \in Addresses, StartSet(o, a)
        PROVE  Running(q)'
    BY <1>2, <2>3 DEF StartSet, Goto
  <2>4. CASE ReadExisting(o)
    BY <1>2, <2>4 DEF ReadExisting, Goto, Calls
  <2>5. CASE ReadDefaults(o)
    <3> DEFINE should == ShouldBeDefault(o)
    <3>1. call'[o] = [call[o] EXCEPT !.makeDefault = should]
      BY <2>5 DEF ReadDefaults
    <3>2. pc[o] = "defaults" /\ pc'[o] = IF should THEN "snapshot" ELSE "write"
      BY <2>5 DEF ReadDefaults, Goto
    <3>3. call[o].kind = "configure" => should
      BY DEF ShouldBeDefault
    <3>4. call[o].kind # "set"
      BY <3>2
    <3> HIDE DEF should
    <3> QED BY <1>2, <3>1, <3>2, <3>3, <3>4 DEF Calls
  <2>6. CASE StartClear(o) \/ EndClear(o)
    BY <1>2, <2>6 DEF StartClear, EndClear, Goto
  <2>7. ASSUME NEW a \in Addresses, ClearRow(o, a)
        PROVE  Running(q)'
    BY <1>2, <2>7 DEF ClearRow
  <2>8. CASE Write(o) /\ ~ End(o)
    BY <1>2, <2>8 DEF Write, Goto
  <2> QED BY <2>1, <2>2, <2>3, <2>4, <2>5, <2>6, <2>7, <2>8
         DEF Step, Starts, Run, Write, Commit, BreakDeadlock, Abort
<1> QED BY <1>1, <1>2

LEMMA DraftedStep ==
  ASSUME TInv, NEW o \in Callers, Step(o), NEW q \in Callers
  PROVE  Drafted(q)'
<1> USE DEF TInv, Types
<1>0. Empty \in [Addresses -> Rows] /\ \A b \in Addresses : ~ Empty[b].exists /\ ~ Empty[b].isDefault
  BY DEF Empty, NoRow, Rows
<1>1. CASE q # o
  <2>1. pc'[q] = pc[q] /\ call'[q] = call[q] /\ draft'[q] = draft[q]
    BY <1>1, OthersStay
  <2>2. NewDefault(q)' = NewDefault(q)
    BY <2>1 DEF NewDefault
  <2> QED BY <2>1, <2>2 DEF Drafted
<1>2. CASE q = o
  <2>1. CASE End(o)
    BY <1>0, <1>2, <2>1, EndLeavesNothing DEF Drafted
  <2>2. CASE Starts(o)
    <3>1. pc[o] = "rest" /\ pc'[o] \in {"existing", "snapshot"} /\ draft' = draft
      BY <2>2 DEF Starts, StartSet, StartUpsert, Goto
    <3> QED BY <1>2, <3>1 DEF Drafted
  <2>3. CASE ReadExisting(o) \/ StartClear(o)
    <3>1. pc[o] \in {"existing", "snapshot"} /\ pc'[o] \in {"defaults", "clear"} /\ draft' = draft
      BY <2>3 DEF ReadExisting, StartClear, Goto
    <3> QED BY <1>2, <3>1 DEF Drafted
  <2>4. CASE ReadDefaults(o)
    <3>1. pc[o] = "defaults" /\ pc'[o] \in {"snapshot", "write"} /\ draft' = draft
      BY <2>4 DEF ReadDefaults, Goto
    <3> QED BY <1>2, <3>1 DEF Drafted
  <2>5. CASE EndClear(o)
    BY <1>2, <2>5 DEF EndClear, Goto, Running, Drafted
  <2>6. ASSUME NEW a \in Addresses, ClearRow(o, a)
        PROVE  Drafted(q)'
    <3>1. pc[o] = "clear" /\ pc' = pc /\ call' = call
      BY <2>6 DEF ClearRow
    <3>2. \A b \in Addresses : draft'[o][b] = IF b = a THEN [exists |-> TRUE, isDefault |-> FALSE] ELSE draft[o][b]
      BY <2>6 DEF ClearRow
    <3>4. \A b \in Addresses : ~ draft[o][b].isDefault
      BY <3>1 DEF Drafted
    <3>3. \A b \in Addresses : ~ draft'[o][b].isDefault
      BY <3>2, <3>4
    <3> QED BY <1>2, <3>1, <3>3 DEF Drafted
  <2>7. CASE Write(o) /\ ~ End(o)
    <3> DEFINE own == call[o].address
               new == [exists |-> TRUE, isDefault |-> NewDefault(o)]
    <3>1. pc[o] = "write" /\ pc'[o] = "commit" /\ call' = call /\ own \in Addresses
      BY <2>7 DEF Write, Goto, Running
    <3>2. \A b \in Addresses : draft'[o][b] = IF b = own THEN new ELSE draft[o][b]
      BY <2>7 DEF Write
    <3>3. \A b \in Addresses : ~ draft[o][b].isDefault
      BY <3>1 DEF Drafted
    <3>4. ~ call[o].makeDefault => \A b \in Addresses : ~ draft[o][b].exists
      BY <3>1 DEF Drafted
    <3>5. NewDefault(o)' = NewDefault(o)
      BY <3>1 DEF NewDefault
    <3>6. \A b \in Addresses : draft'[o][b].isDefault => b = own /\ draft'[o][b].exists
      BY <3>2, <3>3
    <3>7. ~ call'[o].makeDefault => \A b \in Addresses : draft'[o][b].exists => b = own
      BY <3>1, <3>2, <3>4
    <3>8. draft'[o][call'[o].address] = [exists |-> TRUE, isDefault |-> NewDefault(o)']
      BY <3>1, <3>2, <3>5
    <3> QED BY <1>2, <3>1, <3>6, <3>7, <3>8 DEF Drafted
  <2> QED BY <2>1, <2>2, <2>3, <2>4, <2>5, <2>6, <2>7 DEF Step, Run, Write, Commit, BreakDeadlock, Abort
<1> QED BY <1>1, <1>2

(* A transaction whose row became the default waited for every other default. *)
LEMMA SoleStep ==
  ASSUME TInv, NEW o \in Callers, Step(o), NEW q \in Callers
  PROVE  Sole(q)'
<1> USE DEF TInv, Types
<1>0. Empty \in [Addresses -> Rows] /\ \A b \in Addresses : ~ Empty[b].exists /\ ~ Empty[b].isDefault
  BY DEF Empty, NoRow, Rows
<1>1. SUFFICES ASSUME NEW a \in Addresses, draft'[q][a].isDefault
               PROVE  /\ \A b \in Addresses : b # a => ~ Current(q, b)'.isDefault
                      /\ \A p \in Callers : \A b \in Addresses : draft'[p][b].isDefault => p = q
  BY DEF Sole
<1>2. CASE draft' = draft /\ table' = table
  BY <1>1, <1>2 DEF Sole, Current, Written
<1>3. CASE End(o) /\ table' = table
  <2>1. q # o /\ draft'[q] = draft[q]
    BY <1>0, <1>1, <1>3, EndLeavesNothing, OthersStay
  <2>2. \A p \in Callers : \A b \in Addresses : draft'[p][b].isDefault => draft[p][b].isDefault
    BY <1>0, <1>3, EndLeavesNothing, OthersStay
  <2> QED BY <1>1, <1>3, <2>1, <2>2 DEF Sole, Current, Written
<1>4. CASE Commit(o)
  <2>1. q # o /\ draft'[q] = draft[q]
    BY <1>0, <1>1, <1>4, EndLeavesNothing, OthersStay DEF Commit
  <2>2. \A p \in Callers : \A b \in Addresses : draft'[p][b].isDefault => draft[p][b].isDefault
    BY <1>0, <1>4, EndLeavesNothing, OthersStay DEF Commit
  <2>3. \A b \in Addresses : ~ draft[o][b].isDefault
    BY <1>1, <2>1 DEF Sole
  <2>4. \A b \in Addresses : table'[b].isDefault => table[b].isDefault
    BY <1>4, <2>3 DEF Commit, Current
  <2> QED BY <1>1, <2>1, <2>2, <2>4 DEF Sole, Current, Written
<1>5. ASSUME NEW c \in Addresses, ClearRow(o, c)
      PROVE  /\ \A b \in Addresses : b # a => ~ Current(q, b)'.isDefault
             /\ \A p \in Callers : \A b \in Addresses : draft'[p][b].isDefault => p = q
  <2>1. /\ \A b \in Addresses : draft'[o][b] = IF b = c THEN [exists |-> TRUE, isDefault |-> FALSE] ELSE draft[o][b]
        /\ pc[o] = "clear" /\ table' = table
    BY <1>5 DEF ClearRow
  <2>5. \A b \in Addresses : ~ draft[o][b].isDefault
    BY <2>1 DEF Drafted
  <2>2. \A b \in Addresses : ~ draft'[o][b].isDefault
    BY <2>1, <2>5
  <2>4. q # o /\ draft'[q] = draft[q]
    BY <1>1, <2>2, OthersStay
  <2>3. \A p \in Callers : \A b \in Addresses : draft'[p][b].isDefault => draft[p][b].isDefault
    BY <2>1, OthersStay
  <2> QED BY <1>1, <2>1, <2>4, <2>3 DEF Sole, Current, Written
<1>6. CASE Write(o) /\ ~ End(o)
  <2> DEFINE own == call[o].address
             new == [exists |-> TRUE, isDefault |-> NewDefault(o)]
  <2>1. pc[o] = "write" /\ table' = table /\ call' = call /\ own \in Addresses
    BY <1>6 DEF Write, Running
  <2>2. \A b \in Addresses : draft'[o][b] = IF b = own THEN new ELSE draft[o][b]
    BY <1>6 DEF Write
  <2>3. \A b \in Addresses : ~ draft[o][b].isDefault
    BY <2>1 DEF Drafted
  <2>4. Blockers(o) = {} /\ (NewDefault(o) => OtherDefaults(o) = {})
    BY <1>6 DEF Write, Refused
  <2>5. Holders(o, own) = {}
    BY <2>1, <2>4 DEF Blockers
  <2>6. ASSUME NewDefault(o), NEW p \in Callers, NEW b \in Addresses, draft[p][b].isDefault
        PROVE  p = o
    <3>1. draft[p][b].exists
      BY <2>6 DEF Drafted
    <3>2. CASE b = own
      BY <2>5, <3>1, <3>2 DEF Holders, Written
    <3>3. CASE b # own /\ p # o
      <4>1. p \in Holders(o, b)
        BY <3>1, <3>3 DEF Holders, Written
      <4>2. b \in OtherDefaults(o)
        BY <2>6, <3>3, <4>1 DEF OtherDefaults
      <4> QED BY <2>4, <2>6, <4>2
    <3> QED BY <3>2, <3>3
  <2>7. CASE q = o
    <3>1. NewDefault(o) /\ a = own
      BY <1>1, <2>2, <2>3, <2>7
    <3>2. \A b \in Addresses : b # own => ~ Current(o, b).isDefault
      BY <2>4, <3>1 DEF OtherDefaults
    <3>3. \A b \in Addresses : b # own => Current(o, b)' = Current(o, b)
      BY <2>1, <2>2 DEF Current, Written
    <3>4. \A p \in Callers : p # o => draft'[p] = draft[p]
      BY OthersStay
    <3> QED BY <2>6, <2>7, <3>1, <3>2, <3>3, <3>4
  <2>8. CASE q # o
    <3>1. \A p \in Callers : p # o => draft'[p] = draft[p]
      BY OthersStay
    <3>2. draft[q][a].isDefault
      BY <1>1, <2>8, <3>1
    <3>3. ~ NewDefault(o)
      BY <2>6, <2>8, <3>2
    <3>4. \A p \in Callers : \A b \in Addresses : draft'[p][b].isDefault => draft[p][b].isDefault
      BY <2>2, <3>1, <3>3
    <3>5. \A b \in Addresses : Current(q, b)' = Current(q, b)
      BY <2>1, <2>8, <3>1 DEF Current, Written
    <3> QED BY <3>2, <3>4, <3>5 DEF Sole
  <2> QED BY <2>7, <2>8
<1> QED BY <1>2, <1>3, <1>4, <1>5, <1>6 DEF Step, Starts, StartSet, StartUpsert, Run, ReadExisting, ReadDefaults,
        StartClear, EndClear, Write, BreakDeadlock, Abort

(* What a commit makes of the defaults. *)
LEMMA CommitDefaults ==
  ASSUME TInv, NEW o \in Callers, Commit(o)
  PROVE  /\ call[o].address \in Addresses
         /\ NewDefault(o) => \A b \in Addresses : table'[b].isDefault <=> b = call[o].address
         /\ ~ NewDefault(o) => \A b \in Addresses : table'[b].isDefault => table[b].isDefault
         /\ ~ call[o].makeDefault => \A b \in Addresses : b # call[o].address => table'[b] = table[b]
<1> USE DEF TInv, Types
<1> DEFINE own == call[o].address
<1>1. pc[o] = "commit" /\ own \in Addresses /\ \A b \in Addresses : table'[b] = Current(o, b)
  BY DEF Commit, Running
<1>2. draft[o][own] = [exists |-> TRUE, isDefault |-> NewDefault(o)]
  BY <1>1 DEF Drafted
<1>3. Current(o, own) = draft[o][own]
  BY <1>1, <1>2 DEF Current, Written
<1>4. ASSUME NewDefault(o)
      PROVE  \A b \in Addresses : table'[b].isDefault <=> b = own
  <2>1. draft[o][own].isDefault
    BY <1>2, <1>4
  <2>2. \A b \in Addresses : b # own => ~ Current(o, b).isDefault
    BY <1>1, <2>1 DEF Sole
  <2> QED BY <1>1, <1>3, <2>1, <2>2
<1>5. ASSUME ~ NewDefault(o), NEW b \in Addresses, table'[b].isDefault
      PROVE  table[b].isDefault
  <2>1. ~ draft[o][b].isDefault
    BY <1>1, <1>2, <1>5 DEF Drafted
  <2> QED BY <1>1, <1>5, <2>1 DEF Current
<1>6. ASSUME ~ call[o].makeDefault, NEW b \in Addresses, b # own
      PROVE  table'[b] = table[b]
  <2>1. ~ draft[o][b].exists
    BY <1>1, <1>6 DEF Drafted
  <2> QED BY <1>1, <2>1 DEF Current, Written
<1> QED BY <1>1, <1>4, <1>5, <1>6

(* Nothing but a commit changes what is committed, or the wallet chosen last. *)
LEMMA CommitsOnly ==
  ASSUME NEW o \in Callers, Step(o), ~ Commit(o)
  PROVE  table' = table /\ default' = default /\ (mixed => mixed')
<1>1. ASSUME NEW a \in Addresses, StartSet(o, a)
      PROVE  table' = table /\ default' = default /\ (mixed => mixed')
  BY <1>1 DEF StartSet
<1>2. ASSUME NEW a \in Addresses, NEW kind, StartUpsert(o, kind, a)
      PROVE  table' = table /\ default' = default /\ (mixed => mixed')
  BY <1>2 DEF StartUpsert
<1>3. CASE Run(o) \/ Abort(o)
  BY <1>3 DEF Run, ReadExisting, ReadDefaults, StartClear, ClearRow, EndClear, Write, BreakDeadlock, Abort
<1> QED BY <1>1, <1>2, <1>3 DEF Step, Starts

LEMMA CommitKeepsMixed ==
  ASSUME NEW o \in Callers, Commit(o)
  PROVE  mixed' = mixed
BY DEF Commit

LEMMA OneDefaultStep ==
  ASSUME TInv, NEW o \in Callers, Step(o)
  PROVE  OneDefault'
<1> USE DEF TInv, Types, OneDefault
<1>1. CASE Commit(o)
  BY <1>1, CommitDefaults
<1>2. CASE ~ Commit(o)
  BY <1>2, CommitsOnly
<1> QED BY <1>1, <1>2

(* The default is the chosen wallet: what a registration finds is what it      *)
(* leaves, and what a call chooses is what the table has.                      *)
LEMMA DefaultIsChosenStep ==
  ASSUME TInv, DInv, NEW o \in Callers, Step(o)
  PROVE  DefaultIsChosen'
<1> USE DEF TInv, Types
<1>1. SUFFICES ASSUME ~ mixed'
               PROVE  (Defaults = {default} \ {NoAddress})'
  BY DEF DefaultIsChosen
<1>2. CASE ~ Commit(o)
  BY <1>1, <1>2, CommitsOnly DEF DInv, DefaultIsChosen, Defaults
<1>3. CASE Commit(o)
  <2> DEFINE own == call[o].address
  <2>1. ~ mixed /\ own \in Addresses /\ own # NoAddress
    BY <1>1, <1>3, CommitKeepsMixed, CommitDefaults, TreasuriesAssumption
  <2>2. Defaults = {default} \ {NoAddress}
    BY <2>1 DEF DInv, DefaultIsChosen
  <2>3. default' = IF call[o].kind \in Choosing \/ default = NoAddress THEN own ELSE default
    BY <1>3 DEF Commit
  <2>4. pc[o] = "commit" /\ call[o].kind \in {"register", "configure", "set"}
    BY <1>3 DEF Commit, Running, Calls, Kinds
  <2>5. CASE NewDefault(o) /\ (call[o].kind \in Choosing \/ default = NoAddress)
    <3>1. Defaults' = {own}
      BY <1>3, <2>5, CommitDefaults DEF Defaults
    <3> QED BY <2>1, <2>3, <2>5, <3>1
  <2>6. CASE call[o].kind \in Choosing \/ default = NoAddress
    <3>1. call[o].makeDefault
      <4>1. CASE call[o].kind \in Choosing
        BY <2>4, <4>1 DEF Running, Chosen
      <4>2. CASE call[o].kind = "register" /\ default = NoAddress
        BY <2>1, <2>2, <2>4, <4>2 DEF DInv, RegisterKnows
      <4> QED BY <2>4, <2>6, <4>1, <4>2 DEF Choosing
    <3> QED BY <2>5, <2>6, <3>1 DEF NewDefault
  <2>7. CASE call[o].kind = "register" /\ default # NoAddress
    <3>1. default \in Addresses /\ Defaults = {default} /\ default' = default
      BY <2>2, <2>3, <2>7 DEF Choosing
    <3>2. ~ call[o].makeDefault
      BY <2>1, <2>4, <2>7, <3>1 DEF DInv, RegisterKnows
    <3>3. table[default].isDefault /\ \A b \in Addresses : table[b].isDefault => b = default
      BY <3>1 DEF Defaults
    <3>4. own = default => NewDefault(o)
      BY <2>1, <2>4, <2>7, <3>3 DEF DInv, RegisterRead, NewDefault
    <3>5. \A b \in Addresses : table'[b].isDefault <=> b = default
      <4>1. CASE own = default
        BY <1>3, <3>4, <4>1, CommitDefaults
      <4>2. CASE own # default
        <5>1. table'[default].isDefault
          BY <1>3, <3>1, <3>2, <3>3, <4>2, CommitDefaults
        <5>2. ~ NewDefault(o)
          BY <1>3, <3>1, <4>2, <5>1, CommitDefaults
        <5> QED BY <1>3, <3>3, <5>1, <5>2, CommitDefaults
      <4> QED BY <4>1, <4>2
    <3>6. Defaults' = {default}
      BY <3>1, <3>5 DEF Defaults
    <3> QED BY <3>1, <3>6, <2>7
  <2> QED BY <2>4, <2>6, <2>7 DEF Choosing
<1> QED BY <1>2, <1>3

(* While calls are kept apart, a default that exists is never lost. *)
LEMMA DefaultStays ==
  ASSUME TInv, DInv, NEW o \in Callers, Step(o), ~ mixed', Defaults # {}
  PROVE  Defaults' # {}
<1> USE DEF TInv, Types
<1>1. CASE ~ Commit(o)
  BY <1>1, CommitsOnly DEF Defaults
<1>2. CASE Commit(o)
  <2>1. default # NoAddress
    BY <1>2, CommitKeepsMixed DEF DInv, DefaultIsChosen
  <2>2. default' # NoAddress
    BY <1>2, <2>1, CommitDefaults, TreasuriesAssumption DEF Commit
  <2>3. Defaults' = {default'} \ {NoAddress}
    BY DefaultIsChosenStep DEF DefaultIsChosen
  <2> QED BY <2>2, <2>3
<1> QED BY <1>1, <1>2

(* The start of a call looks at every call that runs. *)
LEMMA StartsApart ==
  ASSUME TInv, DInv, NEW o \in Callers, Starts(o), ~ mixed', NEW q \in Callers, q # o
  PROVE  /\ call'[o].kind = "register" /\ pc[q] # "rest"
            => Defaults # {} /\ (Chosen(q) => call'[o].address # call[q].address)
         /\ call[q].kind = "register"
            => Defaults # {} /\ (call'[o].kind \in Choosing => call'[o].address # call[q].address)
<1> USE DEF TInv, Types
<1>1. ASSUME NEW kind, NEW a \in Addresses, call'[o].kind = kind, call'[o].address = a, ~ Mixes(kind, a)
      PROVE  /\ call'[o].kind = "register" /\ pc[q] # "rest"
                => Defaults # {} /\ (Chosen(q) => call'[o].address # call[q].address)
             /\ call[q].kind = "register"
                => Defaults # {} /\ (call'[o].kind \in Choosing => call'[o].address # call[q].address)
  <2>1. call[q].kind # "none" /\ "register" \in {kind, call[q].kind}
        => /\ Defaults # {}
           /\ call[q].address = a => {kind, call[q].kind} \intersect Choosing = {}
    BY <1>1 DEF Mixes
  <2>2. pc[q] # "rest" => call[q].kind # "none"
    BY DEF Running
  <2> QED BY <1>1, <2>1, <2>2 DEF Chosen
<1>2. ASSUME NEW a \in Addresses, StartSet(o, a)
      PROVE  call'[o].kind = "set" /\ call'[o].address = a /\ ~ Mixes("set", a)
  BY <1>2 DEF StartSet
<1>3. ASSUME NEW a \in Addresses, NEW kind, StartUpsert(o, kind, a)
      PROVE  call'[o].kind = kind /\ call'[o].address = a /\ ~ Mixes(kind, a)
  BY <1>3 DEF StartUpsert, NoCall
<1>4. CASE \E a \in Addresses : StartSet(o, a)
  BY <1>1, <1>2, <1>4
<1>5. CASE \E a \in Addresses, kind \in {"register", "configure"} : StartUpsert(o, kind, a)
  BY <1>1, <1>3, <1>5
<1> QED BY <1>4, <1>5 DEF Starts

(* Which call it is does not change before it ends. *)
LEMMA CallStays ==
  ASSUME TInv, NEW o \in Callers, Step(o), ~ Starts(o)
  PROVE  \/ call'[o].kind = "none" /\ pc'[o] = "rest"
         \/ /\ call'[o].kind = call[o].kind /\ call'[o].address = call[o].address
            /\ pc[o] # "rest"
<1> USE DEF TInv, Types
<1>1. CASE End(o)
  BY <1>1, EndLeavesNothing DEF NoCall
<1>2. CASE ReadExisting(o)
  BY <1>2 DEF ReadExisting, Calls
<1>3. CASE ReadDefaults(o)
  BY <1>3 DEF ReadDefaults, Calls
<1>4. CASE StartClear(o) \/ EndClear(o) \/ (Write(o) /\ ~ End(o)) \/ \E a \in Addresses : ClearRow(o, a)
  BY <1>4 DEF StartClear, EndClear, Write, ClearRow
<1> QED BY <1>1, <1>2, <1>3, <1>4 DEF Step, Run, Write, Commit, BreakDeadlock, Abort

LEMMA ApartStep ==
  ASSUME TInv, DInv, NEW o \in Callers, Step(o)
  PROVE  Apart'
<1> USE DEF TInv, Types
<1> SUFFICES ASSUME ~ mixed', NEW r \in Callers, NEW q \in Callers,
                    r # q, call'[r].kind = "register", pc'[q] # "rest"
             PROVE  Defaults' # {} /\ (Chosen(q)' => call'[r].address # call'[q].address)
  BY DEF Apart
<1>1. ~ mixed
  BY CommitsOnly, CommitKeepsMixed
<1>2. ASSUME NEW p \in Callers, p # o
      PROVE  pc'[p] = pc[p] /\ call'[p] = call[p]
  BY <1>2, OthersStay
<1>3. CASE ~ Starts(o)
  <2>1. /\ call[r].kind = "register" /\ call'[r].address = call[r].address
        /\ pc[q] # "rest" /\ call'[q].kind = call[q].kind /\ call'[q].address = call[q].address
    BY <1>2, <1>3, CallStays
  <2>2. Defaults # {} /\ (Chosen(q) => call[r].address # call[q].address)
    BY <1>1, <2>1 DEF DInv, Apart
  <2> QED BY <2>1, <2>2, DefaultStays DEF Chosen
<1>4. CASE Starts(o)
  <2>1. table' = table
    BY <1>4 DEF Starts, StartSet, StartUpsert
  <2>2. Defaults # {} => Defaults' # {}
    BY DefaultStays
  <2>3. CASE r = o
    BY <1>2, <1>4, <2>2, <2>3, StartsApart DEF Chosen
  <2>4. CASE q = o
    BY <1>2, <1>4, <2>2, <2>4, StartsApart DEF Chosen
  <2>5. CASE r # o /\ q # o
    BY <1>1, <1>2, <2>2, <2>5 DEF Chosen, DInv, Apart
  <2> QED BY <2>3, <2>4, <2>5
<1> QED BY <1>3, <1>4

LEMMA RegisterKnowsStep ==
  ASSUME TInv, DInv, NEW o \in Callers, Step(o)
  PROVE  RegisterKnows'
<1> USE DEF TInv, Types
<1> DEFINE Late == {"snapshot", "clear", "write", "commit"}
<1> SUFFICES ASSUME ~ mixed', NEW r \in Callers, call'[r].kind = "register", pc'[r] \in Late
             PROVE  call'[r].makeDefault <=> Defaults' = {}
  BY DEF RegisterKnows
<1>1. ~ mixed
  BY CommitsOnly, CommitKeepsMixed
<1>2. CASE r # o
  <2>1. pc'[r] = pc[r] /\ call'[r] = call[r]
    BY <1>2, OthersStay
  <2>2. call[r].makeDefault <=> Defaults = {}
    BY <1>1, <2>1 DEF DInv, RegisterKnows
  <2>3. CASE Commit(o)
    <3>1. Defaults # {}
      BY <1>1, <1>2, <2>1, <2>3 DEF Commit, DInv, Apart
    <3> QED BY <2>1, <2>2, <3>1, DefaultStays
  <2>4. CASE ~ Commit(o)
    BY <2>1, <2>2, <2>4, CommitsOnly DEF Defaults
  <2> QED BY <2>3, <2>4
<1>3. CASE r = o
  <2>1. CASE End(o)
    BY <1>3, <2>1, EndLeavesNothing
  <2>2. CASE Starts(o)
    BY <1>3, <2>2 DEF Starts, StartSet, StartUpsert, Goto
  <2>3. CASE ReadExisting(o)
    BY <1>3, <2>3 DEF ReadExisting, Goto
  <2>4. CASE ReadDefaults(o)
    <3>1. call'[o].makeDefault = ShouldBeDefault(o) /\ call'[o].kind = call[o].kind /\ Defaults' = Defaults
      BY <2>4 DEF ReadDefaults, Calls, Defaults
    <3> QED BY <1>3, <3>1 DEF ShouldBeDefault
  <2>5. CASE StartClear(o) \/ EndClear(o) \/ (Write(o) /\ ~ End(o)) \/ \E a \in Addresses : ClearRow(o, a)
    <3>1. call' = call /\ pc[o] \in Late /\ Defaults' = Defaults
      BY <2>5 DEF StartClear, EndClear, Write, ClearRow, Defaults
    <3> QED BY <1>1, <1>3, <3>1 DEF DInv, RegisterKnows
  <2> QED BY <2>1, <2>2, <2>3, <2>4, <2>5 DEF Step, Run, Write, Commit, BreakDeadlock, Abort
<1> QED BY <1>2, <1>3

LEMMA RegisterReadStep ==
  ASSUME TInv, DInv, NEW o \in Callers, Step(o)
  PROVE  RegisterRead'
<1> USE DEF TInv, Types
<1> SUFFICES ASSUME ~ mixed', NEW r \in Callers, call'[r].kind = "register",
                    pc'[r] \notin {"rest", "existing"}, table'[call'[r].address].isDefault
             PROVE  call'[r].existing.isDefault
  BY DEF RegisterRead
<1>1. ~ mixed
  BY CommitsOnly, CommitKeepsMixed
<1>2. CASE r # o
  <2>1. pc'[r] = pc[r] /\ call'[r] = call[r] /\ call[r].address \in Addresses
    BY <1>2, OthersStay DEF Running
  <2>2. CASE table[call[r].address].isDefault
    BY <1>1, <2>1, <2>2 DEF DInv, RegisterRead
  <2>3. CASE Commit(o) /\ ~ table[call[r].address].isDefault
    <3>1. NewDefault(o) /\ call[r].address = call[o].address
      BY <2>1, <2>3, CommitDefaults
    <3>2. pc[o] = "commit"
      BY <2>3 DEF Commit
    <3>3. Defaults # {} /\ ~ Chosen(o)
      BY <1>1, <1>2, <2>1, <3>1, <3>2 DEF DInv, Apart
    <3>4. call[o].kind = "register"
      BY <3>2, <3>3 DEF Running, Calls, Kinds, Chosen, Choosing
    <3>5. ~ call[o].makeDefault
      BY <1>1, <3>2, <3>3, <3>4 DEF DInv, RegisterKnows
    <3>6. PICK d \in Addresses : table[d].isDefault
      BY <3>3 DEF Defaults
    <3>7. d # call[o].address
      BY <2>3, <3>1, <3>6
    <3>8. table'[d].isDefault
      BY <2>3, <3>5, <3>6, <3>7, CommitDefaults
    <3> QED BY <2>3, <3>1, <3>7, <3>8, CommitDefaults
  <2>4. CASE ~ Commit(o)
    BY <1>1, <2>1, <2>4, CommitsOnly DEF DInv, RegisterRead
  <2> QED BY <2>2, <2>3, <2>4
<1>3. CASE r = o
  <2>1. CASE End(o)
    BY <1>3, <2>1, EndLeavesNothing
  <2>2. CASE Starts(o)
    <3>1. ASSUME NEW a \in Addresses, StartSet(o, a) PROVE call'[o].kind = "set"
      BY <3>1 DEF StartSet
    <3>2. ASSUME NEW a \in Addresses, NEW kind, StartUpsert(o, kind, a) PROVE pc'[o] = "existing"
      BY <3>2 DEF StartUpsert, Goto
    <3> QED BY <1>3, <2>2, <3>1, <3>2 DEF Starts
  <2>3. CASE ReadExisting(o)
    <3>1. call'[o].existing = table[call[o].address] /\ call'[o].address = call[o].address /\ table' = table
      BY <2>3 DEF ReadExisting, Calls
    <3> QED BY <1>3, <3>1
  <2>4. CASE ReadDefaults(o)
    <3>1. /\ call'[o].existing = call[o].existing /\ call'[o].address = call[o].address
          /\ call'[o].kind = call[o].kind /\ table' = table /\ pc[o] = "defaults"
      BY <2>4 DEF ReadDefaults, Calls
    <3> QED BY <1>1, <1>3, <3>1 DEF DInv, RegisterRead
  <2>5. CASE StartClear(o) \/ EndClear(o) \/ (Write(o) /\ ~ End(o)) \/ \E a \in Addresses : ClearRow(o, a)
    <3>1. call' = call /\ pc[o] \in {"snapshot", "clear", "write", "commit"} /\ table' = table
      BY <2>5 DEF StartClear, EndClear, Write, ClearRow
    <3> QED BY <1>1, <1>3, <3>1 DEF DInv, RegisterRead
  <2> QED BY <2>1, <2>2, <2>3, <2>4, <2>5 DEF Step, Run, Write, Commit, BreakDeadlock, Abort
<1> QED BY <1>2, <1>3

-------------------------------------------------------------------------------
(***************************************************************************)
(* The theorems.                                                           *)
(***************************************************************************)
LEMMA TInvStep == TInv /\ [Next]_vars => TInv'
<1> SUFFICES ASSUME TInv, [Next]_vars PROVE TInv'
  OBVIOUS
<1>1. CASE Next
  <2>1. PICK o \in Callers : Step(o)
    BY <1>1, NextIsStep
  <2> QED BY <2>1, TypesStep, LocksStep, RunningStep, DraftedStep, SoleStep, OneDefaultStep DEF TInv
<1>2. CASE UNCHANGED vars
  BY <1>2, TypesStep DEF vars, TInv, Locks, OneDefault, Running, Drafted, Sole, Chosen, NewDefault, Current, Written
<1> QED BY <1>1, <1>2

LEMMA InitDInv == Init => DInv
<1> SUFFICES ASSUME Init PROVE DInv
  OBVIOUS
<1>1. \A o \in Callers : call[o].kind = "none"
  BY DEF Init, NoCall
<1>2. Defaults = {}
  BY DEF Init, Defaults, Empty, NoRow
<1> QED BY <1>1, <1>2 DEF Init, DInv, Apart, RegisterKnows, RegisterRead, DefaultIsChosen

LEMMA DInvStep == TInv /\ DInv /\ [Next]_vars => DInv'
<1> SUFFICES ASSUME TInv, DInv, [Next]_vars PROVE DInv'
  OBVIOUS
<1>1. CASE Next
  <2>1. PICK o \in Callers : Step(o)
    BY <1>1, NextIsStep
  <2> QED BY <2>1, ApartStep, RegisterKnowsStep, RegisterReadStep, DefaultIsChosenStep DEF DInv
<1>2. CASE UNCHANGED vars
  BY <1>2 DEF vars, DInv, Apart, RegisterKnows, RegisterRead, DefaultIsChosen, Defaults, Chosen
<1> QED BY <1>1, <1>2

LEMMA Invariance == Spec => [](TInv /\ DInv)
BY InitTInv, InitDInv, TInvStep, DInvStep, PTL DEF Spec

(* Two transactions never hold one row, and the partial unique index keeps    *)
(* one default at most, for any number of wallets and calls.                  *)
THEOREM TypeCorrect == Spec => []TypeOK
<1>1. TInv => TypeOK
  <2> SUFFICES ASSUME TInv PROVE TypeOK
    OBVIOUS
  <2>1. \A o, p \in Callers : o # p => Written(o) \intersect Written(p) = {}
    BY DEF TInv, Locks, Written
  <2>2. Cardinality(Defaults) <= 1
    <3>1. CASE Defaults = {}
      BY <3>1, FS_EmptySet
    <3>2. ASSUME NEW a \in Defaults PROVE Cardinality(Defaults) <= 1
      <4>1. Defaults = {a}
        BY <3>2 DEF Defaults, TInv, OneDefault
      <4>2. Cardinality({a}) = 1
        BY FS_Singleton
      <4> QED BY <4>1, <4>2
    <3> QED BY <3>1, <3>2
  <2> QED BY <2>1, <2>2 DEF TInv, Types, TypeOK
<1> QED BY Invariance, <1>1, PTL

(* upsertTreasuryWallet and setDefaultTreasuryWallet, read committed: unless  *)
(* calls ran next to each other as Mixes says, the default is the wallet the  *)
(* owner chose last, or the first, whatever else fails, waits or is undone.   *)
THEOREM DefaultIsChosenHolds == Spec => []DefaultIsChosen
<1>1. DInv => DefaultIsChosen
  BY DEF DInv
<1> QED BY Invariance, <1>1, PTL

(* A call that makes a wallet the default and commits has made it the only    *)
(* one, whatever runs next to it.                                             *)
ChoiceTakesEffect ==
  [][\A o \in Callers : Commit(o) /\ Chosen(o) => Defaults' = {call[o].address}]_vars

(* Also next to registrations that write back what they read: the unique      *)
(* index makes one of the two fail, and who commits has had its way.          *)
THEOREM ChoiceTakesEffectHolds == Spec => ChoiceTakesEffect
<1>1. TInv => \A o \in Callers : Commit(o) /\ Chosen(o) => Defaults' = {call[o].address}
  <2> SUFFICES ASSUME TInv, NEW o \in Callers, Commit(o), Chosen(o)
               PROVE  Defaults' = {call[o].address}
    OBVIOUS
  <2>1. NewDefault(o)
    BY DEF Commit, TInv, Running, NewDefault
  <2> QED BY <2>1, CommitDefaults DEF Defaults
<1> QED BY Invariance, <1>1, PTL DEF ChoiceTakesEffect
===============================================================================
