------------------------------- MODULE Treasuries -------------------------------
(***************************************************************************)
(* The treasury wallets of one merchant, network and token, and which of   *)
(* them is the default: upsertTreasuryWallet and setDefaultTreasuryWallet  *)
(* (postgres.ts), which dashboard and admin calls run next to each other.  *)
(*                                                                         *)
(* Each is one transaction at Postgres's default level, read committed:    *)
(* every statement sees what is committed when it starts, an update locks  *)
(* the rows it changes until the end, one after the other, and writes on   *)
(* top of what is committed by then.  A statement is one action; the       *)
(* update that clears the defaults, which meets many locks, has one per    *)
(* row.                                                                    *)
(***************************************************************************)
EXTENDS Naturals, FiniteSets

CONSTANTS Addresses,  \* treasury addresses that may be registered
          Callers,    \* calls that may run at the same time
          MaxCalls,   \* bound: calls altogether
          MaxAborts   \* bound: lost connections and server crashes

NoAddress == "no address"

ASSUME TreasuriesAssumption ==
  NoAddress \notin Addresses /\ MaxCalls \in Nat /\ MaxAborts \in Nat

VARIABLES
  (* Postgres. *)
  table,     \* table[a]: the committed row of an address
  draft,     \* draft[o][a]: what the transaction of o wrote, NoRow where it did not
  (* The calls. *)
  pc, call,  \* where each call is, and its local variables
  todo,      \* rows the clearing update has yet to lock
  (* History and bounds. *)
  default,   \* the wallet the owner chose last, or the first one registered
  mixed,     \* calls ran side by side that the code does not keep apart (Mixes)
  calls, aborts

vars == <<table, draft, pc, call, todo, default, mixed, calls, aborts>>

NoRow == [exists |-> FALSE, isDefault |-> FALSE]
Rows == [exists: BOOLEAN, isDefault: BOOLEAN]
NoCall == [kind |-> "none", address |-> NoAddress, existing |-> NoRow,
           makeDefault |-> FALSE]
Kinds == {"none", "register", "configure", "set"}
Calls == [kind: Kinds, address: Addresses \union {NoAddress},
          existing: Rows, makeDefault: BOOLEAN]

Empty == [a \in Addresses |-> NoRow]
Written(o) == {a \in Addresses : draft[o][a].exists}
Registered == {a \in Addresses : table[a].exists}
Defaults == {a \in Addresses : table[a].isDefault}

Init ==
  /\ table = Empty
  /\ draft = [o \in Callers |-> Empty]
  /\ pc = [o \in Callers |-> "rest"]
  /\ call = [o \in Callers |-> NoCall]
  /\ todo = [o \in Callers |-> {}]
  /\ default = NoAddress
  /\ mixed = FALSE
  /\ calls = 0
  /\ aborts = 0

Goto(o, l) == pc' = [pc EXCEPT ![o] = l]

(* What makes a wallet the default on purpose; a registration does it only   *)
(* when there is none                                                        *)
Choosing == {"configure", "set"}

(* Calls the code does not keep apart: an address is registered again while  *)
(* it is being made the default (the registration writes back the isDefault  *)
(* it read), or a registration runs next to another one when no default      *)
(* exists (each finds none, and the last one to write is it)                 *)
Mixes(kind, a) ==
  \E p \in Callers :
    LET other == call[p].kind IN
    /\ other # "none" /\ "register" \in {kind, other}
    /\ \/ call[p].address = a /\ {kind, other} \intersect Choosing # {}
       \/ Defaults = {}

-------------------------------------------------------------------------------
(***************************************************************************)
(* Locks and the unique indexes.                                           *)
(***************************************************************************)

(* Who wrote a row and is not through yet *)
Holders(o, a) == {p \in Callers \ {o} : a \in Written(p)}

(* What o finds when it locks a row: its own version, or the committed one *)
Current(o, a) == IF a \in Written(o) THEN draft[o][a] ELSE table[a]

(* Rows of others in treasury_wallets_default_unique, committed or not *)
OtherDefaults(o) ==
  {a \in Addresses \ {call[o].address} :
     Current(o, a).isDefault \/ \E p \in Holders(o, a) : draft[p][a].isDefault}

(* What the row is going to be: existing.isDefault is what was read before *)
NewDefault(o) == call[o].makeDefault \/ call[o].existing.isDefault

(* The transactions o has to wait for before its next write *)
Blockers(o) ==
  CASE pc[o] = "clear" -> UNION {Holders(o, a) : a \in todo[o]}
    [] pc[o] = "write" ->
         Holders(o, call[o].address) \union
         (IF NewDefault(o) THEN UNION {Holders(o, a) : a \in OtherDefaults(o)} ELSE {})
    [] OTHER -> {}

(* Mutant: only the address is unique. *)
RefusedByAddress(o) == ~ call[o].existing.exists /\ table[call[o].address].exists

(* A unique index refuses the write: the address has a row the call did not  *)
(* see, or another row is the default                                        *)
Refused(o) ==
  LET a == call[o].address IN
  \/ ~ call[o].existing.exists /\ table[a].exists
  \/ NewDefault(o) /\ OtherDefaults(o) # {}

(* Mutant: the transaction is left open. *)
EndLeftOpen(o) ==
  /\ Goto(o, "rest")
  /\ call' = [call EXCEPT ![o] = NoCall]
  /\ todo' = [todo EXCEPT ![o] = {}]
  /\ UNCHANGED draft

(* The end of a transaction; without a commit its writes are gone *)
End(o) ==
  /\ Goto(o, "rest")
  /\ call' = [call EXCEPT ![o] = NoCall]
  /\ draft' = [draft EXCEPT ![o] = Empty]
  /\ todo' = [todo EXCEPT ![o] = {}]

-------------------------------------------------------------------------------
(***************************************************************************)
(* The two transactions.                                                   *)
(***************************************************************************)

(* upsertTreasuryWallet: generateTreasuryWallet and registerTreasuryWallet   *)
(* leave isDefault out, configureTreasuryWallet sets it                      *)
StartUpsert(o, kind, a) ==
  /\ pc[o] = "rest" /\ calls < MaxCalls
  /\ calls' = calls + 1
  /\ call' = [call EXCEPT ![o] = [NoCall EXCEPT !.kind = kind, !.address = a]]
  /\ mixed' = (mixed \/ Mixes(kind, a))
  /\ Goto(o, "existing")
  /\ UNCHANGED <<table, draft, todo, default, aborts>>

(* setDefaultTreasuryWallet, which finds the wallet *)
StartSet(o, a) ==
  /\ pc[o] = "rest" /\ calls < MaxCalls
  /\ table[a].exists
  /\ calls' = calls + 1
  /\ call' = [call EXCEPT ![o] =
               [kind |-> "set", address |-> a, existing |-> table[a],
                makeDefault |-> TRUE]]
  /\ mixed' = (mixed \/ Mixes("set", a))
  /\ Goto(o, "snapshot")
  /\ UNCHANGED <<table, draft, todo, default, aborts>>

(* The row of the same address *)
ReadExisting(o) ==
  /\ pc[o] = "existing"
  /\ call' = [call EXCEPT ![o].existing = table[call[o].address]]
  /\ Goto(o, "defaults")
  /\ UNCHANGED <<table, draft, todo, default, mixed, calls, aborts>>

(* Mutant: only what is asked for becomes the default. *)
ShouldBeDefaultIfAsked(o) == call[o].kind = "configure"

(* input.isDefault === true || defaultRows.length === 0 *)
ShouldBeDefault(o) == call[o].kind = "configure" \/ Defaults = {}

ReadDefaults(o) ==
  /\ pc[o] = "defaults"
  /\ call' = [call EXCEPT ![o].makeDefault = ShouldBeDefault(o)]
  /\ Goto(o, IF ShouldBeDefault(o) THEN "snapshot" ELSE "write")
  /\ UNCHANGED <<table, draft, todo, default, mixed, calls, aborts>>

(* The clearing update starts: it changes the rows committed by now *)
StartClear(o) ==
  /\ pc[o] = "snapshot"
  /\ todo' = [todo EXCEPT ![o] = Registered]
  /\ Goto(o, "clear")
  /\ UNCHANGED <<table, draft, call, default, mixed, calls, aborts>>

ClearRow(o, a) ==
  /\ pc[o] = "clear" /\ a \in todo[o]
  /\ Holders(o, a) = {}
  /\ draft' = [draft EXCEPT ![o][a] = [exists |-> TRUE, isDefault |-> FALSE]]
  /\ todo' = [todo EXCEPT ![o] = @ \ {a}]
  /\ UNCHANGED <<table, pc, call, default, mixed, calls, aborts>>

EndClear(o) ==
  /\ pc[o] = "clear" /\ todo[o] = {}
  /\ Goto(o, "write")
  /\ UNCHANGED <<table, draft, call, todo, default, mixed, calls, aborts>>

(* The insert or the update by id, or the unique violation that ends the call *)
Write(o) ==
  LET a == call[o].address IN
  /\ pc[o] = "write"
  /\ Blockers(o) = {}
  /\ \/ /\ Refused(o)
        /\ End(o)
     \/ /\ ~ Refused(o)
        /\ draft' = [draft EXCEPT ![o][a] = [exists |-> TRUE, isDefault |-> NewDefault(o)]]
        /\ Goto(o, "commit")
        /\ UNCHANGED <<call, todo>>
  /\ UNCHANGED <<table, default, mixed, calls, aborts>>

Commit(o) ==
  /\ pc[o] = "commit"
  /\ table' = [a \in Addresses |-> Current(o, a)]
  /\ default' = IF call[o].kind \in Choosing \/ default = NoAddress
                THEN call[o].address ELSE default
  /\ End(o)
  /\ UNCHANGED <<mixed, calls, aborts>>

-------------------------------------------------------------------------------
(***************************************************************************)
(* Failures.                                                               *)
(***************************************************************************)

(* Transactions that wait for each other in a circle; Postgres ends one of   *)
(* them after deadlock_timeout                                               *)
Deadlocked(o) ==
  \E circle \in SUBSET Callers :
    o \in circle /\ \A p \in circle : Blockers(p) \intersect circle # {}

BreakDeadlock(o) ==
  /\ Deadlocked(o)
  /\ End(o)
  /\ UNCHANGED <<table, default, mixed, calls, aborts>>

(* A connection is lost, or a server stops *)
Abort(o) ==
  /\ pc[o] # "rest" /\ aborts < MaxAborts
  /\ aborts' = aborts + 1
  /\ End(o)
  /\ UNCHANGED <<table, default, mixed, calls>>

Run(o) ==
  \/ ReadExisting(o) \/ ReadDefaults(o) \/ StartClear(o)
  \/ \E a \in Addresses : ClearRow(o, a)
  \/ EndClear(o) \/ Write(o) \/ Commit(o)
  \/ BreakDeadlock(o)

Next ==
  \E o \in Callers :
    \/ Run(o) \/ Abort(o)
    \/ \E a \in Addresses :
         \/ StartSet(o, a)
         \/ \E kind \in {"register", "configure"} : StartUpsert(o, kind, a)

Spec == Init /\ [][Next]_vars

(* A call that runs goes on, and Postgres breaks deadlocks *)
FairSpec == Spec /\ \A o \in Callers : WF_vars(Run(o))
-------------------------------------------------------------------------------
(***************************************************************************)
(* Properties.                                                             *)
(***************************************************************************)

(* Every variable holds a value of its column or local variable, no two      *)
(* calls hold a row, and there is one default at most.                       *)
TypeOK ==
  /\ table \in [Addresses -> Rows]
  /\ draft \in [Callers -> [Addresses -> Rows]]
  /\ \A o, p \in Callers : o # p => Written(o) \intersect Written(p) = {}
  /\ Cardinality(Defaults) <= 1
  /\ pc \in [Callers -> {"rest", "existing", "defaults", "snapshot", "clear", "write", "commit"}]
  /\ call \in [Callers -> Calls]
  /\ todo \in [Callers -> SUBSET Addresses]
  /\ default \in Addresses \union {NoAddress}
  /\ mixed \in BOOLEAN
  /\ calls \in 0 .. MaxCalls /\ aborts \in 0 .. MaxAborts

(* The default is the wallet the owner chose last, or the first one: calls   *)
(* that register wallets, fail, wait for or undo each other never lose it or *)
(* move it, unless they ran next to each other as Mixes says.                *)
DefaultIsChosen ==
  ~ mixed => Defaults = {default} \ {NoAddress}

(* No call waits for ever: whatever order the clearing updates take their    *)
(* locks in, one of the callers gets through or is told to try again.        *)
EveryCallEnds == \A o \in Callers : pc[o] # "rest" ~> pc[o] = "rest"
===============================================================================
