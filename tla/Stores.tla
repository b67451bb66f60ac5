--------------------------------- MODULE Stores ---------------------------------
(***************************************************************************)
(* The two implementations of Repository: maps in memory (memory.ts),      *)
(* which the test suite runs on, and tables in Postgres (postgres.ts,      *)
(* schema.ts), which production runs on.  Both get the same calls; what    *)
(* the tests show of the services holds in production as far as the two    *)
(* stay alike.                                                             *)
(*                                                                         *)
(* A behaviour calls the operations of one table, which it picks at the    *)
(* start: no operation changes two tables.  One call is one action on both *)
(* stores.  A call carries what the services pass: a fresh id for a new    *)
(* row, except the configured id of the owner's account.  Columns that     *)
(* are only copied from the input to the row are left out; network and     *)
(* token are one asset.  Time is the number of the call.                   *)
(***************************************************************************)
EXTENDS Integers, Sequences, FiniteSets, SequencesExt

CONSTANTS Tables,     \* the tables a behaviour may be about
          Ids,        \* primary keys
          Merchants,
          Keys,       \* public keys, addresses, logs, transfers, ...: what else names a row
          Limit,      \* limit of the lists
          MaxCalls    \* bound: calls

ASSUME StoresAssumption == Limit \in Nat /\ MaxCalls \in Nat

VARIABLES
  table,    \* the table this behaviour is about
  mem,      \* its Map: rows by id
  index,    \* the Map beside it: ids by key
  pg,       \* the rows Postgres holds, by id
  answers,  \* what the two returned for the last call
  apart,    \* Postgres declined a call that memory carried out
  calls

vars == <<table, mem, index, pg, answers, apart, calls>>

Now == calls + 1
None == "none"

Init ==
  /\ table \in Tables
  /\ mem = << >> /\ index = << >> /\ pg = << >>
  /\ answers = [mem |-> << >>, pg |-> << >>]
  /\ apart = FALSE
  /\ calls = 0

-------------------------------------------------------------------------------
(***************************************************************************)
(* Rows.  An answer is a sequence: of the row, or of the rows, or nothing. *)
(***************************************************************************)
Put(rows, id, row) == [i \in DOMAIN rows \union {id} |-> IF i = id THEN row ELSE rows[i]]

(* { ...row, ...new }, set(new) *)
Over(new, row) ==
  [column \in DOMAIN new \union DOMAIN row |-> IF column \in DOMAIN new THEN new[column] ELSE row[column]]
Set(rows, ids, new) == [i \in DOMAIN rows |-> IF i \in ids THEN Over(new, rows[i]) ELSE rows[i]]
Row(rows, id) == IF id \in DOMAIN rows THEN <<rows[id]>> ELSE << >>

(* where(and(eq ...)), filter: the rows with these values in these columns *)
Having(rows, values) ==
  {i \in DOMAIN rows : \A column \in DOMAIN values : rows[i][column] = values[column]}

(* What a call leaves and returns *)
Memory(rows, keys, answer) == [rows |-> rows, index |-> keys, answer |-> answer]
Postgres(rows, answer) == [rows |-> rows, answer |-> answer, declined |-> FALSE]
Declined == [rows |-> pg, answer |-> << >>, declined |-> TRUE]

(* Map.set, and the change of a row that Map.get found *)
MapSet(id, row) == Memory(Put(mem, id, row), index, <<row>>)
MapChange(id, new) ==
  LET rows == Set(mem, {id}, new) IN Memory(rows, index, Row(rows, id))

(* insert ... returning: the primary key and the unique indexes *)
Insert(id, row, unique) ==
  IF id \in DOMAIN pg \/ \E key \in unique : Having(pg, key) # {}
    THEN Declined
    ELSE Postgres(Put(pg, id, row), <<row>>)

(* insert ... on conflict (a key) do update *)
InsertOrUpdate(id, row, conflict, new) ==
  IF conflict = {} THEN Insert(id, row, {})
  ELSE LET rows == Set(pg, conflict, new) IN
       Postgres(rows, <<rows[CHOOSE i \in conflict : TRUE]>>)

(* update ... where ... returning, for an id *)
Update(id, new) ==
  LET rows == Set(pg, {id}, new) IN Postgres(rows, Row(rows, id))

(* Array.sort is stable and a Map lists its rows in the order they were made *)
Before(i, j, weight) ==
  \/ weight[i] < weight[j]
  \/ weight[i] = weight[j] /\ mem[i].created < mem[j].created
Sort(ids, weight) ==
  CHOOSE q \in SetToSeqs(ids) : \A i, j \in DOMAIN q : i < j => Before(q[i], q[j], weight)

(* order by: any order of the rows that tie *)
OrderBy(ids, weight) ==
  {q \in SetToSeqs(ids) : \A i, j \in DOMAIN q : i < j => weight[q[i]] <= weight[q[j]]}

(* A Map.get through the index, and limit 1 without an order *)
Indexed(k) == IF k \in DOMAIN index THEN <<index[k]>> ELSE << >>
AnyOf(values) ==
  LET ids == Having(pg, values) IN IF ids = {} THEN {<< >>} ELSE {<<i>> : i \in ids}

Cut(q) == IF Len(q) > Limit THEN SubSeq(q, 1, Limit) ELSE q
First(q) == IF Len(q) > 1 THEN SubSeq(q, 1, 1) ELSE q

Newest(rows) == [i \in DOMAIN rows |-> - rows[i].created]
Oldest(rows) == [i \in DOMAIN rows |-> rows[i].created]
LastChanged(rows) == [i \in DOMAIN rows |-> - rows[i].updated]

(* One call: both stores carry it out, unless Postgres declines *)
Call(m, p) ==
  /\ ~ apart /\ calls < MaxCalls
  /\ calls' = calls + 1
  /\ mem' = m.rows /\ index' = m.index
  /\ pg' = p.rows
  /\ answers' = [mem |-> m.answer, pg |-> p.answer]
  /\ apart' = p.declined
  /\ UNCHANGED table

-------------------------------------------------------------------------------
(***************************************************************************)
(* Merchants, API keys, nonces, settings, idempotency records.             *)
(***************************************************************************)
Merchant == [reject |-> TRUE, created |-> Now, updated |-> Now]

MemCreateMerchant(id) == MapSet(id, Merchant)
PgCreateMerchant(id) == Insert(id, Merchant, {})

Settings(reject) == [reject |-> reject, updated |-> Now]
MemUpdateMerchantSettings(id, reject) == MapChange(id, Settings(reject))
PgUpdateMerchantSettings(id, reject) == Update(id, Settings(reject))

MemListMerchants == Cut(Sort(DOMAIN mem, Newest(mem)))
PgListMerchants == {Cut(q) : q \in OrderBy(DOMAIN pg, Newest(pg))}

(* The owner's id is configured, so an account may be created twice *)
MerchantCalls ==
  \E id \in Ids :
    \/ Call(MemCreateMerchant(id), PgCreateMerchant(id))
    \/ \E b \in BOOLEAN :
         Call(MemUpdateMerchantSettings(id, b), PgUpdateMerchantSettings(id, b))

ApiKey(m, k) == [merchant |-> m, publicKey |-> k, secret |-> Now, status |-> "active",
                 used |-> 0, created |-> Now]

MemCreateApiKey(id, m, k) ==
  Memory(Put(mem, id, ApiKey(m, k)), Put(index, k, id), <<ApiKey(m, k)>>)
PgCreateApiKey(id, m, k) == Insert(id, ApiKey(m, k), {[publicKey |-> k]})

MemGetApiKeyByPublicKey(k) == Indexed(k)
PgGetApiKeyByPublicKey(k) == AnyOf([publicKey |-> k])

MemListApiKeys(m) == Cut(Sort(Having(mem, [merchant |-> m]), Newest(mem)))
PgListApiKeys(m) == {Cut(q) : q \in OrderBy(Having(pg, [merchant |-> m]), Newest(pg))}

(* updateApiKeyLastUsed, updateApiKeySecret, updateApiKeyStatus *)
ApiKeyChanges == {[used |-> Now], [secret |-> Now], [status |-> "revoked"]}
MemUpdateApiKey(id, new) == MapChange(id, new)
PgUpdateApiKey(id, new) == Update(id, new)

ApiKeyCalls ==
  \E id \in Ids :
    \/ /\ id \notin DOMAIN mem
       /\ \E m \in Merchants, k \in Keys :
            Call(MemCreateApiKey(id, m, k), PgCreateApiKey(id, m, k))
    \/ \E new \in ApiKeyChanges : Call(MemUpdateApiKey(id, new), PgUpdateApiKey(id, new))

(* The id stands for the pair of an API key and a nonce *)
Nonce == [created |-> Now]
MemInsertRequestNonce(id) ==
  IF id \in DOMAIN mem THEN Memory(mem, index, <<FALSE>>)
  ELSE Memory(Put(mem, id, Nonce), index, <<TRUE>>)
PgInsertRequestNonce(id) ==
  IF id \in DOMAIN pg THEN Postgres(pg, <<FALSE>>)
  ELSE Postgres(Put(pg, id, Nonce), <<TRUE>>)

NonceCalls == \E id \in Ids : Call(MemInsertRequestNonce(id), PgInsertRequestNonce(id))

(* webhook_configs and notification_preferences: one row per merchant *)
Setting(value) == [value |-> value, created |-> Now, updated |-> Now]
CreatedBefore(rows, id) == IF id \in DOMAIN rows THEN rows[id].created ELSE Now

MemUpsertWebhookConfig(m, value) ==
  MapSet(m, [Setting(value) EXCEPT !.created = CreatedBefore(mem, m)])
PgUpsertWebhookConfig(m, value) ==
  InsertOrUpdate(m, Setting(value), {m} \intersect DOMAIN pg,
                 [value |-> value, updated |-> Now])
MemListWebhookConfigs == Cut(Sort(DOMAIN mem, LastChanged(mem)))
PgListWebhookConfigs == {Cut(q) : q \in OrderBy(DOMAIN pg, LastChanged(pg))}

WebhookConfigCalls ==
  \E m \in Merchants, value \in Keys :
    Call(MemUpsertWebhookConfig(m, value), PgUpsertWebhookConfig(m, value))

(* enabledEvents is deduplicated on the way in *)
MemUpsertNotificationPreferences(m, events) ==
  MapSet(m, [Setting(events) EXCEPT !.created = CreatedBefore(mem, m)])
PgUpsertNotificationPreferences(m, events) ==
  InsertOrUpdate(m, Setting(events), {m} \intersect DOMAIN pg,
                 [value |-> events, updated |-> Now])

PreferencesCalls ==
  \E m \in Merchants, events \in SUBSET Keys :
    Call(MemUpsertNotificationPreferences(m, events),
         PgUpsertNotificationPreferences(m, events))

(* The key stands for merchant, route and key.  Memory keeps records by key. *)
Idempotency(k, id) == [key |-> k, response |-> id, created |-> Now]
MemCreateIdempotencyRecord(k, id) == MapSet(k, Idempotency(k, id))
PgCreateIdempotencyRecord(k, id) == Insert(k, Idempotency(k, id), {})

IdempotencyCalls ==
  \E k \in Keys, id \in Ids :
    Call(MemCreateIdempotencyRecord(k, id), PgCreateIdempotencyRecord(k, id))

-------------------------------------------------------------------------------
(***************************************************************************)
(* Wallets.                                                                *)
(***************************************************************************)
(* The scope is a key; each generated wallet has an address of its own, which *)
(* the fresh id names.                                                        *)
Operational(s, id) == [scope |-> s, address |-> id, status |-> "active",
                       created |-> Now, updated |-> Now]

MemUpsertOperationalWallet(s, id) ==
  LET kept == IF s \in DOMAIN index THEN index[s] ELSE id
      row == [Operational(s, id) EXCEPT !.created = CreatedBefore(mem, kept)]
  IN Memory(Put(mem, kept, row), Put(index, s, kept), <<row>>)
PgUpsertOperationalWallet(s, id) ==
  InsertOrUpdate(id, Operational(s, id), Having(pg, [scope |-> s]),
                 [address |-> id, status |-> "active", updated |-> Now])

MemGetOperationalGasWallet(s) == Indexed(s)
PgGetOperationalGasWallet(s) == AnyOf([scope |-> s, status |-> "active"])

MemListOperationalWallets == Cut(Sort(Having(mem, [status |-> "active"]), LastChanged(mem)))
PgListOperationalWallets ==
  {Cut(q) : q \in OrderBy(Having(pg, [status |-> "active"]), LastChanged(pg))}

OperationalWalletCalls ==
  \E id \in Ids \ DOMAIN mem, s \in Keys :
    Call(MemUpsertOperationalWallet(s, id), PgUpsertOperationalWallet(s, id))

(* A generated wallet has an operational wallet, a registered one has none *)
Treasury(m, k, default, op) ==
  [merchant |-> m, address |-> k, isDefault |-> default, operational |-> op,
   created |-> Now, updated |-> Now]

(* operationalWalletId: input ?? existing ?? null *)
Kept(op, rows, ids) == IF op # None \/ ids = {} THEN op
                       ELSE rows[CHOOSE i \in ids : TRUE].operational

MemUpsertTreasuryWallet(id, m, k, ask, op) ==
  LET existing == Having(mem, [merchant |-> m, address |-> k])
      default == ask \/ Having(mem, [merchant |-> m, isDefault |-> TRUE]) = {}
      cleared == IF default
                   THEN Set(mem, Having(mem, [merchant |-> m]),
                            [isDefault |-> FALSE, updated |-> Now])
                   ELSE mem
      kept == IF existing = {} THEN id ELSE CHOOSE i \in existing : TRUE
      row == [Treasury(m, k, default \/ (existing # {} /\ cleared[kept].isDefault),
                       Kept(op, mem, existing))
              EXCEPT !.created = CreatedBefore(mem, kept)]
  IN Memory(Put(cleared, kept, row), index, <<row>>)

PgUpsertTreasuryWallet(id, m, k, ask, op) ==
  LET existing == Having(pg, [merchant |-> m, address |-> k])
      default == ask \/ Having(pg, [merchant |-> m, isDefault |-> TRUE]) = {}
      cleared == IF default
                   THEN Set(pg, Having(pg, [merchant |-> m]),
                            [isDefault |-> FALSE, updated |-> Now])
                   ELSE pg
      rows == IF existing = {}
                THEN Put(cleared, id, Treasury(m, k, default, op))
                ELSE Set(cleared, existing,
                         [isDefault |-> default \/ \E i \in existing : pg[i].isDefault,
                          operational |-> Kept(op, pg, existing), updated |-> Now])
  IN Postgres(rows, <<rows[CHOOSE i \in Having(rows, [merchant |-> m, address |-> k]) : TRUE]>>)

(* setDefaultTreasuryWallet *)
MemSetDefaultTreasuryWallet(m, id) ==
  IF id \notin Having(mem, [merchant |-> m]) THEN Memory(mem, index, << >>)
  ELSE LET rows == [i \in DOMAIN mem |->
                      IF mem[i].merchant # m THEN mem[i]
                      ELSE Over([isDefault |-> i = id, updated |-> Now], mem[i])]
       IN Memory(rows, index, Row(rows, id))
PgSetDefaultTreasuryWallet(m, id) ==
  IF id \notin Having(pg, [merchant |-> m]) THEN Postgres(pg, << >>)
  ELSE LET cleared == Set(pg, Having(pg, [merchant |-> m]),
                          [isDefault |-> FALSE, updated |-> Now])
           rows == Set(cleared, {id}, [isDefault |-> TRUE, updated |-> Now])
       IN Postgres(rows, Row(rows, id))

(* getTreasuryWallet: the default; without one, the first made in memory and *)
(* the last changed in Postgres                                              *)
MemGetTreasuryWallet(m) ==
  LET default == Having(mem, [merchant |-> m, isDefault |-> TRUE]) IN
  First(Sort(IF default # {} THEN default ELSE Having(mem, [merchant |-> m]), Oldest(mem)))
PgGetTreasuryWallet(m) ==
  LET default == Having(pg, [merchant |-> m, isDefault |-> TRUE]) IN
  IF default # {} THEN {<<i>> : i \in default}
  ELSE {First(q) : q \in OrderBy(Having(pg, [merchant |-> m]), LastChanged(pg))}

(* listTreasuryWalletsByAddress: of all merchants *)
MemTreasuryWalletsByAddress(k) == Sort(Having(mem, [address |-> k]), Oldest(mem))
PgTreasuryWalletsByAddress(k) == OrderBy(Having(pg, [address |-> k]), LastChanged(pg))

(* listTreasuryWallets: the default first, then the last changed *)
DefaultFirst(rows) ==
  [i \in DOMAIN rows |-> - rows[i].updated - (IF rows[i].isDefault THEN MaxCalls + 1 ELSE 0)]
MemListTreasuryWallets(m) == Cut(Sort(Having(mem, [merchant |-> m]), DefaultFirst(mem)))
PgListTreasuryWallets(m) == {Cut(q) : q \in OrderBy(Having(pg, [merchant |-> m]), DefaultFirst(pg))}

TreasuryWalletCalls ==
  \E id \in Ids, m \in Merchants :
    \/ /\ id \notin DOMAIN mem
       /\ \E k \in Keys, ask \in BOOLEAN, op \in {None, id} :
            Call(MemUpsertTreasuryWallet(id, m, k, ask, op),
                 PgUpsertTreasuryWallet(id, m, k, ask, op))
    \/ Call(MemSetDefaultTreasuryWallet(m, id), PgSetDefaultTreasuryWallet(m, id))

-------------------------------------------------------------------------------
(***************************************************************************)
(* Deposit requests and the cursor.                                        *)
(***************************************************************************)

(* The address also names the treasury wallet of a direct request *)
Deposit(m, client, flow, a, life) ==
  [merchant |-> m, client |-> client, flow |-> flow, address |-> a, status |-> "active",
   match |-> IF flow = "direct" THEN "pending" ELSE None, transfer |-> None,
   expires |-> Now + life, created |-> Now, updated |-> Now]

MemCreateDepositAddress(id, row) ==
  Memory(Put(mem, id, row),
         IF row.flow = "temporary" THEN Put(index, row.address, id) ELSE index, <<row>>)
PgCreateDepositAddress(id, row) ==
  Insert(id, row, IF row.flow = "temporary"
                    THEN {[flow |-> "temporary", address |-> row.address]} ELSE {})

Matched(t) == [match |-> "matched", transfer |-> t, updated |-> Now]
Completed(t) == [status |-> "completed", match |-> "matched", transfer |-> t, updated |-> Now]
MemMarkDepositAddressMatched(id, t) ==
  MapChange(id, IF id \in Having(mem, [flow |-> "direct"])
                  THEN Completed(t) ELSE Matched(t))
PgMarkDepositAddressMatched(id, t) == Update(id, Completed(t))

(* A close that memory carries out and Postgres's condition on the status    *)
(* stops: something else changed the request since the service read it       *)
Closed == [status |-> "closed", updated |-> Now]
MemCloseDepositAddress(m, id) ==
  IF id \in Having(mem, [merchant |-> m]) THEN MapChange(id, Closed)
  ELSE Memory(mem, index, << >>)
PgCloseDepositAddress(m, id) ==
  IF id \in Having(pg, [merchant |-> m, status |-> "active"]) THEN Update(id, Closed)
  ELSE IF id \in Having(pg, [merchant |-> m]) THEN Declined
  ELSE Postgres(pg, << >>)

(* Mutant: a request expires whatever its status. *)
MemExpireWhateverStatus ==
  LET due == {i \in DOMAIN mem : mem[i].expires <= Now}
      rows == Set(mem, due, [status |-> "expired", updated |-> Now])
  IN Memory(rows, index, <<{rows[i] : i \in due}>>)

MemExpireDepositAddresses ==
  LET due == {i \in Having(mem, [status |-> "active"]) : mem[i].expires <= Now}
      rows == Set(mem, due, [status |-> "expired", updated |-> Now])
  IN Memory(rows, index, <<{rows[i] : i \in due}>>)
PgExpireDepositAddresses ==
  LET due == {i \in Having(pg, [status |-> "active"]) : pg[i].expires <= Now}
      rows == Set(pg, due, [status |-> "expired", updated |-> Now])
  IN Postgres(rows, <<{rows[i] : i \in due}>>)

MemGetActiveByClientId(m, client) ==
  First(Sort(Having(mem, [merchant |-> m, client |-> client, status |-> "active"]), Newest(mem)))
PgGetActiveByClientId(m, client) ==
  {First(q) : q \in
     OrderBy(Having(pg, [merchant |-> m, client |-> client, status |-> "active"]), Newest(pg))}

MemGetDepositAddressByAddress(a) == Indexed(a)
PgGetDepositAddressByAddress(a) == AnyOf([address |-> a])

MemListDepositAddresses(filter) == Cut(Sort(Having(mem, filter), Newest(mem)))
PgListDepositAddresses(filter) == {Cut(q) : q \in OrderBy(Having(pg, filter), Newest(pg))}

Open(m, a) == [merchant |-> m, flow |-> "direct", status |-> "active", address |-> a]
Unmatched(m, a) == [merchant |-> m, flow |-> "direct", status |-> "active", address |-> a,
                    match |-> "pending"]
MemCountActiveDirect(m, a) == Cardinality(Having(mem, Unmatched(m, a)))
PgCountActiveDirect(m, a) == Cardinality(Having(pg, Open(m, a)))

(* The services mark direct requests only *)
DepositAddressCalls ==
  \/ \E id \in Ids \ DOMAIN mem, m \in Merchants, client, a \in Keys,
        flow \in {"temporary", "direct"}, life \in {1, 2} :
       LET row == Deposit(m, client, flow, a, life) IN
       Call(MemCreateDepositAddress(id, row), PgCreateDepositAddress(id, row))
  \/ \E id \in Having(mem, [flow |-> "direct"]), t \in Keys :
       Call(MemMarkDepositAddressMatched(id, t), PgMarkDepositAddressMatched(id, t))
  \/ \E id \in Ids, m \in Merchants :
       Call(MemCloseDepositAddress(m, id), PgCloseDepositAddress(m, id))
  \/ Call(MemExpireDepositAddresses, PgExpireDepositAddresses)

Cursor(block) == [block |-> block, updated |-> Now]
MemUpsertChainCursor(asset, block) == MapSet(asset, Cursor(block))
PgUpsertChainCursor(asset, block) ==
  InsertOrUpdate(asset, Cursor(block), {asset} \intersect DOMAIN pg, Cursor(block))

CursorCalls ==
  \E asset \in Keys, block \in 1 .. MaxCalls :
    Call(MemUpsertChainCursor(asset, block), PgUpsertChainCursor(asset, block))

-------------------------------------------------------------------------------
(***************************************************************************)
(* Transfers.                                                              *)
(***************************************************************************)

(* A merchant has one deposit request here *)
Transfer(log, m, status, block) ==
  [log |-> log, merchant |-> m, status |-> status, block |-> block,
   settlement |-> "pending", step |-> None, created |-> Now,
   confirmed |-> IF status = "confirmed" THEN Now ELSE 0]

MemCreateTokenTransferIfNotExists(id, row) ==
  IF row.log \in DOMAIN index THEN Memory(mem, index, <<mem[index[row.log]], FALSE>>)
  ELSE Memory(Put(mem, id, row), Put(index, row.log, id), <<row, TRUE>>)
PgCreateTokenTransferIfNotExists(id, row) ==
  LET existing == Having(pg, [log |-> row.log]) IN
  IF existing = {} THEN Postgres(Put(pg, id, row), <<row, TRUE>>)
  ELSE Postgres(pg, <<pg[CHOOSE i \in existing : TRUE], FALSE>>)

MemGetTokenTransferByChainLog(log) == Indexed(log)
PgGetTokenTransferByChainLog(log) == AnyOf([log |-> log])

HighestBlock(rows) == [i \in DOMAIN rows |-> - rows[i].block]
LowestBlock(rows) == [i \in DOMAIN rows |-> rows[i].block]
MemTransfersForDepositAddress(m) == Sort(Having(mem, [merchant |-> m]), HighestBlock(mem))
PgTransfersForDepositAddress(m) == OrderBy(Having(pg, [merchant |-> m]), HighestBlock(pg))

(* listTransfersForMerchant, listTokenTransfers *)
MemListTransfers(filter) == Cut(Sort(Having(mem, filter), Newest(mem)))
PgListTransfers(filter) == {Cut(q) : q \in OrderBy(Having(pg, filter), Newest(pg))}

MemReadyForConfirmation(head) ==
  Cut(Sort({i \in Having(mem, [status |-> "detected"]) : mem[i].block <= head}, LowestBlock(mem)))
PgReadyForConfirmation(head) ==
  {Cut(q) : q \in
     OrderBy({i \in Having(pg, [status |-> "detected"]) : pg[i].block <= head}, LowestBlock(pg))}

Confirmed == [status |-> "confirmed", confirmed |-> Now]
MemMarkTransferConfirmed(id) == MapChange(id, Confirmed)
PgMarkTransferConfirmed(id) == Update(id, Confirmed)

Settlements == {[settlement |-> "submitted", step |-> "sweep"],
                [settlement |-> "pending", step |-> "sweep"],
                [settlement |-> "settled", step |-> None]}
MemUpdateTransferSettlement(id, new) == MapChange(id, new)
PgUpdateTransferSettlement(id, new) == Update(id, new)

TokenTransferCalls ==
  \E id \in Ids :
    \/ /\ id \notin DOMAIN mem
       /\ \E log \in Keys, m \in Merchants, status \in {"detected", "late", "confirmed"},
            block \in {1, 2} :
            LET row == Transfer(log, m, status, block) IN
            Call(MemCreateTokenTransferIfNotExists(id, row),
                 PgCreateTokenTransferIfNotExists(id, row))
    \/ Call(MemMarkTransferConfirmed(id), PgMarkTransferConfirmed(id))
    \/ \E new \in Settlements :
         Call(MemUpdateTransferSettlement(id, new), PgUpdateTransferSettlement(id, new))

TreasuryTransfer(log, m, status) ==
  [log |-> log, merchant |-> m, status |-> status, matched |-> None,
   created |-> Now, updated |-> Now]

MemCreateTreasuryTransferIfNotExists(id, row) ==
  IF row.log \in DOMAIN index THEN Memory(mem, index, <<mem[index[row.log]], FALSE>>)
  ELSE Memory(Put(mem, id, row), Put(index, row.log, id), <<row, TRUE>>)
PgCreateTreasuryTransferIfNotExists(id, row) ==
  LET existing == Having(pg, [log |-> row.log]) IN
  IF existing = {} THEN Postgres(Put(pg, id, row), <<row, TRUE>>)
  ELSE Postgres(pg, <<pg[CHOOSE i \in existing : TRUE], FALSE>>)

MemListTreasuryTransfers(filter) == Cut(Sort(Having(mem, filter), Newest(mem)))
PgListTreasuryTransfers(filter) == {Cut(q) : q \in OrderBy(Having(pg, filter), Newest(pg))}

Reviewed(request) == [status |-> "matched", matched |-> request, updated |-> Now]
MemUpdateTreasuryTransferStatus(id, request) == MapChange(id, Reviewed(request))
PgUpdateTreasuryTransferStatus(id, request) == Update(id, Reviewed(request))

TreasuryTransferCalls ==
  \E id \in Ids :
    \/ /\ id \notin DOMAIN mem
       /\ \E log \in Keys, m \in Merchants, status \in {"unmatched", "ambiguous"} :
            LET row == TreasuryTransfer(log, m, status) IN
            Call(MemCreateTreasuryTransferIfNotExists(id, row),
                 PgCreateTreasuryTransferIfNotExists(id, row))
    \/ \E request \in Keys :
         Call(MemUpdateTreasuryTransferStatus(id, request),
              PgUpdateTreasuryTransferStatus(id, request))

-------------------------------------------------------------------------------
(***************************************************************************)
(* Gas top-ups, sweeps, wallet transactions; webhook events.               *)
(***************************************************************************)

(* A transaction that was sent has a hash, which its id names *)
Attempt(id, t, n, status) ==
  [transfer |-> t, attempt |-> n, status |-> status,
   hash |-> IF status = "failed" THEN None ELSE id, created |-> Now, confirmed |-> 0]

MemCreateGasTopUp(id, row) == MapSet(id, row)
PgCreateGasTopUp(id, row) ==
  Insert(id, row, {[transfer |-> row.transfer, attempt |-> row.attempt]})
MemCreateSweep(id, row) == MapSet(id, row)
PgCreateSweep(id, row) ==
  Insert(id, row, {[transfer |-> row.transfer, attempt |-> row.attempt]})

(* updateGasTopUpStatus, updateSweepStatus, updateWalletTransactionStatus *)
Receipt(status) ==
  [status |-> status, confirmed |-> IF status = "confirmed" THEN Now ELSE 0]
MemUpdateGasTopUpStatus(id, status) == MapChange(id, Receipt(status))
PgUpdateGasTopUpStatus(id, status) == Update(id, Receipt(status))
MemUpdateSweepStatus(id, status) == MapChange(id, Receipt(status))
PgUpdateSweepStatus(id, status) == Update(id, Receipt(status))

(* Mutant: the attempt made last, whatever its number. *)
MemLatestGasTopUpMade(t) == First(Sort(Having(mem, [transfer |-> t]), Oldest(mem)))

LastAttempt(rows) == [i \in DOMAIN rows |-> - rows[i].attempt]
MemLatestGasTopUp(t) == First(Sort(Having(mem, [transfer |-> t]), LastAttempt(mem)))
PgLatestGasTopUp(t) == {First(q) : q \in OrderBy(Having(pg, [transfer |-> t]), LastAttempt(pg))}
MemLatestSweep(t) == First(Sort(Having(mem, [transfer |-> t]), LastAttempt(mem)))
PgLatestSweep(t) == {First(q) : q \in OrderBy(Having(pg, [transfer |-> t]), LastAttempt(pg))}

MemSubmittedGasTopUps == Cut(Sort(Having(mem, [status |-> "submitted"]), Oldest(mem)))
PgSubmittedGasTopUps == {Cut(q) : q \in OrderBy(Having(pg, [status |-> "submitted"]), Oldest(pg))}
MemSubmittedSweeps == Cut(Sort(Having(mem, [status |-> "submitted"]), Oldest(mem)))
PgSubmittedSweeps == {Cut(q) : q \in OrderBy(Having(pg, [status |-> "submitted"]), Oldest(pg))}

MemGetSweepByTxHash(hash) == First(Sort(Having(mem, [hash |-> hash]), Oldest(mem)))
PgGetSweepByTxHash(hash) == AnyOf([hash |-> hash])

(* The service numbers an attempt one above the last one it read, so two     *)
(* calls may use one number                                                  *)
Numbers(t) == 1 .. 1 + Cardinality(Having(mem, [transfer |-> t]))

GasTopUpCalls ==
  \E id \in Ids :
    \/ /\ id \notin DOMAIN mem
       /\ \E t \in Keys, status \in {"submitted", "failed"} : \E n \in Numbers(t) :
            LET row == Attempt(id, t, n, status) IN
            Call(MemCreateGasTopUp(id, row), PgCreateGasTopUp(id, row))
    \/ \E status \in {"confirmed", "failed"} :
         Call(MemUpdateGasTopUpStatus(id, status), PgUpdateGasTopUpStatus(id, status))

SweepCalls ==
  \E id \in Ids :
    \/ /\ id \notin DOMAIN mem
       /\ \E t \in Keys, status \in {"submitted", "failed"} : \E n \in Numbers(t) :
            LET row == Attempt(id, t, n, status) IN
            Call(MemCreateSweep(id, row), PgCreateSweep(id, row))
    \/ \E status \in {"confirmed", "failed"} :
         Call(MemUpdateSweepStatus(id, status), PgUpdateSweepStatus(id, status))

MemCreateWalletTransaction(id, row) == MapSet(id, row)
PgCreateWalletTransaction(id, row) == Insert(id, row, {})
MemUpdateWalletTransactionStatus(id, status) == MapChange(id, Receipt(status))
PgUpdateWalletTransactionStatus(id, status) == Update(id, Receipt(status))
MemListWalletTransactions == Cut(Sort(DOMAIN mem, Newest(mem)))
PgListWalletTransactions == {Cut(q) : q \in OrderBy(DOMAIN pg, Newest(pg))}
MemSubmittedWalletTransactions == Cut(Sort(Having(mem, [status |-> "submitted"]), Oldest(mem)))
PgSubmittedWalletTransactions ==
  {Cut(q) : q \in OrderBy(Having(pg, [status |-> "submitted"]), Oldest(pg))}

WalletTransactionCalls ==
  \E id \in Ids :
    \/ /\ id \notin DOMAIN mem
       /\ \E status \in {"submitted", "failed"} :
            LET row == Attempt(id, None, 1, status) IN
            Call(MemCreateWalletTransaction(id, row), PgCreateWalletTransaction(id, row))
    \/ \E status \in {"confirmed", "failed"} :
         Call(MemUpdateWalletTransactionStatus(id, status),
              PgUpdateWalletTransactionStatus(id, status))

WebhookEvent(m) == [merchant |-> m, status |-> "pending", attempts |-> 0, next |-> Now,
                    sent |-> 0, created |-> Now, updated |-> Now]

MemCreateWebhookEvent(id, m) == MapSet(id, WebhookEvent(m))
PgCreateWebhookEvent(id, m) == Insert(id, WebhookEvent(m), {})

(* attempts is counted in the store when a delivery is marked sent *)
Sent(rows, id) == [status |-> "sent", sent |-> Now, updated |-> Now,
                   attempts |-> rows[id].attempts + 1]
MemMarkWebhookSent(id) ==
  IF id \notin DOMAIN mem THEN Memory(mem, index, << >>) ELSE MapChange(id, Sent(mem, id))
PgMarkWebhookSent(id) ==
  IF id \notin DOMAIN pg THEN Postgres(pg, << >>) ELSE Update(id, Sent(pg, id))

(* ... and by the service when one is retried *)
Retry(status, attempts, delay) ==
  [status |-> status, attempts |-> attempts, next |-> Now + delay, updated |-> Now]
MemMarkWebhookRetry(id, new) == MapChange(id, new)
PgMarkWebhookRetry(id, new) == Update(id, new)

MemListDueWebhookEvents ==
  Cut(Sort({i \in Having(mem, [status |-> "pending"]) : mem[i].next <= Now}, Oldest(mem)))
PgListDueWebhookEvents ==
  {Cut(q) : q \in
     OrderBy({i \in Having(pg, [status |-> "pending"]) : pg[i].next <= Now}, Oldest(pg))}

WebhookEventCalls ==
  \E id \in Ids :
    \/ /\ id \notin DOMAIN mem
       /\ \E m \in Merchants : Call(MemCreateWebhookEvent(id, m), PgCreateWebhookEvent(id, m))
    \/ Call(MemMarkWebhookSent(id), PgMarkWebhookSent(id))
    \/ \E status \in {"pending", "failed"}, n \in {1, 2}, delay \in {1, 2} :
         LET new == Retry(status, n, delay) IN
         Call(MemMarkWebhookRetry(id, new), PgMarkWebhookRetry(id, new))

-------------------------------------------------------------------------------
Next ==
  \/ table = "merchants" /\ MerchantCalls
  \/ table = "merchant_api_keys" /\ ApiKeyCalls
  \/ table = "request_nonces" /\ NonceCalls
  \/ table = "webhook_configs" /\ WebhookConfigCalls
  \/ table = "notification_preferences" /\ PreferencesCalls
  \/ table = "idempotency_keys" /\ IdempotencyCalls
  \/ table = "operational_wallets" /\ OperationalWalletCalls
  \/ table = "treasury_wallets" /\ TreasuryWalletCalls
  \/ table = "deposit_addresses" /\ DepositAddressCalls
  \/ table = "chain_cursors" /\ CursorCalls
  \/ table = "token_transfers" /\ TokenTransferCalls
  \/ table = "treasury_transfers" /\ TreasuryTransferCalls
  \/ table = "gas_top_ups" /\ GasTopUpCalls
  \/ table = "sweeps" /\ SweepCalls
  \/ table = "wallet_transactions" /\ WalletTransactionCalls
  \/ table = "webhook_events" /\ WebhookEventCalls

Spec == Init /\ [][Next]_vars

-------------------------------------------------------------------------------
(***************************************************************************)
(* Properties.                                                             *)
(***************************************************************************)

(* The stores hold the same rows after the same calls, although they keep    *)
(* them under different keys and set them in different ways: what a test on  *)
(* memory leaves behind is what Postgres would hold, until a call that       *)
(* Postgres declines (a second row for a unique key, a close that something  *)
(* else forestalled), which memory carries out.                              *)
SameRows == ~ apart => mem = pg

(* ... and they answer alike: what memory returns for a change or a query is *)
(* what Postgres returns, or one of the orders it may return.  Two lookups   *)
(* by address are left out where they differ: getDepositAddressByAddress at  *)
(* an address direct requests have (memory indexes temporary wallets only),  *)
(* and listTreasuryWalletsByAddress where two merchants registered one       *)
(* address (the orders are different ones).                                  *)
SameAnswers ==
  ~ apart =>
  /\ answers.mem = answers.pg
  /\ table = "merchants" => MemListMerchants \in PgListMerchants
  /\ table = "merchant_api_keys" =>
       /\ \A k \in Keys : MemGetApiKeyByPublicKey(k) \in PgGetApiKeyByPublicKey(k)
       /\ \A m \in Merchants : MemListApiKeys(m) \in PgListApiKeys(m)
  /\ table = "webhook_configs" => MemListWebhookConfigs \in PgListWebhookConfigs
  /\ table = "operational_wallets" =>
       /\ \A s \in Keys : MemGetOperationalGasWallet(s) \in PgGetOperationalGasWallet(s)
       /\ MemListOperationalWallets \in PgListOperationalWallets
  /\ table = "treasury_wallets" =>
       /\ \A m \in Merchants :
            /\ MemGetTreasuryWallet(m) \in PgGetTreasuryWallet(m)
            /\ MemListTreasuryWallets(m) \in PgListTreasuryWallets(m)
       /\ \A k \in Keys :
            Len(MemTreasuryWalletsByAddress(k)) <= 1 =>
              MemTreasuryWalletsByAddress(k) \in PgTreasuryWalletsByAddress(k)
  /\ table = "deposit_addresses" =>
       \A k \in Keys :
         /\ Having(pg, [flow |-> "direct", address |-> k]) = {} =>
              MemGetDepositAddressByAddress(k) \in PgGetDepositAddressByAddress(k)
         /\ \A m \in Merchants :
              /\ MemGetActiveByClientId(m, k) \in PgGetActiveByClientId(m, k)
              /\ MemCountActiveDirect(m, k) = PgCountActiveDirect(m, k)
              /\ \A filter \in {Unmatched(m, k), [client |-> k]} :
                   MemListDepositAddresses(filter) \in PgListDepositAddresses(filter)
  /\ table = "token_transfers" =>
       /\ \A log \in Keys : MemGetTokenTransferByChainLog(log) \in PgGetTokenTransferByChainLog(log)
       /\ \A head \in 1 .. 2 : MemReadyForConfirmation(head) \in PgReadyForConfirmation(head)
       /\ \A m \in Merchants :
            /\ MemTransfersForDepositAddress(m) \in PgTransfersForDepositAddress(m)
            /\ LET filter == [merchant |-> m, status |-> "confirmed"] IN
               MemListTransfers(filter) \in PgListTransfers(filter)
  /\ table = "treasury_transfers" =>
       \A m \in Merchants :
         LET filter == [merchant |-> m, status |-> "matched"] IN
         MemListTreasuryTransfers(filter) \in PgListTreasuryTransfers(filter)
  /\ table = "gas_top_ups" =>
       /\ \A t \in Keys : MemLatestGasTopUp(t) \in PgLatestGasTopUp(t)
       /\ MemSubmittedGasTopUps \in PgSubmittedGasTopUps
  /\ table = "sweeps" =>
       /\ \A t \in Keys : MemLatestSweep(t) \in PgLatestSweep(t)
       /\ \A hash \in Ids : MemGetSweepByTxHash(hash) \in PgGetSweepByTxHash(hash)
       /\ MemSubmittedSweeps \in PgSubmittedSweeps
  /\ table = "wallet_transactions" =>
       /\ MemListWalletTransactions \in PgListWalletTransactions
       /\ MemSubmittedWalletTransactions \in PgSubmittedWalletTransactions
  /\ table = "webhook_events" => MemListDueWebhookEvents \in PgListDueWebhookEvents
===============================================================================
