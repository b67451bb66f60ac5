------------------------------ MODULE StoresProofs ------------------------------
(***************************************************************************)
(* The two repositories hold the same rows and answer alike for any number *)
(* of rows, keys, merchants and calls, until Postgres declines a call.     *)
(*                                                                         *)
(* A change is the same on both sides once the columns of the row it meets *)
(* are known, an upsert once the key it meets names one row.  A list is    *)
(* one of those Postgres may return since the sort of the rows exists: no  *)
(* two are made by the same call.                                          *)
(***************************************************************************)
EXTENDS Stores, FiniteSetTheorems, SequenceTheorems, TLAPS

(* No two rows are made by one call.                                         *)
Made(rows, n) ==
  /\ IsFiniteSet(DOMAIN rows)
  /\ \A i \in DOMAIN rows : "created" \in DOMAIN rows[i] /\ rows[i].created \in 1 .. n
  /\ \A i, j \in DOMAIN rows : rows[i].created = rows[j].created => i = j

(* The columns a row has.                                                    *)
Setting3(r) == r = [value |-> r.value, created |-> r.created, updated |-> r.updated]
Cursor2(r) == r = [block |-> r.block, updated |-> r.updated]
Operational5(r) ==
  r = [scope |-> r.scope, address |-> r.address, status |-> r.status,
       created |-> r.created, updated |-> r.updated]
Treasury6(r) ==
  r = [merchant |-> r.merchant, address |-> r.address, isDefault |-> r.isDefault,
       operational |-> r.operational, created |-> r.created, updated |-> r.updated]

(* The Map beside a table names the row of a key.                            *)
KeyedBy(rows, keys, column) ==
  /\ \A k \in DOMAIN keys : keys[k] \in DOMAIN rows /\ rows[keys[k]][column] = k
  /\ \A i \in DOMAIN rows :
       column \in DOMAIN rows[i] /\ rows[i][column] \in DOMAIN keys /\ keys[rows[i][column]] = i

(* The tables, as far as what is done with their rows depends on it.         *)
MerchantsInv(rows, n) == Made(rows, n)
ApiKeysInv(rows, keys, n) == Made(rows, n) /\ KeyedBy(rows, keys, "publicKey")
SettingsInv(rows, n) ==
  Made(rows, n) /\ \A i \in DOMAIN rows : Setting3(rows[i]) /\ rows[i].updated \in Nat
OperationalInv(rows, keys, n) ==
  /\ Made(rows, n) /\ KeyedBy(rows, keys, "scope")
  /\ \A i \in DOMAIN rows :
       Operational5(rows[i]) /\ rows[i].updated \in Nat /\ rows[i].status = "active"
TreasuriesInv(rows, n) ==
  /\ Made(rows, n)
  /\ \A i \in DOMAIN rows :
       Treasury6(rows[i]) /\ rows[i].updated \in Nat /\ rows[i].isDefault \in BOOLEAN
  /\ \A i, j \in DOMAIN rows :
       rows[i].merchant = rows[j].merchant /\ rows[i].address = rows[j].address => i = j
  /\ \A i \in DOMAIN rows :
       \E j \in DOMAIN rows : rows[j].merchant = rows[i].merchant /\ rows[j].isDefault
DepositsInv(rows, keys, n) ==
  /\ Made(rows, n)
  /\ \A k \in DOMAIN keys :
       keys[k] \in DOMAIN rows /\ rows[keys[k]].flow = "temporary" /\ rows[keys[k]].address = k
  /\ \A i \in DOMAIN rows : rows[i].flow = "temporary" =>
       rows[i].address \in DOMAIN keys /\ keys[rows[i].address] = i
  /\ \A i \in DOMAIN rows :
       {"flow", "address", "status", "match"} \subseteq DOMAIN rows[i]
       /\ rows[i].flow \in {"temporary", "direct"}
  /\ \A i \in DOMAIN rows :
       rows[i].flow = "direct" /\ rows[i].status = "active" => rows[i].match = "pending"
CursorsInv(rows) == \A i \in DOMAIN rows : Cursor2(rows[i])
TransfersInv(rows, keys, n) ==
  /\ Made(rows, n) /\ KeyedBy(rows, keys, "log")
  /\ \A i \in DOMAIN rows : "block" \in DOMAIN rows[i] /\ rows[i].block \in Nat
TreasuryTransfersInv(rows, keys, n) == Made(rows, n) /\ KeyedBy(rows, keys, "log")
AttemptsInv(rows, n) ==
  Made(rows, n) /\ \A i \in DOMAIN rows : "attempt" \in DOMAIN rows[i] /\ rows[i].attempt \in Nat
EventsInv(rows, n) == Made(rows, n)

TablesInv ==
  /\ table = "merchants" => MerchantsInv(mem, calls)
  /\ table = "merchant_api_keys" => ApiKeysInv(mem, index, calls)
  /\ table \in {"webhook_configs", "notification_preferences"} => SettingsInv(mem, calls)
  /\ table = "operational_wallets" => OperationalInv(mem, index, calls)
  /\ table = "treasury_wallets" => TreasuriesInv(mem, calls)
  /\ table = "deposit_addresses" => DepositsInv(mem, index, calls)
  /\ table = "chain_cursors" => CursorsInv(mem)
  /\ table = "token_transfers" => TransfersInv(mem, index, calls)
  /\ table = "treasury_transfers" => TreasuryTransfersInv(mem, index, calls)
  /\ table \in {"gas_top_ups", "sweeps", "wallet_transactions"} => AttemptsInv(mem, calls)
  /\ table = "webhook_events" => EventsInv(mem, calls)

IInv == calls \in Nat /\ (~ apart => mem = pg /\ answers.mem = answers.pg /\ TablesInv)

(* What Put, Set and Over leave in the rows.                                 *)
LEMMA PutRows ==
  ASSUME NEW rows, NEW id, NEW row
  PROVE  /\ DOMAIN Put(rows, id, row) = DOMAIN rows \union {id}
         /\ Put(rows, id, row)[id] = row
         /\ \A i \in DOMAIN rows : i # id => Put(rows, id, row)[i] = rows[i]
BY DEF Put

(* ... after a change,                                                       *)
LEMMA SetRows ==
  ASSUME NEW rows, NEW ids, NEW new
  PROVE  /\ DOMAIN Set(rows, ids, new) = DOMAIN rows
         /\ \A i \in DOMAIN rows :
              /\ i \in ids => Set(rows, ids, new)[i] = Over(new, rows[i])
              /\ i \notin ids => Set(rows, ids, new)[i] = rows[i]
BY DEF Set

(* A column that a change does not name keeps its value.                     *)
LEMMA SetKeeps ==
  ASSUME NEW rows, NEW ids, NEW new, NEW i \in DOMAIN rows,
         NEW column \in DOMAIN rows[i], column \notin DOMAIN new
  PROVE  /\ column \in DOMAIN Set(rows, ids, new)[i]
         /\ Set(rows, ids, new)[i][column] = rows[i][column]
<1>1. CASE i \in ids
  <2>1. Set(rows, ids, new)[i] = Over(new, rows[i])
    BY <1>1, SetRows
  <2> QED BY <2>1 DEF Over
<1>2. CASE i \notin ids
  BY <1>2, SetRows
<1> QED BY <1>1, <1>2

(* Rows made by different calls: later, with a row more, after a change.     *)
LEMMA MadeLater ==
  ASSUME NEW rows, NEW n \in Nat, Made(rows, n)
  PROVE  Made(rows, n + 1)
BY DEF Made

(* ... with one more row or another in its place,                            *)
LEMMA PutMade ==
  ASSUME NEW rows, NEW id, NEW row, NEW n \in Nat, Made(rows, n),
         "created" \in DOMAIN row,
         row.created = IF id \in DOMAIN rows THEN rows[id].created ELSE n + 1
  PROVE  Made(Put(rows, id, row), n + 1)
<1> DEFINE new == Put(rows, id, row)
<1>1. IsFiniteSet(DOMAIN new)
  <2>1. IsFiniteSet(DOMAIN rows)
    BY DEF Made
  <2>2. IsFiniteSet(DOMAIN rows \union {id})
    BY <2>1, FS_AddElement
  <2> QED BY <2>2, PutRows
<1>2. /\ DOMAIN new = DOMAIN rows \union {id}
      /\ new[id] = row
      /\ \A i \in DOMAIN rows : i # id => new[i] = rows[i]
  BY DEF Put
<1> HIDE DEF new
<1>3. ASSUME NEW i \in DOMAIN new
      PROVE  "created" \in DOMAIN new[i] /\ new[i].created \in 1 .. n + 1
  BY <1>2 DEF Made
<1>4. ASSUME NEW i \in DOMAIN new, NEW j \in DOMAIN new, new[i].created = new[j].created
      PROVE  i = j
  <2>1. CASE id \in DOMAIN rows
    BY <1>2, <1>4, <2>1 DEF Made
  <2>2. CASE id \notin DOMAIN rows
    <3>1. \A k \in DOMAIN rows : rows[k].created # n + 1
      BY DEF Made
    <3> QED BY <1>2, <1>4, <2>2, <3>1 DEF Made
  <2> QED BY <2>1, <2>2
<1>5. Made(new, n + 1)
  BY <1>1, <1>3, <1>4 DEF Made
<1> QED BY <1>5 DEF new

(* ... after a change that leaves the time.                                  *)
LEMMA SetMade ==
  ASSUME NEW rows, NEW ids, NEW new, NEW n \in Nat, Made(rows, n), "created" \notin DOMAIN new
  PROVE  Made(Set(rows, ids, new), n) /\ Made(Set(rows, ids, new), n + 1)
<1> DEFINE changed == Set(rows, ids, new)
<1>1. DOMAIN changed = DOMAIN rows
  BY SetRows
<1>2. ASSUME NEW i \in DOMAIN rows
      PROVE  "created" \in DOMAIN changed[i] /\ changed[i].created = rows[i].created
  <2>1. "created" \in DOMAIN rows[i]
    BY DEF Made
  <2> QED BY <2>1, SetKeeps
<1> HIDE DEF changed
<1>3. Made(changed, n)
  BY <1>1, <1>2 DEF Made
<1>4. Made(changed, n + 1)
  BY <1>3, MadeLater
<1> QED BY <1>3, <1>4 DEF changed

(* The Map by key after a new row, and after a change of other columns.      *)
LEMMA PutKeyed ==
  ASSUME NEW rows, NEW keys, NEW id, NEW row, NEW column, KeyedBy(rows, keys, column),
         id \notin DOMAIN rows, column \in DOMAIN row, row[column] \notin DOMAIN keys
  PROVE  KeyedBy(Put(rows, id, row), Put(keys, row[column], id), column)
<1> DEFINE new == Put(rows, id, row)
           newKeys == Put(keys, row[column], id)
<1>1. /\ DOMAIN new = DOMAIN rows \union {id}
      /\ new[id] = row
      /\ \A i \in DOMAIN rows : i # id => new[i] = rows[i]
  BY DEF Put
<1>2. /\ DOMAIN newKeys = DOMAIN keys \union {row[column]}
      /\ newKeys[row[column]] = id
      /\ \A k \in DOMAIN keys : k # row[column] => newKeys[k] = keys[k]
  BY DEF Put
<1> HIDE DEF new, newKeys
<1>3. KeyedBy(new, newKeys, column)
  BY <1>1, <1>2 DEF KeyedBy
<1> QED BY <1>3 DEF new, newKeys

(* ... after a change that leaves the key.                                   *)
LEMMA SetKeyed ==
  ASSUME NEW rows, NEW keys, NEW ids, NEW new, NEW column, KeyedBy(rows, keys, column),
         column \notin DOMAIN new
  PROVE  KeyedBy(Set(rows, ids, new), keys, column)
<1> DEFINE changed == Set(rows, ids, new)
<1>1. DOMAIN changed = DOMAIN rows
  BY SetRows
<1>2. ASSUME NEW i \in DOMAIN rows
      PROVE  column \in DOMAIN changed[i] /\ changed[i][column] = rows[i][column]
  <2>1. column \in DOMAIN rows[i]
    BY DEF KeyedBy
  <2> QED BY <2>1, SetKeeps
<1> HIDE DEF changed
<1>3. KeyedBy(changed, keys, column)
  BY <1>1, <1>2 DEF KeyedBy
<1> QED BY <1>3 DEF changed

(* A row that is made, beside an entry of the Map by key or without one:     *)
(* both stores hold it and return it, unless Postgres declines.              *)
LEMMA MadeAlike ==
  ASSUME NEW id, NEW row, NEW keys, NEW unique, mem = pg,
         Call(Memory(Put(mem, id, row), keys, <<row>>), Insert(id, row, unique)), ~ apart'
  PROVE  /\ id \notin DOMAIN mem /\ mem' = Put(mem, id, row)
         /\ mem' = pg' /\ answers'.mem = answers'.pg
         /\ index' = keys /\ calls' = calls + 1
         /\ \A key \in unique : Having(mem, key) = {}
<1>1. Insert(id, row, unique).declined = FALSE
  BY DEF Call
<1>2. ~ (id \in DOMAIN pg \/ \E key \in unique : Having(pg, key) # {})
  BY <1>1 DEF Insert, Declined
<1>3. Insert(id, row, unique) = Postgres(Put(pg, id, row), <<row>>)
  BY <1>2 DEF Insert
<1> QED BY <1>2, <1>3 DEF Call, Memory, Postgres

(* A row that is changed.                                                    *)
LEMMA ChangedAlike ==
  ASSUME NEW id, NEW new, mem = pg, Call(MapChange(id, new), Update(id, new))
  PROVE  /\ mem' = Set(mem, {id}, new)
         /\ mem' = pg' /\ answers'.mem = answers'.pg
         /\ index' = index /\ calls' = calls + 1
BY DEF Call, MapChange, Update, Memory, Postgres

(* createMerchant, updateMerchantSettings.                                   *)
LEMMA MerchantsAlike ==
  ASSUME calls \in Nat, mem = pg, MerchantsInv(mem, calls), MerchantCalls, ~ apart'
  PROVE  mem' = pg' /\ answers'.mem = answers'.pg /\ MerchantsInv(mem', calls')
<1> PICK id \in Ids :
      \/ Call(MemCreateMerchant(id), PgCreateMerchant(id))
      \/ \E b \in BOOLEAN :
           Call(MemUpdateMerchantSettings(id, b), PgUpdateMerchantSettings(id, b))
  BY DEF MerchantCalls
<1>1. CASE Call(MemCreateMerchant(id), PgCreateMerchant(id))
  <2>1. Call(Memory(Put(mem, id, Merchant), index, <<Merchant>>), Insert(id, Merchant, {}))
    BY <1>1 DEF MemCreateMerchant, PgCreateMerchant, MapSet
  <2>2. "created" \in DOMAIN Merchant /\ Merchant.created = calls + 1
    BY DEF Merchant, Now
  <2>3. Made(Put(mem, id, Merchant), calls + 1)
    BY <2>1, <2>2, MadeAlike, PutMade DEF MerchantsInv
  <2> QED BY <2>1, <2>3, MadeAlike DEF MerchantsInv
<1>2. ASSUME NEW b \in BOOLEAN, 
             Call(MemUpdateMerchantSettings(id, b), PgUpdateMerchantSettings(id, b))
      PROVE  mem' = pg' /\ answers'.mem = answers'.pg /\ MerchantsInv(mem', calls')
  <2>1. Call(MapChange(id, Settings(b)), Update(id, Settings(b)))
    BY <1>2 DEF MemUpdateMerchantSettings, PgUpdateMerchantSettings
  <2>2. "created" \notin DOMAIN Settings(b)
    BY DEF Settings
  <2>3. Made(Set(mem, {id}, Settings(b)), calls + 1)
    BY <2>2, SetMade DEF MerchantsInv
  <2> QED BY <2>1, <2>3, ChangedAlike DEF MerchantsInv
<1> QED BY <1>1, <1>2

(* createApiKey, updateApiKeyLastUsed, -Secret, -Status.                     *)
LEMMA ApiKeysAlike ==
  ASSUME calls \in Nat, mem = pg, ApiKeysInv(mem, index, calls), ApiKeyCalls, ~ apart'
  PROVE  mem' = pg' /\ answers'.mem = answers'.pg /\ ApiKeysInv(mem', index', calls')
<1> PICK id \in Ids :
      \/ \E m \in Merchants, k \in Keys :
           Call(MemCreateApiKey(id, m, k), PgCreateApiKey(id, m, k))
      \/ \E new \in ApiKeyChanges : Call(MemUpdateApiKey(id, new), PgUpdateApiKey(id, new))
  BY DEF ApiKeyCalls
<1>1. ASSUME NEW m \in Merchants, NEW k \in Keys,
             Call(MemCreateApiKey(id, m, k), PgCreateApiKey(id, m, k))
      PROVE  mem' = pg' /\ answers'.mem = answers'.pg /\ ApiKeysInv(mem', index', calls')
  <2> DEFINE row == ApiKey(m, k)
  <2>1. /\ "created" \in DOMAIN row /\ row.created = calls + 1
        /\ "publicKey" \in DOMAIN row /\ row["publicKey"] = k
    BY DEF ApiKey, Now
  <2> HIDE DEF row
  <2>2. Call(Memory(Put(mem, id, row), Put(index, k, id), <<row>>), Insert(id, row, {[publicKey |-> k]}))
    BY <1>1 DEF MemCreateApiKey, PgCreateApiKey, row
  <2>3. /\ id \notin DOMAIN mem /\ mem' = Put(mem, id, row)
        /\ mem' = pg' /\ answers'.mem = answers'.pg
        /\ index' = Put(index, k, id) /\ calls' = calls + 1
        /\ Having(mem, [publicKey |-> k]) = {}
    BY <2>2, MadeAlike
  <2>4. Made(mem', calls')
    BY <2>1, <2>3, PutMade DEF ApiKeysInv
  <2>5. k \notin DOMAIN index
    BY <2>3 DEF ApiKeysInv, KeyedBy, Having
  <2>6. KeyedBy(mem', index', "publicKey")
    BY <2>1, <2>3, <2>5, PutKeyed DEF ApiKeysInv
  <2> QED BY <2>3, <2>4, <2>6 DEF ApiKeysInv
<1>2. ASSUME NEW new \in ApiKeyChanges, Call(MemUpdateApiKey(id, new), PgUpdateApiKey(id, new))
      PROVE  mem' = pg' /\ answers'.mem = answers'.pg /\ ApiKeysInv(mem', index', calls')
  <2>1. Call(MapChange(id, new), Update(id, new))
    BY <1>2 DEF MemUpdateApiKey, PgUpdateApiKey
  <2>2. "created" \notin DOMAIN new /\ "publicKey" \notin DOMAIN new
    BY DEF ApiKeyChanges
  <2>3. Made(Set(mem, {id}, new), calls + 1)
    BY <2>2, SetMade DEF ApiKeysInv
  <2>4. KeyedBy(Set(mem, {id}, new), index, "publicKey")
    BY <2>2, SetKeyed DEF ApiKeysInv
  <2> QED BY <2>1, <2>3, <2>4, ChangedAlike DEF ApiKeysInv
<1> QED BY <1>1, <1>2

(* insertRequestNonce.                                                       *)
LEMMA NoncesAlike ==
  ASSUME mem = pg, NonceCalls
  PROVE  mem' = pg' /\ answers'.mem = answers'.pg
BY DEF NonceCalls, Call, MemInsertRequestNonce, PgInsertRequestNonce, Memory, Postgres

(* createIdempotencyRecord.                                                  *)
LEMMA IdempotencyAlike ==
  ASSUME mem = pg, IdempotencyCalls, ~ apart'
  PROVE  mem' = pg' /\ answers'.mem = answers'.pg
<1> PICK k \in Keys, id \in Ids :
      Call(MemCreateIdempotencyRecord(k, id), PgCreateIdempotencyRecord(k, id))
  BY DEF IdempotencyCalls
<1> DEFINE row == Idempotency(k, id)
<1>1. Call(Memory(Put(mem, k, row), index, <<row>>), Insert(k, row, {}))
  BY DEF MemCreateIdempotencyRecord, PgCreateIdempotencyRecord, MapSet
<1> HIDE DEF row
<1> QED BY <1>1, MadeAlike

(* An upsert: Postgres updates what memory replaces, if the columns it does  *)
(* not set are the ones memory takes over.                                   *)
LEMMA UpsertAlike ==
  ASSUME NEW id, NEW fresh, NEW conflict, NEW new, NEW kept, NEW row, NEW keys, mem = pg,
         Call(Memory(Put(mem, kept, row), keys, <<row>>), InsertOrUpdate(id, fresh, conflict, new)),
         \/ kept \notin DOMAIN mem /\ conflict = {} /\ kept = id /\ row = fresh
         \/ kept \in DOMAIN mem /\ conflict = {kept} /\ row = Over(new, mem[kept])
  PROVE  /\ mem' = Put(mem, kept, row)
         /\ mem' = pg' /\ answers'.mem = answers'.pg
         /\ index' = keys /\ calls' = calls + 1
<1> DEFINE asked == InsertOrUpdate(id, fresh, conflict, new)
<1>1. /\ mem' = Put(mem, kept, row) /\ answers'.mem = <<row>>
      /\ index' = keys /\ calls' = calls + 1
      /\ pg' = asked.rows /\ answers'.pg = asked.answer
  BY DEF Call, Memory
<1>2. asked.rows = Put(mem, kept, row) /\ asked.answer = <<row>>
  <2>1. CASE kept \notin DOMAIN mem /\ conflict = {} /\ kept = id /\ row = fresh
    <3>1. asked = Postgres(Put(pg, kept, row), <<row>>)
      BY <2>1 DEF InsertOrUpdate, Insert
    <3> QED BY <3>1 DEF Postgres
  <2>2. CASE kept \in DOMAIN mem /\ conflict = {kept} /\ row = Over(new, mem[kept])
    <3>1. Set(pg, conflict, new) = Put(mem, kept, row)
      BY <2>2 DEF Set, Put
    <3>2. asked = Postgres(Put(mem, kept, row), <<Put(mem, kept, row)[kept]>>)
      BY <2>2, <3>1 DEF InsertOrUpdate
    <3>3. Put(mem, kept, row)[kept] = row
      BY DEF Put
    <3> QED BY <3>2, <3>3 DEF Postgres
  <2> QED BY <2>1, <2>2
<1> HIDE DEF asked
<1> QED BY <1>1, <1>2

(* The upsert of a merchant's setting.                                       *)
LEMMA SettingAlike ==
  ASSUME NEW m, NEW value, calls \in Nat, mem = pg, SettingsInv(mem, calls),
         Call(MapSet(m, [Setting(value) EXCEPT !.created = CreatedBefore(mem, m)]),
              InsertOrUpdate(m, Setting(value), {m} \intersect DOMAIN pg,
                             [value |-> value, updated |-> Now]))
  PROVE  mem' = pg' /\ answers'.mem = answers'.pg /\ SettingsInv(mem', calls')
<1> DEFINE row == [value |-> value, created |-> CreatedBefore(mem, m), updated |-> Now]
           new == [value |-> value, updated |-> Now]
<1>1. [Setting(value) EXCEPT !.created = CreatedBefore(mem, m)] = row
  BY DEF Setting
<1>2. Call(Memory(Put(mem, m, row), index, <<row>>),
           InsertOrUpdate(m, Setting(value), {m} \intersect DOMAIN pg, new))
  BY <1>1 DEF MapSet
<1>3. \/ m \notin DOMAIN mem /\ {m} \intersect DOMAIN pg = {} /\ row = Setting(value)
      \/ m \in DOMAIN mem /\ {m} \intersect DOMAIN pg = {m} /\ row = Over(new, mem[m])
  <2>1. CASE m \notin DOMAIN mem
    BY <2>1 DEF Setting, CreatedBefore
  <2>2. CASE m \in DOMAIN mem
    BY <2>2 DEF Over, SettingsInv, Setting3, CreatedBefore
  <2> QED BY <2>1, <2>2
<1>4. SettingsInv(Put(mem, m, row), calls + 1)
  <2>1. "created" \in DOMAIN row /\ row.created = CreatedBefore(mem, m)
    OBVIOUS
  <2>2. Made(Put(mem, m, row), calls + 1)
    BY <2>1, PutMade DEF SettingsInv, CreatedBefore, Now
  <2>3. Setting3(row) /\ row.updated \in Nat
    BY DEF Setting3, Now
  <2>4. \A i \in DOMAIN Put(mem, m, row) :
          Setting3(Put(mem, m, row)[i]) /\ Put(mem, m, row)[i].updated \in Nat
    BY <2>3 DEF Put, SettingsInv
  <2> QED BY <2>2, <2>4 DEF SettingsInv
<1> HIDE DEF row, new
<1> QED BY <1>2, <1>3, <1>4, UpsertAlike

(* upsertWebhookConfig.                                                      *)
LEMMA WebhookConfigsAlike ==
  ASSUME calls \in Nat, mem = pg, SettingsInv(mem, calls), WebhookConfigCalls, ~ apart'
  PROVE  mem' = pg' /\ answers'.mem = answers'.pg /\ SettingsInv(mem', calls')
BY SettingAlike DEF WebhookConfigCalls, MemUpsertWebhookConfig, PgUpsertWebhookConfig

(* upsertNotificationPreferences.                                            *)
LEMMA PreferencesAlike ==
  ASSUME calls \in Nat, mem = pg, SettingsInv(mem, calls), PreferencesCalls, ~ apart'
  PROVE  mem' = pg' /\ answers'.mem = answers'.pg /\ SettingsInv(mem', calls')
BY SettingAlike DEF PreferencesCalls, MemUpsertNotificationPreferences, PgUpsertNotificationPreferences

(* upsertOperationalWallet: the scope names one wallet.                      *)
LEMMA OperationalAlike ==
  ASSUME calls \in Nat, mem = pg, OperationalInv(mem, index, calls), OperationalWalletCalls
  PROVE  mem' = pg' /\ answers'.mem = answers'.pg /\ OperationalInv(mem', index', calls')
<1> PICK id \in Ids \ DOMAIN mem, s \in Keys :
      Call(MemUpsertOperationalWallet(s, id), PgUpsertOperationalWallet(s, id))
  BY DEF OperationalWalletCalls
<1> DEFINE kept == IF s \in DOMAIN index THEN index[s] ELSE id
           row == [scope |-> s, address |-> id, status |-> "active",
                   created |-> CreatedBefore(mem, kept), updated |-> Now]
           new == [address |-> id, status |-> "active", updated |-> Now]
           keys == Put(index, s, kept)
<1>1. [Operational(s, id) EXCEPT !.created = CreatedBefore(mem, kept)] = row
  BY DEF Operational
<1>2. Call(Memory(Put(mem, kept, row), keys, <<row>>),
           InsertOrUpdate(id, Operational(s, id), Having(pg, [scope |-> s]), new))
  BY <1>1 DEF MemUpsertOperationalWallet, PgUpsertOperationalWallet
<1>3. \/ kept \notin DOMAIN mem /\ Having(pg, [scope |-> s]) = {} /\ kept = id /\ row = Operational(s, id)
      \/ kept \in DOMAIN mem /\ Having(pg, [scope |-> s]) = {kept} /\ row = Over(new, mem[kept])
  <2>1. CASE s \notin DOMAIN index
    <3>1. Having(pg, [scope |-> s]) = {}
      BY <2>1 DEF OperationalInv, KeyedBy, Having
    <3>2. row = Operational(s, id)
      BY <2>1 DEF Operational, CreatedBefore
    <3> QED BY <2>1, <3>1, <3>2
  <2>2. CASE s \in DOMAIN index
    <3>1. kept \in DOMAIN mem /\ mem[kept].scope = s
      BY <2>2 DEF OperationalInv, KeyedBy
    <3>2. \A i \in DOMAIN mem : mem[i].scope = s => i = kept
      BY <2>2 DEF OperationalInv, KeyedBy
    <3>3. Having(pg, [scope |-> s]) = {kept}
      BY <3>1, <3>2 DEF Having
    <3>4. Operational5(mem[kept])
      BY <3>1 DEF OperationalInv
    <3> HIDE DEF kept
    <3>5. row = Over(new, mem[kept])
      BY <3>1, <3>4 DEF Over, Operational5, CreatedBefore
    <3> QED BY <3>1, <3>3, <3>5
  <2> QED BY <2>1, <2>2
<1>4. KeyedBy(Put(mem, kept, row), keys, "scope")
  <2>1. "scope" \in DOMAIN row /\ row["scope"] = s
    OBVIOUS
  <2>2. CASE s \notin DOMAIN index
    BY <2>1, <2>2, PutKeyed DEF OperationalInv
  <2>3. CASE s \in DOMAIN index
    <3>1. kept \in DOMAIN mem /\ kept = index[s] /\ mem[kept].scope = s
      BY <2>3 DEF OperationalInv, KeyedBy
    <3> HIDE DEF row, kept
    <3> QED BY <2>1, <2>3, <3>1 DEF OperationalInv, KeyedBy, Put
  <2> QED BY <2>2, <2>3
<1> HIDE DEF kept
<1>5. Made(Put(mem, kept, row), calls + 1)
  <2>1. "created" \in DOMAIN row /\ row.created = CreatedBefore(mem, kept)
    OBVIOUS
  <2> QED BY <2>1, PutMade DEF OperationalInv, CreatedBefore, Now
<1>6. \A i \in DOMAIN Put(mem, kept, row) :
        /\ Operational5(Put(mem, kept, row)[i])
        /\ Put(mem, kept, row)[i].updated \in Nat /\ Put(mem, kept, row)[i].status = "active"
  <2>1. Operational5(row) /\ row.updated \in Nat /\ row.status = "active"
    BY DEF Operational5, Now
  <2> HIDE DEF row
  <2> QED BY <2>1 DEF Put, OperationalInv
<1> HIDE DEF row, new, keys
<1>7. /\ mem' = Put(mem, kept, row)
      /\ mem' = pg' /\ answers'.mem = answers'.pg
      /\ index' = keys /\ calls' = calls + 1
  BY <1>2, <1>3, UpsertAlike
<1> QED BY <1>4, <1>5, <1>6, <1>7 DEF OperationalInv

(* upsertChainCursor.                                                        *)
LEMMA CursorsAlike ==
  ASSUME mem = pg, CursorsInv(mem), CursorCalls
  PROVE  mem' = pg' /\ answers'.mem = answers'.pg /\ CursorsInv(mem')
<1> PICK asset \in Keys, block \in 1 .. MaxCalls :
      Call(MemUpsertChainCursor(asset, block), PgUpsertChainCursor(asset, block))
  BY DEF CursorCalls
<1> DEFINE row == Cursor(block)
<1>1. Call(Memory(Put(mem, asset, row), index, <<row>>),
           InsertOrUpdate(asset, row, {asset} \intersect DOMAIN pg, row))
  BY DEF MemUpsertChainCursor, PgUpsertChainCursor, MapSet
<1>2. \/ asset \notin DOMAIN mem /\ {asset} \intersect DOMAIN pg = {}
      \/ asset \in DOMAIN mem /\ {asset} \intersect DOMAIN pg = {asset} /\ row = Over(row, mem[asset])
  BY DEF Cursor, CursorsInv, Cursor2, Over
<1>3. Cursor2(row)
  BY DEF Cursor, Cursor2
<1>4. CursorsInv(Put(mem, asset, row))
  BY <1>3 DEF CursorsInv, Put
<1> HIDE DEF row
<1> QED BY <1>1, <1>2, <1>4, UpsertAlike

(* A wallet that is, or is not, the default from now on.                     *)
LEMMA OverTreasury ==
  ASSUME NEW r, NEW default, NEW at, Treasury6(r)
  PROVE  Over([isDefault |-> default, updated |-> at], r) =
           [merchant |-> r.merchant, address |-> r.address, isDefault |-> default,
            operational |-> r.operational, created |-> r.created, updated |-> at]
<1> DEFINE s == [merchant |-> r.merchant, address |-> r.address, isDefault |-> r.isDefault,
                 operational |-> r.operational, created |-> r.created, updated |-> r.updated]
<1>1. Over([isDefault |-> default, updated |-> at], s) =
           [merchant |-> r.merchant, address |-> r.address, isDefault |-> default,
            operational |-> r.operational, created |-> r.created, updated |-> at]
  BY DEF Over
<1>2. r = s
  BY DEF Treasury6
<1> HIDE DEF s
<1> QED BY <1>1, <1>2

(* The wallets of a merchant are no longer the default.                      *)
Cleared(m, default) ==
  IF default THEN Set(mem, Having(mem, [merchant |-> m]), [isDefault |-> FALSE, updated |-> Now])
  ELSE mem

(* ... and what else the clearing leaves of the rows.                        *)
LEMMA ClearedRows ==
  ASSUME NEW m, NEW default \in BOOLEAN, calls \in Nat, TreasuriesInv(mem, calls)
  PROVE  /\ DOMAIN Cleared(m, default) = DOMAIN mem
         /\ Made(Cleared(m, default), calls)
         /\ \A i \in DOMAIN mem :
              LET r == Cleared(m, default)[i] IN
              /\ Treasury6(r)
              /\ r.merchant = mem[i].merchant /\ r.address = mem[i].address
              /\ r.operational = mem[i].operational /\ r.created = mem[i].created
              /\ r.updated \in Nat
              /\ r.isDefault = (mem[i].isDefault /\ ~ (default /\ mem[i].merchant = m))
<1> DEFINE new == [isDefault |-> FALSE, updated |-> Now]
           changed == Set(mem, Having(mem, [merchant |-> m]), new)
<1>1. CASE ~ default
  BY <1>1 DEF TreasuriesInv, Cleared
<1>2. CASE default
  <2>1. Cleared(m, default) = changed
    BY <1>2 DEF Cleared
  <2>2. Made(changed, calls)
    BY SetMade DEF TreasuriesInv
  <2>3. DOMAIN changed = DOMAIN mem
    BY DEF Set
  <2>4. ASSUME NEW i \in DOMAIN mem
        PROVE  /\ Treasury6(changed[i])
               /\ changed[i].merchant = mem[i].merchant /\ changed[i].address = mem[i].address
               /\ changed[i].operational = mem[i].operational /\ changed[i].created = mem[i].created
               /\ changed[i].updated \in Nat
               /\ changed[i].isDefault = (mem[i].isDefault /\ mem[i].merchant # m)
    <3>1. Treasury6(mem[i]) /\ mem[i].updated \in Nat /\ mem[i].isDefault \in BOOLEAN
      BY DEF TreasuriesInv
    <3>2. CASE mem[i].merchant # m
      <4>1. changed[i] = mem[i]
        BY <3>2 DEF Set, Having
      <4> QED BY <3>1, <3>2, <4>1
    <3>3. CASE mem[i].merchant = m
      <4>1. changed[i] = Over(new, mem[i])
        BY <3>3 DEF Set, Having
      <4>2. Over(new, mem[i]) =
              [merchant |-> mem[i].merchant, address |-> mem[i].address, isDefault |-> FALSE,
               operational |-> mem[i].operational, created |-> mem[i].created, updated |-> Now]
        BY <3>1, OverTreasury
      <4> HIDE DEF new, changed
      <4>3. (mem[i].isDefault /\ mem[i].merchant # m) = FALSE
        BY <3>3
      <4>4. Treasury6(changed[i])
        BY <4>1, <4>2 DEF Treasury6
      <4>5. changed[i].updated \in Nat
        BY <4>1, <4>2 DEF Now
      <4>6. changed[i].isDefault = FALSE
        BY <4>1, <4>2
      <4>7. /\ changed[i].merchant = mem[i].merchant /\ changed[i].address = mem[i].address
            /\ changed[i].operational = mem[i].operational /\ changed[i].created = mem[i].created
        BY <4>1, <4>2
      <4> QED BY <4>3, <4>4, <4>5, <4>6, <4>7, Zenon
    <3> QED BY <3>2, <3>3
  <2> HIDE DEF changed
  <2> QED BY <1>2, <2>1, <2>2, <2>3, <2>4
<1> QED BY <1>1, <1>2

(* upsertTreasuryWallet: merchant and address name one wallet.               *)
LEMMA TreasuryUpsertAlike ==
  ASSUME NEW id \in Ids, NEW m, NEW k, NEW ask \in BOOLEAN, NEW op,
         calls \in Nat, mem = pg, TreasuriesInv(mem, calls), id \notin DOMAIN mem,
         Call(MemUpsertTreasuryWallet(id, m, k, ask, op), PgUpsertTreasuryWallet(id, m, k, ask, op))
  PROVE  mem' = pg' /\ answers'.mem = answers'.pg /\ TreasuriesInv(mem', calls')
<1> DEFINE existing == Having(mem, [merchant |-> m, address |-> k])
           default == ask \/ Having(mem, [merchant |-> m, isDefault |-> TRUE]) = {}
           cleared == Cleared(m, default)
           kept == IF existing = {} THEN id ELSE CHOOSE i \in existing : TRUE
           isDefault == default \/ (existing # {} /\ cleared[kept].isDefault)
           row == [Treasury(m, k, isDefault, Kept(op, mem, existing))
                   EXCEPT !.created = CreatedBefore(mem, kept)]
           rows == IF existing = {}
                     THEN Put(cleared, id, Treasury(m, k, default, op))
                     ELSE Set(cleared, existing,
                              [isDefault |-> default \/ \E i \in existing : mem[i].isDefault,
                               operational |-> Kept(op, mem, existing), updated |-> Now])
<1>1. default \in BOOLEAN
  OBVIOUS
<1>2. /\ mem' = Put(cleared, kept, row) /\ answers'.mem = <<row>> /\ calls' = calls + 1
  BY DEF Call, MemUpsertTreasuryWallet, Memory, Cleared
<1>3. /\ pg' = rows
      /\ answers'.pg = <<rows[CHOOSE i \in Having(rows, [merchant |-> m, address |-> k]) : TRUE]>>
  BY DEF Call, PgUpsertTreasuryWallet, Postgres, Cleared
<1>4. /\ DOMAIN cleared = DOMAIN mem
      /\ Made(cleared, calls)
      /\ \A i \in DOMAIN mem :
           /\ Treasury6(cleared[i])
           /\ cleared[i].merchant = mem[i].merchant /\ cleared[i].address = mem[i].address
           /\ cleared[i].operational = mem[i].operational /\ cleared[i].created = mem[i].created
           /\ cleared[i].updated \in Nat
           /\ cleared[i].isDefault = (mem[i].isDefault /\ ~ (default /\ mem[i].merchant = m))
  <2> HIDE DEF default
  <2> QED BY <1>1, ClearedRows
<1>5. \/ existing = {} /\ kept = id
      \/ existing = {kept} /\ kept \in DOMAIN mem /\ mem[kept].merchant = m /\ mem[kept].address = k
  <2>1. \A i, j \in existing : i = j
    BY DEF TreasuriesInv, Having
  <2>2. CASE existing # {}
    <3>1. kept \in existing
      BY <2>2
    <3>2. existing = {kept}
      BY <2>1, <3>1
    <3>3. kept \in DOMAIN mem /\ mem[kept].merchant = m /\ mem[kept].address = k
      BY <3>1 DEF Having
    <3> QED BY <3>2, <3>3
  <2> QED BY <2>2
<1>6. row = [merchant |-> m, address |-> k, isDefault |-> isDefault,
             operational |-> Kept(op, mem, existing),
             created |-> CreatedBefore(mem, kept), updated |-> Now]
  <2> HIDE DEF isDefault, kept, existing
  <2> QED BY DEF Treasury
<1>7. \A i \in DOMAIN mem : i # kept => ~ (mem[i].merchant = m /\ mem[i].address = k)
  BY <1>5 DEF Having
<1>8. isDefault \in BOOLEAN /\ (default => isDefault) /\ (existing = {} => isDefault = default)
  BY <1>1, <1>5, <1>4 DEF TreasuriesInv
<1>9. existing # {} => isDefault = (default \/ mem[kept].isDefault)
  BY <1>1, <1>4, <1>5 DEF TreasuriesInv
<1>10. default \/ \E j \in DOMAIN mem : mem[j].merchant = m /\ mem[j].isDefault
  <2>1. CASE Having(mem, [merchant |-> m, isDefault |-> TRUE]) # {}
    BY <2>1 DEF Having
  <2> QED BY <2>1
<1> HIDE DEF cleared
<1>11. rows = Put(cleared, kept, row)
  <2>1. CASE existing = {}
    <3>1. Treasury(m, k, default, op) = row
      BY <1>5, <1>6, <1>8, <2>1 DEF Treasury, Kept, CreatedBefore
    <3> QED BY <1>5, <2>1, <3>1
  <2>2. CASE existing # {}
    <3> DEFINE new == [isDefault |-> default \/ \E i \in existing : mem[i].isDefault,
                       operational |-> Kept(op, mem, existing), updated |-> Now]
    <3>1. existing = {kept} /\ kept \in DOMAIN mem /\ mem[kept].merchant = m /\ mem[kept].address = k
      BY <1>5, <2>2
    <3>2. new = [isDefault |-> isDefault, operational |-> Kept(op, mem, existing), updated |-> Now]
      <4>1. (default \/ \E i \in existing : mem[i].isDefault) = isDefault
        BY <1>8, <1>9, <2>2, <3>1
      <4> QED BY <4>1
    <3> HIDE DEF isDefault, kept, existing, default
    <3>3. Treasury6(cleared[kept])
      BY <1>4, <3>1
    <3>4. /\ cleared[kept].merchant = m /\ cleared[kept].address = k
          /\ cleared[kept].created = CreatedBefore(mem, kept)
      BY <1>4, <3>1 DEF CreatedBefore
    <3>5. Over(new, cleared[kept]) = row
      BY <1>6, <3>2, <3>3, <3>4 DEF Over, Treasury6
    <3> HIDE DEF new, row
    <3>6. Set(cleared, {kept}, new) = Put(cleared, kept, row)
      BY <3>1, <3>5, <1>4 DEF Set, Put
    <3> QED BY <2>2, <3>1, <3>6 DEF new, existing
  <2> QED BY <2>1, <2>2
<1> HIDE DEF rows, isDefault, existing, default
<1>12. /\ row.merchant = m /\ row.address = k /\ Treasury6(row)
       /\ row.updated \in Nat /\ row.isDefault = isDefault
  BY <1>6 DEF Treasury6, Now
<1>13. "created" \in DOMAIN row /\ row.created = CreatedBefore(mem, kept)
  BY <1>6
<1> HIDE DEF row, kept
<1> DEFINE after == Put(cleared, kept, row)
<1>14. /\ DOMAIN after = DOMAIN mem \union {kept} /\ after[kept] = row
       /\ \A i \in DOMAIN mem : i # kept => after[i] = cleared[i]
  BY <1>4 DEF Put
<1>15. Made(after, calls + 1)
  BY <1>4, <1>13, PutMade DEF CreatedBefore, Now
<1> HIDE DEF after
<1>16. Having(after, [merchant |-> m, address |-> k]) = {kept}
  BY <1>4, <1>7, <1>12, <1>14 DEF Having
<1>17. mem' = pg' /\ answers'.mem = answers'.pg
  BY <1>2, <1>3, <1>11, <1>14, <1>16 DEF after
<1>18. TreasuriesInv(after, calls + 1)
  <2>1. \A i \in DOMAIN after :
          Treasury6(after[i]) /\ after[i].updated \in Nat /\ after[i].isDefault \in BOOLEAN
    BY <1>4, <1>8, <1>12, <1>14
  <2>2. ASSUME NEW i \in DOMAIN after, NEW j \in DOMAIN after,
               after[i].merchant = after[j].merchant, after[i].address = after[j].address
        PROVE  i = j
    <3>1. CASE i = kept \/ j = kept
      BY <1>4, <1>7, <1>12, <1>14, <2>2, <3>1
    <3>2. CASE i # kept /\ j # kept
      BY <1>4, <1>14, <2>2, <3>2 DEF TreasuriesInv
    <3> QED BY <3>1, <3>2
  <2>3. ASSUME NEW i \in DOMAIN after
        PROVE  \E j \in DOMAIN after : after[j].merchant = after[i].merchant /\ after[j].isDefault
    <3>1. CASE after[i].merchant = m
      <4>1. CASE default
        BY <1>8, <1>12, <1>14, <3>1, <4>1
      <4>2. CASE ~ default
        <5> PICK j \in DOMAIN mem : mem[j].merchant = m /\ mem[j].isDefault
          BY <1>10, <4>2
        <5>1. CASE j = kept
          BY <1>5, <1>9, <1>12, <1>14, <3>1, <5>1 
        <5>2. CASE j # kept
          <6>1. cleared[j].isDefault /\ cleared[j].merchant = m
            BY <1>4, <4>2
          <6>2. j \in DOMAIN after /\ after[j] = cleared[j]
            BY <1>14, <5>2
          <6> QED BY <3>1, <6>1, <6>2
        <5> QED BY <5>1, <5>2
      <4> QED BY <4>1, <4>2
    <3>2. CASE after[i].merchant # m
      <4>1. i \in DOMAIN mem /\ i # kept /\ after[i].merchant = mem[i].merchant
        BY <1>4, <1>12, <1>14, <3>2
      <4> PICK j \in DOMAIN mem : mem[j].merchant = mem[i].merchant /\ mem[j].isDefault
        BY <4>1 DEF TreasuriesInv
      <4>2. CASE j = kept
        BY <1>5, <3>2, <4>1, <4>2 DEF TreasuriesInv
      <4>3. CASE j # kept
        <5>1. mem[j].merchant # m
          BY <3>2, <4>1
        <5>2. cleared[j].isDefault /\ cleared[j].merchant = mem[j].merchant
          BY <1>4, <5>1
        <5>3. j \in DOMAIN after /\ after[j] = cleared[j]
          BY <1>14, <4>3
        <5> QED BY <4>1, <5>2, <5>3
      <4> QED BY <4>2, <4>3
    <3> QED BY <3>1, <3>2
  <2> QED BY <1>15, <2>1, <2>2, <2>3 DEF TreasuriesInv
<1> QED BY <1>2, <1>17, <1>18 DEF after

(* setDefaultTreasuryWallet: memory sets each row once, Postgres the default *)
(* twice.                                                                    *)
LEMMA SetDefaultAlike ==
  ASSUME NEW m, NEW id, calls \in Nat, mem = pg, TreasuriesInv(mem, calls),
         Call(MemSetDefaultTreasuryWallet(m, id), PgSetDefaultTreasuryWallet(m, id))
  PROVE  mem' = pg' /\ answers'.mem = answers'.pg /\ TreasuriesInv(mem', calls')
<1>1. CASE id \notin Having(mem, [merchant |-> m])
  <2>1. mem' = mem /\ pg' = mem /\ answers'.mem = answers'.pg /\ calls' = calls + 1
    BY <1>1 DEF Call, MemSetDefaultTreasuryWallet, PgSetDefaultTreasuryWallet, Memory, Postgres
  <2>2. Made(mem, calls + 1)
    BY MadeLater DEF TreasuriesInv
  <2> QED BY <2>1, <2>2 DEF TreasuriesInv
<1>2. CASE id \in Having(mem, [merchant |-> m])
  <2> DEFINE held == [i \in DOMAIN mem |->
                        IF mem[i].merchant # m THEN mem[i]
                        ELSE Over([isDefault |-> i = id, updated |-> Now], mem[i])]
             cleared == Set(mem, Having(mem, [merchant |-> m]), [isDefault |-> FALSE, updated |-> Now])
             rows == Set(cleared, {id}, [isDefault |-> TRUE, updated |-> Now])
  <2>1. /\ mem' = held /\ answers'.mem = Row(held, id) /\ calls' = calls + 1
        /\ pg' = rows /\ answers'.pg = Row(rows, id)
    BY <1>2 DEF Call, MemSetDefaultTreasuryWallet, PgSetDefaultTreasuryWallet, Memory, Postgres
  <2>2. id \in DOMAIN mem /\ mem[id].merchant = m
    BY <1>2 DEF Having
  <2>3. \A i \in DOMAIN mem : Treasury6(mem[i]) /\ mem[i].updated \in Nat /\ mem[i].isDefault \in BOOLEAN
    BY DEF TreasuriesInv
  <2>4. ASSUME NEW i \in DOMAIN mem, mem[i].merchant = m
        PROVE  held[i] = [merchant |-> mem[i].merchant, address |-> mem[i].address, isDefault |-> (i = id),
                          operational |-> mem[i].operational, created |-> mem[i].created, updated |-> Now]
    BY <2>3, <2>4, OverTreasury
  <2>5. ASSUME NEW i \in DOMAIN mem, mem[i].merchant # m
        PROVE  held[i] = mem[i] /\ rows[i] = mem[i]
    <3>1. held[i] = mem[i]
      BY <2>5
    <3>2. rows[i] = mem[i]
      BY <2>2, <2>5 DEF Set, Having
    <3> QED BY <3>1, <3>2
  <2>6. ASSUME NEW i \in DOMAIN mem, mem[i].merchant = m
        PROVE  rows[i] = held[i]
    <3> DEFINE gone == [merchant |-> mem[i].merchant, address |-> mem[i].address, isDefault |-> FALSE,
                        operational |-> mem[i].operational, created |-> mem[i].created, updated |-> Now]
               set == [merchant |-> mem[i].merchant, address |-> mem[i].address, isDefault |-> TRUE,
                        operational |-> mem[i].operational, created |-> mem[i].created, updated |-> Now]
    <3>1. cleared[i] = Over([isDefault |-> FALSE, updated |-> Now], mem[i])
      BY <2>6 DEF Set, Having
    <3>2. cleared[i] = gone
      BY <2>3, <3>1, OverTreasury
    <3>3. DOMAIN cleared = DOMAIN mem
      BY DEF Set
    <3>4. CASE i # id
      <4>1. rows[i] = cleared[i]
        BY <3>3, <3>4 DEF Set
      <4>2. held[i] = gone
        BY <2>4, <2>6, <3>4
      <4> QED BY <3>2, <4>1, <4>2
    <3>5. CASE i = id
      <4>1. rows[i] = Over([isDefault |-> TRUE, updated |-> Now], cleared[i])
        BY <3>3, <3>5 DEF Set
      <4>2. Treasury6(gone)
        BY DEF Treasury6
      <4>3. Over([isDefault |-> TRUE, updated |-> Now], gone) = set
        <5>1. /\ gone.merchant = mem[i].merchant /\ gone.address = mem[i].address
              /\ gone.operational = mem[i].operational /\ gone.created = mem[i].created
          OBVIOUS
        <5> HIDE DEF gone
        <5>2. Over([isDefault |-> TRUE, updated |-> Now], gone) =
                [merchant |-> gone.merchant, address |-> gone.address, isDefault |-> TRUE,
                 operational |-> gone.operational, created |-> gone.created, updated |-> Now]
          BY <4>2, OverTreasury
        <5> QED BY <5>1, <5>2
      <4>4. held[i] = set
        BY <2>4, <2>6, <3>5
      <4> HIDE DEF gone, set, cleared, rows, held
      <4> QED BY <3>2, <4>1, <4>3, <4>4
    <3> QED BY <3>4, <3>5
  <2>7. DOMAIN held = DOMAIN mem /\ DOMAIN rows = DOMAIN mem
    BY DEF Set
  <2>8. held = rows
    <3>1. rows = [i \in DOMAIN mem |-> rows[i]]
      BY <2>7 DEF Set
    <3>2. held = [i \in DOMAIN mem |-> held[i]]
      OBVIOUS
    <3>3. \A i \in DOMAIN mem : rows[i] = held[i]
      BY <2>5, <2>6
    <3> HIDE DEF rows, held
    <3> QED BY <3>1, <3>2, <3>3
  <2>9. \A i \in DOMAIN mem :
          /\ Treasury6(held[i]) /\ held[i].updated \in Nat /\ held[i].isDefault \in BOOLEAN
          /\ held[i].merchant = mem[i].merchant /\ held[i].address = mem[i].address
          /\ "created" \in DOMAIN held[i] /\ held[i].created = mem[i].created
          /\ IF mem[i].merchant = m THEN held[i].isDefault <=> i = id
                                    ELSE held[i].isDefault = mem[i].isDefault
    <3> TAKE i \in DOMAIN mem
    <3>1. CASE mem[i].merchant # m
      <4>1. held[i] = mem[i]
        BY <2>5, <3>1
      <4>2. "created" \in DOMAIN mem[i]
        BY DEF TreasuriesInv, Made
      <4> HIDE DEF held
      <4> QED BY <2>3, <3>1, <4>1, <4>2
    <3>2. CASE mem[i].merchant = m
      <4>1. held[i] = [merchant |-> mem[i].merchant, address |-> mem[i].address, isDefault |-> (i = id),
                       operational |-> mem[i].operational, created |-> mem[i].created, updated |-> Now]
        BY <2>4, <3>2
      <4> HIDE DEF held
      <4>2. Treasury6(held[i])
        BY <4>1 DEF Treasury6
      <4>3. held[i].isDefault = (i = id)
        BY <4>1
      <4>4. held[i].updated \in Nat
        BY <4>1 DEF Now
      <4>5. /\ held[i].merchant = mem[i].merchant /\ held[i].address = mem[i].address
            /\ "created" \in DOMAIN held[i] /\ held[i].created = mem[i].created
        BY <4>1
      <4> QED BY <3>2, <4>2, <4>3, <4>4, <4>5
    <3> QED BY <3>1, <3>2
  <2> HIDE DEF held, rows
  <2>10. TreasuriesInv(held, calls + 1)
    <3>1. Made(held, calls)
      BY <2>7, <2>9 DEF TreasuriesInv, Made
    <3>2. Made(held, calls + 1)
      BY <3>1, MadeLater
    <3>3. \A i, j \in DOMAIN held :
            held[i].merchant = held[j].merchant /\ held[i].address = held[j].address => i = j
      BY <2>7, <2>9 DEF TreasuriesInv
    <3>4. ASSUME NEW i \in DOMAIN held
          PROVE  \E j \in DOMAIN held : held[j].merchant = held[i].merchant /\ held[j].isDefault
      <4>1. CASE mem[i].merchant = m
        <5>1. held[id].merchant = held[i].merchant /\ held[id].isDefault
          BY <2>2, <2>7, <2>9, <3>4, <4>1
        <5> QED BY <2>2, <2>7, <5>1
      <4>2. CASE mem[i].merchant # m
        <5> PICK j \in DOMAIN mem : mem[j].merchant = mem[i].merchant /\ mem[j].isDefault
          BY <2>7, <3>4 DEF TreasuriesInv
        <5>1. held[j].merchant = held[i].merchant /\ held[j].isDefault
          BY <2>7, <2>9, <3>4, <4>2
        <5> QED BY <2>7, <5>1
      <4> QED BY <4>1, <4>2
    <3>5. \A i \in DOMAIN held :
            Treasury6(held[i]) /\ held[i].updated \in Nat /\ held[i].isDefault \in BOOLEAN
      BY <2>7, <2>9
    <3> QED BY <3>2, <3>3, <3>4, <3>5 DEF TreasuriesInv
  <2> QED BY <2>1, <2>8, <2>10
<1> QED BY <1>1, <1>2

(* The calls on treasury wallets.                                            *)
LEMMA TreasuriesAlike ==
  ASSUME calls \in Nat, mem = pg, TreasuriesInv(mem, calls), TreasuryWalletCalls
  PROVE  mem' = pg' /\ answers'.mem = answers'.pg /\ TreasuriesInv(mem', calls')
<1> PICK id \in Ids, m \in Merchants :
    \/ /\ id \notin DOMAIN mem
       /\ \E k \in Keys, ask \in BOOLEAN, op \in {None, id} :
            Call(MemUpsertTreasuryWallet(id, m, k, ask, op),
                 PgUpsertTreasuryWallet(id, m, k, ask, op))
    \/ Call(MemSetDefaultTreasuryWallet(m, id), PgSetDefaultTreasuryWallet(m, id))
  BY DEF TreasuryWalletCalls
<1>1. CASE Call(MemSetDefaultTreasuryWallet(m, id), PgSetDefaultTreasuryWallet(m, id))
  BY <1>1, SetDefaultAlike
<1>2. ASSUME id \notin DOMAIN mem, NEW k \in Keys, NEW ask \in BOOLEAN, NEW op \in {None, id},
            Call(MemUpsertTreasuryWallet(id, m, k, ask, op),
                 PgUpsertTreasuryWallet(id, m, k, ask, op))
      PROVE  mem' = pg' /\ answers'.mem = answers'.pg /\ TreasuriesInv(mem', calls')
  BY <1>2, TreasuryUpsertAlike
<1> QED BY <1>1, <1>2

(* A call that finds no row.                                                 *)
LEMMA NothingAlike ==
  ASSUME mem = pg, Call(Memory(mem, index, << >>), Postgres(pg, << >>))
  PROVE  mem' = mem /\ mem' = pg' /\ answers'.mem = answers'.pg /\ index' = index /\ calls' = calls + 1
BY DEF Call, Memory, Postgres

(* A request that is no longer active.                                       *)
LEMMA SetDeposits ==
  ASSUME NEW ids, NEW new, calls \in Nat, DepositsInv(mem, index, calls),
         {"flow", "address", "created"} \intersect DOMAIN new = {},
         "status" \in DOMAIN new, new.status # "active"
  PROVE  DepositsInv(Set(mem, ids, new), index, calls + 1)
<1> DEFINE changed == Set(mem, ids, new)
<1>1. Made(changed, calls + 1)
  BY SetMade DEF DepositsInv
<1>2. DOMAIN changed = DOMAIN mem
  BY DEF Set
<1>3. ASSUME NEW i \in DOMAIN mem
      PROVE  /\ {"flow", "address", "status", "match"} \subseteq DOMAIN changed[i]
             /\ changed[i].flow = mem[i].flow /\ changed[i].address = mem[i].address
             /\ changed[i].status = "active" => changed[i] = mem[i]
  <2>1. {"flow", "address", "status", "match"} \subseteq DOMAIN mem[i]
    BY DEF DepositsInv
  <2>2. CASE i \notin ids
    BY <2>1, <2>2 DEF Set
  <2>3. CASE i \in ids
    <3>1. changed[i] = Over(new, mem[i])
      BY <2>3 DEF Set
    <3> HIDE DEF changed
    <3>2. DOMAIN changed[i] = DOMAIN new \union DOMAIN mem[i]
      BY <3>1 DEF Over
    <3>3. changed[i].flow = mem[i].flow /\ changed[i].address = mem[i].address
      BY <2>1, <3>1 DEF Over
    <3>4. changed[i].status = new.status
      BY <3>1 DEF Over
    <3> QED BY <2>1, <3>2, <3>3, <3>4
  <2> QED BY <2>2, <2>3
<1> HIDE DEF changed
<1>4. DepositsInv(changed, index, calls + 1)
  BY <1>1, <1>2, <1>3 DEF DepositsInv
<1> QED BY <1>4 DEF changed

(* createDepositAddress: the address of a temporary wallet is unique.        *)
LEMMA CreateDepositAlike ==
  ASSUME NEW id, NEW m, NEW client, NEW a, NEW flow \in {"temporary", "direct"}, NEW life,
         calls \in Nat, mem = pg, DepositsInv(mem, index, calls), ~ apart',
         Call(MemCreateDepositAddress(id, Deposit(m, client, flow, a, life)),
              PgCreateDepositAddress(id, Deposit(m, client, flow, a, life)))
  PROVE  mem' = pg' /\ answers'.mem = answers'.pg /\ DepositsInv(mem', index', calls')
<1> DEFINE row == Deposit(m, client, flow, a, life)
           unique == IF flow = "temporary" THEN {[flow |-> "temporary", address |-> a]} ELSE {}
           keys == IF flow = "temporary" THEN Put(index, a, id) ELSE index
<1>1. /\ "created" \in DOMAIN row /\ row.created = calls + 1
      /\ {"flow", "address", "status", "match"} \subseteq DOMAIN row
      /\ row.flow = flow /\ row.address = a /\ (flow = "direct" => row.match = "pending")
  BY DEF Deposit, Now
<1> HIDE DEF row
<1>2. Call(Memory(Put(mem, id, row), keys, <<row>>), Insert(id, row, unique))
  BY <1>1 DEF MemCreateDepositAddress, PgCreateDepositAddress, row
<1> HIDE DEF keys, unique
<1>3. /\ id \notin DOMAIN mem /\ mem' = Put(mem, id, row)
      /\ mem' = pg' /\ answers'.mem = answers'.pg
      /\ index' = keys /\ calls' = calls + 1
      /\ \A key \in unique : Having(mem, key) = {}
  BY <1>2, MadeAlike
<1>4. Made(mem', calls')
  <2>1. Made(mem, calls)
    BY DEF DepositsInv
  <2>2. row.created = IF id \in DOMAIN mem THEN mem[id].created ELSE calls + 1
    BY <1>1, <1>3
  <2>3. Made(Put(mem, id, row), calls + 1)
    BY <1>1, <2>1, <2>2, PutMade
  <2> QED BY <1>3, <2>3
<1>5. /\ DOMAIN mem' = DOMAIN mem \union {id} /\ mem'[id] = row
      /\ \A i \in DOMAIN mem : i # id /\ mem'[i] = mem[i]
  BY <1>3 DEF Put
<1>6. CASE flow = "direct"
  <2>1. index' = index
    BY <1>3, <1>6 DEF keys
  <2> QED BY <1>1, <1>3, <1>4, <1>5, <1>6, <2>1 DEF DepositsInv
<1>7. CASE flow = "temporary"
  <2>1. DOMAIN index' = DOMAIN index \union {a} /\ index'[a] = id
        /\ \A k \in DOMAIN index : k # a => index'[k] = index[k]
    BY <1>3, <1>7 DEF keys, Put
  <2>2. Having(mem, [flow |-> "temporary", address |-> a]) = {}
    BY <1>3, <1>7 DEF unique
  <2>3. a \notin DOMAIN index
    BY <2>2 DEF DepositsInv, Having
  <2>4. \A k \in DOMAIN index' :
          index'[k] \in DOMAIN mem' /\ mem'[index'[k]].flow = "temporary" /\ mem'[index'[k]].address = k
    BY <1>1, <1>5, <1>7, <2>1, <2>3 DEF DepositsInv
  <2>5. \A i \in DOMAIN mem' : mem'[i].flow = "temporary" =>
          mem'[i].address \in DOMAIN index' /\ index'[mem'[i].address] = i
    BY <1>1, <1>5, <1>7, <2>1, <2>3 DEF DepositsInv
  <2>6. \A i \in DOMAIN mem' :
          /\ {"flow", "address", "status", "match"} \subseteq DOMAIN mem'[i]
          /\ mem'[i].flow \in {"temporary", "direct"}
          /\ mem'[i].flow = "direct" /\ mem'[i].status = "active" => mem'[i].match = "pending"
    BY <1>1, <1>5, <1>7 DEF DepositsInv
  <2> QED BY <1>3, <1>4, <2>4, <2>5, <2>6 DEF DepositsInv
<1> QED BY <1>6, <1>7

(* The calls on deposit requests.                                            *)
LEMMA DepositsAlike ==
  ASSUME calls \in Nat, mem = pg, DepositsInv(mem, index, calls), DepositAddressCalls, ~ apart'
  PROVE  mem' = pg' /\ answers'.mem = answers'.pg /\ DepositsInv(mem', index', calls')
<1>1. ASSUME NEW id \in Ids \ DOMAIN mem, NEW m \in Merchants, NEW client \in Keys, NEW a \in Keys,
             NEW flow \in {"temporary", "direct"}, NEW life \in {1, 2},
             Call(MemCreateDepositAddress(id, Deposit(m, client, flow, a, life)),
                  PgCreateDepositAddress(id, Deposit(m, client, flow, a, life)))
      PROVE  mem' = pg' /\ answers'.mem = answers'.pg /\ DepositsInv(mem', index', calls')
  BY <1>1, CreateDepositAlike
<1>2. ASSUME NEW id \in Having(mem, [flow |-> "direct"]), NEW t \in Keys,
             Call(MemMarkDepositAddressMatched(id, t), PgMarkDepositAddressMatched(id, t))
      PROVE  mem' = pg' /\ answers'.mem = answers'.pg /\ DepositsInv(mem', index', calls')
  <2> DEFINE new == Completed(t)
  <2>1. Call(MapChange(id, new), Update(id, new))
    BY <1>2 DEF MemMarkDepositAddressMatched, PgMarkDepositAddressMatched
  <2>2. /\ {"flow", "address", "created"} \intersect DOMAIN new = {}
        /\ "status" \in DOMAIN new /\ new.status # "active"
    BY DEF Completed
  <2> HIDE DEF new
  <2>3. DepositsInv(Set(mem, {id}, new), index, calls + 1)
    BY <2>2, SetDeposits
  <2> QED BY <2>1, <2>3, ChangedAlike
<1>3. ASSUME NEW id \in Ids, NEW m \in Merchants,
             Call(MemCloseDepositAddress(m, id), PgCloseDepositAddress(m, id))
      PROVE  mem' = pg' /\ answers'.mem = answers'.pg /\ DepositsInv(mem', index', calls')
  <2>1. CASE /\ id \in Having(mem, [merchant |-> m])
             /\ id \in Having(mem, [merchant |-> m, status |-> "active"])
    <3> DEFINE new == Closed
    <3>1. Call(MapChange(id, new), Update(id, new))
      BY <1>3, <2>1 DEF MemCloseDepositAddress, PgCloseDepositAddress
    <3>2. /\ {"flow", "address", "created"} \intersect DOMAIN new = {}
          /\ "status" \in DOMAIN new /\ new.status # "active"
      BY DEF Closed
    <3> HIDE DEF new
    <3>3. DepositsInv(Set(mem, {id}, new), index, calls + 1)
      BY <3>2, SetDeposits
    <3> QED BY <3>1, <3>3, ChangedAlike
  <2>2. CASE /\ id \in Having(mem, [merchant |-> m])
             /\ id \notin Having(mem, [merchant |-> m, status |-> "active"])
    <3>1. PgCloseDepositAddress(m, id) = Declined
      BY <2>2 DEF PgCloseDepositAddress
    <3>2. apart'
      BY <1>3, <3>1 DEF Call, Declined
    <3> QED BY <3>2
  <2>3. CASE id \notin Having(mem, [merchant |-> m])
    <3>1. id \notin Having(mem, [merchant |-> m, status |-> "active"])
      BY <2>3 DEF Having
    <3>2. Call(Memory(mem, index, << >>), Postgres(pg, << >>))
      BY <1>3, <2>3, <3>1 DEF MemCloseDepositAddress, PgCloseDepositAddress
    <3>3. Made(mem, calls + 1)
      BY MadeLater DEF DepositsInv
    <3> QED BY <3>2, <3>3, NothingAlike DEF DepositsInv
  <2> QED BY <2>1, <2>2, <2>3
<1>4. ASSUME Call(MemExpireDepositAddresses, PgExpireDepositAddresses)
      PROVE  mem' = pg' /\ answers'.mem = answers'.pg /\ DepositsInv(mem', index', calls')
  <2> DEFINE new == [status |-> "expired", updated |-> Now]
             due == {i \in Having(mem, [status |-> "active"]) : mem[i].expires <= Now}
  <2>1. /\ mem' = Set(mem, due, new) /\ mem' = pg' /\ answers'.mem = answers'.pg
        /\ index' = index /\ calls' = calls + 1
    BY <1>4 DEF Call, MemExpireDepositAddresses, PgExpireDepositAddresses, Memory, Postgres
  <2>2. /\ {"flow", "address", "created"} \intersect DOMAIN new = {}
        /\ "status" \in DOMAIN new /\ new.status # "active"
    OBVIOUS
  <2> HIDE DEF new, due
  <2>3. DepositsInv(Set(mem, due, new), index, calls + 1)
    BY <2>2, SetDeposits
  <2> QED BY <2>1, <2>3
<1> QED BY <1>1, <1>2, <1>3, <1>4 DEF DepositAddressCalls

(* What a call leaves that does the same to both stores.                     *)
LEMMA CallIs ==
  ASSUME NEW memory, NEW postgres, NEW rows, NEW keys, NEW answer,
         Call(memory, postgres), memory = Memory(rows, keys, answer), postgres = Postgres(rows, answer)
  PROVE  /\ mem' = rows /\ index' = keys /\ calls' = calls + 1
         /\ mem' = pg' /\ answers'.mem = answers'.pg
BY DEF Call, Memory, Postgres

(* A log that was recorded before, or is now: both stores return the row and *)
(* whether it is new.                                                        *)
LEMMA RecordedAlike ==
  ASSUME NEW id, NEW row, NEW log, NEW memory, NEW postgres,
         mem = pg, KeyedBy(mem, index, "log"), id \notin DOMAIN mem,
         "log" \in DOMAIN row, row.log = log,
         memory = IF log \in DOMAIN index THEN Memory(mem, index, <<mem[index[log]], FALSE>>)
                  ELSE Memory(Put(mem, id, row), Put(index, log, id), <<row, TRUE>>),
         postgres = LET existing == Having(pg, [log |-> log]) IN
                    IF existing = {} THEN Postgres(Put(pg, id, row), <<row, TRUE>>)
                    ELSE Postgres(pg, <<pg[CHOOSE i \in existing : TRUE], FALSE>>),
         Call(memory, postgres)
  PROVE  /\ mem' = pg' /\ answers'.mem = answers'.pg /\ calls' = calls + 1
         /\ KeyedBy(mem', index', "log")
         /\ mem' = mem \/ mem' = Put(mem, id, row)
<1>1. CASE log \in DOMAIN index
  <2> DEFINE i == index[log]
             answer == <<mem[i], FALSE>>
  <2>1. i \in DOMAIN mem /\ mem[i].log = log
    BY <1>1 DEF KeyedBy
  <2>2. \A j \in DOMAIN mem : mem[j].log = log => j = i
    BY DEF KeyedBy
  <2>3. Having(pg, [log |-> log]) = {i}
    BY <2>1, <2>2 DEF Having
  <2>4. memory = Memory(mem, index, answer) /\ postgres = Postgres(mem, answer)
    BY <1>1, <2>3
  <2> HIDE DEF answer
  <2> QED BY <2>4, CallIs
<1>2. CASE log \notin DOMAIN index
  <2> DEFINE answer == <<row, TRUE>>
  <2>1. Having(pg, [log |-> log]) = {}
    BY <1>2 DEF Having, KeyedBy
  <2>2. memory = Memory(Put(mem, id, row), Put(index, log, id), answer)
    BY <1>2
  <2>3. postgres = Postgres(Put(mem, id, row), answer)
    BY <2>1
  <2>4. KeyedBy(Put(mem, id, row), Put(index, log, id), "log")
    <3>1. row["log"] = log
      OBVIOUS
    <3> QED BY <1>2, <3>1, PutKeyed
  <2> HIDE DEF answer
  <2> QED BY <2>2, <2>3, <2>4, CallIs
<1> QED BY <1>1, <1>2

(* createTokenTransferIfNotExists and the changes of a transfer.             *)
LEMMA TransfersAlike ==
  ASSUME calls \in Nat, mem = pg, TransfersInv(mem, index, calls), TokenTransferCalls
  PROVE  mem' = pg' /\ answers'.mem = answers'.pg /\ TransfersInv(mem', index', calls')
<1> PICK id \in Ids :
    \/ /\ id \notin DOMAIN mem
       /\ \E log \in Keys, m \in Merchants, status \in {"detected", "late", "confirmed"},
            block \in {1, 2} :
            Call(MemCreateTokenTransferIfNotExists(id, Transfer(log, m, status, block)),
                 PgCreateTokenTransferIfNotExists(id, Transfer(log, m, status, block)))
    \/ Call(MemMarkTransferConfirmed(id), PgMarkTransferConfirmed(id))
    \/ \E new \in Settlements :
         Call(MemUpdateTransferSettlement(id, new), PgUpdateTransferSettlement(id, new))
  BY DEF TokenTransferCalls
<1>1. ASSUME id \notin DOMAIN mem, NEW log \in Keys, NEW m \in Merchants,
             NEW status \in {"detected", "late", "confirmed"}, NEW block \in {1, 2},
             Call(MemCreateTokenTransferIfNotExists(id, Transfer(log, m, status, block)),
                  PgCreateTokenTransferIfNotExists(id, Transfer(log, m, status, block)))
      PROVE  mem' = pg' /\ answers'.mem = answers'.pg /\ TransfersInv(mem', index', calls')
  <2> DEFINE row == Transfer(log, m, status, block)
  <2>1. /\ "created" \in DOMAIN row /\ row.created = calls + 1
        /\ "log" \in DOMAIN row /\ row.log = log
        /\ "block" \in DOMAIN row /\ row.block \in Nat
    BY DEF Transfer, Now
  <2> HIDE DEF row
  <2> DEFINE memory == MemCreateTokenTransferIfNotExists(id, row)
             postgres == PgCreateTokenTransferIfNotExists(id, row)
  <2>2. memory = IF log \in DOMAIN index THEN Memory(mem, index, <<mem[index[log]], FALSE>>)
                 ELSE Memory(Put(mem, id, row), Put(index, log, id), <<row, TRUE>>)
    BY <2>1 DEF MemCreateTokenTransferIfNotExists
  <2>3. postgres = LET existing == Having(pg, [log |-> log]) IN
                   IF existing = {} THEN Postgres(Put(pg, id, row), <<row, TRUE>>)
                   ELSE Postgres(pg, <<pg[CHOOSE i \in existing : TRUE], FALSE>>)
    BY <2>1 DEF PgCreateTokenTransferIfNotExists
  <2>4. Call(memory, postgres)
    BY <1>1 DEF row
  <2> HIDE DEF memory, postgres
  <2>5. /\ mem' = pg' /\ answers'.mem = answers'.pg /\ calls' = calls + 1
        /\ KeyedBy(mem', index', "log")
        /\ mem' = mem \/ mem' = Put(mem, id, row)
    BY <1>1, <2>1, <2>2, <2>3, <2>4, RecordedAlike DEF TransfersInv
  <2>6. Made(mem, calls)
    BY DEF TransfersInv
  <2>7. Made(mem, calls + 1) /\ Made(Put(mem, id, row), calls + 1)
    BY <1>1, <2>1, <2>6, MadeLater, PutMade
  <2>8. \A i \in DOMAIN mem' : "block" \in DOMAIN mem'[i] /\ mem'[i].block \in Nat
    BY <2>1, <2>5 DEF TransfersInv, Put
  <2> QED BY <2>5, <2>7, <2>8 DEF TransfersInv
<1>2. ASSUME NEW new, Call(MapChange(id, new), Update(id, new)),
             {"created", "log", "block"} \intersect DOMAIN new = {}
      PROVE  mem' = pg' /\ answers'.mem = answers'.pg /\ TransfersInv(mem', index', calls')
  <2>1. Made(Set(mem, {id}, new), calls + 1)
    BY <1>2, SetMade DEF TransfersInv
  <2>2. KeyedBy(Set(mem, {id}, new), index, "log")
    BY <1>2, SetKeyed DEF TransfersInv
  <2>3. DOMAIN Set(mem, {id}, new) = DOMAIN mem
    BY DEF Set
  <2>4. \A i \in DOMAIN mem : /\ "block" \in DOMAIN Set(mem, {id}, new)[i]
                              /\ Set(mem, {id}, new)[i].block = mem[i].block
    <3> TAKE i \in DOMAIN mem
    <3>1. "block" \in DOMAIN mem[i]
      BY DEF TransfersInv
    <3> QED BY <1>2, <3>1, SetKeeps
  <2>5. mem' = Set(mem, {id}, new) /\ mem' = pg' /\ answers'.mem = answers'.pg
        /\ index' = index /\ calls' = calls + 1
    BY <1>2, ChangedAlike
  <2> QED BY <2>1, <2>2, <2>3, <2>4, <2>5 DEF TransfersInv
<1>3. ASSUME Call(MemMarkTransferConfirmed(id), PgMarkTransferConfirmed(id))
      PROVE  mem' = pg' /\ answers'.mem = answers'.pg /\ TransfersInv(mem', index', calls')
  <2>1. {"created", "log", "block"} \intersect DOMAIN Confirmed = {}
    BY DEF Confirmed
  <2> QED BY <1>2, <1>3, <2>1 DEF MemMarkTransferConfirmed, PgMarkTransferConfirmed
<1>4. ASSUME NEW new \in Settlements,
             Call(MemUpdateTransferSettlement(id, new), PgUpdateTransferSettlement(id, new))
      PROVE  mem' = pg' /\ answers'.mem = answers'.pg /\ TransfersInv(mem', index', calls')
  <2>1. {"created", "log", "block"} \intersect DOMAIN new = {}
    BY DEF Settlements
  <2> QED BY <1>2, <1>4, <2>1 DEF MemUpdateTransferSettlement, PgUpdateTransferSettlement
<1> QED BY <1>1, <1>3, <1>4

(* createTreasuryTransferIfNotExists and the review of a transfer.           *)
LEMMA TreasuryTransfersAlike ==
  ASSUME calls \in Nat, mem = pg, TreasuryTransfersInv(mem, index, calls), TreasuryTransferCalls
  PROVE  mem' = pg' /\ answers'.mem = answers'.pg /\ TreasuryTransfersInv(mem', index', calls')
<1> PICK id \in Ids :
    \/ /\ id \notin DOMAIN mem
       /\ \E log \in Keys, m \in Merchants, status \in {"unmatched", "ambiguous"} :
            Call(MemCreateTreasuryTransferIfNotExists(id, TreasuryTransfer(log, m, status)),
                 PgCreateTreasuryTransferIfNotExists(id, TreasuryTransfer(log, m, status)))
    \/ \E request \in Keys :
         Call(MemUpdateTreasuryTransferStatus(id, request),
              PgUpdateTreasuryTransferStatus(id, request))
  BY DEF TreasuryTransferCalls
<1>1. ASSUME id \notin DOMAIN mem, NEW log \in Keys, NEW m \in Merchants,
             NEW status \in {"unmatched", "ambiguous"},
             Call(MemCreateTreasuryTransferIfNotExists(id, TreasuryTransfer(log, m, status)),
                  PgCreateTreasuryTransferIfNotExists(id, TreasuryTransfer(log, m, status)))
      PROVE  mem' = pg' /\ answers'.mem = answers'.pg /\ TreasuryTransfersInv(mem', index', calls')
  <2> DEFINE row == TreasuryTransfer(log, m, status)
  <2>1. /\ "created" \in DOMAIN row /\ row.created = calls + 1
        /\ "log" \in DOMAIN row /\ row.log = log
    BY DEF TreasuryTransfer, Now
  <2> HIDE DEF row
  <2> DEFINE memory == MemCreateTreasuryTransferIfNotExists(id, row)
             postgres == PgCreateTreasuryTransferIfNotExists(id, row)
  <2>2. memory = IF log \in DOMAIN index THEN Memory(mem, index, <<mem[index[log]], FALSE>>)
                 ELSE Memory(Put(mem, id, row), Put(index, log, id), <<row, TRUE>>)
    BY <2>1 DEF MemCreateTreasuryTransferIfNotExists
  <2>3. postgres = LET existing == Having(pg, [log |-> log]) IN
                   IF existing = {} THEN Postgres(Put(pg, id, row), <<row, TRUE>>)
                   ELSE Postgres(pg, <<pg[CHOOSE i \in existing : TRUE], FALSE>>)
    BY <2>1 DEF PgCreateTreasuryTransferIfNotExists
  <2>4. Call(memory, postgres)
    BY <1>1 DEF row
  <2> HIDE DEF memory, postgres
  <2>5. /\ mem' = pg' /\ answers'.mem = answers'.pg /\ calls' = calls + 1
        /\ KeyedBy(mem', index', "log")
        /\ mem' = mem \/ mem' = Put(mem, id, row)
    BY <1>1, <2>1, <2>2, <2>3, <2>4, RecordedAlike DEF TreasuryTransfersInv
  <2>6. Made(mem, calls)
    BY DEF TreasuryTransfersInv
  <2>7. Made(mem, calls + 1) /\ Made(Put(mem, id, row), calls + 1)
    BY <1>1, <2>1, <2>6, MadeLater, PutMade
  <2> QED BY <2>5, <2>7 DEF TreasuryTransfersInv
<1>2. ASSUME NEW request \in Keys,
             Call(MemUpdateTreasuryTransferStatus(id, request),
                  PgUpdateTreasuryTransferStatus(id, request))
      PROVE  mem' = pg' /\ answers'.mem = answers'.pg /\ TreasuryTransfersInv(mem', index', calls')
  <2> DEFINE new == Reviewed(request)
  <2>1. "created" \notin DOMAIN new /\ "log" \notin DOMAIN new
    BY DEF Reviewed
  <2>2. Call(MapChange(id, new), Update(id, new))
    BY <1>2 DEF MemUpdateTreasuryTransferStatus, PgUpdateTreasuryTransferStatus
  <2> HIDE DEF new
  <2>3. Made(Set(mem, {id}, new), calls + 1)
    BY <2>1, SetMade DEF TreasuryTransfersInv
  <2>4. KeyedBy(Set(mem, {id}, new), index, "log")
    BY <2>1, SetKeyed DEF TreasuryTransfersInv
  <2> QED BY <2>2, <2>3, <2>4, ChangedAlike DEF TreasuryTransfersInv
<1> QED BY <1>1, <1>2

(* Attempts: of a gas top-up, a sweep, a wallet transaction.                 *)
LEMMA AttemptMade ==
  ASSUME NEW id, NEW t, NEW a \in Nat, NEW status, NEW unique,
         calls \in Nat, mem = pg, AttemptsInv(mem, calls), ~ apart',
         Call(MapSet(id, Attempt(id, t, a, status)), Insert(id, Attempt(id, t, a, status), unique))
  PROVE  mem' = pg' /\ answers'.mem = answers'.pg /\ AttemptsInv(mem', calls')
<1> DEFINE row == Attempt(id, t, a, status)
<1>1. /\ "created" \in DOMAIN row /\ row.created = calls + 1
      /\ "attempt" \in DOMAIN row /\ row.attempt = a
  BY DEF Attempt, Now
<1> HIDE DEF row
<1>2. Call(Memory(Put(mem, id, row), index, <<row>>), Insert(id, row, unique))
  BY DEF row, MapSet
<1>3. /\ id \notin DOMAIN mem /\ mem' = Put(mem, id, row)
      /\ mem' = pg' /\ answers'.mem = answers'.pg /\ calls' = calls + 1
  BY <1>2, MadeAlike
<1>4. Made(Put(mem, id, row), calls + 1)
  BY <1>1, <1>3, PutMade DEF AttemptsInv
<1>5. \A i \in DOMAIN mem' : "attempt" \in DOMAIN mem'[i] /\ mem'[i].attempt \in Nat
  BY <1>1, <1>3 DEF AttemptsInv, Put
<1> QED BY <1>3, <1>4, <1>5 DEF AttemptsInv

(* updateGasTopUpStatus, updateSweepStatus, updateWalletTransactionStatus.   *)
LEMMA AttemptChanged ==
  ASSUME NEW id, NEW status, calls \in Nat, mem = pg, AttemptsInv(mem, calls),
         Call(MapChange(id, Receipt(status)), Update(id, Receipt(status)))
  PROVE  mem' = pg' /\ answers'.mem = answers'.pg /\ AttemptsInv(mem', calls')
<1> DEFINE new == Receipt(status)
<1>1. "created" \notin DOMAIN new /\ "attempt" \notin DOMAIN new
  BY DEF Receipt
<1> HIDE DEF new
<1>2. /\ mem' = Set(mem, {id}, new) /\ mem' = pg' /\ answers'.mem = answers'.pg
      /\ calls' = calls + 1
  BY ChangedAlike DEF new
<1>3. Made(Set(mem, {id}, new), calls + 1)
  BY <1>1, SetMade DEF AttemptsInv
<1>4. DOMAIN Set(mem, {id}, new) = DOMAIN mem
  BY DEF Set
<1>5. \A i \in DOMAIN mem : /\ "attempt" \in DOMAIN Set(mem, {id}, new)[i]
                            /\ Set(mem, {id}, new)[i].attempt = mem[i].attempt
  <2> TAKE i \in DOMAIN mem
  <2>1. "attempt" \in DOMAIN mem[i]
    BY DEF AttemptsInv
  <2> QED BY <1>1, <2>1, SetKeeps
<1> QED BY <1>2, <1>3, <1>4, <1>5 DEF AttemptsInv

(* The next number is one after those taken.                                 *)
LEMMA NumbersNat ==
  ASSUME NEW t, AttemptsInv(mem, calls)
  PROVE  Numbers(t) \subseteq Nat
BY DEF Numbers

(* The calls on gas top-ups.                                                 *)
LEMMA GasTopUpsAlike ==
  ASSUME calls \in Nat, mem = pg, AttemptsInv(mem, calls), GasTopUpCalls, ~ apart'
  PROVE  mem' = pg' /\ answers'.mem = answers'.pg /\ AttemptsInv(mem', calls')
<1>1. ASSUME NEW id \in Ids, NEW t \in Keys, NEW status \in {"submitted", "failed"}, NEW a \in Numbers(t),
             Call(MemCreateGasTopUp(id, Attempt(id, t, a, status)),
                  PgCreateGasTopUp(id, Attempt(id, t, a, status)))
      PROVE  mem' = pg' /\ answers'.mem = answers'.pg /\ AttemptsInv(mem', calls')
  BY <1>1, NumbersNat, AttemptMade DEF MemCreateGasTopUp, PgCreateGasTopUp
<1>2. ASSUME NEW id \in Ids, NEW status \in {"confirmed", "failed"},
             Call(MemUpdateGasTopUpStatus(id, status), PgUpdateGasTopUpStatus(id, status))
      PROVE  mem' = pg' /\ answers'.mem = answers'.pg /\ AttemptsInv(mem', calls')
  BY <1>2, AttemptChanged DEF MemUpdateGasTopUpStatus, PgUpdateGasTopUpStatus
<1> QED BY <1>1, <1>2 DEF GasTopUpCalls

(* The calls on sweeps.                                                      *)
LEMMA SweepsAlike ==
  ASSUME calls \in Nat, mem = pg, AttemptsInv(mem, calls), SweepCalls, ~ apart'
  PROVE  mem' = pg' /\ answers'.mem = answers'.pg /\ AttemptsInv(mem', calls')
<1>1. ASSUME NEW id \in Ids, NEW t \in Keys, NEW status \in {"submitted", "failed"}, NEW a \in Numbers(t),
             Call(MemCreateSweep(id, Attempt(id, t, a, status)),
                  PgCreateSweep(id, Attempt(id, t, a, status)))
      PROVE  mem' = pg' /\ answers'.mem = answers'.pg /\ AttemptsInv(mem', calls')
  BY <1>1, NumbersNat, AttemptMade DEF MemCreateSweep, PgCreateSweep
<1>2. ASSUME NEW id \in Ids, NEW status \in {"confirmed", "failed"},
             Call(MemUpdateSweepStatus(id, status), PgUpdateSweepStatus(id, status))
      PROVE  mem' = pg' /\ answers'.mem = answers'.pg /\ AttemptsInv(mem', calls')
  BY <1>2, AttemptChanged DEF MemUpdateSweepStatus, PgUpdateSweepStatus
<1> QED BY <1>1, <1>2 DEF SweepCalls

(* The calls on wallet transactions.                                         *)
LEMMA WalletTransactionsAlike ==
  ASSUME calls \in Nat, mem = pg, AttemptsInv(mem, calls), WalletTransactionCalls, ~ apart'
  PROVE  mem' = pg' /\ answers'.mem = answers'.pg /\ AttemptsInv(mem', calls')
<1>1. ASSUME NEW id \in Ids, NEW status \in {"submitted", "failed"},
             Call(MemCreateWalletTransaction(id, Attempt(id, None, 1, status)),
                  PgCreateWalletTransaction(id, Attempt(id, None, 1, status)))
      PROVE  mem' = pg' /\ answers'.mem = answers'.pg /\ AttemptsInv(mem', calls')
  BY <1>1, AttemptMade DEF MemCreateWalletTransaction, PgCreateWalletTransaction
<1>2. ASSUME NEW id \in Ids, NEW status \in {"confirmed", "failed"},
             Call(MemUpdateWalletTransactionStatus(id, status), PgUpdateWalletTransactionStatus(id, status))
      PROVE  mem' = pg' /\ answers'.mem = answers'.pg /\ AttemptsInv(mem', calls')
  BY <1>2, AttemptChanged DEF MemUpdateWalletTransactionStatus, PgUpdateWalletTransactionStatus
<1> QED BY <1>1, <1>2 DEF WalletTransactionCalls

(* createWebhookEvent, markWebhookSent, markWebhookRetry.                    *)
LEMMA EventsAlike ==
  ASSUME calls \in Nat, mem = pg, EventsInv(mem, calls), WebhookEventCalls, ~ apart'
  PROVE  mem' = pg' /\ answers'.mem = answers'.pg /\ EventsInv(mem', calls')
<1>1. ASSUME NEW id \in Ids, NEW m \in Merchants,
             Call(MemCreateWebhookEvent(id, m), PgCreateWebhookEvent(id, m))
      PROVE  mem' = pg' /\ answers'.mem = answers'.pg /\ EventsInv(mem', calls')
  <2> DEFINE row == WebhookEvent(m)
  <2>1. "created" \in DOMAIN row /\ row.created = calls + 1
    BY DEF WebhookEvent, Now
  <2> HIDE DEF row
  <2>2. Call(Memory(Put(mem, id, row), index, <<row>>), Insert(id, row, {}))
    BY <1>1 DEF MemCreateWebhookEvent, PgCreateWebhookEvent, MapSet, row
  <2>3. /\ id \notin DOMAIN mem /\ mem' = Put(mem, id, row)
        /\ mem' = pg' /\ answers'.mem = answers'.pg /\ calls' = calls + 1
    BY <2>2, MadeAlike
  <2>4. Made(Put(mem, id, row), calls + 1)
    BY <2>1, <2>3, PutMade DEF EventsInv
  <2> QED BY <2>3, <2>4 DEF EventsInv
<1>2. ASSUME NEW id, NEW new, "created" \notin DOMAIN new, Call(MapChange(id, new), Update(id, new))
      PROVE  mem' = pg' /\ answers'.mem = answers'.pg /\ EventsInv(mem', calls')
  <2>1. Made(Set(mem, {id}, new), calls + 1)
    BY <1>2, SetMade DEF EventsInv
  <2> QED BY <1>2, <2>1, ChangedAlike DEF EventsInv
<1>3. ASSUME NEW id \in Ids, Call(MemMarkWebhookSent(id), PgMarkWebhookSent(id))
      PROVE  mem' = pg' /\ answers'.mem = answers'.pg /\ EventsInv(mem', calls')
  <2>1. CASE id \notin DOMAIN mem
    <3>1. Call(Memory(mem, index, << >>), Postgres(pg, << >>))
      BY <1>3, <2>1 DEF MemMarkWebhookSent, PgMarkWebhookSent
    <3>2. Made(mem, calls + 1)
      BY MadeLater DEF EventsInv
    <3> QED BY <3>1, <3>2, NothingAlike DEF EventsInv
  <2>2. CASE id \in DOMAIN mem
    <3> DEFINE new == Sent(mem, id)
    <3>1. "created" \notin DOMAIN new
      BY DEF Sent
    <3>2. Call(MapChange(id, new), Update(id, new))
      BY <1>3, <2>2 DEF MemMarkWebhookSent, PgMarkWebhookSent
    <3> HIDE DEF new
    <3> QED BY <1>2, <3>1, <3>2
  <2> QED BY <2>1, <2>2
<1>4. ASSUME NEW id \in Ids, NEW status \in {"pending", "failed"}, NEW a \in {1, 2}, NEW delay \in {1, 2},
             Call(MemMarkWebhookRetry(id, Retry(status, a, delay)),
                  PgMarkWebhookRetry(id, Retry(status, a, delay)))
      PROVE  mem' = pg' /\ answers'.mem = answers'.pg /\ EventsInv(mem', calls')
  <2>1. "created" \notin DOMAIN Retry(status, a, delay)
    BY DEF Retry
  <2> QED BY <1>2, <1>4, <2>1 DEF MemMarkWebhookRetry, PgMarkWebhookRetry
<1> QED BY <1>1, <1>3, <1>4 DEF WebhookEventCalls

-------------------------------------------------------------------------------
(* The invariant holds at the start and after every call.                    *)
LEMMA InitIInv == Init => IInv
<1> SUFFICES ASSUME Init PROVE IInv
  OBVIOUS
<1>1. mem = << >> /\ index = << >> /\ mem = pg /\ answers.mem = answers.pg /\ calls = 0
  BY DEF Init
<1>2. DOMAIN mem = {} /\ DOMAIN index = {}
  BY <1>1
<1>3. IsFiniteSet(DOMAIN mem)
  BY <1>2, FS_EmptySet
<1>4. TablesInv
  BY <1>2, <1>3 DEF TablesInv, MerchantsInv, ApiKeysInv, SettingsInv, OperationalInv, TreasuriesInv,
       DepositsInv, CursorsInv, TransfersInv, TreasuryTransfersInv, AttemptsInv, EventsInv, Made, KeyedBy
<1> QED BY <1>1, <1>4 DEF IInv

(* What every call does.                                                     *)
LEMMA EveryCall ==
  ASSUME Next
  PROVE  ~ apart /\ calls' = calls + 1 /\ table' = table
<1>1. MerchantCalls => ~ apart /\ calls' = calls + 1 /\ table' = table
  BY DEF MerchantCalls, Call
<1>2. ApiKeyCalls => ~ apart /\ calls' = calls + 1 /\ table' = table
  BY DEF ApiKeyCalls, Call
<1>3. NonceCalls => ~ apart /\ calls' = calls + 1 /\ table' = table
  BY DEF NonceCalls, Call
<1>4. WebhookConfigCalls => ~ apart /\ calls' = calls + 1 /\ table' = table
  BY DEF WebhookConfigCalls, Call
<1>5. PreferencesCalls => ~ apart /\ calls' = calls + 1 /\ table' = table
  BY DEF PreferencesCalls, Call
<1>6. IdempotencyCalls => ~ apart /\ calls' = calls + 1 /\ table' = table
  BY DEF IdempotencyCalls, Call
<1>7. OperationalWalletCalls => ~ apart /\ calls' = calls + 1 /\ table' = table
  BY DEF OperationalWalletCalls, Call
<1>8. TreasuryWalletCalls => ~ apart /\ calls' = calls + 1 /\ table' = table
  BY DEF TreasuryWalletCalls, Call
<1>9. DepositAddressCalls => ~ apart /\ calls' = calls + 1 /\ table' = table
  BY DEF DepositAddressCalls, Call
<1>10. CursorCalls => ~ apart /\ calls' = calls + 1 /\ table' = table
  BY DEF CursorCalls, Call
<1>11. TokenTransferCalls => ~ apart /\ calls' = calls + 1 /\ table' = table
  BY DEF TokenTransferCalls, Call
<1>12. TreasuryTransferCalls => ~ apart /\ calls' = calls + 1 /\ table' = table
  BY DEF TreasuryTransferCalls, Call
<1>13. GasTopUpCalls => ~ apart /\ calls' = calls + 1 /\ table' = table
  BY DEF GasTopUpCalls, Call
<1>14. SweepCalls => ~ apart /\ calls' = calls + 1 /\ table' = table
  BY DEF SweepCalls, Call
<1>15. WalletTransactionCalls => ~ apart /\ calls' = calls + 1 /\ table' = table
  BY DEF WalletTransactionCalls, Call
<1>16. WebhookEventCalls => ~ apart /\ calls' = calls + 1 /\ table' = table
  BY DEF WebhookEventCalls, Call
<1> QED BY <1>1, <1>2, <1>3, <1>4, <1>5, <1>6, <1>7, <1>8,
          <1>9, <1>10, <1>11, <1>12, <1>13, <1>14, <1>15, <1>16 DEF Next

(* The call of each table keeps the invariant.                               *)
LEMMA NextIInv == IInv /\ [Next]_vars => IInv'
<1> SUFFICES ASSUME IInv, [Next]_vars PROVE IInv'
  OBVIOUS
<1>1. CASE UNCHANGED vars
  BY <1>1 DEF vars, IInv, TablesInv
<1>2. CASE Next
  <2>1. ~ apart /\ calls' = calls + 1 /\ table' = table
    BY <1>2, EveryCall
  <2>2. calls \in Nat /\ mem = pg /\ TablesInv
    BY <2>1 DEF IInv
  <2> SUFFICES ASSUME ~ apart'
               PROVE  mem' = pg' /\ answers'.mem = answers'.pg /\ TablesInv'
    BY <2>1, <2>2 DEF IInv
  <2>3. CASE table = "merchants" /\ MerchantCalls
    BY <2>1, <2>2, <2>3, MerchantsAlike DEF TablesInv
  <2>4. CASE table = "merchant_api_keys" /\ ApiKeyCalls
    BY <2>1, <2>2, <2>4, ApiKeysAlike DEF TablesInv
  <2>5. CASE table = "request_nonces" /\ NonceCalls
    BY <2>1, <2>2, <2>5, NoncesAlike DEF TablesInv
  <2>6. CASE table = "webhook_configs" /\ WebhookConfigCalls
    BY <2>1, <2>2, <2>6, WebhookConfigsAlike DEF TablesInv
  <2>7. CASE table = "notification_preferences" /\ PreferencesCalls
    BY <2>1, <2>2, <2>7, PreferencesAlike DEF TablesInv
  <2>8. CASE table = "idempotency_keys" /\ IdempotencyCalls
    BY <2>1, <2>2, <2>8, IdempotencyAlike DEF TablesInv
  <2>9. CASE table = "operational_wallets" /\ OperationalWalletCalls
    BY <2>1, <2>2, <2>9, OperationalAlike DEF TablesInv
  <2>10. CASE table = "treasury_wallets" /\ TreasuryWalletCalls
    BY <2>1, <2>2, <2>10, TreasuriesAlike DEF TablesInv
  <2>11. CASE table = "deposit_addresses" /\ DepositAddressCalls
    BY <2>1, <2>2, <2>11, DepositsAlike DEF TablesInv
  <2>12. CASE table = "chain_cursors" /\ CursorCalls
    BY <2>1, <2>2, <2>12, CursorsAlike DEF TablesInv
  <2>13. CASE table = "token_transfers" /\ TokenTransferCalls
    BY <2>1, <2>2, <2>13, TransfersAlike DEF TablesInv
  <2>14. CASE table = "treasury_transfers" /\ TreasuryTransferCalls
    BY <2>1, <2>2, <2>14, TreasuryTransfersAlike DEF TablesInv
  <2>15. CASE table = "gas_top_ups" /\ GasTopUpCalls
    BY <2>1, <2>2, <2>15, GasTopUpsAlike DEF TablesInv
  <2>16. CASE table = "sweeps" /\ SweepCalls
    BY <2>1, <2>2, <2>16, SweepsAlike DEF TablesInv
  <2>17. CASE table = "wallet_transactions" /\ WalletTransactionCalls
    BY <2>1, <2>2, <2>17, WalletTransactionsAlike DEF TablesInv
  <2>18. CASE table = "webhook_events" /\ WebhookEventCalls
    BY <2>1, <2>2, <2>18, EventsAlike DEF TablesInv
  <2> QED BY <1>2, <2>3, <2>4, <2>5, <2>6, <2>7, <2>8, <2>9, <2>10, <2>11, <2>12, <2>13, <2>14,
             <2>15, <2>16, <2>17, <2>18 DEF Next
<1> QED BY <1>1, <1>2

(* The two repositories hold the same rows after the same calls, until       *)
(* Postgres declines one.                                                    *)
THEOREM SameRowsHolds == Spec => []SameRows
<1>1. IInv => SameRows
  BY DEF IInv, SameRows
<1> QED BY <1>1, InitIInv, NextIInv, PTL DEF Spec

Lower(ids, x, weight) == {y \in ids : Before(y, x, weight)}

(* The sort has no ties: rows of one weight were made by different calls.    *)
LEMMA BeforeTotal ==
  ASSUME NEW ids, NEW weight, NEW n \in Nat, Made(mem, n), ids \subseteq DOMAIN mem,
         \A i \in ids : weight[i] \in Int
  PROVE  /\ \A i \in ids : ~ Before(i, i, weight)
         /\ \A i, j \in ids : i # j => Before(i, j, weight) \/ Before(j, i, weight)
         /\ \A i, j, k \in ids : Before(i, j, weight) /\ Before(j, k, weight) => Before(i, k, weight)
<1>1. \A i \in ids : mem[i].created \in Int
  BY DEF Made
<1>2. \A i, j \in ids : mem[i].created = mem[j].created => i = j
  BY DEF Made
<1> QED BY <1>1, <1>2 DEF Before

(* So the rows have a sorted sequence: a row's place is one more than the    *)
(* rows before it.                                                           *)
LEMMA SortExists ==
  ASSUME NEW ids, NEW weight, NEW n \in Nat, Made(mem, n), ids \subseteq DOMAIN mem,
         \A i \in ids : weight[i] \in Int
  PROVE  \E q \in SetToSeqs(ids) : \A i, j \in DOMAIN q : i < j => Before(q[i], q[j], weight)
<1>1. /\ \A i \in ids : ~ Before(i, i, weight)
      /\ \A i, j \in ids : i # j => Before(i, j, weight) \/ Before(j, i, weight)
      /\ \A i, j, k \in ids : Before(i, j, weight) /\ Before(j, k, weight) => Before(i, k, weight)
  BY BeforeTotal
<1>2. IsFiniteSet(ids)
  <2>1. IsFiniteSet(DOMAIN mem)
    BY DEF Made
  <2> QED BY <2>1, FS_Subset
<1> DEFINE count == Cardinality(ids)
           rank == [x \in ids |-> Cardinality(Lower(ids, x, weight)) + 1]
<1>3. count \in Nat
  BY <1>2, FS_CardinalityType
<1>4. ASSUME NEW x \in ids
      PROVE  /\ IsFiniteSet(Lower(ids, x, weight)) /\ Cardinality(Lower(ids, x, weight)) \in Nat
             /\ Cardinality(Lower(ids, x, weight)) < count
  <2>1. Lower(ids, x, weight) \in SUBSET ids /\ x \notin Lower(ids, x, weight)
    BY <1>1 DEF Lower
  <2>2. IsFiniteSet(Lower(ids, x, weight)) /\ Cardinality(Lower(ids, x, weight)) <= count
        /\ (Cardinality(Lower(ids, x, weight)) = count => ids = Lower(ids, x, weight))
    BY <1>2, <2>1, FS_Subset
  <2>3. Cardinality(Lower(ids, x, weight)) \in Nat
    BY <2>2, FS_CardinalityType
  <2>4. Cardinality(Lower(ids, x, weight)) # count
    BY <2>1, <2>2
  <2> QED BY <1>3, <2>2, <2>3, <2>4
<1>5. ASSUME NEW x \in ids, NEW y \in ids, Before(x, y, weight)
      PROVE  Cardinality(Lower(ids, x, weight)) < Cardinality(Lower(ids, y, weight))
  <2>1. Lower(ids, x, weight) \in SUBSET Lower(ids, y, weight)
    BY <1>1, <1>5 DEF Lower
  <2>2. x \in Lower(ids, y, weight) /\ x \notin Lower(ids, x, weight)
    BY <1>1, <1>5 DEF Lower
  <2>3. Cardinality(Lower(ids, x, weight)) <= Cardinality(Lower(ids, y, weight))
        /\ (Cardinality(Lower(ids, x, weight)) = Cardinality(Lower(ids, y, weight)) =>
              Lower(ids, y, weight) = Lower(ids, x, weight))
    BY <1>4, <2>1, FS_Subset
  <2>4. Cardinality(Lower(ids, x, weight)) # Cardinality(Lower(ids, y, weight))
    BY <2>2, <2>3
  <2> QED BY <1>4, <2>3, <2>4
<1>6. rank \in [ids -> 1 .. count]
  BY <1>3, <1>4
<1>7. \A x, y \in ids : Before(x, y, weight) => rank[x] < rank[y]
  BY <1>4, <1>5
<1> HIDE DEF rank
<1>8. \A x, y \in ids : rank[x] = rank[y] => x = y
  <2> TAKE x, y \in ids
  <2>1. rank[x] \in Int /\ rank[y] \in Int
    BY <1>6
  <2> QED BY <1>1, <1>7, <2>1
<1>9. rank \in Injection(ids, 1 .. count)
  BY <1>6, <1>8 DEF Injection, IsInjective
<1>10. IsFiniteSet(1 .. count) /\ Cardinality(1 .. count) = count
  BY <1>3, FS_Interval
<1>11. rank \in Surjection(ids, 1 .. count)
  BY <1>2, <1>9, <1>10, FS_Injection
<1>12. \A k \in 1 .. count : \E x \in ids : rank[x] = k
  BY <1>11 DEF Surjection
<1> DEFINE q == [k \in 1 .. count |-> CHOOSE x \in ids : rank[x] = k]
<1>13. \A k \in 1 .. count : q[k] \in ids /\ rank[q[k]] = k
  BY <1>12
<1>14. q \in [1 .. count -> ids] /\ DOMAIN q = 1 .. count
  BY <1>13
<1> HIDE DEF q
<1>15. q \in SetToSeqs(ids)
  BY <1>13, <1>14 DEF SetToSeqs
<1>16. ASSUME NEW i \in DOMAIN q, NEW j \in DOMAIN q, i < j
       PROVE  Before(q[i], q[j], weight)
  <2>1. i \in Int /\ j \in Int /\ q[i] \in ids /\ q[j] \in ids /\ rank[q[i]] = i /\ rank[q[j]] = j
    BY <1>3, <1>13, <1>14
  <2>2. ~ Before(q[j], q[i], weight)
    BY <1>7, <1>16, <2>1
  <2>3. q[i] # q[j]
    BY <1>16, <2>1
  <2> QED BY <1>1, <2>1, <2>2, <2>3
<1> QED BY <1>15, <1>16

(* The sort in memory is one of the orders Postgres may give.                *)
LEMMA SortOrders ==
  ASSUME NEW ids, NEW weight, NEW n \in Nat, Made(mem, n), ids \subseteq DOMAIN mem,
         \A i \in ids : weight[i] \in Int
  PROVE  Sort(ids, weight) \in SetToSeqs(ids) /\ Sort(ids, weight) \in OrderBy(ids, weight)
<1> DEFINE P(q) == \A i, j \in DOMAIN q : i < j => Before(q[i], q[j], weight)
           s == CHOOSE q \in SetToSeqs(ids) : P(q)
<1>1. \E q \in SetToSeqs(ids) : P(q)
  BY SortExists
<1>2. s \in SetToSeqs(ids) /\ P(s)
  <2> HIDE DEF P
  <2> QED BY <1>1
<1>3. Sort(ids, weight) = s
  BY DEF Sort
<1> HIDE DEF s
<1>4. \A i \in DOMAIN s : s[i] \in ids
  BY <1>2 DEF SetToSeqs
<1>5. ASSUME NEW i \in DOMAIN s, NEW j \in DOMAIN s, i < j
      PROVE  weight[s[i]] <= weight[s[j]]
  BY <1>2, <1>4, <1>5 DEF Before
<1>6. s \in OrderBy(ids, weight)
  BY <1>2, <1>5 DEF OrderBy
<1> QED BY <1>2, <1>3, <1>6

(* ... and so are the first rows of it.                                      *)
LEMMA ListedRows ==
  ASSUME NEW ids, NEW weight, NEW n \in Nat, Made(mem, n), ids \subseteq DOMAIN mem,
         \A i \in ids : weight[i] \in Int
  PROVE  /\ Sort(ids, weight) \in OrderBy(ids, weight)
         /\ Cut(Sort(ids, weight)) \in {Cut(q) : q \in OrderBy(ids, weight)}
         /\ First(Sort(ids, weight)) \in {First(q) : q \in OrderBy(ids, weight)}
<1>1. Sort(ids, weight) \in OrderBy(ids, weight)
  BY SortOrders
<1> QED BY <1>1

(* The first of the sorted rows is one of them.                              *)
LEMMA FirstRow ==
  ASSUME NEW ids, NEW weight, NEW n \in Nat, Made(mem, n), ids \subseteq DOMAIN mem,
         \A i \in ids : weight[i] \in Int
  PROVE  /\ ids = {} => First(Sort(ids, weight)) = << >>
         /\ ids # {} => First(Sort(ids, weight)) \in {<<i>> : i \in ids}
<1> DEFINE q == Sort(ids, weight)
           count == Cardinality(ids)
<1>1. IsFiniteSet(ids)
  <2>1. IsFiniteSet(DOMAIN mem)
    BY DEF Made
  <2> QED BY <2>1, FS_Subset
<1>2. count \in Nat /\ (count = 0 <=> ids = {})
  BY <1>1, FS_CardinalityType, FS_EmptySet
<1>3. q \in SetToSeqs(ids)
  BY SortOrders
<1> HIDE DEF q, count
<1>4. q \in [1 .. count -> ids]
  BY <1>3 DEF SetToSeqs, count
<1>5. q \in Seq(ids) /\ Len(q) = count
  BY <1>2, <1>4, SeqDef, LenProperties
<1>6. CASE ids = {}
  <2>1. q = << >>
    BY <1>2, <1>5, <1>6, EmptySeq
  <2> QED BY <1>6, <2>1 DEF First, q
<1>7. CASE ids # {}
  <2>1. q[1] \in ids /\ Len(q) >= 1
    BY <1>2, <1>4, <1>5, <1>7
  <2>2. First(q) = <<q[1]>>
    <3>1. CASE Len(q) > 1
      <4>1. SubSeq(q, 1, 1) = <<q[1]>>
        <5> DEFINE f == SubSeq(q, 1, 1)
        <5>1. \A i \in 1 .. 1 : q[i] \in ids
          BY <2>1
        <5>2. /\ f \in Seq(ids) /\ Len(f) = (IF 1 <= 1 THEN 1 - 1 + 1 ELSE 0)
              /\ \A i \in 1 .. 1 - 1 + 1 : f[i] = q[1 + i - 1]
          BY <5>1, SubSeqProperties
        <5> HIDE DEF f
        <5>3. Len(f) = 1 /\ f[1] = q[1]
          BY <5>2
        <5>4. f = <<q[1]>>
          BY <5>2, <5>3
        <5> QED BY <5>4 DEF f
      <4> QED BY <3>1, <4>1 DEF First
    <3>2. CASE Len(q) = 1
      BY <1>5, <3>2 DEF First
    <3> QED BY <1>2, <1>5, <2>1, <3>1, <3>2
  <2> QED BY <1>7, <2>1, <2>2 DEF q
<1> QED BY <1>6, <1>7

(* A lookup through the Map by key finds the row that has the key.           *)
LEMMA IndexedRow ==
  ASSUME NEW k, NEW column, mem = pg, KeyedBy(mem, index, column),
         NEW values, DOMAIN values = {column}, values[column] = k
  PROVE  Indexed(k) \in AnyOf(values)
<1>1. CASE k \in DOMAIN index
  <2>1. index[k] \in Having(pg, values)
    BY <1>1 DEF KeyedBy, Having
  <2> QED BY <1>1, <2>1 DEF Indexed, AnyOf
<1>2. CASE k \notin DOMAIN index
  <2>1. Having(pg, values) = {}
    BY <1>2 DEF KeyedBy, Having
  <2> QED BY <1>2, <2>1 DEF Indexed, AnyOf
<1> QED BY <1>1, <1>2

(* Rows are sorted by when they were made.                                   *)
LEMMA Weights ==
  ASSUME NEW n, Made(mem, n)
  PROVE  /\ \A i \in DOMAIN mem : Newest(mem)[i] \in Int /\ Oldest(mem)[i] \in Int
         /\ \A values : Having(mem, values) \subseteq DOMAIN mem
BY DEF Made, Newest, Oldest, Having

(* The newest and the oldest rows.                                           *)
LEMMA ListedAlike ==
  ASSUME NEW ids, NEW n \in Nat, Made(mem, n), ids \subseteq DOMAIN mem, mem = pg
  PROVE  /\ Cut(Sort(ids, Newest(mem))) \in {Cut(q) : q \in OrderBy(ids, Newest(pg))}
         /\ First(Sort(ids, Newest(mem))) \in {First(q) : q \in OrderBy(ids, Newest(pg))}
         /\ Cut(Sort(ids, Oldest(mem))) \in {Cut(q) : q \in OrderBy(ids, Oldest(pg))}
<1>1. (\A i \in ids : Newest(mem)[i] \in Int) /\ (\A i \in ids : Oldest(mem)[i] \in Int)
  BY Weights
<1> QED BY <1>1, ListedRows

(* listMerchants.                                                            *)
LEMMA SameMerchants ==
  ASSUME calls \in Nat, mem = pg, MerchantsInv(mem, calls)
  PROVE  MemListMerchants \in PgListMerchants
BY ListedAlike DEF MerchantsInv, MemListMerchants, PgListMerchants

(* getApiKeyByPublicKey, listApiKeys.                                        *)
LEMMA SameApiKeys ==
  ASSUME calls \in Nat, mem = pg, ApiKeysInv(mem, index, calls)
  PROVE  /\ \A k \in Keys : MemGetApiKeyByPublicKey(k) \in PgGetApiKeyByPublicKey(k)
         /\ \A m \in Merchants : MemListApiKeys(m) \in PgListApiKeys(m)
<1>1. ASSUME NEW k \in Keys
      PROVE  MemGetApiKeyByPublicKey(k) \in PgGetApiKeyByPublicKey(k)
  <2> DEFINE values == [publicKey |-> k]
  <2>1. DOMAIN values = {"publicKey"} /\ values["publicKey"] = k
    OBVIOUS
  <2> HIDE DEF values
  <2>2. Indexed(k) \in AnyOf(values)
    BY <2>1, IndexedRow DEF ApiKeysInv
  <2> QED BY <2>2 DEF MemGetApiKeyByPublicKey, PgGetApiKeyByPublicKey, values
<1>2. ASSUME NEW m \in Merchants
      PROVE  MemListApiKeys(m) \in PgListApiKeys(m)
  <2>1. Having(mem, [merchant |-> m]) \subseteq DOMAIN mem
    BY DEF Having
  <2> QED BY <2>1, ListedAlike DEF ApiKeysInv, MemListApiKeys, PgListApiKeys
<1> QED BY <1>1, <1>2

(* listWebhookConfigs.                                                       *)
LEMMA SameWebhookConfigs ==
  ASSUME calls \in Nat, mem = pg, SettingsInv(mem, calls)
  PROVE  MemListWebhookConfigs \in PgListWebhookConfigs
<1>1. \A i \in DOMAIN mem : LastChanged(mem)[i] \in Int
  BY DEF SettingsInv, LastChanged
<1> QED BY <1>1, ListedRows DEF SettingsInv, MemListWebhookConfigs, PgListWebhookConfigs

(* getOperationalGasWallet, listOperationalWallets: every wallet is active.  *)
LEMMA SameOperationals ==
  ASSUME calls \in Nat, mem = pg, OperationalInv(mem, index, calls)
  PROVE  /\ \A s \in Keys : MemGetOperationalGasWallet(s) \in PgGetOperationalGasWallet(s)
         /\ MemListOperationalWallets \in PgListOperationalWallets
<1>1. ASSUME NEW s \in Keys
      PROVE  MemGetOperationalGasWallet(s) \in PgGetOperationalGasWallet(s)
  <2> DEFINE values == [scope |-> s]
  <2>1. DOMAIN values = {"scope"} /\ values["scope"] = s
    OBVIOUS
  <2>2. Having(pg, [scope |-> s, status |-> "active"]) = Having(pg, values)
    BY DEF OperationalInv, Having
  <2> HIDE DEF values
  <2>3. Indexed(s) \in AnyOf(values)
    BY <2>1, IndexedRow DEF OperationalInv
  <2> QED BY <2>2, <2>3 DEF MemGetOperationalGasWallet, PgGetOperationalGasWallet, AnyOf
<1>2. MemListOperationalWallets \in PgListOperationalWallets
  <2> DEFINE ids == Having(mem, [status |-> "active"])
  <2>1. ids \subseteq DOMAIN mem
    BY DEF Having
  <2>2. \A i \in ids : LastChanged(mem)[i] \in Int
    BY <2>1 DEF OperationalInv, LastChanged
  <2> HIDE DEF ids
  <2>3. Cut(Sort(ids, LastChanged(mem))) \in {Cut(q) : q \in OrderBy(ids, LastChanged(mem))}
    BY <2>1, <2>2, ListedRows DEF OperationalInv
  <2> QED BY <2>3 DEF MemListOperationalWallets, PgListOperationalWallets, ids
<1> QED BY <1>1, <1>2

(* getTreasuryWallet (a merchant with a wallet has a default), the lists.    *)
LEMMA SameTreasuries ==
  ASSUME calls \in Nat, mem = pg, TreasuriesInv(mem, calls)
  PROVE  /\ \A m \in Merchants :
              /\ MemGetTreasuryWallet(m) \in PgGetTreasuryWallet(m)
              /\ MemListTreasuryWallets(m) \in PgListTreasuryWallets(m)
         /\ \A k \in Keys :
              Len(MemTreasuryWalletsByAddress(k)) <= 1 =>
                MemTreasuryWalletsByAddress(k) \in PgTreasuryWalletsByAddress(k)
<1>1. Made(mem, calls)
  BY DEF TreasuriesInv
<1>2. ASSUME NEW m \in Merchants
      PROVE  MemGetTreasuryWallet(m) \in PgGetTreasuryWallet(m)
  <2> DEFINE default == Having(mem, [merchant |-> m, isDefault |-> TRUE])
             held == Having(mem, [merchant |-> m])
  <2>1. default \subseteq DOMAIN mem /\ held \subseteq DOMAIN mem
    BY DEF Having
  <2>2. CASE default # {}
    <3>1. \A i \in default : Oldest(mem)[i] \in Int
      BY <1>1, <2>1, Weights
    <3>2. MemGetTreasuryWallet(m) = First(Sort(default, Oldest(mem)))
      BY <2>2 DEF MemGetTreasuryWallet
    <3>3. PgGetTreasuryWallet(m) = {<<i>> : i \in default}
      BY <2>2 DEF PgGetTreasuryWallet
    <3> HIDE DEF default
    <3> QED BY <1>1, <2>1, <2>2, <3>1, <3>2, <3>3, FirstRow
  <2>3. CASE default = {}
    <3>1. ASSUME NEW i \in DOMAIN mem, mem[i].merchant = m, mem[i].isDefault
          PROVE  FALSE
      <4> DEFINE values == [merchant |-> m, isDefault |-> TRUE]
      <4>1. mem[i].isDefault = TRUE
        BY <3>1 DEF TreasuriesInv
      <4>2. DOMAIN values = {"merchant", "isDefault"}
        OBVIOUS
      <4>3. mem[i]["merchant"] = values["merchant"] /\ mem[i]["isDefault"] = values["isDefault"]
        BY <3>1, <4>1
      <4> HIDE DEF values
      <4>4. i \in Having(mem, values)
        BY <4>2, <4>3 DEF Having
      <4> QED BY <2>3, <4>4 DEF values
    <3>2. held = {}
      <4>1. \A i \in DOMAIN mem : mem[i].merchant # m
        BY <3>1 DEF TreasuriesInv
      <4> QED BY <4>1 DEF Having
    <3>3. \A i \in held : Oldest(mem)[i] \in Int /\ LastChanged(mem)[i] \in Int
      BY <3>2
    <3>4. First(Sort(held, Oldest(mem))) = << >> /\ First(Sort(held, LastChanged(mem))) = << >>
      <4> HIDE DEF held
      <4> QED BY <1>1, <2>1, <3>2, <3>3, FirstRow
    <3>5. First(Sort(held, LastChanged(mem))) \in {First(q) : q \in OrderBy(held, LastChanged(mem))}
      <4> HIDE DEF held
      <4> QED BY <1>1, <2>1, <3>3, ListedRows
    <3>6. MemGetTreasuryWallet(m) = First(Sort(held, Oldest(mem)))
      BY <2>3 DEF MemGetTreasuryWallet
    <3>7. PgGetTreasuryWallet(m) = {First(q) : q \in OrderBy(held, LastChanged(mem))}
      BY <2>3 DEF PgGetTreasuryWallet
    <3> HIDE DEF held
    <3> QED BY <3>4, <3>5, <3>6, <3>7
  <2> QED BY <2>2, <2>3
<1>3. ASSUME NEW m \in Merchants
      PROVE  MemListTreasuryWallets(m) \in PgListTreasuryWallets(m)
  <2> DEFINE ids == Having(mem, [merchant |-> m])
  <2>1. ids \subseteq DOMAIN mem
    BY DEF Having
  <2>2. \A i \in ids : DefaultFirst(mem)[i] \in Int
    <3> HIDE DEF ids
    <3> QED BY <2>1, StoresAssumption DEF TreasuriesInv, DefaultFirst
  <2> HIDE DEF ids
  <2>3. Cut(Sort(ids, DefaultFirst(mem))) \in {Cut(q) : q \in OrderBy(ids, DefaultFirst(mem))}
    BY <1>1, <2>1, <2>2, ListedRows
  <2> QED BY <2>3 DEF MemListTreasuryWallets, PgListTreasuryWallets, ids
<1>4. ASSUME NEW k \in Keys, Len(MemTreasuryWalletsByAddress(k)) <= 1
      PROVE  MemTreasuryWalletsByAddress(k) \in PgTreasuryWalletsByAddress(k)
  <2> DEFINE ids == Having(mem, [address |-> k])
             q == Sort(ids, Oldest(mem))
  <2>1. ids \subseteq DOMAIN mem
    BY DEF Having
  <2>2. \A i \in ids : Oldest(mem)[i] \in Int
    BY <1>1, <2>1, Weights
  <2>3. IsFiniteSet(ids)
    BY <1>1, <2>1, FS_Subset DEF Made
  <2>4. Cardinality(ids) \in Nat
    BY <2>3, FS_CardinalityType
  <2>5. Len(q) <= 1
    BY <1>4 DEF MemTreasuryWalletsByAddress
  <2> HIDE DEF ids
  <2>6. q \in SetToSeqs(ids)
    BY <1>1, <2>1, <2>2, SortOrders
  <2> HIDE DEF q
  <2>7. q \in [1 .. Cardinality(ids) -> ids]
    BY <2>6 DEF SetToSeqs
  <2>8. Len(q) = Cardinality(ids) /\ DOMAIN q = 1 .. Cardinality(ids)
    BY <2>4, <2>7, SeqDef, LenProperties
  <2>9. \A i, j \in DOMAIN q : ~ (i < j)
    BY <2>4, <2>5, <2>8
  <2>10. q \in OrderBy(ids, LastChanged(mem))
    BY <2>6, <2>9 DEF OrderBy
  <2> QED BY <2>10 DEF MemTreasuryWalletsByAddress, PgTreasuryWalletsByAddress, q, ids
<1> QED BY <1>2, <1>3, <1>4

(* The address of a temporary wallet; a direct request that is active is     *)
(* unmatched.                                                                *)
LEMMA SameDeposits ==
  ASSUME calls \in Nat, mem = pg, DepositsInv(mem, index, calls), NEW k \in Keys
  PROVE  /\ Having(pg, [flow |-> "direct", address |-> k]) = {} =>
              MemGetDepositAddressByAddress(k) \in PgGetDepositAddressByAddress(k)
         /\ \A m \in Merchants :
              /\ MemGetActiveByClientId(m, k) \in PgGetActiveByClientId(m, k)
              /\ MemCountActiveDirect(m, k) = PgCountActiveDirect(m, k)
              /\ \A filter \in {Unmatched(m, k), [client |-> k]} :
                   MemListDepositAddresses(filter) \in PgListDepositAddresses(filter)
<1>1. Made(mem, calls)
  BY DEF DepositsInv
<1>2. ASSUME Having(pg, [flow |-> "direct", address |-> k]) = {}
      PROVE  MemGetDepositAddressByAddress(k) \in PgGetDepositAddressByAddress(k)
  <2>1. CASE k \in DOMAIN index
    <3>1. index[k] \in Having(pg, [address |-> k])
      BY <2>1 DEF DepositsInv, Having
    <3> QED BY <2>1, <3>1 DEF MemGetDepositAddressByAddress, PgGetDepositAddressByAddress, Indexed, AnyOf
  <2>2. CASE k \notin DOMAIN index
    <3>1. Having(pg, [address |-> k]) = {}
      BY <1>2, <2>2 DEF DepositsInv, Having
    <3> QED BY <2>2, <3>1 DEF MemGetDepositAddressByAddress, PgGetDepositAddressByAddress, Indexed, AnyOf
  <2> QED BY <2>1, <2>2
<1>3. ASSUME NEW m \in Merchants
      PROVE  MemGetActiveByClientId(m, k) \in PgGetActiveByClientId(m, k)
  <2> DEFINE ids == Having(mem, [merchant |-> m, client |-> k, status |-> "active"])
  <2>1. ids \subseteq DOMAIN mem
    BY DEF Having
  <2> HIDE DEF ids
  <2>2. First(Sort(ids, Newest(mem))) \in {First(q) : q \in OrderBy(ids, Newest(pg))}
    BY <1>1, <2>1, ListedAlike
  <2> QED BY <2>2 DEF MemGetActiveByClientId, PgGetActiveByClientId, ids
<1>4. ASSUME NEW m \in Merchants
      PROVE  MemCountActiveDirect(m, k) = PgCountActiveDirect(m, k)
  <2>1. Having(mem, Unmatched(m, k)) = Having(pg, Open(m, k))
    BY DEF DepositsInv, Having, Unmatched, Open
  <2> QED BY <2>1 DEF MemCountActiveDirect, PgCountActiveDirect
<1>5. ASSUME NEW filter
      PROVE  MemListDepositAddresses(filter) \in PgListDepositAddresses(filter)
  <2>1. Having(mem, filter) \subseteq DOMAIN mem
    BY DEF Having
  <2> QED BY <1>1, <2>1, ListedAlike DEF MemListDepositAddresses, PgListDepositAddresses
<1> QED BY <1>2, <1>3, <1>4, <1>5

(* Transfers by log, by block, by merchant.                                  *)
LEMMA SameTransfers ==
  ASSUME calls \in Nat, mem = pg, TransfersInv(mem, index, calls)
  PROVE  /\ \A log \in Keys : MemGetTokenTransferByChainLog(log) \in PgGetTokenTransferByChainLog(log)
         /\ \A head \in 1 .. 2 : MemReadyForConfirmation(head) \in PgReadyForConfirmation(head)
         /\ \A m \in Merchants :
              /\ MemTransfersForDepositAddress(m) \in PgTransfersForDepositAddress(m)
              /\ LET filter == [merchant |-> m, status |-> "confirmed"] IN
                 MemListTransfers(filter) \in PgListTransfers(filter)
<1>1. Made(mem, calls)
  BY DEF TransfersInv
<1>2. \A i \in DOMAIN mem : HighestBlock(mem)[i] \in Int /\ LowestBlock(mem)[i] \in Int
  BY DEF TransfersInv, HighestBlock, LowestBlock
<1>3. ASSUME NEW log \in Keys
      PROVE  MemGetTokenTransferByChainLog(log) \in PgGetTokenTransferByChainLog(log)
  <2> DEFINE values == [log |-> log]
  <2>1. DOMAIN values = {"log"} /\ values["log"] = log
    OBVIOUS
  <2> HIDE DEF values
  <2>2. Indexed(log) \in AnyOf(values)
    BY <2>1, IndexedRow DEF TransfersInv
  <2> QED BY <2>2 DEF MemGetTokenTransferByChainLog, PgGetTokenTransferByChainLog, values
<1>4. ASSUME NEW head \in 1 .. 2
      PROVE  MemReadyForConfirmation(head) \in PgReadyForConfirmation(head)
  <2> DEFINE ids == {i \in Having(mem, [status |-> "detected"]) : mem[i].block <= head}
  <2>1. ids \subseteq DOMAIN mem
    BY DEF Having
  <2> HIDE DEF ids
  <2>2. Cut(Sort(ids, LowestBlock(mem))) \in {Cut(q) : q \in OrderBy(ids, LowestBlock(mem))}
    BY <1>1, <1>2, <2>1, ListedRows
  <2> QED BY <2>2 DEF MemReadyForConfirmation, PgReadyForConfirmation, ids
<1>5. ASSUME NEW m \in Merchants
      PROVE  MemTransfersForDepositAddress(m) \in PgTransfersForDepositAddress(m)
  <2> DEFINE ids == Having(mem, [merchant |-> m])
  <2>1. ids \subseteq DOMAIN mem
    BY DEF Having
  <2> HIDE DEF ids
  <2>2. Sort(ids, HighestBlock(mem)) \in OrderBy(ids, HighestBlock(mem))
    BY <1>1, <1>2, <2>1, ListedRows
  <2> QED BY <2>2 DEF MemTransfersForDepositAddress, PgTransfersForDepositAddress, ids
<1>6. ASSUME NEW filter
      PROVE  MemListTransfers(filter) \in PgListTransfers(filter)
  <2>1. Having(mem, filter) \subseteq DOMAIN mem
    BY DEF Having
  <2> QED BY <1>1, <2>1, ListedAlike DEF MemListTransfers, PgListTransfers
<1> QED BY <1>3, <1>4, <1>5, <1>6

(* listTreasuryTransfers.                                                    *)
LEMMA SameTreasuryTransfers ==
  ASSUME calls \in Nat, mem = pg, TreasuryTransfersInv(mem, index, calls)
  PROVE  \A m \in Merchants :
           LET filter == [merchant |-> m, status |-> "matched"] IN
           MemListTreasuryTransfers(filter) \in PgListTreasuryTransfers(filter)
<1>1. ASSUME NEW filter
      PROVE  MemListTreasuryTransfers(filter) \in PgListTreasuryTransfers(filter)
  <2>1. Having(mem, filter) \subseteq DOMAIN mem
    BY DEF Having
  <2> QED BY <2>1, ListedAlike DEF TreasuryTransfersInv, MemListTreasuryTransfers, PgListTreasuryTransfers
<1> QED BY <1>1

(* The latest attempt, the submitted ones, the one with a hash.              *)
LEMMA SameAttempts ==
  ASSUME calls \in Nat, mem = pg, AttemptsInv(mem, calls)
  PROVE  /\ \A t : First(Sort(Having(mem, [transfer |-> t]), LastAttempt(mem))) \in
                     {First(q) : q \in OrderBy(Having(pg, [transfer |-> t]), LastAttempt(pg))}
         /\ Cut(Sort(Having(mem, [status |-> "submitted"]), Oldest(mem))) \in
              {Cut(q) : q \in OrderBy(Having(pg, [status |-> "submitted"]), Oldest(pg))}
         /\ \A hash : First(Sort(Having(mem, [hash |-> hash]), Oldest(mem))) \in AnyOf([hash |-> hash])
<1>1. Made(mem, calls)
  BY DEF AttemptsInv
<1>2. \A values : Having(mem, values) \subseteq DOMAIN mem
  BY DEF Having
<1>3. ASSUME NEW t
      PROVE  First(Sort(Having(mem, [transfer |-> t]), LastAttempt(mem))) \in
               {First(q) : q \in OrderBy(Having(pg, [transfer |-> t]), LastAttempt(pg))}
  <2>1. \A i \in DOMAIN mem : LastAttempt(mem)[i] \in Int
    BY DEF AttemptsInv, LastAttempt
  <2> DEFINE ids == Having(mem, [transfer |-> t])
  <2>2. ids \subseteq DOMAIN mem
    BY <1>2
  <2> HIDE DEF ids
  <2>3. First(Sort(ids, LastAttempt(mem))) \in {First(q) : q \in OrderBy(ids, LastAttempt(mem))}
    BY <1>1, <2>1, <2>2, ListedRows
  <2> QED BY <2>3 DEF ids
<1>4. Cut(Sort(Having(mem, [status |-> "submitted"]), Oldest(mem))) \in
        {Cut(q) : q \in OrderBy(Having(pg, [status |-> "submitted"]), Oldest(pg))}
  BY <1>1, <1>2, ListedAlike
<1>5. ASSUME NEW hash
      PROVE  First(Sort(Having(mem, [hash |-> hash]), Oldest(mem))) \in AnyOf([hash |-> hash])
  <2> DEFINE ids == Having(mem, [hash |-> hash])
  <2>1. ids \subseteq DOMAIN mem
    BY <1>2
  <2>2. AnyOf([hash |-> hash]) = IF ids = {} THEN {<< >>} ELSE {<<i>> : i \in ids}
    BY DEF AnyOf
  <2> HIDE DEF ids
  <2>3. \A i \in ids : Oldest(mem)[i] \in Int
    BY <1>1, <2>1, Weights
  <2>4. /\ ids = {} => First(Sort(ids, Oldest(mem))) = << >>
        /\ ids # {} => First(Sort(ids, Oldest(mem))) \in {<<i>> : i \in ids}
    BY <1>1, <2>1, <2>3, FirstRow
  <2>5. First(Sort(ids, Oldest(mem))) \in AnyOf([hash |-> hash])
    BY <2>2, <2>4
  <2> QED BY <2>5 DEF ids
<1> QED BY <1>3, <1>4, <1>5

(* listDueWebhookEvents.                                                     *)
LEMMA SameEvents ==
  ASSUME calls \in Nat, mem = pg, EventsInv(mem, calls)
  PROVE  MemListDueWebhookEvents \in PgListDueWebhookEvents
<1> DEFINE ids == {i \in Having(mem, [status |-> "pending"]) : mem[i].next <= Now}
<1>1. ids \subseteq DOMAIN mem
  BY DEF Having
<1> HIDE DEF ids
<1>2. Cut(Sort(ids, Oldest(mem))) \in {Cut(q) : q \in OrderBy(ids, Oldest(pg))}
  BY <1>1, ListedAlike DEF EventsInv
<1> QED BY <1>2 DEF MemListDueWebhookEvents, PgListDueWebhookEvents, ids

(* listWalletTransactions.                                                   *)
LEMMA SameWalletTransactions ==
  ASSUME calls \in Nat, mem = pg, AttemptsInv(mem, calls)
  PROVE  MemListWalletTransactions \in PgListWalletTransactions
BY ListedAlike DEF AttemptsInv, MemListWalletTransactions, PgListWalletTransactions

(* The invariant says what the stores answer.                                *)
LEMMA AnswersAlike == IInv => SameAnswers
<1> SUFFICES ASSUME IInv, ~ apart PROVE SameAnswers
  BY DEF SameAnswers
<1>1. calls \in Nat /\ mem = pg /\ answers.mem = answers.pg /\ TablesInv
  BY DEF IInv
<1>2. table = "merchants" => MemListMerchants \in PgListMerchants
  BY <1>1, SameMerchants DEF TablesInv
<1>3. table = "merchant_api_keys" =>
        /\ \A k \in Keys : MemGetApiKeyByPublicKey(k) \in PgGetApiKeyByPublicKey(k)
        /\ \A m \in Merchants : MemListApiKeys(m) \in PgListApiKeys(m)
  BY <1>1, SameApiKeys DEF TablesInv
<1>4. table = "webhook_configs" => MemListWebhookConfigs \in PgListWebhookConfigs
  BY <1>1, SameWebhookConfigs DEF TablesInv
<1>5. table = "operational_wallets" =>
        /\ \A s \in Keys : MemGetOperationalGasWallet(s) \in PgGetOperationalGasWallet(s)
        /\ MemListOperationalWallets \in PgListOperationalWallets
  BY <1>1, SameOperationals DEF TablesInv
<1>6. table = "treasury_wallets" =>
        /\ \A m \in Merchants :
             /\ MemGetTreasuryWallet(m) \in PgGetTreasuryWallet(m)
             /\ MemListTreasuryWallets(m) \in PgListTreasuryWallets(m)
        /\ \A k \in Keys :
             Len(MemTreasuryWalletsByAddress(k)) <= 1 =>
               MemTreasuryWalletsByAddress(k) \in PgTreasuryWalletsByAddress(k)
  BY <1>1, SameTreasuries DEF TablesInv
<1>7. table = "deposit_addresses" =>
        \A k \in Keys :
          /\ Having(pg, [flow |-> "direct", address |-> k]) = {} =>
               MemGetDepositAddressByAddress(k) \in PgGetDepositAddressByAddress(k)
          /\ \A m \in Merchants :
               /\ MemGetActiveByClientId(m, k) \in PgGetActiveByClientId(m, k)
               /\ MemCountActiveDirect(m, k) = PgCountActiveDirect(m, k)
               /\ \A filter \in {Unmatched(m, k), [client |-> k]} :
                    MemListDepositAddresses(filter) \in PgListDepositAddresses(filter)
  BY <1>1, SameDeposits DEF TablesInv
<1>8. table = "token_transfers" =>
        /\ \A log \in Keys : MemGetTokenTransferByChainLog(log) \in PgGetTokenTransferByChainLog(log)
        /\ \A head \in 1 .. 2 : MemReadyForConfirmation(head) \in PgReadyForConfirmation(head)
        /\ \A m \in Merchants :
             /\ MemTransfersForDepositAddress(m) \in PgTransfersForDepositAddress(m)
             /\ LET filter == [merchant |-> m, status |-> "confirmed"] IN
                MemListTransfers(filter) \in PgListTransfers(filter)
  BY <1>1, SameTransfers DEF TablesInv
<1>9. table = "treasury_transfers" =>
        \A m \in Merchants :
          LET filter == [merchant |-> m, status |-> "matched"] IN
          MemListTreasuryTransfers(filter) \in PgListTreasuryTransfers(filter)
  BY <1>1, SameTreasuryTransfers DEF TablesInv
<1>10. table \in {"gas_top_ups", "sweeps", "wallet_transactions"} => AttemptsInv(mem, calls)
  BY <1>1 DEF TablesInv
<1>11. table = "gas_top_ups" =>
         /\ \A t \in Keys : MemLatestGasTopUp(t) \in PgLatestGasTopUp(t)
         /\ MemSubmittedGasTopUps \in PgSubmittedGasTopUps
  BY <1>1, <1>10, SameAttempts
     DEF MemLatestGasTopUp, PgLatestGasTopUp, MemSubmittedGasTopUps, PgSubmittedGasTopUps
<1>12. table = "sweeps" =>
         /\ \A t \in Keys : MemLatestSweep(t) \in PgLatestSweep(t)
         /\ \A hash \in Ids : MemGetSweepByTxHash(hash) \in PgGetSweepByTxHash(hash)
         /\ MemSubmittedSweeps \in PgSubmittedSweeps
  BY <1>1, <1>10, SameAttempts DEF MemLatestSweep, PgLatestSweep, MemGetSweepByTxHash, PgGetSweepByTxHash,
     MemSubmittedSweeps, PgSubmittedSweeps
<1>13. table = "wallet_transactions" =>
         /\ MemListWalletTransactions \in PgListWalletTransactions
         /\ MemSubmittedWalletTransactions \in PgSubmittedWalletTransactions
  BY <1>1, <1>10, SameAttempts, SameWalletTransactions
     DEF MemSubmittedWalletTransactions, PgSubmittedWalletTransactions
<1>14. table = "webhook_events" => MemListDueWebhookEvents \in PgListDueWebhookEvents
  BY <1>1, SameEvents DEF TablesInv
<1> QED BY <1>1, <1>2, <1>3, <1>4, <1>5, <1>6, <1>7, <1>8, <1>9, <1>11, <1>12, <1>13, <1>14 DEF SameAnswers

(* ... and answer alike.                                                     *)
THEOREM SameAnswersHolds == Spec => []SameAnswers
BY InitIInv, NextIInv, AnswersAlike, PTL DEF Spec
==================================================================================
