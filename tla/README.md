# Verification of the deposit gateway

TLA+ modules of the gateway in this repository, the TLC configurations that
check them on small instances, and the theorems TLAPS proves about them for
every value of their constants.

Paths below are relative to the repository; `S:n` is a line of
`src/services/settlement-service.ts`, `W` `src/worker/deposit-worker.ts`, `P`
`src/repositories/postgres.ts`, `DS` `src/services/deposit-service.ts`, `WD`
`src/services/webhook-delivery.ts`, `WH` `src/services/webhook-service.ts`, `D`
`src/services/dashboard-service.ts`, `M` `src/repositories/memory.ts`, `UI`
`dashboard/src/main.tsx`.

## The system

Two operating-system processes share a Postgres database and nothing else: the
API server (`src/index.ts`, `src/api/app.ts`), in which merchant calls and
dashboard calls interleave at every `await`, and one worker (`src/worker.ts`),
which runs a tick, sleeps, and runs the next. There is no queue between them
and, except for treasury wallets, no transaction of more than one statement:
what a process knows between two awaits is lost in a crash, and any statement
of the other process may come in between. Postgres's unique indexes are the
only guard against what that makes possible.

| Component | State | Operations | Talks to | Hard parts | Correct when |
|---|---|---|---|---|---|
| Settlement (`settlement-service.ts`) | `token_transfers.settlement_*`, `gas_top_ups`, `sweeps`, the chain | `ensureSettlement`, `submitGasTopUp`, `confirmGasTopUps`, `confirmSweeps`, owner retry | chain, repository, webhooks | worker and owner retry side by side; a send and its row are two steps; receipts read from an old list; crash between any two | attempts are numbered without gap, rows agree with the chain, only a confirmed sweep settles, nothing is submitted twice by itself, every transfer is settled or failed and reported |
| Deposit worker (`deposit-worker.ts`) | `chain_cursors`, `token_transfers`, `treasury_transfers`, `deposit_addresses` | expire, scan, automatic match, confirm | chain, repository, settlement, webhooks | rescans after a crash, the cursor's window, the clock, API calls between two statements | no payment lost, announced twice or credited to two requests; everything detected is confirmed |
| Deposit requests (`deposit-service.ts`) | `deposit_addresses`, `treasury_transfers`, `idempotency_keys` | create, close, manual match | repository, webhooks, chain (readiness) | checks many awaits before the write; the manual match beside the automatic one | one request per key and client, matches agree with credits |
| Merchant API (`middleware.ts`, `app.ts`) | `request_nonces` | authentication, routing | deposit requests | replays and overlaps of one call | a nonce admits one call; answers to one key agree |
| Webhooks (`webhook-service.ts`, `webhook-delivery.ts`) | `webhook_events`, preferences, callback configuration | enqueue, `deliverDue`, `scheduleRetry` | repository, receivers | answers lost, crash after the post, batch limit, backoff, settings changed meanwhile | delivered at least once or given up after the configured attempts |
| Treasury wallets (`P:350`, `P:513`) | `treasury_wallets` | register, configure, set default | repository | read-committed transactions with row locks and a partial unique index | one default, the one the owner chose; no call waits for ever |
| Operational wallets, wallet transactions (`dashboard-service.ts`) | `operational_wallets`, `wallet_transactions` | generate, send, confirm | chain, repository | a generated key overwrites the old one; the send, its row and the row of a failure are three steps; the worker reads a bounded list | a row with a hash tells what the chain tells, the owner is told the truth, what is mined is resolved |
| Dashboard in the browser (`main.tsx`, `admin-session.ts`) | the token in state and `sessionStorage`, the data on the screen, the form | login, logout, refresh, send a wallet transaction | the dashboard API | refreshes and mutations overlap and keep the token of the render they started in | only expiry and logout end a session; the screen shows what the owner was told |
| In-memory repository (`memory.ts`) | the maps the test suite runs on | every operation of `Repository` | | kept alike by hand with the Postgres one | a test on it shows what Postgres would do |
| Chain providers (`src/worker/*-provider.ts`) | none | logs, balances, sends, receipts | RPC nodes | lost answers, reverts, blocks that cannot be read | modelled by what the gateway sees |
| Configuration, encryption, logging, OpenAPI, QR codes, migrations | none that changes | | | | not modelled: pure functions, documents and start-up |

`PROJECT.json` lists every component with its status, every definition with the
lines it translates, and every hazard with its line.

## Modules

| Module | What it is |
|---|---|
| `Settlement` | the settlement state machine, with chain, worker phases and owner retries |
| `Deposits` | detection, matching, confirmation and expiry, next to the API |
| `Credits` | what a merchant is promised about payments; `Deposits` implements it (`Merchants == INSTANCE Credits`) |
| `Requests` | `POST /v1/deposit-addresses` from authentication to the stored key |
| `Webhooks` | enqueueing and delivery |
| `Outbox` | what delivery promises a merchant; `Webhooks` implements it (`Abstract == INSTANCE Outbox`) |
| `Treasuries` | the transactions on treasury wallets |
| `Wallets` | the gas wallet, the owner's wallet transactions at the server and in the worker's receipts loop |
| `Dashboard` | one browser tab in front of `Wallets`: session, screen, form; it extends `Wallets` and is shown to implement it |
| `Stores` | both implementations of `Repository`, call by call next to each other |
| `MC...` | the instances TLC checks: model values and definitions of the constants |
| `...Proofs`, `NaturalLemmas` | theorems and proofs, one module per component; `NaturalLemmas` is what two of them need about naturals |

The component boundary is the code's: `Deposits` ends where `ensureSettlement` is
called for a temporary wallet, and `Settlement` begins there (`Detect`,
`Announce`, `ConfirmTransfer` are the places of the tick that call it).
`Requests` ends with the request's row; what happens to it afterwards is
`Deposits`. Both enqueue events; `Webhooks` starts from an enqueued event.
`Dashboard` composes the browser's steps with those of `Wallets`: a request of the
tab is the start of a call there, its answer the end of one.

**One action per await.** Every action ends where the code awaits a database
statement or a chain call, and `pc` names the place. Two awaits are one action
only where nothing can happen between them that matters (a receipt, once there,
stays; a deposit row's columns that never change), and the comment says so.
`job` holds the local variables, with the values as they were read: a stale read
in the code is a stale read in the model. `Abort` drops `pc` and `job` at any
place: a crash, or an exception that leaves the tick or the handler.

**Settlement.** Gas top-ups and sweeps run through the same steps, `number`,
`send`, `record`, `mark`, `notify` and in the catch block `catch`, `fail`,
`notify_failed`; `job.kind` tells which. The chain is the sequence of
transactions that were broadcast, with their outcome; balances follow from
them. `Faults` says what may go wrong: the send is refused (`send`, a missing gas
key included), the send goes out and its call throws (`lost`), a statement
inside the try block fails (`db`), the transaction reverts, configuration or
treasury are missing.

**Deposits.** One network, token, merchant and treasury wallet. A log is one
token transfer; its amount is the set of direct requests it is within tolerance
of (`Fits`). `Lookup` is `getDepositAddressByAddress`, which knows no flow: a
direct request is found by the treasury's address. So the automatic match
(`CheckSweep` to `AnnounceMatch`) is reached only for payments to a treasury no
direct request has used, or by a race with one that is just being created; both
are in the runs.

**Webhooks.** `made[e]` is `created_at`, the order in which the loop takes due rows
(`Oldest`): the head of its list is the oldest event in `todo` (`Current`), so
neither the table nor the list is a sequence. Time is counted in units of `webhookBaseRetrySeconds` and kept as
time left (`wait`), so no clock grows. `forgotten` are 2xx answers that were lost
to a crash or a failing statement before they reached the row; the refinement
counts them as not given.

**Requests.** A row is named by the call that made it. Nonce, key, body, client
and treasury are functions of the call; `Authenticate` stands for a call with a
valid signature. `overlaps` remembers which calls ran side by side: the
guarantees of read-then-write checks are stated for those that did not.
`CheckPreferences` and `Announce` are the two reads of `enqueueMerchantEvent`; `silent`
remembers for which calls it returned without an event (`WH:10`, `WH:12`). In `Settlement`
and `Deposits` a callback is configured and every event type enabled; what a missing one
changes is only that nothing is sent.

**Treasuries.** Read committed as Postgres does it: a statement sees what is
committed when it starts, an update locks rows one by one and writes on top of
what is committed by then, a unique index refuses, a circle of waiters is
broken. `mixed` remembers when two calls ran side by side that the code does not
keep apart (`Mixes`).

**Wallets.** A key is the number of its generation, so a transaction signed by a key
that was overwritten meanwhile is told from one signed by the new one. A call is
`send`, `record` and, for whatever throws in the try block, `catch`, which inserts a
failed row under the same id (`D:33`); `cut` remembers the calls in which something
threw after the transaction had gone out. `Stuck` transactions are those never
mined; the worker's list takes the oldest `ListLimit` rows, they among them.

**Dashboard.** A request keeps the token of the closure it was started in; the
server computes its answer at one moment and it arrives at another. `crossed`
remembers a login next to a request of an earlier session, `doubtful` that
refreshes overlapped or that the last one failed. `followed` is an abstraction:
either the tab is followed, or requests come from anywhere (other tabs, other
clients), so that the server's properties do not lean on the page's habits. `Clicks` are the calls a
followed tab may make.
Not modelled: React's double effects in development, panels that only read.

**Stores.** A behaviour is about one table, since no operation writes to two, and
calls any operation with any arguments; `mem` and `index` are the maps, `pg` the rows
with the unique indexes and the conditions in `where`. `answers` holds what the two
returned. Once Postgres declines what memory carried out (`apart`) the two are
different databases and nothing more is claimed. Where Postgres leaves the order
open, the answer is a set of answers and memory's has to be in it.

## Runs

| Run | Instance | Distinct states | Shows |
|---|---|---|---|
| `settlement_owner` | one transfer, worker and one owner retry, refused sends, reverts, one crash | 0.83 M | attempt history, rows against chain, settled by a sweep, callbacks true and once |
| `settlement_shared` | two payments to one wallet, worker alone, failing statements, reverts, missing configuration or treasury, one crash; symmetric in the payments | 2.9 M | funds of settled payments left the wallet, one transaction in flight, a failed attempt is the last until the owner acts |
| `settlement_live` | a temporary-wallet and a direct payment; sends refused or lost, reverts; fair | 6 k | every payment, late ones too, is settled or has a failed attempt; a confirmed top-up is followed by its sweep; the settlement column agrees with the attempts |
| `deposits_races` | a wallet, a direct request, one payment to each and one own sweep; manual match; windows of two blocks; one crash | 1.0 M | nothing lost, announced twice or untrue; nothing credited waits for review; every step is one `Credits` allows |
| `deposits_live` | one payment that fits two direct requests, manual match, one crash; fair | 63 k | settled and announced, expiries too, when nothing was cut off |
| `webhooks` | two events, one perhaps undecryptable, refusals, timeouts, failing statements, batch of one, three attempts, delay capped at two, one settings change, one crash; fair | 0.22 M | the outbox promise, counting, backoff, no starvation |
| `requests` | four calls, two at a time, sharing keys, a nonce, clients, treasuries; events of direct requests on or off, a settings change, an ended request, a failure | 3.0 M | nonces, keys, clients, spread of load, no answer ahead of its callback |
| `treasuries` | three addresses, four calls, two at a time, one lost connection; fair | 0.2 M | one default, the chosen one; every call ends |
| `stores` | sixteen tables, three ids, two merchants, two keys, four calls, lists of two; symmetric in all of them | 0.17 M | the same rows and the same answers in memory and in Postgres |
| `dashboard` | wallet transactions, three from anywhere and a list of two, or two from a tab; a page, two sessions, one generated key, one fault of any kind; fair | 1.1 M | rows and answers against the chain, resolution, session, screen |
| `deposits_out_of_tolerance` | | violation | see below |
| `requests_double_key` | | violation | see below |

**Why the bounds are enough for the question.** The conflicts in this code are
between two parties at a time: worker and one handler, two handlers, an old
attempt and a new one. Each instance has two of what the property relates, one
fault of each kind at any place, and room for the sequence to go on after it
(three attempts and a capped delay, so that the cap is reached; a window of two
blocks and blocks left over; a treasury more than the calls can register in
one go; two sessions, so that one can be ended by an answer to the other). In
`Stores` four calls make two rows, change one and read; the longest sequence that
tells an upsert from an insert and its conditions is three. Counters are bounded in
guards: `MaxRetries`, `MaxAborts`, `MaxHead`, `MaxChanges`, `MaxEnds`, `MaxOpen`,
`MaxCalls`, `MaxFaults`, `MaxKeys`, `MaxSessions`, `MaxMisses`. One crash per run means
one per behaviour: what two crashes in a row do is only proved, not checked.
`ListLimit` and `Limit` are the code's 100 and the callers' limits, cut to two: a list is
full, and with the third row one is left out. `Settings` is how `requests` starts: one active
request per client, which the owner may come to allow more of. `CHECK_DEADLOCK FALSE` is set where a bounded number of calls runs
out (`requests`, `treasuries`, `stores`, `dashboard`).

**Fairness.** The worker's loop always goes on (`worker.ts`, `loop` catches what
a tick throws): weak fairness of the worker's step. A handler that runs goes on:
weak fairness of each handler. Transactions are mined, time passes, Postgres
breaks deadlocks. In `dashboard` only the worker's loop is fair, where no tab is followed: the chain need not
mine, and neither the server nor the browser need go on.
Nobody has to pay, create, close, match, change settings or
retry, and the receiver of a webhook need never answer 2xx. A chain that never
answers, or a statement that fails for ever, is outside this fairness: `Abort` is
bounded.

**Properties with a condition.** Some properties hold only when nothing was cut
off (`aborts = 0` or `aborts > 0` as the alternative), when the owner did not step
in (`retries[t] = 0`), or for calls that did not overlap (`overlaps`, `mixed`,
`crossed`, `doubtful`), that no error cut (`cut`), that Postgres did not decline
(`apart`). The condition is not a
convenience: without it TLC finds the behaviour described under "What the code
does not guarantee".

## Proofs

TLAPS proves, for any transfers, requests, wallets, owners, calls, faults and
bounds, as theorems of each module's specification:

| Module | Properties |
|---|---|
| `SettlementProofs` | types, `AttemptHistory`, `RowsMatchChain`, `SettledBySweep`, `EventsMatchRows`, `NoDuplicateEvent`, `OneInFlight`, `FailureNeedsOwner`, `SettledFundsLeft` (for finitely many transfers), `SettlementReflectsAttempts` |
| `DepositsProofs` | types, `NothingLost`, `CreditIsFinal`, `AnnouncementsStayTrue`, `NothingAnnouncedTwice`, `CreditedIsReviewed`, `KeepsCredits` (the refinement of `Credits`) |
| `RequestsProofs` | types, `NonceAdmitsOne`, `KeyHasOneAnswer`, `OneRequestPerKey`, `OneActivePerClient`, `AnsweredIsAnnounced`, `SpreadIsBounded` |
| `WebhooksProofs` | types, `PostsAreCounted`, `BackoffIsKept`, `KeepsPromise` (the refinement of `Outbox`) |
| `DashboardProofs` | `Dashboard` implements `Wallets`; types, `RowsTellTheChain`, `AnswersAreTrue`, `SessionIsKept`, `ScreenShowsSubmitted` |
| `TreasuriesProofs` | types with one default at most, `DefaultIsChosen`, `ChoiceTakesEffect` |
| `StoresProofs` | `SameRows`, `SameAnswers` |

These are all the invariants and action properties that the runs check. `ChoiceTakesEffect`,
stated next to its proof, and `CreditIsFinal`, which `KeepsCredits` contains, have no run
of their own.

The assumptions are the `ASSUME` of each module, what the constants mean (a bound is
a number, a set is finite where something is counted in it, `NoAddress` is no
address); TLC evaluates them in every run. Each proof has a lemma for the initial states, one for
each action or group of actions, and a theorem that puts them together.

*Settlement.* The properties are not inductive: a row's number says nothing
unless one knows that nobody else is about to insert the same one. `Inv` adds to
the types (`TypeInv`): rows are unique by transfer, kind and number (`RowsUnique`,
the unique index), numbers have no gap (`Counted`), each row's transaction is
its own (`RowsMatchChain`), a transaction that has no row yet belongs to one
process only (`OneRecorder`), the list the worker walks holds rows (`TodoOK`), and
what each process holds between two awaits fits the rows and the chain
(`ProcOK`).
`Owed` says of every callback not yet enqueued who owes it, and that no two processes
owe the same one: `NoDuplicateEvent`. For transfers nobody retried, `Stations` says
that no one but the worker has them in hand, and `Alone` that the worker is about to
act only when every attempt so far is confirmed, and that otherwise at most one row is
not confirmed: `OneInFlight`, and with it `FailureNeedsOwner`. `Funds` keeps, for each
wallet, the balance and the number of successful sweeps within the number of payments,
because a sweep moves at least one unit; every settled transfer has a successful sweep
of its own: `SettledFundsLeft`. `Columns` follows the settlement column from the
worker's insert to the receipt, while nothing crashed and no statement failed:
`SettlementReflectsAttempts`.

*Deposits.* Five invariants on top of the types (`TInv`, with `Places`: what a process
has in hand at each place).
`CInv` says what the row is that the worker (`WorkersRow`, `Unconfirmed`) or a
manual match (`MatchesRow`) has in hand, so that none of them writes over a final
status: `CreditIsFinal`. `Window` says that a log of the window being scanned is
still in the list, in hand, or recorded, so that nothing is missing when the
cursor is saved, also after a crash, which leaves the cursor where it was:
`NothingLost`. `AInv` says that whoever made or confirmed a row owes its callback, and
that of each callback there is one debtor at most and no event yet
(`DetectionOwed`, `ConfirmationOwed`, `ExpiryOwed`): `NothingAnnouncedTwice`,
`AnnouncementsStayTrue`. `RInv` says that without a crash a log no scan has handled has
no row (`Untouched`, `ScanList`), and that a match in progress still has its review
to complete (`MatchReview`): `CreditedIsReviewed`. `EInv` says that the requests the
worker and a match have in hand exist, and that whoever is about to confirm a payment to
the merchant has detected it to him before, unless something was cut off
(`DetectedFirst`). From these five, every step of `Deposits` is a step of `Credits` or a
stutter: `KeepsCredits`. The mapping takes reviews and own sweeps together as what was
put aside, the logs of blocks up to the cursor as what was passed, and events as what
was said. `Credits` says in one place what the worker's statements keep together, among
it that a step of the cursor passes only logs that have a place (`Known`), however far it
goes.

*Requests.* `IInv` adds that every request has a treasury of the merchant, that
nonces used are in the table, that answers are given only by calls that are
done, and that a stored key names a row that exists and the body it was made
for. The treasury rests on a lemma that `selectLeastPendingTreasury` returns one
of the wallets: a finite set of naturals has a least pair of load and number.
`OInv` is about overlap: a call that has made a row overlaps every other call that is
past the same check (`KeyHeld`, `ClientHeld`), because it had not made the row when
the other one looked; and a call that has ended by itself left its key
(`KeyWritten`). `AnnouncedOK` says that a call at `storeIdempotency` has decided about its
event, and so has the request of every record a replay answers from; and that what creation
checked about callbacks holds until then, if nothing was changed: `AnsweredIsAnnounced`. For the spread of load, `Spread` counts with the active requests of a
wallet the calls that have chosen it and not yet made their row (`ChoseOnly`): a choice
takes the least loaded wallet by what is in the table, and at most `MaxOpen` calls are
in progress (`OpenBounded`), so the sum never exceeds another wallet's load by more.
`SpreadIsBounded` alone is not inductive, since it forgets the choices already made.

*Webhooks.* `CountOK` keeps attempts and posts together, with the post in flight and
one per crash as the difference; `RestOK` says that the time that passed since the
last post and the time left make up the delay of the attempt; `AnswerOK` that a
row that is not final has no answer that counts. With them every step of the loop is
a step of `Outbox` or a stutter, and the part of the refinement that TLAPS leaves out
is nothing: `Outbox` promises safety only, that events end is `EveryEventEnds`.

*Dashboard.* `IInv` follows a call from the send to its row (`PlaceOK`, `RecordOK`,
`AnswerOK`); it is proved of `Wallets` alone and carried to `Dashboard` by
`ImplementsWallets`. In the browser, while no login came between (`crossed`), all that
is in flight carries the session in force (`SessionInv`), and a refresh that runs
alone was sent after the rows of the mutations that are over (`ScreenInv`).

*Treasuries.* `TInv` says what a transaction has written at each place (`Drafted`),
that no two hold one row (`Locks`), and what the partial unique index keeps: who has
written a default leaves room for none in its own view and for none in another
transaction (`Sole`). Commits of any two transactions then leave one default
(`OneDefault`), although each of them cleared only what it saw. `DInv` is about calls
that did not run side by side as `Mixes` says: a registration wants the default exactly
when there is none (`RegisterKnows`), and the flag it read of its own row is still that
row's (`RegisterRead`), so writing it back does no harm: `DefaultIsChosen`.
`ChoiceTakesEffect` needs no such condition.

*Stores.* For each table there is a lemma (`...Alike`) that every operation with every
argument changes the two alike, from what is known of its rows: the columns they
have; that the `Map` by key names the row with the key (`KeyedBy`), which is why
an upsert through it and `on conflict` meet the same row; that a merchant with a
wallet has a default; that an active direct request is unmatched, which is why the
two ways of counting agree. `SameAnswers` compares an array that is sorted with an
`order by`: no two rows are made by one call (`Made`), so the sort exists
(`SortExists`, each row at the place numbered by the rows before it), and it is one of
the orders Postgres may return, cut to any limit.

Only model-checked: liveness (`EventuallySettled`, `ConfirmedTopUpIsSwept`,
`DirectIsSettled`, `PaymentIsAnnounced`, `ExpiryIsAnnounced`, `EveryEventEnds`,
`EveryCallEnds`, `MinedIsResolved`), because fairness and `ENABLED` are outside the
prover. There is no `RECURSIVE` operator in any module; what a
recursive definition computes for every input could not be proved.

## What the code does not guarantee

Two runs check what the repository's documents say and find that the code does
otherwise (`findings` in `PROJECT.json` quotes the lines):

* `deposits_out_of_tolerance`: docs/FLOWS.md:143 says out-of-tolerance transfers are
  stored for manual matching. The lookup by address (`P:633`) finds any direct
  request of the treasury first and credits the payment to it, whatever its
  amount. With the lookup limited to temporary wallets TLC finds no violation.
* `requests_double_key`: docs/FLOWS.md:139 says a key replays the stored response.
  The key is read first and inserted last: overlapping calls make a request each.

While the conditions above were found, TLC also showed these behaviours, which
the properties of the passing runs exclude by a condition and which have no run
of their own:

* docs/FLOWS.md:183 says the worker makes no second attempt after a failed one. A
  confirmed top-up always forces a settlement (`S:42`): with an owner retry during a
  top-up there are two, and the second receipt submits a sweep again after the
  first one's sweep failed.
* docs/CALLBACKS.md:394 says any 2xx marks the event sent. `markWebhookSent` is in
  the try block of the fetch (`WD:50`): when it fails, a delivered event is
  retried and can end failed.
* A crash between confirming a top-up row and settling (`S:42`) leaves the
  transfer submitted at `gas_top_up`, with no row to find it by; docs/FLOWS.md:181
  says the worker retries. Likewise a crash between inserting a late transfer and
  settling it (`W:84`, docs/CALLBACKS.md:257). `settlement_live` therefore has no
  crash.
* A recorded sweep into a treasury with a direct request becomes a deposit of that
  request, because the sweep check is behind the lookup by address (`W:65`).
* A crash between the bulk expiry and its events (`W:38`) loses `wallet.expired`.
* A payment in time that is scanned after the deadline is recorded late (`W:66`).
* Two manual matches of one treasury transfer to two requests at once complete
  both (`DS:113`): the runs have one owner for that reason.
* A TRON block whose event query fails is passed over without an error
  (`tron-provider.ts:82`), and so are events beyond 200 in a block; `Deposits`
  models a provider that throws.
* Delivery runs only after a `runOnce` that threw nothing (`worker.ts:30`), and an
  event whose secret does not decrypt (`WD:33`) stops every event behind it;
  `EveryEventEnds` excepts those.
* A failure between the request's row and its key (`app.ts:207`) makes the retry
  create a second request; overlapping calls of one client all pass the check
  for an active one (`DS:37`).
* docs/FLOWS.md:141 says creation requires an active callback configuration unless the
  request has a URL and a secret. A URL alone is enough (`DS:184`), the handler passes no
  secret on (`app.ts:194`), and the event needs the configuration (`WH:24`): such a request
  is accepted and never announced. `AnsweredIsAnnounced` names this as its exception.
* A treasury wallet registered again while it is being made the default writes
  back the `isDefault` it read (`P:399`), and no default is left; first
  registrations side by side leave the last one as default, not the first.
* A wallet transaction that went out and whose row could not be inserted is recorded
  as failed, without a hash, and the owner is told it failed (`D:33`); if that insert
  fails too, there is no row.
* Generating a gas wallet again overwrites the address and the only copy of the key
  (`P:550`); what the old address holds cannot be spent any more.
* Transactions that are never mined stay in the worker's list of the oldest 100
  (`W:235`); with 100 of them no later one is resolved.
* In the browser a 401 to a request of an earlier session logs out the new one
  (`UI:355`), overlapping refreshes may leave the older answer on the screen
  (`UI:351`), and the transaction form stays active while its request runs
  (`UI:1215`): a second click sends a second transaction.
* The in-memory repository takes rows that Postgres's unique indexes refuse, and the
  two compare addresses differently; after that they are different databases.

## Not modelled

Revoking API keys, more than one network, token, merchant or treasury in
`Deposits`, the list limits of 100 and 250 in `Settlement` and `Deposits`, the
arithmetic of the tolerance, amounts other than counts, the readiness checks'
details (one step that may fail), generated treasury wallets' keys, the panels of
the dashboard that only read, rendering, configuration, encryption, OpenAPI, QR
codes, RPC encoding, migrations.

## What is left

1. A module of pure functions: tolerance (`W:261`), delay, scan window, amounts,
   against reference definitions at their boundaries.
2. `Deposits` with a list limit below the number of open requests, and with the
   TRON gap as a provider of its own; revoked API keys in `Requests`.
3. An abstract specification of a payment's funds (with the payer, on their way, at the
   treasury, waiting for the owner) that `Settlement` implements, as `Deposits` does
   `Credits`.
4. Proofs: that refinement, step by step, and lemmas for the pure functions.
