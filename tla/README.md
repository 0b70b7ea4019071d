# RawSyst-POS: a TLA+ verification project

This directory holds TLA+ models of the program in `src/`, the TLC
configurations that check them, and TLAPS proofs about them. It has six parts:
a till that sells without a network and must neither lose a sale nor post one
twice; the reporting of its invoices to the tax authority; the transactions that
meet on one store's stock and drawer; card charges through a provider; the
sessions of the back office; and the caches a till sells from.

`tlasany M.tla` parses a module, `tlc -config X.cfg M` checks it, `tlapm M.tla`
checks its proofs.

## 1. The system

A multi-tenant point of sale: a Go server over PostgreSQL (`backend/`), a Tauri
till (`pos/`), two web front ends (`web/`, `web-next/`).

| Component | State it keeps | Operations | What must be true of it |
|---|---|---|---|
| Till queue (`pos/src/offline/queue.ts`, `sqlite.ts`, `useTerminal.ts`) | `queued_sale` rows, a flush in progress per mount of the counter screen | record, flush, mark | no sale lost, no verdict on the wrong sale, no hole in the numbers |
| Sync engine (`backend/internal/sync`, migrations 0016, 0017) | `sync_batch`, `sync_item`, `device_sync_cursor` | Push | once each, in order, a replay gets its answer, the cursor vouches for what is below it |
| Sale finalisation (`sales/`) | invoices, tenders, movements, entries | Finalize, refund, exchange | one invoice per uuid, no return beyond the sale |
| ZATCA chain (`zatca/chain.go`) | `egs_unit.last_icv`, `zatca_invoice` | Reserve, Record, Verify | no gap, no repeat, each link on the one before |
| Devices (`devices/`) | device record, enrolment code | issue, enrol, block, retire | one machine at a time per terminal |
| Jobs and ZATCA submission (`jobs/`) | `job`, submission attempts | enqueue, claim, complete, retry, reap | nothing dropped, one at a time and in order per device |
| Stock (`inventory/`, `stockops/`) | layers, pools, shortfalls, batches | receive, consume, settle, transfer, count | value on hand equals the ledger, no layer consumed twice |
| Money at the till (`shift/`, `settlement/`, `wallet/`, `loyalty/`, `payments/`) | sessions, tenders, entries, attempts | open, close, settle, draw, charge | a session's count covers all its sales, no balance spent twice, no card charged twice |
| Orders, purchasing, receivables | documents and their states | confirm, reserve, receive, bill, allocate | states only move forward, quantities match |
| Accounting (`accounting/`, `fiscal/`) | entries, periods | post, reverse, close | balanced, once per source, never in a closed period |
| Identity (`identity/`) | sessions, refresh tokens | login, refresh, revoke | a token is exchanged once; a replay ends the family |
| Billing (`billing/`) | tenant status | suspend, restore, close | only allowed moves |
| Backup (`backup/`) | base backups, archived log | take, archive, retain, restore | retention keeps what a restore needs |
| Till caches (`connectivity.ts`, `stock.ts`, `catalogue.ts`) | last answer, cached rows, a pull per mount of the counter screen | probe, pull, apply | one probe at a time; the figures become right and are of one warehouse |

How they interact. The till writes a finished sale to SQLite and prints the
receipt; a timer, the reconnection callback and each new sale call `flushNow`,
which pushes the oldest pending sales as one batch over HTTP. The server serves
requests concurrently. One push is one transaction (after a replay check in a
transaction of its own) that calls `FinalizeInTx` for each sale; that takes
a number and, where the market has one, a position on the ZATCA chain, and
enqueues the submission job in the same transaction. Workers drain the jobs. The
till writes what the push said of each sale back to its table.

What makes it hard: awaits between reading the queue and writing it; answers
lost after the server committed; a request served on after its client gave up,
beside the next one; a counter screen left (`App.tsx:289-318`) and shown again, whose
guards are new while its promises go on; READ COMMITTED transactions that wait for each other's rows
and unique values; the process killed at any await; a machine replaced.
Behind the sale: workers that die or are only slow, and an authority whose
answers get lost; a card provider that charges and is not heard; statements of several transactions on the same layers, session
and series; refreshes that cross a revocation; and pulls, messages and renders
that cross each other in the till. `PROJECT.json` lists each such place with its line under `hazards`.

## 2. The models

| Module | Models |
|---|---|
| `SaleVocabulary` | what both sides speak of: sales by uuid, queue numbers, verdicts |
| `TillQueue` | the till's queue. Every `await` ends an action: `DrawSeq` and `Put` are the two halves of `record`; `FlushStart`, `FlushAnswered` / `FlushThrew`, `MarkFailed`, `MarkSettled` the parts of `flush`, each for a mount of the counter screen; `TillRestart` is the process killed |
| `SyncEngine` | `Engine.Push` and what `FinalizeInTx` contributes to it, for one terminal and any number of concurrent requests. `Receive`, `Replay` / `FirstSeen`, `Begin`, then per item `Block`, `Refuse`, `Recognise`, `Admit` + `Ring` / `RingClash` or `Poison`, then `ReadCursor` and `Commit`; `Abort` is a rollback anywhere |
| `OfflineSync` | the two joined by HTTP: `Send`, `GiveUp`, `Deliver`, `Discard`, `Restart`, `Replace` |
| `SaleDelivery` | the promise, with no batches, transactions or faults: a durable sale waits until it is shown as landed or refused, is posted at most once, is shown as landed only if posted, is not overtaken while it waits, and is shown as what it is for good unless two answers about it were under way at once |
| `JobQueue` | the `job` table and its workers. A claim is two steps (`ClaimReads` the snapshot, `ClaimTakes` the row lock); time is the order of `run_after` (`line`, `due`) |
| `ZatcaSubmission` | over it, an invoice's way to the authority: `Ring`, `Attach`, a worker's `Take`, `Read`, `Submit`, `Record`, `Settle`, `Return`, and what goes wrong (`AnswerLost`, `NotAttempted`, `DbError`, `Die`) |
| `CounterBooks` | sales, issues, deliveries, returns, cash movements and the close of a session as transactions of one store, one action per statement, with their row locks |
| `CardCharge` | `Charge` and `Refund` of `payments.go` and what the provider does with their calls: `Look`, `Insert`, `ReadForRefund`, `Call`, `Hears` or `Unreachable`, `Write`; `ChargeWords` and `RefundWords` are what each adapter makes of an answer; `Decide` and `PaidElsewhere` are the provider's |
| `RefreshRotation` | sessions and refresh tokens on the server; a refresh is `ReadToken`, then `SpendToken` or `RevokeFamily` |
| `BrowserSession` | over it, the tabs of one browser with one cookie: `Login`, `Refresh`, `Reload`, `Answer`, `Drop`, `Logout` |
| `StockCache` | the till's stock figures: `pull` and `apply`, each `await` a step, over a ledger that moves, for the mount shown and those left |
| `TillCaches` | over it, the connectivity monitor and the hook that opens the store, renders and refreshes; `Remount` leaves the screen and comes back, `PullLeft` and `ProbeLeft` are what goes on behind it |
| `MC...` | instances for TLC |
| `...Proofs` | lemmas about the operators, and the theorems; those of the till's queue are in `OfflineSyncProofs`, those about sums, waiting and units owed in `CounterLedgerProofs` |

Some correspondences worth knowing:

* **Mounts.** The guard against overlapping flushes is a ref of one mount of the
  counter screen (`useTerminal.ts:130-135`). Leaving the screen and coming back
  makes a new mount that flushes at once, while the old one's push has no timeout
  (`client.ts:240`) and its answer is written by `seq`. `flush` is a function of
  the mount; one at rest is a free name. `crossed` is history: the numbers that
  two flushes had in hand at once, `contested` in `SaleDelivery`.
* **Rows and locks.** `sync_item` is `item`; what a transaction has written and
  not yet committed is `Written(s)`. A write waits for another open transaction
  that holds the same row or unique value (`RowLocked`), that has counted on the
  cursor row through the trigger of migration 0017 (`CursorHeld`), or that holds
  the store's invoice counter (`CounterLocked`). Statements see what was
  committed when they started.
* **The settled row.** `recordItem`'s upsert leaves a settled row alone and gives
  any other the new batch. This is why a replay (which reads the rows a batch
  owns *now*) need not give the original answer; `Replay` models it so.
* **Verdicts.** Why a sale is refused (pricing, stock, tenders, a cashier
  switched off) is abstracted to a choice; what is kept is *when*: the checks
  that come before `alreadyRung` can hit a sale that is already in the books,
  those after it cannot. `GateShuts` says whether the first kind can happen.
  `OnAChain` says whether the company's market has a chain: `alreadyRung` joins
  `zatca_invoice` and finds nothing off one.
* **Reporting.** A worker ends its job by id alone, so `Finish` and `Retry` do not
  ask who holds it. `DescribeStatus` reads a 409 as a rejection; `DuplicatesRefused`
  says whether the authority answers a repeated document so. Attempts that brought
  no verdict are `"unheard"`: rows nothing reads. Jobs are numbered as they commit,
  which the row lock on the chain makes the order of the ICV.
* **The books.** `held` and `want` are row locks; a statement sees what was
  committed when it began and what its own transaction wrote, waits for its rows
  and reads them again (`Got`). What a transaction draws from others' rows
  (`drawn`) and posts (`posts`) shows at `Commit`. A row of layers carries the
  number of the transaction that made it, since `received_at` is the start of the
  transaction. `blind` remembers which items a transaction took with no pool row to
  lock. A close locks the session for update, all else shares it (`Conflict`).
* **Card charges.** A request is a handler, `adapter` the gateway of an attempt.
  `wire` is what the provider did with its call and answers, heard or not; `Words`
  turns an answer into a status as the adapter does. The five hosted-page adapters
  know no word for a paid charge, so theirs never reads captured and is never
  refunded. `accepted` stands for whatever becomes of a refund later. `cut` is
  history: the attempts whose handler died after the row was written. Attempts do not touch each other's rows, so one uuid shows
  all that several would.
* **The browser.** `doubt` is history: the tokens that two refreshes may carry for
  a reason the program accepts. `asker` is the tab that still awaits an answer.
* **The till's caches.** `closure` is what the `refreshCatalogue` in use was built
  over, since a callback keeps the values of its render. Mount 0 is the screen
  shown. A stopped monitor's last probe can still ask for a refresh (`late`).
  `crossed` is history: `"store"` once a pull has outlived its screen, `"memory"`
  once a change of warehouse has come between a message's last read and its
  `held.set`; a change of warehouse that nothing crosses takes the mark away.
* **Mutant operators.** Definitions introduced by the comment "A slip" are
  not part of any specification. Each is a plausible mistake in the definition
  next to it, kept to show that a property notices it.

What is abstracted: one terminal, one entity type (the API registers only
`sales_invoice`), payloads and amounts, the first eight characters of a
uuid in the batch key stand for the uuid, the human invoice number and the ICV
are one counter, a number that overflows SQLite's integer.

In `JobQueue`, one kind of job, one priority, no limit on attempts (what
submission asks for). In `CounterBooks`, FIFO costs and a company that lets sales
go below zero; one warehouse, till and store; a document names an item once; a
statement takes all its rows together; `SettleShortfalls` locks holes and layers
in one statement; a sale's own number and chain row, which it takes after its
stock, are left out; the sale a return is made against may be one from before
the instance, of one unit. In `CardCharge`, amounts, the gateway's settings and the
form of each adapter's messages; a call is acted on once at most. In `StockCache`, a message is one unit going out, and
a pull lists every item of the warehouse. In `TillCaches`, the customer book and
the stationery are left out of a refresh, the back-off has no length,
the monitor of a signed-out till is the one of a restarted till, and a refresh left
before its pull has asked is not told apart from one that has.

## 3. What the runs check

| Run | Question | Instance |
|---|---|---|
| `MCSyncEngine` | is the engine right for overlapping pushes on its own, and does each push end? | 2 pushes at once drawn from 5 overlapping ones (same numbers with other sales, same sale under other numbers, one key for two batches), aborts, refusals; 80,286 states |
| `MCOfflineSync` | does the pair keep its promise to the shop? | 3 sales, 2 numbers, 2 mounts whose flushes overlap, 2 pushes served at once, gate may shut, 1 replacement; 718,610 states |
| `MCOfflineSyncCalm` | does every sale get somewhere, and is a refusal true? | 1 push at a time, 3 sales, 3 numbers, batches of 2, faults that stop; 23,747 states |
| `MCZatcaSubmission` | is every invoice reported, once decided as the authority decided, whatever dies? | 2 invoices of one device, 2 workers, slow ones reaped; 643,827 states |
| `MCCounterBooks` | do stock, ledger, drawer and returns agree however the transactions interleave? | 2 items, 3 transactions of any kind, 2 documents of 2 lines, items stocked, short or new; 2,044,060 states |
| `MCCardCharge` | what do retries, lost answers and crossing refunds do to a charge? | 1 uuid, 4 requests of any kind, any adapter; 198,088 states |
| `MCBrowserSession` | what do lost answers, several tabs and revocations do to a session? | 2 tabs, 2 requests at once, 1 sign-in, 4 generations; 173,247 states |
| `MCTillCaches` | do the figures become right, and stay of one warehouse? | 1 item, 2 warehouses, 1 message applied at a time, 2 movements, 1 restart or return to the screen; 1,406,360 states |
| `Find...` | the four disagreements below | the smallest instance that shows each |

Properties, by what they guard:

* *numbers and verdicts on the till*: `NumbersRunOn`, and `InFlightIsPending` and
  `VerdictIsKept`, which except the numbers two flushes crossed on;
* *the books*: `NoSaleRungTwice`, `ChainUnbroken`;
* *what the server tells the till*: `CursorVouches`, `VerdictStands`, `EveryPushEnds`;
* *both together*: `SettledIsRung` (shown as landed implies in the books),
  `KeyNamesOneBatch` (a replayed key is about the same sales),
  `OnlyRefusedAreOvertaken`, `FirstMachineOnRecord`, `MayDiscardToCursor`,
  `RefusedIsNotRung`, and `DeliversSales`, which says that every behaviour of
  `OfflineSync` is one of `SaleDelivery` under the mapping at the end of that module;
* *progress*: `EverySaleReachesTheServer`;
* *reporting*: `NeverDropped`, `SettledByAuthority`, `SettledOnRecord`,
  `FirstTriedInOrder`, `EveryInvoiceSettles`;
* *the store's books*: `FrozenIsComplete` (no cash lands in a session after its
  count), `TieOut` (valuation equals ledger), `DrawnOnce`, `NoHoleBesideStock`,
  `NeverOverReturned`, `SalesQueue`;
* *card charges*: `ChargedOnce`, `RowTellsTrue` (captured
  means taken, refunded means sent back, or for Moyasar and Tap that a refund was
  answered without an error), `EveryAttemptAnswered`;
* *sessions*: `ExchangedOnce`, `LateTokensAreDead`, `ReplayHasACause`, `EndedIsNoticed`;
* *the caches*: `OneWarehouse`, `CacheCatchesUp`, `KnowsItsConnection`, `CatalogueArrives`.

**Bounds.** `MaxSeq` bounds the numbers, `Sales` the sales, `Sessions` the pushes
served at once, `Mounts` the flushes that overlap, `MaxReplacements` the machines. Two
pushes and two mounts are enough for every race the code has, since each is between
two transactions or two flushes. In `MCOfflineSync` two numbers and three sales give a
batch that grows between two attempts, batches that overlap in part and, after a
replacement, other sales under the old numbers. `MCOfflineSyncCalm` has three numbers and
batches of two, a backlog over the batch size, with one mount; a backlog
with overlapping flushes rests on the proofs. The key set is what
`BatchKey` can yield. Symmetry (sales, sessions, mounts) is used in
`MCOfflineSync` alone, which checks no liveness property.

In reporting two invoices of one device are the least that has an order, and two
workers the least whose claims cross or who run one job together. Three
transactions let two deliveries meet a sale, two sales meet a delivery, and a sale
and a return meet the close; `OldCost` and `NewCost` differ so that a correction at the
wrong cost shows in `TieOut`. Four requests let two charges race for one uuid and two
refunds of the charge cross; which adapter they go through is any. A token of generation `MaxGeneration` counts as
expired, so two exchanges and a replay fit before it. `MaxMoves` bounds what happens to
the ledger and to the till's branch, `MaxRestarts` the starts of the till and the
returns to its screen, `Slots` the messages applied at once; the till first sells from
`FirstHome`, since the warehouses are alike. The run has one item, one
message at a time and one restart or return. Two messages that lose an update take
a second slot, which with a return to the screen is too much for one run; with
`Slots` of two and `MaxRestarts = 0` the same properties hold of 60,216 states, and the
proof of `OneWarehouse` is for any number of all of them.

**Fairness.** The flush timer fires for ever (`useTerminal.ts:347-355`), so
`Send` is weakly fair, and so are the insert that follows a number, and the
writing of an answer that has come. The server goes on serving what it has
received; it may have to wait for a lock, and Postgres grants a lock to whoever
waited longest, hence strong fairness of `Serve`. Two pushes that wait for each
other are a deadlock, which Postgres ends by aborting one (`DeadlockVictim`).
Faults (lost answers, restarts, aborts) are never required to happen, and in
`CalmSpec` they stop some day, at no particular time: a network that drops every
answer for ever lets nothing through.

Workers poll for ever, the reaper has its ticker, and a terminal uploads what it has
signed (`worker.go:110-153`), hence the weak fairness of `ZatcaSubmission`; its
setbacks stop some day. A handler that charges a card goes on until it is cut off, and its call
ends after 20 seconds at the latest (`payments.go:69-72`). The browser's requests are served and answered or given
up; a tab in use refreshes, strongly fair because a sign-out elsewhere may take
the need for it away again and again. In `TillCaches` the timers of the monitor and of the hook
fire, React renders, awaits end and messages arrive or are missed; nothing is asked of
what a screen left behind. The connection
comes and goes as it likes, and the liveness properties speak of a connection that
stays.

`CHECK_DEADLOCK FALSE` stands in the runs with a till: one that has recorded
every sale of the instance and heard back has nothing left to do, and so is a
queue whose invoices are settled a database whose documents have ended, and a payment service
whose requests are all answered.

## 4. Where the code and its own words differ

1. `FindGap`. Sales behind a refused one are held only within its batch. The
   next batch leaves the refused sale out and applies the ones after it, although
   `queue.ts:26-29` and `sales/replay.go:54-61` say the whole terminal stalls.
   (`OnlyRefusedAreOvertaken` is what does hold.)
2. `FindResendOffChain`. Off a ZATCA chain `alreadyRung` finds nothing, so a sale
   sent again in another batch fails on the unique uuid, and the till shows
   a landed sale as refused (`queue.ts:143-146` promises a duplicate).
3. `FindStockNeverPulled`. The callback that refreshes the till is built over the
   catalogue before the stock cache has been read from disk and, its dependencies
   naming neither the stock cache nor the stationery (`useTerminal.ts:277`), it is
   never built again: the stock figures, which "ride along on the same schedule"
   (`useTerminal.ts:240-243`), are never pulled. What holds, `CacheCatchesUp`, is
   about a till whose callback did get the cache.
4. `FindLostCharge`. A call that fails or times out is recorded as a failed charge
   (`payments.go:660-664`, `adapters.go:214`), though the provider may have taken
   the money; the refund that would send it back is then turned away with "there is
   nothing to send back" (`payments.go:826`), and a retry of the uuid is answered
   with the failure. A refund that fails likewise writes "failed" over "captured"
   (`payments.go:848-856`): the charge stands, the row says it did not happen, and a
   second try is refused, though migration `0102:153` lists "failed" as an end of a
   charge, not as what a captured one becomes.

`RefusedIsNotRung` holds in `MCOfflineSyncCalm`, under its conditions. It fails
in two more ways than the second finding: when a check made before `alreadyRung`
turns against a sale already rung, and when a push the till gave up on rings the
sale between the next push's look and its insert. In the latter case one push
fails on the unique uuid and reports "failed".

Differences with no run of their own, first of the queue. `useTerminal.ts:130-134` calls
two overlapping flushes harmless, and `queue.ts:143-147` goes "without any locking". Those
of two mounts of the screen are not guarded against each other, and `markSettled` and
`markFailed` (`sqlite.ts:603-620`) write by number whatever the row says: an old mount's
late "failed" can replace what the new one's flush has settled, and the other way
round. `InFlightIsPending` and `VerdictIsKept` except just those numbers
(`crossed`). A replayed batch does not
get its original answer (`engine.go:11-12,127-128`): items that belong to another
batch by now are missing. A replacement machine reuses numbers, and the verdicts on
its sales are not recorded (`engine.go:269-271`, `0016:118-120`), which is why
`FirstMachineOnRecord` speaks of the first; for the same reason the cursor it is
sent (`engine.go:80-81`) says nothing about its sales. `docs/system-design/03` §8 says
failed entries retry indefinitely and `engine.go:465` that a failed item can be
retried; `outstanding` reads pending rows only, so the till never sends a failed
sale again. And a batch whose replay answers only "blocked" stays queued under
the same key, with the same answer, until another sale joins the batch.

Elsewhere:

* `zatcasubmit.go:45-48` and `0027:79-82` say a device's invoices are submitted in
  chain order. The order holds for first tries (`FirstTriedInOrder`); a retry is
  put off by its back-off while the next invoice is due, and two claims that cross
  may run two jobs of one key at once.
* With a 409 read as a rejection, an invoice the authority accepted, whose answer
  was lost, is marked rejected by the second try. `SettledByAuthority` therefore
  says of a rejected invoice only that the authority has received it.
* `0019:26` says an over-return is unrepresentable. The trigger adds up committed
  lines; what keeps two returns of one sale apart is that both hold one row of the
  number series (`NeverOverReturned`). Returns at two stores, or across the turn
  of the year, take different rows.
* `finalize.go:577-584` and `store.go:560` say that sales cannot wait for each other in a circle. `SalesQueue`
  holds where every item has a pool row to lock; for items that were never
  received there is none, and two sales meet in document order.
* `client.ts:421-424` says a sign-out holds whatever the network does. One that is
  answered 401 or lost leaves the cookie, and the next page load is signed in.
* `service.go:469-472` takes a spent token for evidence of two holders; two tabs
  of one browser, each with its own single refresh, or one lost answer, look the
  same (`ReplayHasACause` names the cases).
* `alreadyRefunded` (`refund.go:371`) joins the chain as `alreadyRung` does: off a chain
  a credit note sent again fails instead of being recognised.
* Two charges of one uuid at once: the second gets the index's error, not the
  attempt that `payments.go:606-608` promises a retry.
* An attempt the customer finishes on the provider's page stays "initiated": nothing in
  the code asks the provider again or can be told by it.
* `stock.ts:136-144` clears the cache on a change of warehouse lest two warehouses'
  figures meet. `apply` awaits a row before it sets it (`stock.ts:184-185`), so a pull
  in between leaves the old warehouse's figure in memory; and a pull outlives
  its screen, so lines of the old warehouse can follow those of the new one to disk
  (`sqlite.ts:430-449`). Both last until the next change of warehouse or, in memory, the
  next pull or start; `OneWarehouse` excepts just these (`crossed`).
* Five adapters write "refunded" for every answer to a refund below 400
  (`adapters.go:308-311`, 538-541, 628-632, 707-711, 786-789), so one that is pending or
  declined reads as sent back. It is reached through Moyasar and Tap: the hosted
  pages' charges never read captured. Moyasar may also answer a charge "refunded"
  (`adapters.go:291`).
* `stock.ts` calls its pull full; it sends no limit, and the server answers with
  at most 200 rows (`stockops/read.go:217-220`).

## 5. What is proved

`tlapm` proves these for every value of the constants (any number of sales,
concurrent pushes, machines, invoices, workers, tabs, items, warehouses,
transactions, sessions of the till; any batch size and any documents).

| Theorem | Says |
|---|---|
| `TillTypeCorrect`, `NumberingCorrect`, `InFlightCorrect`, `VerdictKept` | the queue's types and its three properties, for any number of mounts whose flushes overlap |
| `EngineTypeCorrect`, `RungOnce`, `ChainCorrect`, `CursorCorrect`, `VerdictsStand` | the engine's types and its four safety properties, whoever pushes what |
| `TypeCorrect`, `KeysCorrect`, `LandedIsRung` | types, `KeyNamesOneBatch` and `SettledIsRung` of the pair |
| `OvertakingIsTold`, `VerdictsOnRecord`, `DiscardIsSafe` | `OnlyRefusedAreOvertaken`, `FirstMachineOnRecord` and `MayDiscardToCursor` of the pair |
| `RefusalsHold` | `RefusedIsNotRung`, for one push at a time on a chain with no gate that shuts (`OneAtATime`) |
| `ImplementsEngine` | every behaviour of the pair is one of the engine alone |
| `ImplementsDelivery` | every behaviour of the pair is one of `SaleDelivery` (`DeliversSales`) |
| `NeverDroppedCorrect`, `SettledByAuthorityCorrect`, `SettledOnRecordCorrect` | three invariants of reporting |
| `SubmissionTypeCorrect`, `FirstTriedInOrderHolds` | the types of reporting and the queue under it, and the order in which invoices are first tried |
| `CardTypeCorrect`, `ChargedOnceHolds`, `RowTellsTrueHolds` | the types of card charges and their two invariants, through any adapter |
| `BrowserTypeCorrect`, `LateTokensCorrect`, `ReplayCorrect`, `ExchangeCorrect` | the browser's types and three properties of rotation |
| `CacheTypeCorrect`, `OneWarehouseCorrect` | the caches' types and `OneWarehouse`, await by await and for any number of mounts |
| `FrozenIsCompleteHolds`, `NeverOverReturnedHolds` | the two properties of the store's books that rest on a lock held from a read to the commit |
| `DrawnOnceHolds` | no row of the stock is drawn past what it has, however many documents draw at once |
| `BooksTypeCorrect`, `TieOutHolds` | the types of the store's books, and that the valuation of the rows is the account |
| `SalesQueueHolds` | sales never wait for each other in a circle |
| `NoHoleBesideStockHolds` | no shortfall stands open beside stock, but for the two reasons the property names |

Assumptions: `SaleAssumption`, `TillAssumption`, `EngineAssumption`,
`SyncAssumption`, `QueueAssumption`, `RotationAssumption`, `BrowserAssumption`,
`StockAssumption`, `RestartAssumption`, `BooksAssumption`, `CardAssumption` (distinct model values, positive bounds, the
keys include what `BatchKey` yields; of the items of a store that they are
finitely many and have an order, which is the uuids' in `LockStock`, so they are
written as numbers). TLC evaluates them in every run.

The argument, one inductive invariant per module.

*The till* (`QueueInv`): that the used numbers have no hole is not inductive,
because a number is drawn in one step and inserted in another while other
records go on; `DrawnIsReached` adds that every number below a drawn one is in
use. `InFlightIsPending` needs `HandsCross`: two mounts have no number in hand but one that is
`crossed`, since a flush that starts reads pending rows and marks what others have of
them, and only `Mark` changes a pending row, which it then strikes. So where a
write meets a row that has its verdict, another flush had the number too
(`KeepsVerdicts`).

*The engine* (`BooksInv`, then `CursorInv`): what a transaction has rung is not
yet in the tables, so the invariant speaks of both. Only an open push has rung
anything (`RungInOpen`), at most one at a time, since it holds the counter until
it ends (`OneRings`), and its numbers run on from `lastNo` (`NumbersFollow`): from
these follow that no uuid and no number occurs twice, and that a rollback leaves
no gap. `CursorInv` adds that settled rows (`ItemRung`) and settled verdicts
(`VerdictRung`) are about sales in the books or in the push's own open ones, and
that what an open push has read for the cursor is still true when it commits
(`UptoHolds`), because a settled row is never rewritten.

*The pair* (`SyncInv`): `SettledIsRung` is not inductive. What the till writes
down comes from the session that carries its flush; that session serves exactly
the rows of the flush (`FlushInv`), and what it answers is true of its own items
(`AnswerInv`). For a replay that needs the rows of `sync_item` to be about sales
of the batch they name (`ItemOfBatch`) and the batch found under the key to be
the batch that was sent (`KeyNamesOneBatch`). That, in turn, is not inductive:
the key has only the ends, the first sale and the length, so two batches with the
same key could differ in the middle. `SentInv` excludes it: as long as the first
sale of a batch sent is on the till, the numbers between its first and its last
are in use and what is still pending among them is what the batch carried.
`TableInv` keeps a sale under one number and out of a second life after a
machine is replaced. The pair then implements the engine step by step, since
every push it receives carries a key in `Keys` and at least one item.

*Order and evidence* (`OrderInv`, on top of `SyncInv`): that nothing waiting is
overtaken needs both ends. A push serves in order, so a sale it has rung follows
settled verdicts only (`InOrder`); and as long as its sales are on the till, it was
read off this very table with everything still pending before them (`ReadOff`), so
a waiting sale of a lower number is in the same push. `NewInBooks` puts the two
together at a commit. A sale recorded later takes a later number (`NumbersRunOn`)
and cannot be in the books already (`Rung \subseteq recorded`). `EvidenceInv` says
that a verdict answered, being written down or shown has its row in `sync_item`;
on the first machine all that was sent is still in the table, so the row is about
that sale. `SaleDelivery` then follows action by action (`DeliveryStep`): a record
is `Enqueue`, a flush that starts `Contest` (of no number, as a rule, which is a stutter), a
write of verdicts `Land` or `RefuseOne`, which may rewrite a contested number, a
commit `Post`, a replacement `Abandon`, everything else a stutter.

*Refusals* (`RefusalInv`, on top of both): `RefusedIsNotRung` is false of two pushes
at once (one refuses a sale that the other, given up on, still has before it), off a
chain (`FindResendOffChain`) and where a check before `alreadyRung` can turn against
a sale in the books. `OneAtATime` excludes the three, by hypotheses on the constants
that `MCOfflineSyncCalm` satisfies. Then what a push has refused it has not rung, and
what it is about to ring is new to the books, so the unique index never turns it
away (`RefusedHere`); a row of `sync_item` that says failed is about no sale in the
books (`RefusedOnRecord`), which needs that a sale is sent under one number in
every batch and every life of the terminal (`OneNumber`); and while a push is served
its rows wait on the till (`ServedWait`), since the next one starts only when the
answer of the last is written down (`MarkAlone`).

*Reporting* (`ReportInv`): that no invoice is dropped needs what every worker at
its last step relies on: one about to complete or fail its job has a settled
invoice (`EndsSettled`), one that heard a verdict heard the authority's
(`HeardRight`), and one about to settle has it on record (`SettlesOnRecord`). A worker whose job was
taken over keeps its part, because an invoice once settled stays so.

*The order of first tries* (`OrderInv` of `ZatcaSubmissionProofs`): claims are made
from what a worker has read, which is stale when it takes the row lock. So the
order has to hold of the line as it is (`Orderly`: every invoice never claimed is
due, once, and they stand in the order of their numbers) and of every worker's
reading (`ReadInOrder`: an untried job comes with the untried ones of its device
before it). The first pending one among those read is then the first untried one
of its device or has been tried. A job put back into the future goes behind
everything due and has been tried, so it disturbs neither. Claims read through `Only`,
a recursive function, since no backend can expand `SelectSeq`; the lemmas on
`Only`, `RemoveFirst` and `InsertAt` say what becomes of the places in a sequence.

*Card charges* (`CardInv`): a charge that may call or has called has its row
(`ClaimInv`), so the next one under the uuid finds the row and stops; what a handler is about to
write of money is what the adapter made of what its call came to (`ResultInv`), and money once
taken or returned stays so. That a row of a hosted page never reads captured, and so is
never refunded, is `HostedInv`.

*The browser* (`BrowserInv`): a family is a chain, each token spent before its
successor exists (`FamilyInv`). A request in its second half carries a token that
was good when read, and one that is late was issued after it (`RequestInv`), so it cannot
be read as good. For `ReplayHasACause`, the cookie is unspent, or its spending is
still to be answered, or it is in doubt, or its session is over; the rest follows
who awaits what.

*The caches* (`CacheInv`): `OneWarehouse` needs what messages being applied and pulls
under way may still write. An UPDATE makes no row, so what a message writes to disk
is harmless whatever came between, and once its screen is left it sets no figure
(`TaskInv`). The lines of a pull are for the warehouse its mount has just taken for its own
(`PullInv`); before the rows are read from disk the mount has none, holds no figure
and pulls nothing (`OpenInv`, `Bare`). `CrossInv` is about the steps between: while
some left mount may still pull, the store is marked; a store cleared unmarked is
empty until the shown mount writes to it; and a message about to set a figure has one
of the till's own warehouse unless a change of warehouse overtook it, which
leaves the mark that the property names.

*The store's books* (`BooksInv` of `CounterBooksProofs`): both properties speak of
committed documents only, and neither is inductive. A document between its first
statement and its commit holds its session, which is open (`SessionInv`), and no
two transactions hold a row in modes that conflict (`LockInv`): so no document is
under way in a session whose close has counted it, and the count a close carries
(`figure`) is still the drawer's when it commits. A return that has its number
holds the series and still fits (`ReturnInv`): another one that lands first would
have to hold the series too.

*The store's stock* (`StockInv`): `DrawnOnce` speaks of what is left of a row when
transactions have committed, and needs what those still under way are about to
take. What a transaction has drawn it has locked, and there is that much of it
(`DrawInv`); with `LockInv`, no two have drawn from one row, so a commit leaves
what the others counted on. A row of its own is drawn from only by the line that
made it: an item is on one line of a document (`OneLineEach`), so an insert never
overwrites a row somebody has drawn from (`InsertFresh`).

*What the books are worth* (`MoneyInv`): `TieOut` compares two sums over the rows
with an account that is written once per document, at its commit. In between a
document owes what it has moved: `PostsInv` says that what it is about to post is the
worth of its own rows less what it has drawn, at cost, `FreshInv` that
a row of its own comes from a line it is done with, so an insert adds a row and never
replaces one. A commit adds the same to both sides. The sums are
over sets, so the lemmas first show that `SumFunctionOnSet` of a union, of a
pointwise sum and of a change at one place is what one expects. They are induction
over the subsets of a finite set, which is written with a collection of subsets in
the place of a predicate and rests on well-foundedness.

*Who waits for whom* (`QueueInv`): a sale goes through its items in their order,
takes an item's pool row, then its layers, and holds all it took. Sales that found
their pool rows wait for each other on a pool row only (`SaleWaits`), since nobody
reaches the layers without it; and the one waited for holds that row while it
asks for a later one, or asks for none. So whom a sale waits for, and whom they wait for,
are all further on than itself: a closed set it is not in. `OnCycle` is written as
membership in every set closed under waiting: the provers have no transitive closure.

*Units owed* (`OwedInv`): that no hole stands beside a layer is not inductive, since a
delivery writes its layer before it settles, and a sale its hole before it commits.
`DebtInv` says of each transaction under way that a hole of its own comes with the
item's goods all drawn (`Spent` of `Goods`), that a layer of its own comes with
the debts all settled or the goods all drawn once it is past the item's `Settle`, and
that the pool row it holds keeps either so until it commits. Whoever could add to the goods or to the
debts meanwhile would need that row. Sales that found no pool row (`blind`) and
the layers returns bring back are the two exceptions the property states.

Model-checked only: the liveness properties, which with ENABLED are beyond the
prover. Every invariant of the passing runs is stated by a theorem.

## 6. What is not modelled, and the plan

Everything `PROJECT.json` lists as `not_modelled`, and the parts the notes of the
others name. What would come next, in order:

1. The stock of `CounterBooks` with weighted average costs, batches and the policy
   that blocks, and with returns at two stores.
2. `Wallet` and gift balances, and what a tender makes of a card charge.
3. `ZatcaChain`: hash links and terminal-signed positions.
4. The catalogue's cursor under late commits; the customer book.
5. `DeviceLifecycle`, `TenantLifecycle`, orders and reservations, webhooks on the
   job queue, backup retention.

Arithmetic (pricing, tax shares, fee allocation) will be checked as pure
operators over bounded inputs where a module needs it. Screens, reports,
reference data and deployment scripts are left out: they keep no state of
their own that a step of another actor could disturb.
