# TechMo, specified in TLA+

TechMo runs a chain of phone shops: a till, a stock, loyalty points, repair
tickets, warranty claims, transfers between branches, staff and payroll. It is a
set of small services, each with a database of its own, that call one another over
HTTP, and a web application that keeps state of its own in the browser. This
directory specifies the parts that change shared state, checks the specifications
with TLC on small instances, and proves theorems about them with TLAPS for every
instance.

Paths below are relative to the repository.

## 1. The system

### 1.1 Three patterns

**Read, decide, write.** Nearly every handler has the same shape, and it decides how
the modules look:

1. `findUnique`/`ensureExists` reads a row (in auth-service, the persistence layer; in
   the gateway, a key of Redis);
2. the handler checks it (a status, an available quantity) and computes what to write;
3. often it awaits something else: another service, a PDF, a password hash, a count;
4. it writes, in a transaction of its own, without looking at the row again.

PostgreSQL runs at READ COMMITTED and nothing locks a row, so any other handler may
commit between 1 and 4. A handler is therefore (at least) two actions: a read half
that stores what it saw (`call[r]`, `task[c]`, `asked[c]`, ...), and a write half that
acts on it. A write is one action because it is one statement or one `$transaction`.
Between the halves a handler may be lost (`RequestLost`, `HandlerDies`, `CallLost`, ...):
the process dies, or the database refuses.

**Count plus one.** Order, invoice and ticket numbers come from a `count()` that may be
stale when the row is inserted; only a unique column refuses the duplicate.

**A page that is older than the data.** The till, the stocktake and the warranty page
decide with the state of the render they were called from, wait for answers, and then
change the state of by then. Pages are closed and reloaded while requests run: what is
under way is forgotten by the page and carried out by the server all the same.

### 1.2 Components

| Component | State | Operations | Talks to | Hard part | What makes it correct |
|---|---|---|---|---|---|
| inventory-service: stock | quantity, reserved, movement rows | adjust, reserve, deduct, release, low-stock scan | worker (mail) | check and write are apart; mail is fire-and-forget | no reservation lost; overselling bounded; quantity not negative; low stock is reported |
| inventory-service: transfers | transfer row and status, branch stock | request, approve, reject, dispatch, complete, cancel | n8n | two handlers on one status | stock moves exactly with completions; nothing moves unapproved |
| inventory-service: batteries, lead times | alerts | daily scan, reports | - | - | one open alert of a kind per batch |
| order-service: orders, invoices | order row, invoice row | checkout, complete, void | inventory, loyalty, product, worker | no transaction around several calls; partial failure | orders stand on reserved units; numbers in sequence; an invoice means the order was completed |
| order-service: reservations | status, expiry, order | create, list (expires), cancel, convert | till | status overwritten untested | a conversion names the order of its sale, once per load |
| loyalty-service: points | balance, tier, ledger | earn, redeem, adjust | order-service | stale total and tier | ledger = balance; tier earned; overdraft bounded |
| loyalty-service: sign-in | customer row, one-time codes | login, refresh, logout, codes, reset, change | mail | read-modify-write | a code works once; failures are counted; an ended session stays ended |
| loyalty-service: reviews | review rows | submit, withdraw, moderate, feature, delete | mail | two handlers on one review | one open review of a thing; what is featured is approved |
| repair-service: tickets | status, signature, courier, history | check-in, status, two signatures, courier, parts | worker (PDF), inventory | a PDF is rendered between check and write | status = history; a signature follows readiness; numbers |
| repair-service: courier tracking | in-memory cache | track | carriers | stale cache | an error is not kept |
| hr-service: payroll | payroll rows | calculate, adjust, approve, pay | order-service | an HTTP call between check and write | net pay explained; status workflow |
| hr-service: attendance | attendance rows | clock in, clock out (two ways) | payroll | two punches at once; midnight | one open record of a day; hours written once |
| hr-service: employees, shifts | rows | create, update | - | employee codes are counts | - |
| product-service: devices, claims | IMEI register, claims | register, sell, status; claim, approve, reject, resolve | warranty page | eligibility checked early; status overwritten untested | one active claim of a device |
| product-service: the rest | catalogue, votes, prices | edits, votes | search index | - | - |
| auth-service (Java) | users, refresh tokens, audit log | login, refresh, logout, change, reset, (de)activate | - | the whole row is written back; rollback rules; token rotation | what a handler set stays; a token is exchanged once; a sign-off ends tokens |
| gateway: passkeys | challenges, one document per user, in Redis | register, login, delete | browser | one document read and written back; challenge read and deleted in two commands | a challenge confirms one call; no passkey lost |
| gateway: the rest | counters of requests, lockdown keys, in Redis | throttle, lockdown, guards, proxy | all services | a counter and its time to live are two commands | a stretch of time sees at most twice the limit; nobody is refused who did not exceed it |
| worker-service (Python) | none | render, send | SMTP | loses mail | - |
| admin app: till | cart, saved cart, offline queue, linked reservation | look up, PIN, edit, checkout then complete, convert | order-, product-, inventory-service | lookups and edits interleave; retry after a half-done sale; a page left while it sells | the cart is what was rung up; the total shown is charged; a sale is recorded once |
| admin app: stocktake | sessions and scans in IndexedDB | start, scan, sync, end | inventory-service | sync and scan interleave; reload | no scan is stranded; sessions count their scans |
| admin app: other pages; customer and marketing apps | - | - | services | - | - |
| deployment | - | - | - | - | - |

### 1.3 What is hard to test here

`PROJECT.json` lists forty hazards at their lines, each with the properties that would
catch it. In short:

* a check that is stale by the time its handler writes (stock, points, every status, a
  whole user row, a document of passkeys);
* several calls without a transaction around them (checkout, completion, void; create and
  complete at the till), with failures that are logged and ignored;
* a process that dies between two writes, a page that is reloaded between two requests;
* two handlers that take the same number, the same code, the same token, the same challenge;
* an answer that comes late, to a page that shows something else by now; a callback that keeps the state it was made with;
* a mail that is lost, a queue that nobody empties, a counter that never expires.

Further ones, for which there is no property:

* movement rows are unsigned and cannot be added up (`inventory.service.ts:149`);
* employee codes are counts (`employees.service.ts:10`);
* a vote toggled twice by two statements (`compatibility-votes.service.ts:21`);
* the two lockdown keys, of which only the reason expires (`lockdown.controller.ts:39`);
* errors of carriers that are cached (`courier-tracking.service.ts:86`);
* a status change that writes back the cost it read, and a signature that writes back the
  notes it read (`repairs.service.ts:199`); `addParts`, which logs a refused stock adjustment
  and stores the parts all the same (`:241`); failure statistics over `completedAt`, which only
  the signing handlers set (`:502`);
* a transfer requested twice (`transfers.service.ts:37`);
* an earning delivered twice: the reference is not compared (`customers.service.ts:110`);
* points that give a discount at checkout and are never redeemed (`orders.service.ts:37`).

## 2. The modules

    Numbering      what a series of document numbers promises     <- Orders, Repairs
    Workflow       what a document with a status promises         <- Repairs, Transfers, Payroll
    Inventory      stock records of inventory-service             <- Orders (INSTANCE)
    Orders         order-service on top of Inventory
    Repairs        repair tickets
    Transfers      transfers between branches
    Accounts       sign-in of a customer           \
    Loyalty        points and tiers                 |
    Reviews        reviews of a customer            |
    StaffAccounts  staff accounts and tokens        | <- MCServices
    Attendance     attendance of an employee        |
    Payroll        payrolls of an employee          |
    Devices        a device and its claims          |
    Throttle       rate limit of an address        /
    Cart           cart and totals of the till     \
    Checkout       the sale, the queue, reservations| <- MCTill
    Stocktake      stocktake page and its database  |
    Passkeys       passkeys of a user              /
    MC*            instances for TLC

    InventoryProofs, OrdersProofs, RepairsProofs, TransfersProofs, LoyaltyProofs
                   theorems and proofs of the module each is named after
    ServicesProofs theorems and proofs of the parts of MCServices and of their composition
                   (Loyalty is proved in LoyaltyProofs, which it extends)
    TillProofs     the same for MCTill
    SumTheorems    sums over finite sets, for the ledgers and totals

Names in the modules that `MCServices` and `MCTill` extend carry a prefix (`LoyaltyInit`,
`PayrollNext`, `StaffTypeOK`), because one module extends them all.

**Variables that are not in the code.** Each module says which they are. Two kinds: histories
(`log`, `past`, `ledger`, `rung`, `keys`, `meant`, `wrong`, ...), to say what the state should be; and
records of overlap (`raced`, `crossed`, `rushed`, `overtaken`, `jostled`, `strayed`, `revived`, `mingled`,
`twice`, `contested`, `doubled`, `late`, `miscounted`, `lapsed`). The code has no lock anywhere, so nearly every
promise of it fails when two calls overlap in one particular way. A property of the form "at most
one" would be false, and a property weak enough to be true of every race would say nothing. The
modules therefore record the one overlap that explains a failure, as narrowly as it can be put, and
the property says that nothing else ever breaks the promise: no loss of a call, no order of calls, no
other overlap, no reload. (`lapsed` records a counter that was a tick old without its time to live, `insisted` a
review whose flag a moderator asked for although it is not approved.) No action decides by them, except that `loads` bounds an instance.

### Inventory

`stock[i]` is the row (`quantity`, `reserved`), `movements` the rows of `stock_movements`,
`phase[r]`/`call[r]` where the handler of request `r` is and what it carries, `sending` and
`outcome` the low-stock mails. `AdjustStock`, `ReserveStock`, `DeductReserved` and
`ReleaseReserved` are the read halves, `AdjustCommit` ... `ReleaseCommit` the transactions.
`AdjustCommit` writes the absolute quantity it computed from its read (`data: { quantity:
newQty }`), the others increment: that difference is what several properties turn on.
`AlertIfLow` puts a mail on its way after the transactions of adjust and deduct;
`AlertAccepted`/`AlertFailed` are the worker's answer, `DailyLowStockScan` the cron job.

Only reserve has a DTO that asks for an integer of at least 1 (`Quantities`). The bodies of deduct and release are typed
inline (`inventory.controller.ts:96-113`) and checked by nothing: `BodyQuantities` is any set of integers, with a
negative one in the run. A negative deduction raises quantity and reserved and writes a negative SALE_OUT row
(`Movement`); a negative release reserves without looking at what is available. `OversellBounded` therefore counts
what such releases added (`Unreleased`) into its bound.

Two properties end with an event: `QuantityNeverNegative` with the first deduction and
`OversellBounded` with the first adjustment (`Committed`). They have to. A deduction that read 2
reserved units may decrement after an adjustment wrote 0, and an adjustment lowers the quantity
below what is reserved, without a bound. In the code today order-service takes the record id of
`deduct` and `release` from `item['inventoryId']`, a column that `order_items` does not have
(`orders.service.ts:96`), so these calls name the record `undefined` and reach none; adjust and
reserve are the handlers that do reach records.

### Orders

An HTTP call to order-service is a handler `h` that stands at an await `at[h]` and carries
`job[h]`. Its calls to inventory-service are requests `<<h, k>>` of an instance of `Inventory`
(`k` is the line of the order), so the interleavings of `Inventory` are those of `Orders` too.
Handlers: checkout (`BeginCheckout` ... `InsertOrder`), completion (`BeginComplete` ...
`InsertInvoice`), void (`BeginVoid` ... `VoidInvoice`). A reserve that is refused or lost makes
the checkout throw; a deduct, a release or an earning that fails is logged and passed over.
`StoredInventoryId` is the id that completion and void send: always `UnknownId`. loyalty-service
appears as `earned[o]`, how often it was told to credit an order.

### Loyalty

`customer[c]` is the row (points, tier), `ledger[c]` its `loyalty_transactions`. Each write
increments the balance, but the tier and the `balanceAfter` of the ledger row come from the
earlier read. `balance` in a ledger row is the balance after that commit; the code does not
store it.

### Repairs

`row[t]`, `history[t]`, the calls on them and the number `drawn[t]` of a check-in.
`create` and `kioskCheckin` are `GenerateTicketNumber` and `InsertTicket`;
`updateStatus`, `completeWithSignature`, `signCourierDelivery` and `saveCourierInfo` are read
halves with `StatusCommit`, `SignCommit`, `DeliveryCommit` and `CourierCommit`.

### Transfers

`transfer[t]`, the stock rows `quantity[w]` of one product, and `log[t]`, the statuses a transfer had (the code
keeps the last one; the log is history). Only `sku` is unique, so a branch may have several rows of the product
(`BranchOf`): the `updateMany` of a completion changes each of them by the whole quantity, and one that matches no row is
not an error. The other writers of the rows are here too, `fixing[a]`: `AdjustStock` and `AdjustCommit` are the two
halves of the absolute write of an adjustment, `Deduct` the decrement. `adjusted[w]` is what they add up to,
and `overtaken` has the rows where an adjustment was written over a change it had not read.

### Payroll and Attendance

One employee (payrolls of two have nothing in common), `payroll[p]` per month with `log[p]`,
and `salary`, which `UpdateEmployee` changes while calculations run. `past`, the salaries so
far, is history. `calculate` has three steps: it reads the employee, then the payroll of the
month, asks order-service, and writes. `Attendance` has the sheet of one employee over days:
`ClockIn` looks for an open record of today and `ClockedInWritten` creates one, midnight may fall
between; `FindToday` (by employee) and `ClockOut` (by record) end in `ClockedOutWritten`.

### Accounts

`account` is the customer row (failed logins, lock, verified address, the one refresh token),
`codes` the rows of `customer_otps`. Login counts with what it read (`LoginRefused`), after a
password hash; a code is found (`FindCode`) and marked used (`MarkUsed`) in two statements;
`forgotPassword` spends the old codes (`ForgotPassword`) and makes one (`CreateCode`) in two;
`refresh` compares the token (`Refresh`) and writes a new one (`SessionGranted`) in two.

### Reviews

The rows of one customer about one order or repair. `Take` is the read half of every handler that
names a review; `Moderated` and `Toggled` write by id, without a condition, with the flag that
was read. A delete of a row that is gone fails; so does an update. `Moderate` takes any status with any flag: the DTO ties
neither to the other, so a PATCH may feature a rejected review with nothing racing (`insisted`), or send a
review back to PENDING.

### StaffAccounts

One row of `users` in auth-service and its refresh tokens. A handler reads the row into its
persistence session, hashes a password, and writes every column back if it changed one
(`RowWritten`); a login always does, because it sets `lastLoginAt`. What fails is rolled back, and that
includes the counting of failed logins (section 6). `meant` is the row every commit of its own columns
would have left.

### Devices

One row of the IMEI register and its claims. `Claim` is `checkEligibility`, `ClaimInserted` the
insert; `ShowClaim` is the warranty page that fetched a claim, and `Resolve` one of the buttons it
offers for the status it shows. Months pass (`MonthPasses`) and end the warranty.

### Throttle

`counter[w]` is the key of one address and one of the two windows in Redis: its count and when it expires.
`visit[v]` is a request, with one command at a time for each window, side by side (`Promise.all`): `Incr`, and
for the request that made the counter `Expire`, a second command. `CommandFails` is a command that fails before
Redis has done it or after, or a gateway that dies. `Decide` refuses a request beyond a limit; `FailOpen` lets
pass one whose commands failed.

### Cart

`lines[s]` are the lines of product `s`, `lookup[l]` what a call of `lookupSku` carries while it waits
(it decided with the cart of its render), `camera` the cart of the render in which the camera was started: where the
browser has no barcode detector, the reader keeps that render's callback (`BarcodeScanner.tsx:230`), and `CameraScan`
decides with it. `prefill` is a reservation that is being loaded; when its product was found, `PrefillAdds` replaces
whatever is on the cart. `pending` is the change that waits for a manager's PIN,
`approval[a]` what a PIN validation will apply. `Added` is `addToCart`, with what the call saw.
`ScreenTotals` and `OrderTotals` are the two computations of one total, `calcTotals` in the browser and
`createOrder` in order-service, in cents. Both work on binary fractions and round differently (`Math.round` of a hundredfold,
`toFixed`), so a tax that lies at half a cent may go up or down in each: `Taxes` has both outcomes, and a total is one of a set.

### Checkout

`press[p]` is one run of the checkout mutation: it creates and completes an order, or puts the sale
into the offline queue. `recorded[p]` is what is stored of it in the end; a request that ends without an
answer (15 s) may have been carried out (`Failed`), and so may those of a reload (`Reload`). `left` says that
the page was left while it ran: the callbacks of a page that is gone keep what they last saw.
`linked` is `reservationId`; `reservation[r]` the row in order-service, `listed` what the
reservations page shows with buttons. What is on the cart is the subject of `Cart`; here a cart is the sale it
belongs to.

### Stocktake

`sessions` and `scans` are IndexedDB and survive a reload; `display` is the page, `starting`, `noting` and
`sync` the handlers under way, which do not survive it (`ReloadPage`). `handleScan` has three steps: `HandleScan`
reads the session and its total from the render it belongs to, `AddScan` adds the row, `CountScan` writes the total that was read,
plus one, and raises the one on the page. `SyncBegins` ... `SyncEnds` are the sync: it posts, then stores the answers one
by one, then marks the session. `LeaveStocktake` opens another page of the app: what is under way goes on in the
database and shows nothing any more (`shown`), and the page that is opened next may start a second sync beside it.

### Passkeys

The three keys of a user in Redis: `challenge["registration"]`, `challenge["login"]` and the document
`passkeys`. A verification is four awaits: it reads the challenge (`Verify`), deletes the key
(`DropChallenge`), reads the document (`ReadDocument`) and writes it back (`WriteDocument`). The
cryptography is `@simplewebauthn/server`'s: an answer is to the stored challenge, or refused.

### Numbering and Workflow, the abstract specifications

`Numbering` says of a series of documents: they are numbered 1, 2, 3, ... one at a time, no
number twice, none skipped, none taken back. It is what an accountant expects of invoices; it
is not obvious of "count plus one", where the count is stale. `Workflow` says of a document with
a status: it opens with its first status, and each later status may follow one that it had
before. It cannot say "follows the one just before", because that is false in the code
(section 6). `Orders`, `Repairs`, `Transfers` and `Payroll` implement them under the refinement
mappings written at the INSTANCEs, checked as PROPERTY of the runs and proved.

## 3. What TLC checks

All passing runs finish with complete state spaces.

| Run | Instance | Checks |
|---|---|---|
| `inventory` | 1 record of 2 units, 3 requests of all four handlers, 2 at a time, deductions and releases of -1, 1 and 2, corrections by -2 and +1 | `TypeOK`; `ReservedIsLedger`: the reserved count is what the answered calls add up to; `OversellBounded`; `QuantityNeverNegative`; `LowStockReported` (liveness) |
| `orders` | 2 overlapping carts for 2 items of 1 unit, 3 completions, 1 void, any of them but one checkout may die | `TypeOK` (with that of Inventory), `StockAccounted`, `InvoicedOrdersAreClosed`, `OneCompletionAnswered`, `OrderNumbersInSequence`, `InvoiceNumbersInSequence` |
| `repairs` | 2 check-ins, 5 calls | `TypeOK`, `StatusIsLastEntry`, `SignedWasReady`, `TicketNumbersInSequence`, `HistoryFollowsWorkflow` |
| `transfers` | 2 transfers, 3 branches with 2, 1 and no rows, 3 calls, 1 adjustment or deduction | `TypeOK`, `StockFollowsCompletions`, `LogFollowsWorkflow` |
| `services` | Accounts, StaffAccounts, Attendance (2 days), Devices (3 months, 1 of warranty), Payroll (1 month, 2 salaries) and Loyalty (3 of the calls at a time, threshold 3) with 4 calls each, Reviews with 5; Throttle: 5 requests, 2 at once, the burst window of 2 ticks and 2 requests, 3 ticks | `TypesOK`, `CodesSpentOnce`, `FailedLoginsCounted`, `EndedSessionsStayEnded`, `ReviewsModerated`, `StaffAccountKept`, `AttendanceKept`, `OneActiveClaim`, `NetPayExplained`, `LogFollowsWorkflow` (payroll), `BalanceIsLedger`, `OverdraftBounded`, `PremiumIsEarned`, `ThrottleKept` |
| `till` | Cart: 1 product, 2 units on a line, 2 lookups and 2 approvals at a time, the camera, reservations; Checkout: 1 walk-in, 1 reservation loaded twice, 2 presses; Stocktake: 2 sessions, 2 scans, 2 syncs; Passkeys: 3 calls, 3 challenges | `TypesOK`, `CartIsWhatWasRung`, `TotalsAgree`, `SoldOnce`, `ConversionIsOfItsSale`, `StocktakeAccounted`, `PasskeysKept` |
| `inv_no_oversell` | 2 reserves of the last unit | violates `NoOversell` |
| `orders_deduct` | 1 completion | violates `CompletedStockDeducted` |
| `orders_uninvoiced` | 2 completions of 2 orders | violates `CompletedIsInvoiced` |
| `till_total` | 2 units on a line with a discount of LKR 5 | violates `ScreenTotalIsCharged` |
| `till_queue` | 1 press, requests that end | violates `QueueDrains` (liveness) |
| `till_stocktake` | 1 session, 2 scans | violates `ScansCanBeSent` |

**Composition.** `Orders` composes order-service with `Inventory`, call by call. The modules of `services`
and of `till` share no variable and no handler of one calls one of another, so their product would
only multiply states: a behaviour of `ServicesSpec` or `TillSpec` explores the one named by `part`, and the others
stay as they begin. Every part's complete state space is in the run. `transfers`, `services` and `till` have 1.2 to 1.4 million
distinct states each, the others fewer.

**Why these bounds.** The interesting cases are races, and a race has two or three parties: two
handlers that both passed a check, and one whose write both are blind to. Every run has at least
one more. Records, customers, employees, devices and tickets do not interact except through numbers, so one
of each is enough, and two documents where they compete for numbers. Repairs needs five calls
because the shortest way from RECEIVED to READY_FOR_PICKUP has three and two more must race
there; Reviews needs five because a review has to be submitted, rejected and approved again beside another
submission. `LockLimit` 2 lets an account be locked, unlocked and locked again; two days put midnight between a check
and its write; three months pass the end of a warranty of one.
Throttle has one of its two windows, because they count apart and meet only in `Within`; five requests are one more than twice
the limit of 2, and three ticks are one more than the window. `AtOnce` and `LastTick` bound the instance only. A reservation that is loaded twice is what
`ConvertedOncePerLoad` speaks about; a line of two units is the least that tells a discount per line from one per unit. Two
scans are one to be counted beside one that is added, two syncs the one of the page and that of a page that was left. Two rows
at one branch are the least that are moved twice by one completion. Three stock requests are two that race and one that changed the
record before them.
Quantities of one and two cross every threshold of an instance; LKR 1499 with 10% off puts the tax of `till` at half a cent, the
points exceed the cart, and what is redeemed or taken off may be negative. `MaxInFlight` bounds the handlers that run side by side; it is part of the statement of the two bounds, not
only of the instances (`MaxLoyaltyCalls` likewise). Numbers carry their series only: a day's orders, a
month's invoices and a year's tickets share a prefix, and every instance stays within one of them.
Only the count of orders restarts with its prefix, every day; those of invoices and tickets never do.

**Deadlock.** Every run says `CHECK_DEADLOCK FALSE`: calls are used once and the services only
react, so the system stops when all calls were answered. No handler waits for another one.

**Fairness.** `LowStockReported` assumes weak fairness of the daily scan (a cron job of the
service itself, `@Cron(CronExpression...)`, fires as long as the process is restarted) and strong
fairness of the worker accepting a mail for a record (it may be down again and again, but not
whenever a mail is sent for ever). Under these a record that stays low
is reported again and again although a mail that fails is not retried: the scan is what repeats
it. `till_queue` assumes that the requests of a press end (weak fairness), which the 15 s of the HTTP client
justify; the queue does not drain all the same. Nothing else is assumed: calls need never be made or answered.

## 4. What is proved

TLAPS checks every obligation; there is no unproved step.

| Theorem | States |
|---|---|
| `InventoryProofs!TypeCorrect` | `Spec => []TypeOK` |
| `InventoryProofs!QuantityStaysNonNegative` | `Spec => []QuantityNeverNegative` |
| `InventoryProofs!OversellStaysBounded` | `Spec => []OversellBounded` |
| `InventoryProofs!ReservedStaysLedger` | `Spec => []ReservedIsLedger` |
| `OrdersProofs!OrdersImplementNumbering` | `Spec => OrderNumbersInSequence` |
| `OrdersProofs!InvoicesImplementNumbering` | `Spec => InvoiceNumbersInSequence` |
| `OrdersProofs!TypeCorrect` | `Spec => []TypeOK` |
| `OrdersProofs!InvoicedOrdersStayClosed` | `Spec => []InvoicedOrdersAreClosed` |
| `OrdersProofs!OneCompletionIsAnswered` | `Spec => []OneCompletionAnswered` |
| `OrdersProofs!OrdersImplementInventory` | `Spec => Inventory!Spec`, of the stock records of Orders |
| `OrdersProofs!OrdersOversellBounded` | `Spec => []Inventory!OversellBounded`, by the theorem before |
| `OrdersProofs!StockStaysAccounted` | `Spec => []StockAccounted` |
| `RepairsProofs!TypeCorrect` | `Spec => []TypeOK` |
| `RepairsProofs!StatusIsHistory` | `Spec => []StatusIsLastEntry` |
| `RepairsProofs!SignedStaysReady` | `Spec => []SignedWasReady` |
| `RepairsProofs!RepairsImplementWorkflow` | `Spec => HistoryFollowsWorkflow` |
| `RepairsProofs!TicketsImplementNumbering` | `Spec => TicketNumbersInSequence` |
| `TransfersProofs!TypeCorrect` | `Spec => []TypeOK` |
| `TransfersProofs!TransfersImplementWorkflow` | `Spec => LogFollowsWorkflow` |
| `TransfersProofs!StockStaysExplained` | `Spec => []StockFollowsCompletions` |
| `LoyaltyProofs!LoyaltyTypeCorrect` | `LoyaltySpec => []LoyaltyTypeOK` |
| `LoyaltyProofs!PremiumStaysEarned` | `LoyaltySpec => []PremiumIsEarned` |
| `LoyaltyProofs!OverdraftStaysBounded` | `LoyaltySpec => []OverdraftBounded` |
| `LoyaltyProofs!BalanceStaysLedger` | `LoyaltySpec => []BalanceIsLedger` |
| `ServicesProofs!PayrollTypeCorrect` | `PayrollSpec => []PayrollTypeOK` |
| `ServicesProofs!NetPayStaysExplained` | `PayrollSpec => []NetPayExplained` |
| `ServicesProofs!PayrollsImplementWorkflow` | `PayrollSpec => LogFollowsWorkflow` |
| `ServicesProofs!CodesStaySpentOnce` | `AccountsSpec => []CodesSpentOnce` |
| `ServicesProofs!FailedLoginsStayCounted` | `AccountsSpec => []FailedLoginsCounted` |
| `ServicesProofs!SessionsStayEnded` | `AccountsSpec => []EndedSessionsStayEnded` |
| `ServicesProofs!ReviewsStayModerated` | `ReviewsSpec => []ReviewsModerated` |
| `ServicesProofs!StaffAccountStaysKept` | `StaffSpec => []StaffAccountKept` |
| `ServicesProofs!AttendanceStaysKept` | `AttendanceSpec => []AttendanceKept` |
| `ServicesProofs!OneClaimStaysActive` | `DevicesSpec => []OneActiveClaim` |
| `ServicesProofs!ThrottleStaysKept` | `ThrottleSpec => []ThrottleKept` |
| `ServicesProofs!ServicesImplementParts` | `ServicesSpec =>` the specification of each of its eight parts |
| `ServicesProofs!ServicesTypesStayOK` | `ServicesSpec => []TypesOK` |
| `ServicesProofs!ServicesKeepTheirPromises` | `ServicesSpec =>` every other property the run `services` checks |
| `TillProofs!CartStaysWhatWasRung` | `CartSpec => []CartIsWhatWasRung` |
| `TillProofs!TotalsStayAgreed` | `CartSpec => []TotalsAgree` |
| `TillProofs!SalesStaySoldOnce` | `CheckoutSpec => []SoldOnce` |
| `TillProofs!ConversionsNameTheirSale` | `CheckoutSpec => []ConversionIsOfItsSale` |
| `TillProofs!StocktakeStaysAccounted` | `StocktakeSpec => []StocktakeAccounted` |
| `TillProofs!PasskeysStayKept` | `PasskeysSpec => []PasskeysKept` |
| `TillProofs!TillImplementsParts` | `TillSpec =>` the specification of each of its four parts |
| `TillProofs!TillTypesStayOK` | `TillSpec => []TypesOK` |
| `TillProofs!TillKeepsItsPromises` | `TillSpec =>` every other property the run `till` checks |
| `SumTheorems!SumSplit` | a sum over a finite set is any of its terms and the sum of the others |

They hold for any number of records, calls, orders, lines, customers, tickets, presses, requests and scans, under the
named assumptions of the modules: sets that are counted or added up are finite (calls, transfers, products, visits),
stock starts natural, carts are sequences of known items with at least one line, `MaxInFlight`, `MaxQuantity` and
`LastTick` are positive, names of walk-ins and reservations differ. Quantities in the bodies of deduct and release, corrections,
discounts and redeemed points are any integers. With them every safety property that a passing run checks, invariant or
action property, is proved for every instance.

**The arguments.**

* *Quantity*: an adjustment in flight carries a non-negative result (`CheckedAdjust`), because it
  tested it before; what it writes is what it tested. The inductive invariant is types,
  `CheckedAdjust` and the property.
* *Sums* (`ReservedIsLedger`, `StockAccounted`, `BalanceIsLedger`, `StockFollowsCompletions`, `TotalsAgree`): the
  folds of the community modules are recursive functions of a set, and the library's induction takes an operator as a
  parameter, which the provers cannot instantiate. `SumTheorems` goes round it: it gives the sum a closed form, the
  number of pairs `<<x, k>>` with `k` in `1..f[x]` less those of the negative values, and shows that the fold is this
  number by taking a smallest set for which it is not. What the other modules use follows: a sum is a term and the
  rest (`SumSplit`), and a step that changes one term changes the sum by as much.
* *Ledgers*: a commit changes one row and adds one term with the amount the row changed by, so types and the property
  are inductive by themselves in Inventory and Loyalty (`LedgerInv`). In Transfers the invariant is `TransferInv` and the
  sum, row by row: a completion changes every row of two branches, and one that has no row is no exception; an adjustment
  changes its row by its delta where the row is what it read, and otherwise the row is `overtaken`. In Orders
  `LinesInv` adds what each checkout under way has reserved, line by line: its requests are those of its cart, and the lines before the
  one it stands at are reserved, all of them once it has left the loop (`LinesReserved`). When the order row is inserted its requests leave one sum for the
  other with the same total.
* *Totals*: without a discounted line of several units, a line's charge in order-service is its gross less its discount,
  so sums of lines agree line by line. The rest is arithmetic on the two sums: the screen caps the points at the
  subtotal, order-service does not, and both clamp the difference at 0. The two taxes are then two roundings of one amount
  (`TwoRoundings`), equal but around half a cent.
* *Overselling and overdraft*: a reserve in flight was within bounds when it was checked, but others
  have committed since. The property itself counts those in flight: reserved plus what the reserves
  in flight may add stays below quantity plus `MaxInFlight` of the largest requests. A check
  consumes a place in flight, a commit frees it, and the sum is kept; a release of a negative quantity raises both sides
  (`Unreleased`). This is why the bound mentions
  `Reserving(i)`, and why the plain bound is not inductive.
* *Numbers*: `NumberInv` says that the numbers in use are exactly `1..n` for `n` rows, and that a
  number that a handler has drawn is at most `n + 1`, however old it is. An insert with a number
  that is not taken can then only be `n + 1`: the unique column turns a stale count into a refusal,
  never into a gap. Order and invoice numbers are proved over the whole of `Orders`, deaths included.
* *Invoices* (Orders): `InvoiceInv` adds to `NumberInv` that a completion which is about to insert an invoice has
  closed its order, and one that was answered has inserted it (`Invoicing`). A second completion of the order
  finds the invoice and throws, however late it comes.
* *Orders on Inventory*: a handler always stands at a line of its order (`LineInv`), so each call it makes
  is a call of a known request for 1 to `MaxQuantity` units: a step of Inventory. Its theorems then hold of the
  composition and are not proved again.
* *Premium*: a row that says PREMIUM and every row a handler has read and may write back
  (`SeenPremium`) has its earning in the ledger, which only grows.
* *Statuses* (Repairs, Transfers, Payroll): the invariant (`HistoryInv`, `TransferInv`, `PayrollInv`) has, for
  each call in flight, what its check saw: some entry of the history
  that its status may follow. The history only grows, so a stale check remains true *of the past*,
  which is what `Workflow` and `SignedWasReady` say.
* *Net pay*: every row in the table and every row that a handler carries (`Carried`) adds up with a
  salary of the past, beside a salary of the past; `past` only grows.
* *Unless calls overlapped* (ServicesProofs but for the rate limit, and Cart, Stocktake and Passkeys in TillProofs): the inductive invariants
  say that what a call under way once read is still so, unless the overlap was recorded. A code that a call found is
  still unused and no other call holds it; the counter a login read is the counter; the document a call is about to
  write back is the document; a waiting change of a product saw the units its line has (a camera scan that saw others is recorded when it begins).
  In Stocktake, where handlers outlive their page, the total of a session is the number of its rows but the one that is still to be
  counted, and the one call that is under way carries that number plus one (`Balanced`). "At most one" follows because a
  second call would have had to look while the first was under way, and looking is when the overlap is recorded.
* *A sale is sold once* (Checkout): the property counts, so the invariant does too. `SalesCover`: the presses
  of a sale that finished for the page that pressed, plus one if the sale may still be sold (`Open`: it is on the
  cart, in the saved cart, or being looked up), are at most the times it was loaded. A press can only finish for its page
  while its sale is on the cart (`PageWaits`: one such press at a time, and the page waits for it), and finishing uses
  the one up. Presses that failed or were left are counted by `Mishaps`.
* *A conversion is of its sale* (Checkout): `LinkedIsSale` and `LeftIsSale` carry, for the page and for each press
  whose page was left, that what is linked is what is on the cart or was put aside by a walk-in (`strayed`), and
  `LoadsCover` counts conversions plus the link of the page against the loads.

* *Rate limit* (Throttle): a counter gives each number once while its key lives, so of two requests with one number the
  earlier is a window older than the end of the key that lives (`Spaced`), and of three with one number two are a window apart
  (`ThirdIsLater`). Hence each number of `1..Limit` is given at most twice in a window's stretch
  (`AtMostTwoEach`), and who is admitted has such a number. For the refusals `BusyKey` says that the request that made the counter is the only
  one that may still set its life, and that a counter which has not lapsed has counted no more than the requests since it began.
* *Side by side* (`ServicesImplementParts`, `TillImplementsParts`): a step of the composition is a step of one part
  and leaves the others as they are, so its behaviours are behaviours of each part.

**Only model-checked.** `LowStockReported` is liveness under fairness, which needs ENABLED and is out of the prover's reach, and the
runs that end in a counterexample show what is false. That the assumptions can be met and the properties can fail is
shown by the runs and the mutants, not by proofs.

## 5. Mutants

Definitions whose comment starts with "Mutant" (`KeepChallenge`, `CheckoutTwice`, `InsertInvoiceAnyNumber`, ...)
are plausible bugs of the definition that follows. No specification uses them; `PROJECT.json` pairs
each with the property that catches it.

## 6. Where the code and its words disagree

Six runs end in a counterexample of something the repository says:

* `inv_no_oversell`: "Only N units available", yet two reserves that read the same row both succeed.
* `orders_deduct`: "Complete order: deduct stock, ...", yet no completion deducts anything.
* `orders_uninvoiced`: "... generate invoice", yet two completions that count the same invoices
  leave one order COMPLETED without an invoice, and completing it again is refused.
* `till_total`: the button shows a total, yet order-service takes the discount of a line off each of its units.
* `till_queue`: "On reconnect, the queue drains automatically", yet no code takes an order out of the queue.
* `till_stocktake`: "... then trigger a bulk sync when connectivity is restored", yet a scan made after a sync
  of its session is never sent once the page is reloaded.

Others met while modelling. No run is spent on them; the properties are stated so that they
describe what does hold:

* an adjustment erases an adjustment, a deduction or a transfer that committed after its read;
* deduct and release take any number: a release of -1 raises `reserved` with nothing available (`inventory.controller.ts:110`),
  and a deduct of -1 writes a negative SALE_OUT row, while the reserve beside them asks for at least 1;
* movement rows are unsigned and written for reservations too, so they do not add up to the quantity;
* releases carry the id `undefined` and are ignored: a voided order keeps its reservation, and so does a
  checkout that fails half way;
* a completion in flight overwrites VOIDED, and a void that finds no invoice yet leaves the one
  inserted afterwards valid;
* points are credited while the order is still PENDING and loyalty-service does not compare
  references, so two completions that overlap credit twice though only one of them is answered; redeemed points
  give a discount at checkout, but nobody redeems them (`orders.service.ts:37`);
* `balanceAfter` is not the balance after the row when earnings overlap, two redemptions may overdraw, and
  two earnings that together pass the threshold may both miss PREMIUM;
* a repair ticket may make a transition that VALID_TRANSITIONS does not have (COMPLETED back to
  UNDER_REPAIR), made by a handler that read an older status;
* a product with several rows at a branch moves the quantity of a transfer once per row (`transfers.service.ts:146-155`);
  two confirmations of one transfer move its units twice; `createRequest` has no test for
  duplicates though the comment at `transfers.service.ts:36-38` promises one; no code writes `branchId`
  to an inventory row, so until somebody does a completed transfer moves nothing;
* `calculate` puts a payroll that was approved or paid meanwhile back to DRAFT, and `adjust` changes
  the amounts of one that was approved meanwhile;
* a moderator may feature a review that is rejected or pending (`reviews.service.ts:126`); the public gallery asks for APPROVED
  as well (`:84`), so it does not show there;
* failed sign-ins of staff are never counted: the increment is in the transaction that the exception of the 401
  rolls back (`AuthService.java:47-55`); and a login of staff writes back the whole row it read, also a password or
  a deactivation that was set meanwhile;
* the gateway's logout clears the cookie whatever becomes of its call to auth-service, so a token may stay valid after it
  (`auth.controller.ts:146-159`);
* "Atomically increment a counter and set its TTL" (`redis.service.ts:58`) is two commands: when the second is lost, the
  counter never ends, and the address is refused for ever once it is full. The "sliding" windows of
  `ip-throttle.middleware.ts:8` are fixed ones, which let twice the limit pass around their end;
* no route has `LockdownGuard`, which should be applied globally (`lockdown.guard.ts:9-10`): a lockdown is stored and locks nothing;
* no route calls `markSold`, so no device has a sale date and no claim is ever eligible; the warranty page asks for "IMEI or
  Serial Number" and looks up by IMEI only;
* `stocktake` compares each scan with the whole quantity of the server, so two scans of a product are two conflicts and not a
  count of two; the camera loop runs with the `handleScan` of the first render, where no session is set, and
  records nothing (`StocktakeScanner.tsx:107-132`);
* at the till: a "%" discount on the order is applied as an amount in LKR (`pos/page.tsx:983-999`); a product scanned while a
  sale is being processed is on the cart that is cleared, and not in the order; Enter in the PIN field validates
  twice when pressed twice, which adds two lines or one unit (`:1139`); a lookup that ends on the "Sale Complete!" screen saves the cart
  of the completed sale again; clearing the cart keeps `reservationId`, so the next sale converts the reservation; the
  quick-add button of a product looks up what the field held before (`:807`); the camera adds to the cart of the moment it was started,
  so a product that was typed after that gets a second line when it is scanned, or its old quantity plus one; a reservation replaces
  what was rung up while it loaded (`:418`); one unit at LKR 1499 with 10% off costs 1416.56 on the button and 1416.55 in the order
  (`:57`, `orders.service.ts:39`).
* in the stocktake: a scan writes the total that was shown when it began, so one that overlaps another is not counted
  (`StocktakeScanner.tsx:151`); a sync whose page was left marks the session as synced under the page that was opened after it.

## 7. Plan

Done: the modules of section 2 and the proofs of section 4.

Next, models, in this order:

1. `Repairs` composed with `Inventory` through `addParts`, as `Orders` is.
2. The cache of the courier service; the lockdown keys of the gateway, once a route reads them.
3. Votes, shifts, battery alerts, employee codes (which are `Numbering` again, but unlike the others may
   repeat after a deletion).
4. The till as the client of `Orders`: `Checkout` refined to the handlers of order-service.

And proofs: with 1, that `Repairs` implements `Inventory` as `Orders` does; with 4, that a sale of `Checkout` is one order of `Orders`.

## 8. Not modelled, and why

* Most of the implementation's lines are pages of the admin, customer and marketing apps: forms, tables, dialogs,
  charts and their styling. What they do to state is to call one service, and the service is modelled. The pages that
  keep state of their own across calls (the till, the stocktake, the warranty buttons, the reservations list) are. The
  share of the implementation that the modules stand for is therefore small, and would stay so if everything with
  a behaviour were modelled.
* Rendering and sending (PDF, QR, labels, mail, Telegram, the search index), reports and insights: they read.
* Create, update and delete of rows that no handler decides on: the catalogue, prices, suppliers, shifts, settings.
* Guards that decide on one request without state (JWT, roles), and validation of input.
* Votes, battery alerts, the lockdown keys, the courier cache: two statements on one key each;
  listed in section 1.3 and planned.
* Deployment and configuration.
* Inside the modelled parts: free-text fields, photos and costs of a ticket, the threshold and location of a stock record
  after its creation, approval names and dates, passwords and tokens as such (they are right or wrong, live or not),
  the payment fields and the choice of the customer at the till (a customer that is found late leaves the points that were typed), a line
  whose price is not the product's, the cached products of the offline database.

`PROJECT.json` has a line for each part.
