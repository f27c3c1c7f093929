# BIELA: stock, documents, money, access and pages in TLA+

BIELA is an ERP for an automotive parts business: a React application, an API
gateway, a users service over MongoDB (`ms-users`) and a business service over
PostgreSQL (`ms-autorepuesto`). What can go wrong in a way that costs money or
goods is in the business service: stock balances, purchases, sales, cash
sessions, payments, and the transactions that keep them consistent while
several people work at once. Half of these modules are about that. The others
are about how a call gets there (Access) and about what people look at when they
decide: the lists of what is owed (Commercial), and the pages with their cache,
routes and permissions (Frontend).

Paths below are relative to `src/`; `MA` stands for
`services/ms-autorepuesto/src`, `MU` for `services/ms-users/src`, `FE` for `apps/frontend/src`.

## Running

    tlc -workers 2 -config MCWarehouse.cfg MCWarehouse      # any row of "Runs"
    tlapm InventoryProofs.tla                               # any *Proofs module

`PROJECT.json` lists the runs, the definitions with the source lines each one
translates (`map`), the hazards and the theorems. An operator named `Faulty...`
stands before the definition of the same name; no specification uses it. It is
that definition with one plausible bug, and putting it in its place makes TLC
refute the property `PROJECT.json` pairs it with: it shows what the property is
there to catch.

## The system

| Component | State | Operations | Speaks to |
|---|---|---|---|
| Inventory (`MA/inventory`) | balance per (product, location), append-only movements | INITIAL, IN, OUT, ADJUSTMENT, TRANSFER, by hand or for a document line | reads the active switch of products and locations |
| Purchasing (`MA/purchasing`) | purchases, receipts, returns and their lines | draft, update, confirm, cancel; draft and post receipts and returns | calls Inventory inside its transaction; reads suppliers, payments |
| Sales (`MA/sales`) | sales, returns and their lines | draft, update, post, cancel; draft and post returns | calls Inventory inside its transaction; reads customers |
| Cash (`MA/finance/cash-*`) | registers, sessions, cash movements | open, close, manual movement, switch a register | |
| Payments (`MA/finance/payments.service.ts`, `financial-summary.service.ts`) | payments | pay a sale, refund a return, pay a purchase, refund from a supplier, reverse | writes the cash ledger; reads documents and returns |
| Payment methods (`MA/finance/payment-methods.service.ts`) | kind and switch of a method | create, update, switch | read by Payments |
| Transactions (`MA/database/prisma.service.ts`) | none of its own | runSerializable: three attempts | around every operation above that writes more than one row, except the update of a payment method |
| Money (`MA/finance/finance-money.ts`, `*-money.ts`) | none | totals of lines, value of returned units | used by documents and summaries |
| Commercial (`MA/commercial`) | none | receivables, payables, accounts in SQL | reads everything Payments writes |
| Catalog (`MA/products`, `vehicles`, `compatibilities`, `locations`, `suppliers`, `customers`, `search`) | master data | create, update, switch, query | read by the documents |
| Users (`services/ms-users`) | users, roles | login, administration, the guard of each request | called by the gateway and by every call of `ms-autorepuesto` |
| Gateway (`services/api-gateway`) | none | forwards its routes, with a timeout | both services |
| Frontend (`FE`) | session, query cache | some sixty pages: queries, commands and what their success invalidates | gateway |

**What is hard here.** Every ceiling in the system is a sum over rows that other
requests add to: units received of an order, units returned of a receipt, money
collected for a sale, cash in a drawer. Drafts are checked when they are written
and must be checked again when they are posted. One posting makes several stock
movements, of which a later one may be refused. A session closes over a ledger
that payments are being written to. Reversals may land in another session than
the payment. Under all of it, transactions take their snapshot before they wait
for a row lock, so that the checks they make are made on old data, and it is
the serializable isolation of the database, the three attempts of
`runSerializable` and the order of the locks that keep them right.

On the other side of the gateway, a page shows what the backend said some time
ago. Which of the cached answers a command makes stale is written down by hand,
command by command, in the pages; so is which permission a button needs. Both
repeat, in another program, what the services decide.

**What makes each component correct.**

- Inventory: balances never negative, never wider than their column, always what
  the log says; the log of a cell can be replayed.
- Purchasing: never more received than ordered nor returned than received; the
  stored status is the one the receipts imply; a cancelled purchase leaves
  nothing behind that could still act; each posted line moves stock once.
- Sales: never more returned than sold; each posted line moves stock once, all
  lines or none.
- Cash: one open session per register; no drawer below zero; the closing amount
  stays true; closed is closed.
- Payments: no sale collects more than its total or gives back more than it
  collected; no supplier is overpaid, and every credit left by a return can be
  collected; cash entries and payments match one to one; a payment is reversed at
  most once.
- Users and gateway: rights revoked before a call is sent are refused to it; an
  answer says what was done.
- Transactions: what commits is what the operations would have done one after
  the other; no circle of waits; every request is answered.
- Money: the values of the partial returns of a line add up to the line.
- Commercial: the lists show, to the cent, what payments are checked against.
- Payment methods: the kind of a used method is fixed (it is not; see Findings).
- Frontend: what shows as fresh has every change this browser was told of; what
  is stale on screen is fetched again; what is offered is permitted (with the
  exceptions of Findings).

`PROJECT.json` lists these as hazards, each at its line.

## Modules

    Inventory <-- Purchasing <--+
        ^                       +-- Warehouse      stock and documents
        +------- Sales <--------+
    Orders <== Purchasing, Sales                   <== implements
    DocumentFlow <== Warehouse, Payments           what stock and money share

    CashSessions <-- Payments <== SettlementTx     money
    ReturnValues <-- Commercial                    supplies an assumption of Payments
    PaymentMethods                                 statement level
    Access                                         calls, users and roles

    QueryCache <-------------------+
    Client <-- Screens ............+-- Frontend    pages; ... is INSTANCE
    Gateway, Backend ..............+

One action is one serializable transaction, that is one HTTP request that
changes state; a request that is refused changes nothing and is no step.
SettlementTx, PaymentMethods and Access are the exceptions: there an action is
one statement; in QueryCache it is one event of a browser or of the backend.

**Inventory** (`inventory.service.ts`). `stock` maps each (product, location)
to its quantity or `NoRow`; `movements` is the log in commit order.
`Accepts`, `After`, `Write` and `Movement` are one movement of the five types:
shape of the request, active master data, row rule, conditional decrement, Int4
bound, before and after of every cell touched. `ApplyAll` applies the lines of
a document one after the other and yields no ledger at all when one is refused
or was already applied (unique `(referenceType, referenceItemId)`).

**Purchasing** (`purchases`, `purchase-receipts`, `purchase-returns`). Items are
quantities by product (a purchase names a product at most once), return lines
quantities by (product, location). `PostReceipt` and `PostReturn` check again
what `CreateReceipt` and `CreateReturn` checked, apply the lines and store the
new status. Payments are the set of paid purchases here. Prices are not state.

**Sales** (`sales`, `sale-returns`). As Purchasing, with items by (product,
location) and an optional customer.

**Warehouse** runs both over one ledger.

**Orders** is the abstract order that Purchasing and Sales both implement: drafted,
fixed, delivered up to what was ordered, given back up to what was delivered,
cancelled only while nothing was. Documents, drafts, locations, stock and payments
are gone from it. The mappings stand at the end of the two modules. A purchase
delivers the sums of its posted receipts and gives back those of its posted returns;
`PARTIALLY_RECEIVED` and `RECEIVED` must then say by themselves whether all was
delivered. A sale delivers all its items at once, from the draft.

**DocumentFlow** is what stock and money promise each other about the documents they
share. Purchasing knows payments only as the set `paid`, and Payments knows documents
only by their status: each stands in for the other, and this contract says what it may
assume of it. Money counts on documents to go only forward and on returns to be
posted only against a posted sale or a purchase that received goods; stock counts on
a purchase to be paid only from its confirmation on, and cancels it only while it is
not. `WarehouseFlow` and `PaymentsFlow` are the contract under the two mappings.

**CashSessions** (`cash-registers`, `cash-sessions`, `cash-movements`,
`cash-ledger`). `OpenSession`, `CloseSession`, `ManualMovement`,
`SetRegisterActive`; `Expected` is the sum the ledger service computes.

**Payments** (`payments`, `financial-summary`) extends CashSessions with the
payment rows, the four operations that create them and `Reverse`. Documents are
their status and value; the steps that move a status are those of Purchasing
and Sales as far as payments can see them (DocumentFlow). Reversals choose any open session.

**SettlementTx** (`prisma.service.ts` around `payments`, `cash-sessions`,
`cash-ledger`) opens up the transactions of sale payments, sale refunds,
reversals and closings over shared sales and one session. `Begin` takes the
snapshot, `Lock` one row per statement in the order of the code, and the checks
of Payments are evaluated on the snapshot (`View(S)` is Payments instantiated
with the data after the requests in `S`). `Commit` is allowed when the database
would allow it; `LockFails` (the row was updated behind the snapshot),
`SerializationFails` and `Abort` are its failures; `Commit(r, "failed")` is a
commit whose answer is lost. PostgreSQL is external. What is modelled of it:
row locks held to the end; a locked row that was updated by a transaction the
snapshot misses fails with 40001; predicate reads are tracked by document, session
and ledger; a commit is refused exactly when it would complete a dangerous
structure (two consecutive rw-antidependencies whose last transaction committed
first), and may be refused without need among concurrent transactions.
`ImplementsPayments` is the refinement: each change of the committed data is one
step of `Payments!PaymentsNext`, with Payments instantiated on the committed data.

**ReturnValues** (`finance-money.ts` 64-79, `financial-summary.service.ts`
`allocateValues`). Money in cents, `Rounded` half up, one step per posted
return. `WorthWithinTotal` is what Payments assumes of `ReturnValue`.

**Commercial** (`commercial.service.ts`, `financial-summary.service.ts`) adds to
it the two computations of what a document owes. `PurchaseSummary` and
`SaleSummary` are the TypeScript that payments are checked against, with the
values of returns one after another; `PayableRow` and `ReceivableRow` are the SQL
behind receivables, payables, accounts and the dashboard, which rounds all the
units of a line at once.

**PaymentMethods** (`payment-methods.service.ts` 65-84): read, count and write
of an update as separate statements beside payments.

**Access** (`services/api-gateway/src/upstream`, `MU/users`, `MU/roles`,
`MU/auth`, `MU/database/seed-admin.ts`, `MA/auth/guards`). Each member of `calls`
goes from the gateway (`Send`) through the two reads of the guard (`ReadUser`,
`ReadRoles`: populate is a second query) to its handler (`Validate`,
`CreateUser`, `UpdateUser`, `SetActive`, `SaveRole`; `PerformWork` stands for
every handler of `ms-autorepuesto`) and back (`Reply`). `Timeout` answers 502 at
any moment and stops nothing. `users`, `roles` and `token` are what the guard
consults; `Login`, `Expire` and the seed script change them outside any call.
A handler may fail before it has written (`Refuse`) or after (`Outcomes`), so 500
and 502 say nothing of the effect; 401, 403, 503 and the refusals written `4xx`
promise there was and will be none. `watched` is a history variable: the
roles that the caller held, and those that granted what it asks, at some moment
while its call ran. `RevocationBinds` is stated with it, one role held and
granting: the two reads may combine an old user with new roles, which is
as much as the guard promises.

**QueryCache** (`FE/app/App.tsx`, `FE/api/api-client.ts`, and TanStack Query as
external code) watches one entry of the cache, any of them, chosen at the
start. `entry` is what is cached, `fetch` the request for it, `calls` the commands
under way, `screen` the page, as what it is to that entry: whether it shows it and
which commands it offers. A value is the number of commands the backend had
committed when it was read (`version`). A query is asked, read by the server
(`ServerReads`), answered or failed (`FetchAnswers`, `FetchFails` with the retries
of a 503); a command is sent, committed and answered (`Send`, `Commit`, `Answer`),
or it fails or times out, before or after it has committed (`Fail`, `TimeOut`,
`AdriftEnds`). `Answer` does what `onSuccess` does: store the answer, mark, and
cancel and restart the fetch of a query on screen. That this does not happen to
a query loading for the first time is why an answer can be `late`. `confirmed`
is the last change that this browser was told of.

**Client, Screens, Gateway, Backend** are the code that says which page is
what to which entry, each translated from its own program:

- *Client* (`FE/query`, `FE/api`): the keys, the call of each api function as the
  endpoints it may reach, the helpers that mark keys together.
- *Screens* (the pages, and `FE/app/AppRoutes.tsx`): the queries of each page
  (key, endpoint, condition), its commands (endpoint, permission tested, keys
  marked, key stored), and the permission of each route.
- *Gateway* (`services/api-gateway/src`): the routes it forwards, as `<<path, verb>>`.
- *Backend* (controllers and services of `MA` and `MU`): the permission each
  endpoint asks for, and the rows each endpoint reads, joins included, or
  writes.

**Frontend** puts them together. `PageSite` derives for each key and each page the
view of QueryCache: a command changes a key when it reaches, past the gateway,
an endpoint that writes what the endpoint of the key reads; it marks the key when
the key starts with one that it invalidates. `PageCases` keeps one key of those
with the same views, and of those the ones with the most views: a behaviour about
a key with fewer views is one about a key with more. `Gaps` names the pairs of
command and key where a change is not marked. `NamesFollowEdits` and
`DocumentsFollowCommands` are `ConfirmedChangesShow` on the keys of which the
documents promise it; see Findings.

## Runs

| Run | Question | Instance and why it is enough |
|---|---|---|
| `purchasing` | Do overlapping drafts pass a ceiling or leave a wrong status, and is a purchase an order? | 1 purchase, 1 product, 2 locations, 2 receipts, 2 returns, 1 manual movement: two drafts that fit alone and not together, returns of one item from two locations, stock taken away before a return posts |
| `sales` | The same for sales, and are they all or nothing? | 1 sale with two items, 2 returns, 2 manual movements |
| `warehouse` | Do purchases, sales and hand movements over one stock add up, and do balances, log and units ever part? | 1 product, 2 locations, 1 document of each kind with one line, or two for a sale; 2 manual movements of 0 or 1, column limit 2: transfers between the two rows, before, between and after postings, a row created by a transfer, the refusals of stock that is short, missing or at its limit (`purchasing` and `sales` have those of inactive master data) |
| `payments_documents` | Is any order of paying, returning, refunding, reversing, cancelling unsound, or against the contract with stock? | 1 sale and 1 purchase of value 3, two returns of 1 and 2 each, 4 payments of 1 to 3 |
| `payments_cash` | Do payments, entries, registers and sessions agree? | 2 cash payments and a manual entry of 1, 2 sessions of one register in turn, so that a reversal falls in another session and a register is reopened or switched off while open |
| `settlement_tx` | Is what commits from interleaved statements a step of Payments, and is every request answered? | a paid sale with a return, then a refund, a reversal and a closing race: they share a sale, a payment and a session pairwise, enough for a dangerous structure of three; 2 attempts each |
| `commercial` | Do rounded shares drift, or the two computations of a balance? | 2 lines, totals 0, 1, 5 cents over 1, 3, 4 units, every split, every amount paid and refunded up to the total |
| `access` | Can a call act on rights revoked before it, or an answer mislead? | 2 calls at once by any of 3 users, who may change the user, role or assignment the other call depends on, twice over; a role that does not exist yet, assigned by a new user |
| `frontend` | Apart from the disagreements of the two next runs, does a confirmed change reach the pages, and is what they offer permitted? | the 7 of 55 keys that stand for all, every page and command, 2 commands at once, 2 commits, 1 retry: two commands answered in the other order, a command during a fetch, a first load overtaken, a lost answer |
| `frontend_names` | Do names and switches that answers repeat follow their edits? (expected to fail) | every key, 1 command, 1 commit |
| `frontend_commands` | Do the pages of purchasing, sales and the cash ledger follow every command? (expected to fail) | every key, 1 command, 1 commit |
| `payment_methods` | Can the kind of a used method change? (expected to fail) | 1 editor, 2 kinds, 2 payments |

Bounds of the models, all in guards or constants: `MaxMovements` limits manual
movements, document and payment ids are finite sets (an id is used once),
`MaxPayments` in PaymentMethods, `MaxCommits` in QueryCache. `MaxInt`,
`MaxAttempts` and `Retries` are the code's own (2^31 - 1, 3 attempts, 2 retries)
made small: a third attempt is a new transaction like the second, and a second
retry of a query starts as the first does. Symmetry is used over ids that no
definition orders or compares, in runs without liveness. `CHECK_DEADLOCK FALSE`
stands where all work may be done: all requests answered, all units returned.

**Fairness.** Two specifications have any.

`FairTxSpec`: weak fairness, for each request, of the steps that the server or
the database takes by itself (begin, lock, refuse, fail, commit). A running
transaction is not suspended: the event loop serves it, and PostgreSQL grants a
free row, aborts a circle and answers a commit. Not fair are the loss of an
answer and the abort. A request whose transaction began is considered; a reversal
that names no payment never begins.

`FairSpec` of QueryCache: weak fairness of the steps of the query alone. Its
request is answered or fails, because the gateway gives it up after a timeout
and the browser reports a lost connection. Nothing is assumed of users or of
commands.

## Findings

`payment_methods`: `docs/backend-api-contract.md:29` says "Kind cannot change
after use". `update` counts the payments of the method and then writes the new
kind, outside any transaction, so a payment that commits in between ends up with
a method of the other kind. TLC shows it with one editor and one payment.

The other findings are commands that change what a cached answer says and neither
mark nor store its key, so that the answer of before shows as fresh, although a
document says that such commands refresh what they affect. `frontend` would fail on
each. `Frontend!Gaps` names them, and `frontend` leaves aside the ones its cfg lists
under `Tolerated`, which are all: it shows that there are no others, not that there
are none. Two runs state what the documents say, and TLC refutes them:

- `frontend_names`: `docs/phase-11-frontend-backend-integration.md:136` lists the
  names and statuses left stale by edits of products, vehicles, locations,
  suppliers, customers and cash registers as corrected, and
  `docs/frontend-phase-10b-catalog-inventory.md:89` says of the catalogue that
  mutations invalidate the affected roots.
- `frontend_commands`: `docs/frontend-phase-10c-purchasing.md:125`,
  `docs/frontend-phase-10d-sales-receivables.md:83` and
  `docs/frontend-phase-10e-cash-admin.md:46-50` say the same of the commands of
  purchasing, of payments and reversals, and of opening, moving and closing cash.

| Gap | What changes | What keeps the old value | Where | Printed by a page |
|---|---|---|---|---|
| *`frontend_names`* | | | | |
| `locationNames` | a location is edited or switched | the search, receipts, returns | `FE/query/invalidation.ts:27` | yes, the search prints its code |
| `chosenLocation` | the same | the location chosen in a form: its key nests another, so no prefix reaches it | `FE/components/EntitySelectors.tsx:152` | yes |
| `productNames` | a product is edited or switched | receipts, returns, a purchase, a sale | `FE/query/invalidation.ts:4` | yes |
| `vehicleBrandNames` | a brand is renamed | the list of models | `FE/vehicles/VehiclePages.tsx:45` | yes |
| `categoryNames` | a category is renamed | the attributes of its products | `FE/catalog/CatalogPages.tsx:83` | yes |
| `registerNames` | a register is edited or switched | the payment histories; after an edit also its open session | `FE/cash/CashPages.tsx:149` | not by the histories |
| *`frontend_commands`* | | | | |
| `sessionStatus` | a session closes | the list of its movements, each with its session | `FE/cash/CashPages.tsx:200` | no |
| `refundable` | a sale payment is made or reversed | the detail of a return: what may be refunded | `FE/sales/SalesFinancePages.tsx:67` | yes |
| `receiptStatus` | a purchase is cancelled, and its draft receipts with it; a receipt is posted | receipts, after a cancel; the status of the purchase in returns | `FE/purchasing/PurchasePages.tsx:508` | receipts yes, returns no |
| *no document* | | | | |
| `historySessions` | a session closes | the status of the session in the payment histories | `FE/cash/CashPages.tsx:200` | no |
| `returnCount` | a return is created | the number of returns in the list of sales | `FE/sales/SaleReturnPages.tsx:31` | no |

The traces are those of `locationNames` and `sessionStatus`. Each other gap is shown
alone by its run when the names of the others are added to `Tolerated`. The last two
are the only ones `frontend` sets aside that are no findings: no document speaks of
them and no page prints the field.

One exception to `OfferedIsPermitted`, `VehicleFilters`: the page of the
compatibilities loads its filters by vehicle for whoever manages compatibilities,
and their endpoints ask for `vehicles.read`.

`docs/backend-api-contract.md:31` asks for `payments.*` and `purchases.pay` on the
purchase side of payments; the controller asks for `purchases.pay` alone when one is
made (`MA/finance/payments.controller.ts`), and so do the page and Backend.

## Proofs

For every value of the constants, under the assumptions named in the modules.
Every safety property of the runs has a theorem, but `OfferedIsPermitted`, which is
a fact about the pages as they are.

| Module | Theorem | Property |
|---|---|---|
| InventoryProofs | `InventoryTypeCorrect` | `InventoryTypeOK` |
| | `BalancesFollowLedger` | `StockMatchesLedger` |
| | `LedgerReplays` | `LedgerChains` |
| WarehouseProofs | `PurchasingTyped`, `SalesTyped` | `PurchasingTypeOK`, `SalesTypeOK` |
| | `ReceivingStaysWithinOrder` | `NeverOverReceived` |
| | `ReturningStaysWithinReceived` | `NeverOverReturned` |
| | `StatusFollowsReceipts` | `StatusTellsReceiving` |
| | `CancellingCloses` | `CancelledIsClosed` |
| | `PurchasingKeepsOrders`, `WarehouseKeepsOrders` | `PurchasesAreOrders`, alone and over one ledger |
| | `PurchaseLinesMoveStockOnce` | `LinesMoveStockOnce` |
| | `ReturnsStayWithinSale` | `NeverReturnedBeyondSale` |
| | `SaleLinesMoveStockOnce` | `SalesMoveStockOnce` |
| | `SalesKeepOrders`, `WarehouseKeepsOrders` | `SalesAreOrders` |
| | `PartsKeepTheirPromises` | the safety properties of both, over one ledger |
| | `StockKeepsFlow` | `WarehouseKeepsFlow` |
| | `DocumentsExplainTheStock` | `StockExplainedByDocuments` |
| PaymentsProofs | `OneOpenSessionPerRegister` | `OneOpenSession` |
| | `ClosingAmountsStayTrue`, `ClosingSurvivesPayments` | `ClosingSnapshotHolds`, alone and under Payments |
| | `ClosedStaysClosed` | `ClosedSessionsAreFinal` |
| | `PaymentsTyped` | `PaymentsTypeOK` |
| | `DrawersNeverNegative` | `DrawerNeverNegative` |
| | `LedgerMatchesPayments` | `CashMatchesPayments` |
| | `CancelledPurchasesStayUnpaid` | `CancelledPurchaseUnpaid` |
| | `MoneyKeepsFlow` | `PaymentsKeepFlow` |
| | `MoneyAllowsFlow` | Payments takes every step of a document that the contract allows |
| | `PaymentsWrittenOnce` | `PaymentsAreFinal` |
| | `SalesSettle` | `SaleSettlementSound` |
| | `PurchasesSettle` | `PurchaseSettlementSound` |
| SettlementTxProofs | `TransactionsTyped` | `TxTypeOK` |
| | `LocksNeverDeadlock` | `NoLockCycle` |
| | `CommitsAreOperations` | `ImplementsPayments` |
| | `CommittedStaysSound`, `SoundFromNothing` | `CommittedIsSound` |
| CommercialProofs | `SharesTelescope` | `SharesFollowUnits` |
| | `ReturnsWithinDocument` | `WorthWithinTotal` |
| | `RoundingsAgree` | `LinesAgree` |
| | `ListsShowTheSummaries` | `ListsAgreeWithSummaries` |
| AccessProofs | `AccessTyped` | `AccessTypeOK` |
| | `RevokedNeverActs` | `RevocationBinds` |
| | `AnswersAreTrue` | `AnswerTellsEffect` |
| QueryCacheProofs | `CacheType` | `CacheTypeOK` |
| | `ChangesShow` | `ConfirmedChangesShow`, where `Covered` |

**What is assumed.** Tables are finite and ids name rows of one table
(`...Assumption` of each module). Three assumptions say more. `PaymentsAssumption`
and `TxAssumption` take the returns of a document to be worth no more than the
document, which is `ReturnsWithinDocument`. `TxAssumption` has what was reversed
at the start be paid at the start. `AccessAssumption` has the roles of the first
users exist, as the seed script writes them. TLC evaluates each of them on the
constants of the runs.

**Sums** (`Sums`). Most ceilings of this system are sums of rows, which the models
take with the folds of the community modules. Those are defined by recursion over
sets, and the induction theorems of the library, which take an operator as a
parameter, are of no use here. What is of use is that strict inclusion is
well-founded on the subsets of a finite set: `ElementInduction` is induction over
these with the property given as a set of them, and from it follow one term more or
less, disjoint union, monotony, sums by groups. The other modules cite these lemmas and
do not look inside a fold again.

- *Inventory.* From `InventoryAssumption`. Types first: `AfterInRange` shows that
  an accepted request writes only values in `0..MaxInt`. `LedgerChains` is not
  inductive: a new movement starts from the balance row, and only
  `StockMatchesLedger` says that the row is what the previous movement on the
  cell left. `LedgerInv` is the conjunction of the three. The module also
  proves of `ApplyAll`, from a prefix of the lines to the next, what the documents
  need: each line is one movement (`Explains`), and the units of a product on
  hand grow by what the log enters (`LedgerOK`).
- *Purchases.* `PurchaseInv`: the ceilings, the status and the closing of cancelled
  purchases hold together or not at all. Returns stay within receipts because receipts
  are never undone; the status is right because posting recomputes it over
  the sum that the ceiling bounds; a cancelled purchase has no documents because
  those name purchases in a status which says which documents there can be
  (`PurchaseDocumentsFit`).
- *Sales.* `SaleInv` in the same way, over items by cell.
- *Documents and ledger.* `Explains(movements, asked, refs)`: the rows of the log
  that name lines are the lines that posted documents ask for, one row each. Posting
  adds its lines to both sides at once; a retry of a line finds its
  reference used. `StockExplainedByDocuments` groups the rows of the log by document
  and line, and needs `WarehouseInv`: both sides' documents over the one log.
- *Orders.* `PurchasingStepsOrders` and `SalesStepsOrders` map each action to one
  abstract step, under the invariant before and after it. Drafting, rewriting,
  confirming and cancelling change one row (`OneRowChanges`) and no sum; a draft
  receipt or return changes nothing; a posted one adds its lines to one sum
  (`ReceiptDelivers`, `ReturnGivesBack`, `SaleReturnGivesBack`). That a delivery stays
  within the order and leaves the status that tells whether it is complete is
  `NeverOverReceived'` and `StatusTellsReceiving'`; that a cancelled purchase had no
  delivery is the code's look for posted receipts, which are then none. Under
  `WarehouseSpec` a step of one side is a stutter of the other's orders.
- *Stock and money.* `StockKeepsFlow` and `MoneyKeepsFlow` map every step of Warehouse
  and of Payments to a step of DocumentFlow. For the stock, a return names its
  document when it is drafted and that document has moved goods from then on; for the
  money, `DocumentKinds` (which statuses a sale, a purchase and a return can have) joins
  `RowsInv`, and a supplier refund is of a purchase that received goods because its
  return is posted (`ReturnsFit`). `MoneyAllowsFlow` is the converse for the documents:
  Payments never holds up a move that the contract allows, so what is proved of it
  holds whatever Warehouse does to the documents. The two models are joined by the
  contract only; there is no module that runs both.
- *Cash.* `CashInv` is the shape of the rows, `OneOpenSession`,
  `ClosingSnapshotHolds` and `DrawerNeverNegative`: outflows are checked against
  the sum that they lower (`ExpectedGrows`).
- *Payments.* `LedgerGrows`: adding a movement that its check allows to an open
  session preserves `CashInv`; `Record` and `Reverse` do just that. `RowsInv` adds
  that rows name documents of their type's side and that refunds name posted returns.
  `SettledInv` adds the ceilings. `SupplierCredit` being within reach of the
  returns is no conjunct of it but follows (`CreditWithinReach`): a return lowers
  the obligation by its value, a refund uses up both alike.
- *Transactions.* `NoLockCycle`: `Locks` ascends in `Rank` (document, return,
  payment, session), so whoever waits for a member of a circle waits for a higher row
  than those it holds; the member that waits for the highest waits for nobody.
  `ImplementsPayments`: `LocksInv` says that a row is held by one transaction, and that
  no row held was updated behind the snapshot of its holder. From it and the refusal of
  mutual oversights, `CommitSees` bounds what a transaction that commits has missed:
  no operation on its sale, no closing when it uses or closes the session, no outflow
  when it takes cash out, no cash at all when it closes. So its sums on the snapshot are
  those on the committed data (`SaleChecksAgree`), except that the drawer may have grown
  (`CashGrows`), and its checks hold there too (`ChecksStillHold`). `CommitPays`,
  `CommitRefunds`, `CommitReverses` and `CommitCloses` are the operations. Of the two
  conditions of `Unserializable` the proof uses the first, and of the locks
  that of the session: payments and closings need it beside serializability.
- *What commits is sound.* `After` instantiates PaymentsProofs on the committed
  data, so that `SettledStep` need not be proved again. The hypothesis of
  `CommittedStaysSound` is that the data found at the start is sound;
  `SoundFromNothing` discharges it when nothing was paid before.
- *Return values.* Not inductive as stated: `SharesInv` adds that the share of
  a line *is* the rounded value of its units, which telescopes. The rest is that
  half-up rounding is within half a cent, is 0 at 0 and exact at the full
  quantity (`RoundedNear`, `RoundedZero`, `RoundedFull`, `RoundedWithin`), by
  the uniqueness of integer division. `ValuesInv` adds that the values of the returns
  sum to the shares of the lines.
- *Commercial.* The same invariant: a share that telescopes is one rounding of
  all the units that came back, which is what the SQL computes
  (`TelescopedAgrees`); the lists then agree because they sum equal terms.
- *Access.* Both properties speak of the end of a call; `AccessInv` says what
  each step on the way has established. Once the user is read and active, the
  roles read were held (`ReadUserKeeps`); once the roles are read, one of them
  grants (`ReadRolesKeeps`); `WatchedGrows` keeps both true until the
  handler acts. `EffectSoFar` says that nothing is written before the end.
  `OneCallMoves` reduces every step to the call that takes it. The types need
  `RowsInv`: a handler writes what it validated some steps before, and the roles it
  found then still exist, since no role is ever removed.
- *Query cache.* For any set of keys, pages and commands, any number of
  commands at once and without a bound on their commits. The theorem has one
  hypothesis, `Covered`: every command offered marks or stores what it changes.
  `Knows` is the invariant. What is fresh must know every confirmed change; so
  must what a fetch has read, unless it was overtaken (`FetchKnows`), since its
  answer becomes fresh; so must the version of a command that is done and not
  overtaken (`CallsKnow`), since its answer may be stored; and the effects under
  way are covered (`CallsCovered`). The difficult step is `Answer`
  (`AnswerKnows`), which raises `confirmed` beside everything else that is under way.
  The pages are `Covered` only apart from the gaps, nine of which are findings:
  that is computed, not proved, and it is what `frontend` checks.

TLC checks each of these properties on a small instance as well, in a run (those of
Inventory in `warehouse`), but for `SalesAreOrders` and `WarehouseKeepsFlow`, which
stand in no run, and `CancelledPurchaseUnpaid`, which `PaymentsKeepFlow` contains.

## Only model-checked

- `EveryRequestAnswered`, `ShownChangesArrive`: liveness under fairness is beyond the
  prover.
- `OfferedIsPermitted`: a fact about the pages as they are, which TLC computes. So
  is `Covered`, the hypothesis of `ChangesShow`.
- The findings, which are counterexamples.

What is taken as given is outside the repository: that PostgreSQL refuses the
commits which `Unserializable` names and locks rows as SettlementTx has it.

## Not modelled, and why

- Amounts of lines and documents (`purchase-money.ts`, `sale-money.ts`): pure
  decimal arithmetic with unit tests; values are constants of Payments and
  Commercial.
- Filters, pages, order and totals of lists, and the ranking of the search. What a
  list reads is in Backend. That the rows and the totals of a commercial list
  are two statements on two snapshots is a hazard without a property.
- Create and update of master data as transactions: one row behind a unique
  key. What other components read of it, the active switches, is modelled, and
  so are the rows written, for the cache. The rules on the attributes of products
  are not.
- The login's password check and names, emails and hashes of users: Access has
  the users who know their password.
- The session of the frontend (`FE/auth/AuthContext.tsx`): restoring a session
  against logging in. Logging out, which clears the cache, is modelled.
- Forms, wording and the buttons that a document's status hides: Screens offers
  more than the pages, and what it offers too much is refused.
- A form that saves a purchase or a sale stores the answer of `update`, which has no
  `paymentSummary`, under the key of the detail; it marks the key as well. A value
  of QueryCache is whole, so that is not seen.
- Statements within a stock movement or the opening of a session: each is one action,
  which is what the conditional update of the row and the unique open key make of it.
  Two requests that both read before either writes are in SettlementTx, PaymentMethods
  and Access only.
- Row locks on balances during postings: receipts and purchase returns lock
  balances in the order their items load (sales sort them), so two of them can
  deadlock; the database aborts one, which is retried as in SettlementTx.
- Returns posted within one millisecond, or whose clock disagrees with the order
  of their commits: ReturnValues has them in order.
- The health of the services beyond its route, and the validation of the
  environment at start: they keep no state.

## Plan

Done: stock and documents (Inventory, Purchasing, Sales, Warehouse); money
(CashSessions, Payments, SettlementTx, ReturnValues, PaymentMethods, Commercial);
calls and rights (Access); pages and cache (QueryCache, Frontend); the contracts
between the parts (Orders, DocumentFlow); the proofs of their safety properties. Left, in order:

1. *Catalog*: attribute definitions and the values of products, with the
   two-statement updates of `product-catalogs.service.ts`.
2. *FrontendSession*: restore, login and logout of `AuthContext.tsx`.
3. Postings at the level of balance rows and their locks.
4. Proofs: purchase payments and supplier refunds are no requests of SettlementTx;
   with them `CommitsAreOperations` would speak of every operation on a payment.

The runs answer most of the questions that are cheap to ask. A new one should
replace or absorb a weaker one.
