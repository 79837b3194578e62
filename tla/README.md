# classobjects-ccwebdb: a verification project

This directory models the program in `backend/app` and the parts of
`frontend/src` that keep state of their own: a coin dealer's database (FastAPI
over PostgreSQL) with a shop front and a management console. It holds TLA+
modules, TLC configurations and TLAPS proofs. `PROJECT.json` lists every
component, run, mutant, mapped definition, finding, hazard and theorem.

## 1. The system

One PostgreSQL database, one API process with a pool of threads, two React
clients, and command-line jobs beside them (backup, seeding, clean-ups). A
request runs in one transaction at READ COMMITTED; what it decides on, it locks
first (`SELECT ... FOR UPDATE`) or writes under the version it read. There is no
message bus and no background worker: the actors are requests, browser tabs and
jobs.

| Component | State | Operations | Interacts with |
|---|---|---|---|
| Offers (`offering_writes.py`, `routers/offers.py`) | `listing`, `offer_claim`, `listing_status_history` | offer an item or a lot, end an offer, pause and resume the shop's listing | items (disposition), lots (fate), orders (a held listing is not ended) |
| Lots (`lot_writes.py`, `routers/lots.py`) | `sales_lot`, `sales_lot_item` | create, delete, add, remove | offers freeze a lot; its sale or ending finishes it |
| Orders (`order_writes.py`, `sales_writes.py`, `routers/orders.py`) | `sales_order`, lines, shares, `sales_order_change`, `listing.quantity`, `customer` | checkout, recorded sale, revision, status change | end offers sold, return stock, file items |
| Item standing (`routers/inventory.py`, `splitting.py`) | `inventory_item` status, disposition, `split_at`, `deleted_at`, detail rows | receive, enter, edit one or many, split, delete | end every offer that names the item; refresh its defaults |
| Records of an item (`lifecycle_writes.py`, `field_changes.py`, `item_history.py`) | `item_status_history`, `location_history`, `item_field_change` | written beside every change | the History page, the open forms |
| Defaults (`classifier_defaults.py`, `series_classify.py`, `composition.py`, ...) | derived columns, `item_field_source`, attribute links | refresh, guess, report | every save of an item |
| Auctions (`auctions.py`) | `auction`, `auction_lot` | add and remove lots, schedule, consign, close, cancel, settle | offers, orders (a settlement records sales) |
| Purchases (`routers/acquisitions.py`, `allocation.py`, `vendor_cleanup.py`) | vendors, sellers, locations, purchases, costs | enter, rename, remove, number, allocate, clean up | items, sales platforms |
| Reference data (`reference_merge.py`, `seeding.py`, ...) | code tables, aliases, merges | add, retire, merge, load a release | every row that names a code |
| Accounts (`security.py`, `throttle.py`, ...) | users, token versions, counters | sign in, refresh, sign out, promote, deactivate | every request |
| Images (`image_store.py`, `image_links.py`, ...) | files by content hash, rows, links | add, file, move, make primary, delete, enlarge, import | items |
| Backups (`backup_run.py`, `backup.py`, `workbook_backup.py`) | workbooks, media copies, copies of the database | one run, copy, export, import | all of it |
| Clients (`frontend/src`) | tokens, open forms, cart | calls to the API | the API |

What is hard here: a coin can be offered in several places and must be for sale
in one; five tables say so between them (listing status, pausing, claims, lot
memberships, the item's disposition) and are written by about fifteen request
handlers; an order may walk from any status to any other, and whether it still
owes its stock is derived from its history; requests interleave between an
unlocked read and a lock or a version; a derived column must follow the facts
and never a person's word; vocabularies change under the rows that name them;
a backup reads a database that goes on changing.

What makes each component correct:

- *offers*: one active listing per coin; claims say what the listing's status
  says; what is set aside comes back or ends; ended is final; nothing is on sale
  that is not in hand, and nothing is filed as listed that no listing offers;
- *lots*: an offered lot has one live listing that claims exactly its members; a
  finished lot keeps its fate;
- *orders*: a unit is on the shelf or in one order; stock goes back once or
  never; a coin promised to one order is not for sale; an account has one
  customer, and its checkouts leave a bounded number of unpaid orders;
- *standing, kinds and defaults*: an edit, loss or split ends every offer of the
  coin; an item holds what its kind may; one save settles every default;
- *records*: the histories say what the item became, the log what its fields
  hold, and the pieces of a split carry the whole cost;
- *locks*: no deadlock; what was decided still holds when it is written;
- *auctions*: a lot is settled once, and no coin is left at a house;
- *purchases*: no two share a number or an entry's name, none names an entry
  that is gone;
- *reference data*: a merge loses no mark, no edit and no name that can be kept,
  and a release loaded over it undoes nothing;
- *images*: no row without its file, no file without its row; one primary on each
  item, which nothing but a person's word replaces;
- *accounts*: somebody can manage the site, an ended session stays ended;
- *backups*: a failed run never leaves the folder without a proved workbook, and
  what is loaded back is what was held.

## 2. Modules

The shop:

| Module | What it is |
|---|---|
| `SaleState` | the rows as VARIABLES, their types, `Init`, and the questions every writer asks |
| `Offering` | `EndOffers` (`end_offer` and `_end`), `EndListing`, `EndListingAgain`, `OfferItem`, `OfferLot` |
| `LotAssembly` | `CreateLot`, `DeleteLot`, `AddMember`, `RemoveMember` |
| `Orders` | `PlaceOrder`, `RecordSale`, `SetOrderStatus`, `ReviseOrder` |
| `ItemEdits` | `ReceiveItem`, `RecordLoss`, `EditStanding`, `SplitItem`, `DeleteItem` |
| `Shop` | all of them in any order (`Next`, `Spec`), the properties, the refinement |
| `CoinPromise` | the abstract specification: each coin is at home, on sale or promised to one order |
| `ShopInvariant` | the inductive invariants: of offers and lots, and of lines, stock and the orders' history |
| `OfferProofs`, `OrderProofs`, `StandingProofs` | the proofs: types and offers, orders, an item's row, the refinement, and requests at the same time |
| `SaleLocks` | the same requests as transactions that read, lock row by row, decide, write and commit |
| `SettlementGrid` | which settlement grids are refused, and the buyer each line names |
| `Auctions` | auctions over the actions of `Offering`, `LotAssembly` and `Orders` |
| `AuctionInvariant` | the inductive invariant of auctions, on top of those of the shop |
| `AuctionProofs` | the proofs about auctions: a settlement lot by lot, then every request |

What requests do at the same time, each with its own small state:

| Module | What it is |
|---|---|
| `AuctionLocks` | two transitions of one auction: the row lock, the read under it, the version column |
| `FirstOrders` | first orders of an account: the customer row's unique index, the ceiling its checkouts ask about, and the orders a manager places or sets back |
| `ImageStore` | content, files and rows of photographs: uploads, deletions, enlargement, the library's import, each a transaction that may die |
| `PhotoLinks` | filings of photographs, the places named or given, primaries, and the library's import |
| `TabSession` | tokens shared by a browser's tabs, the one refresh of each, signing in and out |
| `Accounts` | roles, token versions, the count of managers |
| `Throttle` | the two limits of the sign-in, window, sweep and bound of their tables |
| `Purchases` | lists, purchases and numbers, and `vendor_cleanup.py` beside the clerks |
| `Vocabulary` | create, rename, retire and merge values, and give and take away aliases, while items are marked and edited |
| `ItemRecords` | what is written beside an item's standing, and what a split's pieces cost |
| `OpenForms` | forms open on one item: drafts, checks, saves, conflicts and the log |
| `ServiceProofs` | the proofs about `FirstOrders`, `AuctionLocks`, `TabSession`, `Accounts` and `Throttle` |
| `ImageProofs` | the proofs about `ImageStore` |
| `RecordProofs` | the proofs about `Backups`, `PhotoLinks`, `Purchases` and `ItemRecords` |
| `ItemProofs` | the proofs about `ItemKinds`, `OpenForms`, `NoteDefaults` with `CoinDefaults`, and `Vocabulary` |

One item, one folder, one database:

| Module | What it is |
|---|---|
| `ItemKinds` | entry, edit, bulk edit and split over an item's kind, detail row and years |
| `FieldSources` | who a column's value is from, and `decide`/`apply` |
| `Compositions` | which composition a coin has: pure operators over the rows |
| `SeriesDesigns` | which design the facts give: pure operators |
| `CoinDefaults`, `NoteDefaults` | the saves and refreshes of a coin or bar, and of a note |
| `Backups` | one folder of workbooks and media: runs, failures, what is removed |
| `Restores` | the copy of the tables, the export, its corrections and the import |
| `Seeding` | a release's data laid over what people made of it |

`MCShop`, `MCSaleLocks`, `MCAuctions`, `MCService`, `MCRecords` and `MCItems`
give the constants for TLC. The last three hold several small specifications
that share no state. A behaviour is of one of them: `desk` is chosen in `Init`
and the others stay in a resting state, so the state spaces add up and do not
multiply.

### The shop

State. Each variable is a column or a table: `listingStatus`, `subject`,
`venue`, `quantity`, `pausedBy` are columns of `listing` (`"unused"` is an id
not yet inserted); `claim[l][i]` is the `offer_claim` row (`"none"`: no row);
`members[k]` the `sales_lot_item` rows not released; `share[o][l]` the shares of
an order's line; `everShipped` and `refund` what `ever_shipped` and
`_refund_returned_stock` derive from `sales_order_change`. `stockBack` is a
history variable of the model: `return_stock` ran for the order.

Actions. One action is one request, everything its transaction writes included;
its conjuncts are the handler's refusals. Requests that refuse change nothing
and are not steps. Abstractions, each of which keeps the control:

- an offer is one unit: `_refuse_unlistable` refuses any other quantity;
- a batch (`POST /offers`, bulk edit, receive, lot PATCH) is all or nothing and
  is taken one item at a time;
- venues are three kinds: the shop, a marketplace, an auction house; a venue
  that is retired only refuses;
- `item_status` is `"received"` or `"away"` for every other code, the only
  distinction `not_ours_reason` makes;
- prices, titles, fees, addresses and version tokens are left out; an account's
  customer and the ceiling are `FirstOrders`; an auction-format listing without its
  auction behaves as any outside listing.

Old listings. `OldListing` gives the shop listings made before claims existed;
they offer their item without a claim row until they are paused or resumed.

### The shop's locks

`Shop` takes a request as one step; `SaleLocks` takes it apart. A transaction
`t` goes through the statements of the code:

| Stage | Action | Code |
|---|---|---|
| `first` | `Start`: lock the order, the lot or the item the request reads first | `update_order_status`, `_lot_members`, `split_item`, `delete_item` |
| `chosen` | `Choose`: what the unlocked reads name, and the refusals decided before the pass | `_lock_offers_holding`, `_lock_listings`, `_no_stock_to_return` |
| `known` | `ReadItems`: the items each named listing reaches, unlocked | `_items_of` |
| `lots`, `items`, `listings` | `LockLots`, `LockItems`, `LockListings`, row by row with `LockRow` | `lock_for_sale`, `_acquire` |
| `late` | `LockAgain`: the passes of the endings that follow | `end_offer`, `_settle_sold_lots` |
| `update` | a request that takes no pass: the row its UPDATE locks | `receive_items`, `add_member`, an edit of an item not offered |
| `decided` | `Decide`: the refusals read under the locks | the handlers |
| `committed`, `refused`, `failed`, `lost` | `Commit`, `Refuse`, `Fail` (`LockSetChanged`), `Lose` (the connection or the process is gone) | `committing`, `get_db` |

Each statement reads what is committed when it runs. `held` is the rows a
transaction has locked, `todo` those its statement still wants in id order.
`plan` is what the unlocked reads chose and is stale by design. `moved` is the
version column: true once another transaction has committed a newer version of
the item the request has read. An edit from the editor (`"edit"`) sends the
version it was opened with, so it is refused when the row moved, at the UPDATE
or under the lock (`_recheck_under_the_lock`); a bulk edit (`"bulk"`) sends none
and is checked by the UPDATE alone. `Effect(t)` is the step of `Shop` the
request makes, with the parts decided before the locks taken out. A history in
`past` is made one request at a time before the transactions start.

### Auctions

`Auctions` extends the shop: its lots are listings of sales lots on the
auction's platform, and each of its actions is composed of the shop's questions
and writes (`OfferLot`, the endings, recorded sales) with what `auctions.py`
adds. A settlement takes a grid of lines (`SettlementGrid`), records one order
per buyer key, ends the unsold lots, and at a house brings their coins home. A
request of the shop that `auction_ids_by_listing` refuses for an auction's lot
is refused here. Dates, lot numbers, amounts and the record of a return are left
out. `AuctionLocks` takes two transitions of one auction apart: those that reach
coins lock the auction row and read it again; `schedule` and `close` rely on the
row's version; a receipt takes only the coins' rows.

### Defaults

One item. A column is filled, left or taken back by who its value is from
(`FieldSources`): nobody's record means a person or the data, `"held"` a column
a person emptied, anything else the rule. A save is one action: the values sent,
then every refresh the handler calls, in its order. Weights are in ounces, a
fineness in parts of `Pure`, a fine weight in parts of an ounce, so the
arithmetic of gross, fineness and fine is the code's, on small numbers. What a
text says is the set of designs it names (`series_match` reads it; its text
rules are left out).

### Records, forms, purchases

`ItemRecords` lets two requests handle one item: each reads, perhaps locks and
reads again, and writes under the version it read. Whether a live offer holds
the item decides which of them lock (`offerLive`; the offers themselves are the
shop's). A status assigned before the locks is written before the re-read, as
`_end_offers_holding` does, and the mutant that forgets the flush loses it. The
shares of a split follow `allocation.py`: largest remainders, in cents. The
history page is read back from the rows.

`OpenForms` has two forms on one item with a field and the item's set of errors.
A form keeps its draft, the item it last took in and the item its edits began
from; a check answers late or twice and is taken in only when newer; a save
sends the draft with the version of the form, is merged field by field, or is
refused with what clashes; the log is written with the save.

`Purchases` follows one of the three lists (vendors, sellers, locations), which
are kept alike. Clerks enter, rename, remove and record under READ COMMITTED;
the numbers of orders are given under the advisory lock; a unique index or a
foreign key refuses what the code's own question missed. `vendor_cleanup.py`
runs beside them; a run without `--commit` is one that ends rolled back.

### Reference data and photographs

`Vocabulary` follows merges and edits from their first read to their commit: a
merge reads its two values, locks the items that hold the one, looks again, moves
their marks, writes their history and deletes the value; an item is written under
its version. A value goes by its code, its label and its aliases, words that are
the same but for case being one. `Relabel`, `AddAlias` and `RemoveAlias` are the
console's; only codes are unique, so a label may be another value's name. `called`
and `own` are the names of the two values as the merge's plan read them, and
`KeptNames` is what `add_alias` takes once the old value is gone: nothing too long
for an alias and no value's own label or code. `Seeding` lays releases
over a vocabulary: codes are the identity, a merged code leads to what it
became, retired values and the names a person added or removed are remembered,
and a load commits once or not at all.

`ImageStore` follows a photograph's content: the hash is held (an advisory
lock), the file written, the row committed; a deletion removes the row, holds
the hash, asks again and only then removes the files. Requests and tools can die
between any two steps. `PhotoLinks` follows filings: places and primaries, under
holds of the items' rows. A caller of `attach` may name a place (`at`), which is
taken as it is; nothing makes places unique, and `FirstOn` breaks a tie by id.
`BeginImport` is a file of the library, filed in the place of its name: its three
questions (is it filed, is the place taken, is there a primary) are asked before
anything is held. A run of the import files many; here each file is a request.

### Backups and restores

`Backups` is one folder: a run dumps a workbook, copies the photographs, proves
both, and prunes; the database changes between its statements and the run can
die between steps. `Restores` is what a copy or a workbook holds: the tables in
foreign-key order, links to later tables and to the table itself written
afterwards (`_own_links`), sequences set past the highest id, a snapshot for the
whole read, a revision checked before the load; and the person who corrects a
workbook before it is loaded back, with the rows it makes for names the vocabulary
does not have.

## 3. Runs

| Run | Config | Shows | Bounds |
|---|---|---|---|
| `shop` | `MCShop` | offers, claims, lots and filings agree after every request; each request is a step of `CoinPromise` | 2 coins, 3 listings (one old), 1 lot, 1 order, shop and a house |
| `orders` | `MCOrders` | stock is conserved over an order's walk; no double sale; stock goes back once | 2 coins, 3 listings, 2 orders, five statuses |
| `locks` | `MCLocks` | one lock order, decisions stand, each commit is a step of `Shop` | 2 transactions of 32 requests, histories before them; 2 coins, 4 listings, 1 lot, 2 orders |
| `answered` | `MCAnswered` | three requests round the offer of a lot are all answered | 3 transactions |
| `auctions` | `MCAuctions` | lots on offer, no coin stranded, settlements whole and final | 1 auction, 2 coins, 2 lots, 3 listings, 2 orders, a house and a platform, three buyers' names |
| `service` | `MCService` | sessions, first orders, transitions of an auction, files of photographs; each request is answered | 2 tabs with 3 calls and 2 token pairs; 2 shoppers, ceiling 1, 3 orders; 2 transitions, 2 lots, 2 writes; 2 requests, 2 contents, 2 images, 1 item |
| `records` | `MCRecords` | accounts, sign-ins, photographs, backups, vocabulary, kinds, purchases, histories | 2 of each actor; see below |
| `items` | `MCItems` | defaults of coins and notes, open forms, releases loaded, database copied and loaded | see below |
| `deadlock`, `phantom_stock`, `stale_edit`, `fine_above_gross` | `MCDeadlock`, `MCPhantomStock`, `MCStaleEdit`, `MCFineAboveGross` | findings: see section 6 | 2 or 3 transactions; the coins of `items` |

What the lock runs leave apart, and why. A loss or an edit at the same time as
the offer of a lot deadlocks (`deadlock`), a cancellation at the same time as a
loss returns stock to an ended listing (`phantom_stock`), and an edit of an item
filed as listed by hand can miss an offer (`stale_edit`). The scenarios of
`locks` are therefore of two groups: one holds every lot, order, offer and split
request and no loss, the other every receipt, loss and edit, without the offer
of a lot and without an item filed so.

`LocksInOrder` is the rule of `docs/specs/lock-order-design.md`; that it keeps
requests from waiting in a circle is `EveryRequestEnds` of `answered` and the
deadlock check of `locks`. `DecisionsStand` says that the step from `Decide` to
`Commit` is atomic for the request although others run: what it decided on is
locked or follows from what is locked. `AsIfAlone` says that each commit is a
step of `Shop`, so that the properties of `shop` and `orders`, checked of
requests in turn, hold of requests at the same time. Two transactions are enough
for a race between a reader and a writer and three for the circles that a row
handed from one to another makes possible; the requests compete for two coins
because a lot of two is the smallest set whose rows can be taken in two orders.
The ids put an item's shop listing above the lot's listing that pauses it, the
order that would go wrong if the two were taken one after the other.

For `Shop` the only bound is the size of the sets: nothing is capped inside an
action, an id is used once and every run is exhaustive. Three listings are the
smallest number with one paused, one it waits for and a third that competes; two
coins the smallest with a lot that differs from its member; two orders the
smallest with a competing buyer. Coins, listings and orders are interchangeable,
so TLC uses symmetry where nothing is liveness (`shop` fixes its old listing's
coin).

Bounds of `records`: 2 accounts and 2 requests, token versions to 2; 2 sign-ins,
2 names and one too long, a window of 2 ticks, 2 attempts, 1 key per table,
a sweep every 3 records, the clock to 3; 2 filings, 2 photographs, 2 items, 2
links, places to 3, place 1 named by callers; 3 backup runs with `--keep` 1 or 2,
2 photographs, 1 other edit; 2 values and a third that may be made, a word too
long for an alias, 1 name given or taken away, 1 item, 2 requests, versions to 2;
one sided field, one serial, two years; 2 clerks, 2 entries, 2 records, labels
`x`, `X`, `y`, numbers blank or 1; 2 handlers, the item ordered and nowhere or
received and on a shelf, a price of 5 cents corrected to 4 with postage of 1,
splits in three equal parts, in parts valued 1 (twice) and 3, and in parts valued
nothing. Each is the smallest in which the case a property is about happens: a
third value for a chain of merges and for a name that is another value's, a third
run for a prune that follows a failure, two photographs of one item of which one
is moved away and comes back behind a gap, a place named that is taken, a
remainder that does not divide. The item holds the one value the vocabulary starts
with and holds, or held, the other. Requests of whatever kind are alike, and so are
images, so TLC takes them as symmetric.

The ceiling of `service` is 1 and two requests race for it, so that one of them
passes it; three orders let a third be placed at the console, and one that was
paid for come back.

Bounds of `items`: a half dollar of one design that changed its metal, a proof
set's silver half, a commemorative only a text tells apart and a bar; a silver
certificate and a brown seal; a save sends facts or one
column, of a note also some marks; 2 forms and 2 saves; 2
releases of 3 codes and 4 changes by people; tables grade, mint and item with
links to each other and to themselves, 1 change of the collection, 2 jobs, 1
correction.

Deadlock is checked in the runs of the shop, its locks and the auctions: a
request can always be made, and `SaleLocks` stutters once every transaction has
ended. It is not in `service`, `records` and `items`, whose counters are capped
so that a behaviour may come to its bound; that nobody waits for ever is
`RequestsAreAnswered` there, and `NobodyWaitsInACircle` and `CountsDoNotCircle`
inside `FilesFollowRows` and `ManagersRemain`.

Fairness. `Spec` of the shop assumes none: no request has to be made.
`FairLockSpec` and `TabFairness` assume weak fairness of each transaction's or
call's own steps: the server runs a request it has accepted. The waits of
`FirstOrders`, `AuctionLocks` and `ImageStore` are on one row or one advisory
lock that others take again and again; PostgreSQL queues those who wait for a
lock and hands it on in turn, which is strong fairness of the waiting
request's steps. Nothing is assumed of a request that has not begun, of a lost
connection, of a process that dies or of a retry by the client.

Every property has at least one mutant, an operator next to the one it replaces
that makes the mistake a programmer might (a lot's members overlooked, a stale
row kept, a flush forgotten, a hash not held); TLC refutes the property under
each.

## 4. What is proved

For every value of the constants, from the named assumptions only
(`SubjectsApart`, `OldListingsApart`, `RequestsNameRealCodes`; for the refinement
also `PlacesApart`, that the places of the promise are no orders). First the
shop:

- `TypeCorrect`: `Spec => []TypeOK`, which includes that stock never goes
  below zero.
- `OffersAgree`: `Spec => []OfferInv`, and from it `OneOfferHolds`,
  `ClaimFollowsListingHolds`, `PausedIsWaitingHolds`, `LotMatchesOfferHolds`.
- `EndedIsFinalHolds` and `LotFateIsFinalHolds`, action properties.
- `OrdersAgree`: `Spec => []OrderInv`, and from it `StockConservedHolds`,
  `NoDoubleSaleHolds` and `StockGoesBackOnceHolds`.
- `OfferedIsInHandHolds`, `ForSaleIsFiledListedHolds` and the action property
  `NoOrphanListedHolds`, about an item's own row.
- `KeepsPromisesHolds`: `Spec => KeepsPromises`. The shop implements
  `CoinPromise` under the refinement mapping of `Shop`.

Auctions, over the same shop (`AuctionsOutside`: those who host auctions are venues
outside the shop; `BiddersAreNames`): `AuctionsAgree`, and from it
`LotsAreOnOfferHolds`, `NoCoinStrandedHolds`, `SettledWholeHolds` and the action
property `SettlementIsFinalHolds`.

The service, for any number of requests, tabs, accounts, pictures and items:

- `OneCustomerInBoundsHolds` (`FirstOrders`), from a finite pool of threads: one
  customer, and a bound on what checkouts place, whatever the console does;
- `DecidedUnderTheLockHolds` (`AuctionLocks`), an action property;
- `OnlyRetiredIsDroppedHolds` (`TabSession`), under `~HastySignIn`;
- `ManagersRemainHolds` and `EndedSessionsStayEndedHolds` (`Accounts`), under
  `~SameRowOverlap` and for finitely many accounts, at least one;
- `FilesFollowRowsHolds` (`ImageStore`), under `~ImportOverlaps`, and
  `RowsKeepTheirFiles`, its first two parts without that condition; from finitely
  many requests and items, which is what makes an order of locks end;
- `AttemptsAreLimitedHolds` (`Throttle`), for finitely many sign-ins at a time;
- `ProvedStaysHolds` (`Backups`), and under `~ComeAndGo` `BackupsHoldHolds`;
- `ArrivalsInOrder` (`PhotoLinks`): never two primaries on an item, none taken
  unasked, and what is filed with no place named goes last; under `~DeleteOverlaps`
  `PhotographsInOrderHolds`, exactly one primary each as well.

Requests at the same time (`SaleLocks`), under `EditsAreAlone`, for any number of
transactions, scenarios and histories:

- `AsIfAloneHolds`: what they write is what requests made one at a time write;
- `PromisesStandAtOnce`: so the properties of the shop that were proved of such
  requests, and the refinement, hold of them as well.

`EditsAreAlone` leaves out of the requests at the same time (not of the
histories) the edits of an item's standing, and a loss where an order is
cancelled or refunded. Those are the races of `stale_edit` and `phantom_stock`,
where the theorem is false; the scenarios of the run `locks` have edits and
losses among the requests that do not meet in these ways, so its `AsIfAlone` says
something the theorem does not.

How they lock, under `RequestsAreApart`, for any number of transactions:

- `LocksInOrderHolds`: a transaction waits only for rows that come after every row
  it holds;
- `LockedBeforeWrittenHolds`, an action property: what a commit changes is what
  its transaction locked.

`RequestsAreApart` is `EditsAreAlone` and two conditions more. No lot is offered
beside the loss of an item: the loss of a coin of that lot may end the offer, and
then it waits for the lot's other coins with listings in hand, which is how the
run `deadlock` comes to its circle. No listing is bought beside the request that
makes it: a checkout that names the id of a listing that is not there yet when it
reads the items, and is when it locks the listings, holds the listing without its
coins; a client can know no such id, and the run `locks` has none. Any two
requests of a scenario of `locks` satisfy it, if neither is an edit.

The records and the edits of an item:

- `FitsItsKindHolds` and the action property `NothingDroppedUnnamedHolds`
  (`ItemKinds`), for any sided fields, years and serials;
- `LogTellsHolds` and `FormsOnlyAdvanceHolds` (`OpenForms`), and under `~TypesOn`
  `EditsMergeHolds`, for any number of forms and fields;
- `PersonsWordStandsHolds` (`CoinDefaults` and `NoteDefaults`), for any facts,
  designs, compositions, issues and banks;
- `MergesLoseNothingHolds` (`Vocabulary`), under `~CrossMerges`, `~LateMarks` and
  `~LateLabels`, for any number of values, names, items and requests;
- `PurchasesStandHolds` (`Purchases`), for any number of clerks, entries, records
  and labels, finitely many of each;
- `RecordsTrueHolds` (`ItemRecords`), for any number of requests, any costs in
  whole cents and any division in at least two parts;
- `RestoresWholeHolds` (`Restores`), under `~EmptiesSheets`, for any tables in
  foreign-key order and any rows: the half of `LoadsKeepWhatIsHeld` that is about
  copies and workbooks.

The conditions written with `~` are those of the table of observations: without them TLC
finds the property broken, so the theorems say that nothing else breaks it.

The argument. `OneOffer` is not inductive: an ending brings back every listing
paused for the one that ends, and nothing in `OneOffer` says that there is only
one, that it names only that coin, or that no other active listing names it.
`OfferInv` adds it: a paused listing is the shop's listing of one item and waits
for an active listing that names the item (`PausedIsWaiting`); an item's listing
claims that item only (`ClaimsOwnItem`); an item has one live listing in the shop
and a lot one anywhere (`OnePerSubject`); a live lot listing holds exactly the
lot's members (`LotListingHoldsMembers`). That last conjunct is why pausing is
sound: a displaced listing cannot be a lot's, for the coin would then be in an
offered lot and `_refuse_grouped` refuses it (`Displaced`).

The proof treats the two writers of listings once each (`EndingKeeps`,
`OfferKeeps`), shows that every request that writes a listing is one of them
(`ListingWriters`), and that assembling a lot touches no offer
(`AssemblyKeeps`). `OfferInv` is checked by TLC in `shop`.

Orders. `StockConserved` says where the unit of a listing is, and is not
inductive: an order may walk from any status to any other, and whether a
cancellation gives its lines back is read from the rows of its past.
`OrderInv` adds what those rows mean: an order that is packed, shipped or
delivered, or was refunded without return, is known to have left
(`LeavingIsKnown`); one that gave its stock back never left
(`ReturnedNeverLeft`) and stays closed; the kind of the last refund tells which
(`RefundTellsItsStock`). It adds what a line is of: a listing that was offered,
ended unless it is an item's in the shop (`LinesAreSold`). And it says what the
two lists of a coin have to do with each other: while an order may still give
its coins back (`Holds`) none of them is for sale (`PromisedIsNotForSale`), none
is in another such order (`PromisedOnce`) or twice in this one (`LinesApart`);
without the last a return would put one coin on two shelves. The proof sorts the
requests into those that leave the orders and the shelves alone (`QuietKeeps`),
an offer (`OfferKeepsOrders`), a sale or a revision (`Moves`) and a status.
`SaleClosesCoins` is where the offers are needed: what a sale leaves up cannot
sell a coin that was sold.

Standing. The three theorems about an item's row need nothing more than
`OfferInv` and `OrderInv`, but each is a second look at every request: what it
writes in the item's row and what is on offer after it.

The promise. `CoinPromise` knows nothing of listings, claims or lots. The
mapping reads a coin's place from the orders first and then from what names it
(`PlaceTells`); that the answer is one place and not two is `OneOffer` and
`PromisedOnce`. Each request is then one step of the promise: an offer, a
withdrawal, a trade or a leaving, and an ending that pauses or resumes a listing
of a coin that stays on offer is a stutter.

Requests at the same time. Most requests ask everything again under their locks,
so what they write is a step of the shop whatever was read before. What is left
is what a status change was allowed before any other row was locked
(`Allowed`), which must still be true when it writes. `LockInvariant` says that
who goes on holds the row it reads first, its order's, and nobody else does; so
nobody else writes that order (`OthersKeepTheOrder`). Whether the order has
stock to give back is read from rows that are not held: `HeldListingStays` shows
that no other request ends a listing of an order that holds stock, but a loss or
an edit.

Locks. `lock_for_sale` reads before it locks, in four statements, and others
write between any two of them; its comments say why that is safe, and the proof
follows them. `Touched` says which rows a request may write, whatever is sold out,
paused or brought home by it (`EffectWrites`, one lemma per kind of request).
`Passing` says, stage by stage, what a transaction under way knows: what its row
of the first statement told it (`Stands`), that the listings and items it chose
are those it would choose now or that they have gone off offer (`StillChosen`,
`StillKnown`), which lots and offers it has (`LotsTaken`, `OffersTaken`), and at
the end that its rows cover what it touches (`Covers`). `Elsewhere` is what the
holder of some rows sees of another's commit: its rows stay, an offer can only go
off offer, a new offer holds none of its items. `PassingStays` shows that what is
known survives every such step, by nothing but the rows held so far, and
`PassCovers` that it suffices: what is locked when `_refuse_if_changed` and
`refuse_if_lot_unheld` have let it pass is all it writes, and the `end_offer` of
`_settle_sold_lots` and its like "re-locks rows this transaction already holds".
So no later pass waits at all, and the order is that of the first.

Auctions. `AuctionInv` stands on `OfferInv` and `OrderInv`, so those are shown of
the auctions' requests too: each is an offer of lots, an ending that sells
nothing, a settlement, a removal, or the shop's own. A settlement is a sale of
many lots at once (`Sells`), which the proofs of orders already treat; what is
new is that the lots of one auction share no coin (`LotsApart`), so that what one
lot's order takes is not another's. `AuctionInv` adds where the lots are by
what the auction's status says (`LotsFollowAuction`, `CustodyIsBetween`,
`NoLotsOutside`), that results are those of an ended auction (`ResultsAreOfEnded`)
and that each lot sold has its order (`SettledHasOrders`). `ShopSparesLots` is the
other half: no request of the shop ends an auction's listing.

First orders. Only a checkout asks about the ceiling (`order_writes.py:69-78`),
and it counts whatever is pending, a manager's orders too. So the orders of an
account have no bound, but those its checkouts placed and nobody has moved since
(`counted`) have one: they are among what each later checkout counts. The
ceiling is asked before the order is written, so what bounds the overrun is who
has asked and not written yet: `RoomIsCharged` counts those with the ones
placed. `OneRowAtMost` is the unique index at work.

An auction's row. The invariant says that who holds the row's lock has read what
it holds now, and that a version tells its status. A transition that read before
it held the row either read again or is refused by its version.

A browser's session. The pairs of tokens in use anywhere, stored, in a tab's
memory or in a request, are of one session (`OneSession`); a refused token is of
a session that is over (`EndsWhenOver`), and a call that is tried again carries
the newest pair (`ReplaysAreFresh`).

Accounts. Who may still write a row holds it as it is (`WritersAreCurrent`); the
managers that others are about to take away are not counted twice
(`LossesAreCounted`); a retired version is below the current one (`RetiredIsPast`),
and one version stands for one password (`VersionTellsPassword`).

Pictures. Who looks or writes holds the content (`ContentsAreHeld`), hence a
content that is brought has its file and no row (`BroughtAreNew`), and two rows
never get one (`RowsApart`). What no row names is owed by a request that will
remove it or give it a row (`UnheldAreOwed`). Requests hold items in the order
of their ids (`CoinsAreHeld`), and contents after them: in a circle everybody
would wait for an item, and who holds the greatest of these waits for a greater.

The throttle. What a table holds of a key within the window is what really failed
there (`WindowIsHeld`), unless a full table has forgotten the key; each sign-in
under way was let in below the limit and may fail once more (`RoomForTrying`).
The lemmas about `FirstAfter` and `Since` say that cutting the oldest away twice
is cutting it away once, whenever it is done: in a call or in a sweep. The code
reads the clock just before it takes the lock and the model in the same step: two
calls that swap in between record their times in the other order, which no
property here tells apart from two calls in that order.

Backups. A run's workbook is unproved until it is marked (`OneWorkbook`); what
its rows name is in the copy, as far as the run got (`CopyGetsThere`). Whether a
copy may be pruned is judged by the number of the photographs' rows and their
highest id. `RowsTell` says why that suffices while none comes and goes within
one run: there is a set that had those two numbers when the run started, what is
left of it is inside it, and a set of as many members inside it is all of it.

Photographs filed on items. Between a request's look at its item and its writing
nobody else writes there: `SeenIsTrue` keeps what it saw, whether there is a
primary and, where no place was named, that the next one is behind all others,
true while it holds the item. A place that was named is taken as it is and may
be another's; what is next is still behind both. The file `_01` of the library
counts as asked, by the name somebody gave it for an item seen without a
primary; what was seen may be past by then (`ImportsTakeNone`, in the
observations). Each writing then keeps at most one primary on an item, and a
removal fills the place again with the first of what remains (`VacancyIs`). That
there is one at all needs more than the holds: a deletion takes an image off
items it read before it held them, so it must be alone with its image
(`DeletesAlone`) and hold every item the image is on (`DeletedIsHeld`). Only
these two use `~DeleteOverlaps`; the proof treats every writing request as one
that `Writes` under its hold, and shows once what such a step keeps.

Kinds. What a request writes later was worked out from the row it read, so
`KindsInvariant` says of each write still to come what it will make of an item
that has not moved since: a row of its kind. The proof follows a save through
the handler's parts, the years, the detail row, the serial, the sided fields,
and says of each which columns it may touch (`AlikeBut`).

Forms. Every item a form holds was the item once, as of its version, and the
newest row of the log is what it holds now: `FormsInvariant` orders by versions
what is shown, checked, merged and out on its way. Where nobody types on while a
save is out, the base of each edit is a value the person has seen (`SeenOf`);
`WithTyped` is the only way one comes in.

Defaults. Nothing need be known of a coin or a note but its shape (`Shaped`), and
the work is in the operators: what is decided from the facts writes and retracts
no column of a person's (`SparesPersons`), for the whole chain of decisions that
fill one column from another; laying such an outcome over the row keeps what the
person said (`Keeps`), and so does each later pass, the series, the weights
worked out and the rules about attributes. A save, a refresh and a guess are
chains of these.

The vocabulary. `VocabularyInvariant` says of each merge under way what it may
rely on (`MergeIsOn`): every item marked with its source is among those it will
hold, then held, then in the log it is about to write. That no item joins them
later is `~LateMarks`; that its target is not itself merged away is `Apart`,
which needs `~CrossMerges`. An edit that removes a mark was asked for of an item
that had it and counts only while the item's version has not moved
(`EditIsAsked`); that version is what ties an edit to a merge it overlaps. The names
are about two moments: those the plan read are still the source's own when it goes
(`CalledGoesOn`, from `~LateLabels`), and the aliases are read as it goes, so what
is left out of `KeptNames` is too long, names a value of itself, or is the kept
value's already. It is not said that a name stays for good: a person may take an
alias away, one that a merge made too.

Restores. `RestoresInvariant` follows a job through its tables: those behind it
are as the snapshot (`CopyStands`, `ExportStands`) or the workbook (`ImportStands`)
has them, those ahead are empty, and a table that is in points only at tables
that are in (`CameInOrder`), since links lead to earlier tables (`ForeignKeyOrder`,
which `backup.py:205` relies on). Until a copy has its revision its counts cannot
match, and by then every sequence is set (`SetIsUsable`). What is loaded of a
workbook is worked out before the load starts (`MendedGoesIn`): a broken link ends
at a row called unknown, made up as row 0 where there is none, and the sequence
can still be set since a vocabulary that is pointed at has another row
(`EmptyIsUnnamed`); a correction that takes the last one off is what
`~EmptiesSheets` leaves out.

Purchases. What a clerk's transaction asked before it writes is stale by then,
so `PurchasesInvariant` leans on the unique indexes and foreign keys where the
code does, and on the advisory lock for the numbers: who holds it knows every
number given (`numbering`). The clean-up repoints the records of an entry before
it removes the entry, and its names collide with nothing since it holds the rows
it merges.

Histories. A row of a history is written with the column it tells of, by the one
that holds the row or whose version still counts: `HistoriesInvariant` keeps
what each request has read (`ReadOf`), which is the row as it is or one of an
older version, and what it is to write. `Leads` then grows by one move at its
end. That a split's pieces carry the cost to the cent is arithmetic: what the
floors leave is fewer cents than parts that were cut (`SharesAddUp`), and those
who get one are as many as the cents, since `Ahead` is an order
of the parts. Neither sum can be shown by induction here; the lemmas about `Total`
take a smallest set of parts on which the claim fails (`SubsetsOf`, from the
well-foundedness of strict inclusion) and take one part out of it.

Model-checked only: `DecisionsStand` (`SaleLocks`), which is about `ENABLED`;
`AsIfAlone`, `LocksInOrder` and `LockedBeforeWritten` with edits, and losses
that meet a cancellation, among the requests; `DefaultsSettle` (`CoinDefaults`
and `NoteDefaults`), what `LoadsKeepWhatIsHeld` says of `Seeding`, and all
liveness.

## 5. Constraints of the schema the properties lean on

`uq_offer_claim_active` (one active claim per item) and the partial unique index
on open lot memberships are never relied on by the model: `OneOffer` and
`LotMatchesOffer` show that the code keeps them without the index. Nor are
`uq_item_image_pair` and `uq_item_image_primary`: the holds keep them
(`PhotographsInOrder`, `ArrivalsInOrder`). No index keeps places apart. Relied on, as
actions that refuse: the unique index on a customer's account (`FirstOrders`),
on an image's content (`ImageStore`), on the names and numbers of `Purchases`,
the foreign keys to vendors, sellers and locations, the version columns of items
and auctions, and `ck_inventory_item_fine_within_gross` (`fine_above_gross`).

## 6. Findings

`deadlock`. `lock_for_sale` reads which items to lock, then which lots the
offers of those items have (`offering_writes.py:859`). A lot offered between the
two reads has its row locked and its other coins not. `refuse_if_lot_unheld`
passes, since the lot row is held, and `end_offer` then takes the other coins
after the listing, against the order `docs/specs/lock-order-design.md` sets. The
run records both coins of a lot as lost while the lot is offered. One loss reads
before the offer commits and holds its coin; the other reads items before it and
lots after it, and holds the lot and its listing; each waits for the other.
The window `refuse_if_lot_unheld` closes is the other half of it: `answered` has
no deadlock, and has one when nobody asks (its mutant).

`phantom_stock`. `update_order_status` asks `_no_stock_to_return`
(`routers/orders.py:519`) before `return_stock` takes its locks, and nothing asks
again. A loss of the coin that commits in between ends the listing, and the unit
goes back to it: stock on a listing nobody can buy from, the coin filed as sold.

`stale_edit`. An edit of an item that nothing offers at its first read takes no
lock and relies on the item's version. Offering an item writes its disposition,
and so a version, except when the item was already filed as listed by hand. Then
the item is marked missing while its offer is being made and the offer stays up.

`fine_above_gross`. `_refuse_fine_above_gross` judges a save only where it sends
a weight. A save that sends a fact or a series lets `refresh_items` fill a gross
from a composition below the fine weight a person typed earlier; the write fails
on the database's constraint and the request is not answered with a refusal.

### Observations

Constants of the models let a case in that the runs keep apart, because with it
TLC finds a property broken or a doc and the code at odds. Each is reached by
changing one constant of the config, or by checking one property that no run
checks.

| Setting | What TLC finds |
|---|---|
| `DeleteOverlaps = TRUE` (`PhotoLinks`) | an image filed on an item between the read of its items and the holds (`routers/images.py:449`) is deleted, and the item is left with photographs and no primary; the comment at 471-475 says it keeps one |
| `ImportOverlaps = TRUE` (`ImageStore`) | the library's import holds a hash, then an item (`photo_import.py:257`, 286); the service takes the item, then the hash (`image_links.py:70`): a circle, which the database breaks by failing one |
| `ComeAndGo = TRUE` (`Backups`) | a photograph that comes and goes within a run leaves count and highest id as they were (`backup_run.py:215`, 243), and a copy is pruned whose replacement lacks one; the module's head (14-16) says otherwise |
| `CrossMerges = TRUE` (`Vocabulary`) | the target of one merge is merged away by another (`routers/reference.py:616`): a name leads to a value that is gone |
| `LateMarks = TRUE` (`Vocabulary`) | an item marked with a value after the merge looked for its items loses a line of its history, or its mark is moved with no new version |
| `LateLabels = TRUE` (`Vocabulary`) | a merge takes the names its plan read, before it waited for the items (`reference_merge.py:515`): a label given to the source meanwhile is no alias of the kept value and in no line of `names_not_kept`; the module's head (24-28) promises one or the other |
| `ImportsTakeNone` (`PhotoLinks`) | whether an item has a primary (`photo_import.py:284`) and whether the place is taken (274) are asked before the item is held: a photograph filed in between becomes the primary and is then displaced, unreported, and two share the place; `docs/specs/item-photographs-design.md:145` says that a primary is never taken away |
| `SameRowOverlap = TRUE` (`Accounts`) | two requests that move one account's token version write the same version (`users.py:131`, `auth.py:189`), so tokens issued between stay good; and a manager demoted while being deactivated is written from a stale row |
| `HastySignIn = TRUE` (`TabSession`) | a request of the session before, answered late, ends the session somebody has just opened in another tab |
| `TypesOn = TRUE` (`OpenForms`) | typing goes on while a save is out; `readBack` adopts what another saved meanwhile (`ItemEditForm.jsx:1086-1097`) as the base of that typing, and the next save replaces it unseen, against the comments at 402-404 and 551 |
| `EmptiesSheets = TRUE` with a guessable mint (`Restores`) | an emptied sheet of a vocabulary whose "unknown" row is made on import gets id 0, and the sequence is then set to 0 (`backup.py:366`), which PostgreSQL refuses: the import fails although `workbook_backup.py:53-57` says the row is added |
| `EditsOverlap = TRUE` (`Seeding`) | a merge committed while a release is loaded: the load has read the merges already and makes the merged code again |
| `NamesComeAgain = TRUE` (`Seeding`) | a name removed by a person comes back with the next release when it had been added by one, or came from a value merged away, for merging deletes retired names (`reference_merge.py:516`); `aliases.py:8-11` says a removed name stays removed |
| releases that give two designs a range with one first year (`Seeding`) | after the two are merged every load is refused, "lists that range twice" (`seeding.py:511`) |
| `EmptyIsFilled` (`CoinDefaults`) | a fine weight worked out and then taken back stays empty until the next save (`classifier_defaults.py:14`, 797) |
| orders that start at `delivered` | `ever_shipped` (`order_writes.py:600`) reads the rows of `sales_order_change` and says False of a sale recorded from a house (`sales_writes.py:83`), which is delivered |

Not counted as a finding: the pieces of a split may differ from the whole by
cents of tax, which the API reports (`total_cost_difference`).

## 7. Not modelled

- Search, catalogue and reports: they write nothing; what they compute is SQL
  over one snapshot, which tests reach.
- Titles, descriptions and the gift rule's rewriting of them: wording.
- Text rules (Friedberg numbers, serial patterns, plates, `series_match`): pure
  functions of one string, unit-tested; what they answer is an input here.
- Request and response shapes: declarations; what they refuse is left out of the
  inputs.
- Sales venues, metal prices, settings, start-up: rows and constants with no
  protocol.
- The passes that match orders and listings from a spreadsheet
  (`ebay_orders.py`, `listing_links.py`), the export of reference data,
  composition rows and links between vocabularies in a load.
- Decoding and fetching of pictures, PostgreSQL itself, password hashing and the
  tokens' format: external.
- Pages of the store front and the console beside the session and the item form;
  operating-system scripts.
- Inside modelled parts: a vendor's host and kind, amounts and dates of orders
  and auctions, `update_listing`'s price and wording, what a workbook's cells
  hold, a copy into a database that is not empty, several files in one
  transaction of the library's import, an item's country and
  previews, more than one field per edit in `ItemRecords`.

## 8. Plan

Done: the shop, its locks and its proofs; then auctions, the service's own
races, the records, defaults, forms, seeding and restores.

Proofs next, in order:

1. `SaleLocks`: what an edit writes is what it has locked, where no offer comes
   while it goes without;
2. `Seeding`, once its loads are written without `RECURSIVE`: what is loaded leaves
   what people did as it is.

Out of the prover's reach: liveness (`EveryRequestEnds`, `RequestsAreAnswered`),
`DecisionsStand` (`ENABLED`), and what a recursive definition computes for every
input (`Seeding` follows merges with one).

Modules next: the order pass (`ebay_orders.py`) over `Orders`, and settings that
change while requests run.
