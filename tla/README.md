# warehouse_app in TLA+

A verification development of `warehouse_app`, the library behind a warehouse's picking,
putaway and inventory sync. The modules model its Python services and the PostgreSQL
transactions they make; TLC checks them on small instances and TLAPS proves the safety
properties for all instances. Source lines below are relative to `src/`, with
`warehouse_app/` left out where it is plain.

    tlc -workers 2 -config MCWarehouse.cfg MCWarehouse.tla     # any run of the table below
    for M in Warehouse WarehouseQueue PickOrder Scanner Putaway InventorySync Catalog \
             Migrate; do tlapm ${M}_proofs.tla; done

## 1. The system

One shared database; every process is short-lived or holds no state of its own. All that
several processes touch is in a handful of tables, and in the ERP.

| Component | State | Operations | Interacts with | What makes it correct |
|---|---|---|---|---|
| **Pick queue table** (`schema/0001_init.sql`, 0002, 0003, 0006) | `pick_queue`: one row per piece to pick, with status, holder, place in the claim order | single SQL statements of `pick_db`, `neon`, `will_call_db` | everyone | status and holder agree; foreign keys resolve; two unique indexes |
| **Pick serving** (`services/pick_claim`) | none but the `pick_id` on a phone's screen | `claim_next`, `current`, `confirm`, `release`, `progress` | pick queue; runs beside builds | nobody confirms what another holds; scans fail closed; will-calls first; None means nothing to do; no work is lost |
| **Scanner pick build** (`services/scanner_pick_builder`, `neon.upsert_stops`, `write_pick_queue`, `scanner_pick_db`) | `delivery_stops`, `pick_queue`, `flags` | `run`: three transactions after the ERP's reads | pickers claim, finish and release while it runs; syncs feed `inventory_items` | the whole plan and only the plan; claimed and done work untouched; safe at every crash point |
| **Pick order** (`build_units`, `core/pick_order`) | none, functions of the ERP's day | tiers, ranks, stop and piece numbers | its rows are what the build writes | the numbers the SQL sorts by mean the intended order; nothing silently dropped |
| **Will-call interrupt** (`services/will_call`) | will-call rows of `pick_queue` | `add_will_call_order` | reads `inventory_items`; claims see its rows on every date | once per unit, in order of adding, ahead of deliveries |
| **Inventory sync** (`services/inventory_sync`, `http_source.fetch_inventory`, `neon.upsert_inventory`) | `inventory_items` | page through the ERP's list, upsert, prune | foreign key from `pick_queue` | mirrors the ERP, never blocks on or destroys picked work |
| **Putaway ranking** (`services/putaway`, `core/void_finder`) | none; the heap and distances of one request | `rank_putaway_bins` | reads bins, graph, inventory, next pick | the nearest free fitting bins |
| **Schema migrations** (`adapters/db/migrate`) | `schema_version` | `run_migrations`, `restamp` | every table | a file runs once, in order, as recorded |
| **Layout sync** (`services/layout_sync`) | `warehouse_bins`, path graph | two upserting commits | putaway | the graph is that of the layout file |
| **Model catalog** (`services/model_sync`, `source_dim_fetch`, `dim_feed_fetch`, `size_tiers`, `adapters/db/catalog`) | `model_size_catalog` | four commands: the ERP's list of models, their product pages, the external feed, the tiers | inventory's foreign key; putaway's `_fits` | a row holds its own model's dimensions, none is lost, every model is reached some time |
| **ERP scanner reader** (`adapters/source/scanner_read`, the pool of `build_units`) | none; the answers of one build | two GETs with a bounded retry on 429 | the build; the floor and the office move units meanwhile | a failure is never an empty answer; a unit is planned once |
| **ERP scanner writer** (`adapters/source/scanner_write`) | none; the login comes with each call | `mark_in_transit`, `receive_serial` | the ERP's audit trail and unit statuses | each movement once, in its caller's name |

**What is hard.** No process locks more than a statement does, and no service keeps a
transaction open across its calls: `claim_next` and `confirm` read in one statement and
write in a later one, which at READ COMMITTED do not see the same state; a build commits in
three pieces and takes its decisions some statements before it acts on them; its deletes are invisible until the commit but make rows
unclaimable from the start (`SKIP LOCKED`); foreign keys check what other processes wrote.
Inventory and models are paged by offset over lists that move. A build's order lines are
read a few at a time while units go from one to another; a write whose answer was lost may
arrive later. Four commands update one catalog row from what they read before. Migrations are several scripts
without a lock. `PROJECT.json` lists every such place at its line under `hazards`, with the
property that would catch it going wrong, or the reason none does.

## 2. The modules

    PickTable ── PickServing ── ScannerBuild ── WillCall ── Warehouse ── WarehouseHistory ── MCWarehouse
                     │
                     └── Shift ── MCShift
    PickLedger (abstract): PickServing says how the phones and rows map to it
    PickOrder ── PickOrderDays ── MCPickOrder     (MCWarehouse: its plans come from PickOrder)
    PickOrder ── ScannerRead ── ScannerWrite ── MCScanner
    ShortestPath ── Putaway ── MCPutaway
    InventorySync ── MCInventorySync    Migrate ── MCMigrate    Catalog ── MCCatalog

A line reads from left to right as EXTENDS. The proofs about a module are in `X_proofs`,
which extends it: `Scanner_proofs` extends `ScannerWrite`, `PickOrder_proofs` extends
`PickOrderDays`, `Putaway_proofs` has those of `ShortestPath` too, and
`WarehouseQueue_proofs` extends `Warehouse_proofs` and `WarehouseHistory`.

| Module | Code | State and actions |
|---|---|---|
| `PickTable` | the `pick_queue` table and the single statements of `pick_db` | `row`: the live row of each *slot*, i.e. of the columns its unique index covers. `locked`: rows an open build transaction has deleted. `Before`, `Claimable`, `NextClaims` are the ORDER BY, WHERE and SKIP LOCKED of `_CLAIM_NEXT_SQL`; `Assign`, `MarkPicked`, `Requeue` its updates. |
| `PickServing` | `services/pick_claim`, `core/pick_verify` | `phone`: request in flight and pick on the screen. `ClaimRead` / `ClaimTake` / `ClaimNothing`, `Current`, `ConfirmRead` / `ConfirmWrite`, `Release`: a request that reads and then writes is two steps. |
| `ScannerBuild` | `scanner_pick_builder.run`, `upsert_stops`, `write_pick_queue`, `write_shortfall_flags` | `stop`, `flags`, `inv` are the tables, `build` the next statement. `StartBuild`, then `ReadVanished`, `DropVanished`, `CommitStops`; `ClearQueue`, `CommitQueue`; `CommitFlags`. `BuildRefused`: a foreign key raises; `BuildCrash`: the process dies. Both roll back the open transaction only. |
| `WillCall` | `services/will_call`, `will_call_db` | `AddWillCallOrder`. |
| `Warehouse` | all of the above at once, and the sync's effect on one unit (`SyncUnit`) | `Init`, `Next`, the safety properties. |
| `WarehouseHistory` | none: a history variable | `HistorySpec` is `Warehouse` with `released`, the rows given back since the clear of the running `write_pick_queue`. It restricts no step; `QueueIsThePlan` needs it. |
| `PickLedger` | what the queue promises the floor | `status`, `holder`, `screen`. `Claim`, `Return`, `Finish` and `Look` are actions of a phone for its owner: a claimed pick is moved only by a phone of its holder that shows it; done is done. `Revise`: queued work may come and go, and screens that showed it are lost. |
| `Shift` | pick serving alone, with fairness | the liveness of the queue, and its safety with stale screens. |
| `PickOrder` | `build_units`, `build_scanner_pick_rows`, `assign_truck_ranks` | operators from a day's order lines to stops, rows, ranks and shortfalls. |
| `PickOrderDays` | the loop of `build_units` over a day's lines | `day`, `ReadLine`: any day, whose line `i` is one of `Lines[i]`; what the order of its picks is to be. |
| `ShortestPath` | `_dijkstra` | one step per heap entry: `Skip` an outdated one, `Settle` a current one. |
| `Putaway` | `rank_putaway_bins`, `find_void`, `routing_db` | `Asked` (what was read), `Route`, `Rank`, `AnswerNothing`. |
| `InventorySync` | `inventory_sync`, `fetch_inventory`, `upsert_inventory` | `past`: the ERP's list over time; `sync[s]`: a run's page, total and records. `Count`, `FetchPage`, `Write`, `Refuse`, `Fail`; `TakeUp`, `LetGo` are the pick queue. |
| `Migrate` | `run_migrations` | `executed`, `ledger`, `run[r]`: `Start`, `Compare`, `Execute`, `Record`, `Fail`. |
| `Catalog` | `model_sync`, `source_dim_fetch`, `dim_feed_fetch`, `size_tiers` and the statements of `catalog` | `catalog` is the table, `listed` the ERP's list, and each command has what it has read: `MetaCount`, `MetaPage`, `MetaUpsert`, `MetaRows`, `MetaCounts`; `PagesStart`, `PagesWrite`; `FeedStart`, `FeedWrite`, `FeedEnd`; `TiersStart`, `TiersWrite`; and a `Fail` of each. |
| `ScannerRead` | `_get`, `fetch_delivery_orders`, `fetch_order_item_units`, `_fetch_allocated_units` | `erp`: where each unit is allocated and its status; `build`, `ask[i]`: the request for each line. `OrdersAnswered`, `LineStart`, `LineAnswered`, `Cancel`, `ReadEnd`; `Busy` is a 429, `Broken` any other failure. `Day` is what it hands to `PickOrder`. |
| `ScannerWrite` | `_send`, `mark_in_transit`, `receive_serial` | `calls`, `wire` (requests on their way), `trail` (the ERP's movements). `Call`, `Refuse`, `Send`, `Acknowledge`, `Raise`; the ERP's side is `Apply`, `Lose`. |

Definitions headed "Slip:" are not part of the model. Each is a plausible bug in the
definition that follows it; put in its place, it makes TLC report the property named
with it in `PROJECT.json` (`mutants`). So every property is known to tell the code from a
mistake in it.

### Abstractions

- A row is known by its slot. `pick_id` is a fresh uuid on every insert, so a phone holding
  one of a deleted row holds `Lost`.
- A transaction's statements are separate steps where another process can act between them
  with an effect. Its writes appear with the commit; its deleted rows are `locked` until then
  and skipped by claims. `ON CONFLICT` and the foreign keys see what has been committed at
  the time of the statement, as READ COMMITTED has it. Consecutive upserts with the commit
  are one step. The updates of confirm and release are never aimed at a locked row: those
  are queued rows (`HoldersMatch`), which no confirm or release matches.
- One build at a time, as the `concurrency` group of `build-scanner-queue.yml` has it.
- `add_will_call_order` is one step: its read of `inventory_items` and its insert are not
  interleaved with a sync. It waits for a conflicting row a build has open.
- `assigned_at` is a rank among the picker's open picks, `will_call_seq` reuses numbers that
  no row has: only their order is ever read.
- Trucks compare by a given `Label`, coordinates are a table of distances (`Gap`), a
  serial is a text that may be blank or untidily written, an inventory row's columns are one
  value. Serials of units are fixed in `PickServing`.
- Two syncs' transactions share a row they upsert, so each is one step; `Refuse` includes the
  pick that is committed between the prune's search and its delete.
- Catalog: `width` stands for `width_in` and `depth_in`, `carton` for the carton's dimensions
  and the weight. What pages and feed answer is chosen when it is written, since nothing
  depends on it before. A campaign of `dim_feed_fetch` is a series of runs with the same
  `--limit`, each at the `--offset` where the last successful one ended, for "resumable
  runs" (`dim_feed_fetch.py:59`).
- Reader: every failure but 429 is one event (`Broken`), for each ends the build.
  `build.touched` is a history variable: the units and lines moved since the build began.
- Writer: its callers are whoever holds a login, since `src/` has no caller yet.
- Every bound is named: `MaxSeq` (will-call numbers), `MaxLines` (lines of a day), `MaxTicks`
  (the ERP's clock), `MaxMoves` (reallocations), `MaxCalls` (writes), `MaxAtOnce` (catalog
  commands under way). `MaxRetries`, `Workers`, `PageSize`, `FeedLimit` and the limits are
  parameters of the code. `Routes` is unbounded; a plan of an instance is finite.

## 3. What the runs check

Eight runs pass, with these instances.

**warehouse** (`MCWarehouse`, about 536,000 states): two pickers with a phone each, one
delivery date, two orders of one unit each, one of which the office may call for, a build
that may crash at any step, a sync. The plans are what `PickOrder` makes of five ERP days,
asserted equal by `PlansOfTheDays`: both orders; one gone; one in transit while the other is off its
truck and short; a day with nothing allocated; an order on two trucks.
- `StopsResolve`: the foreign keys to stops always resolve, at every crash point. (That of a
  row to its unit is a guard of every writer in the model, as it is in the database: a build
  or a prune it refuses is a step, so no property restates it.)
- `HoldersMatch`, `OnlyTheHolderConfirms`: a row becomes picked only in the name of the
  picker who holds it *at that moment*, by a phone of that picker that scanned its serial.
  The confirm read may be long stale.
- `BuildIsComplete`, `QueueIsThePlan`: after `write_pick_queue` every row of the plan with a
  stop is there, and every queued one is routed as the plan has it. The exception is in
  the property (`released`): a row that was claimed when the clear ran and released before the upsert
  keeps its old place, or stays though the plan has dropped it.
- `KeptStopsHaveWork`: a stop that left the route sheet survives only for work on it. A
  plan without stops drops none (`upsert_stops` returns early), so the property leaves it out.
- `WillCallsGoFirst`, `NothingMeansNothing`: claims respect the order, and answer None only
  if nothing is queued or an open build holds all of it.
- `KeepsTheLedger`: the whole is an implementation of `PickLedger`: no build, sync or call of
  the office moves a claimed or finished pick, and screens lose only what was queued.

**shift** (`MCShift`, about 81,000 states): pick serving alone, two phones of one picker and
one of another, a delivery row and two will-calls over two dates.
- `KeepsTheLedger`: here with stale screens. A phone goes on showing a pick that its owner's other
  phone has released and the other picker has claimed; neither a release nor a confirm from
  it moves the pick. Each move of a claimed pick is one of a phone of its holder that shows it.
- `OnlyTheHolderConfirms` with two phones of one owner confirming the same row.
- `WillCallsGoFirst` with two will-calls in the order they were added.
- `QueueDrains`: some time every pick is picked, though the same pick may be claimed twice,
  released, or confirmed on the other phone.

*Fairness.* Weak fairness on the second half of a request: a request that is under way is
answered. Strong fairness on `ClaimRead` for each picker and date, on whichever phone: every
picker goes on asking for work on every date. Strong fairness, for the floor as a whole, on
`ConfirmRead` and on a confirm that succeeds: where picks are shown again and again, some time
one is scanned, and pickers do not release under each other's confirms for ever. None of this
is in the code, which only answers; it is the assumption of a floor at work. A floor that only
ever releases drains nothing: a released pick goes back to the head of the queue and to the
same picker.

**pick_order** (`MCPickOrder`): every day of up to four lines, each of nine kinds (owned
and third-party trucks, an order on two trucks, a morning line on a delivery truck, pickups
without a truck, partly allocated, unlisted, units of known, unpickable and unknown status).
`ClaimsFollowTheDay`: sorting by rank, stop and piece number *is* sorting by tier, fleet,
label, first appearance, model and unit. `EveryPieceIsAccountedFor`: README's "flagged, not
dropped". `StopsKeepTheirPlace`: a line added at the end of the day swaps no two stops.

**putaway** (`MCPutaway`): all 243 graphs on four nodes with five possible edges of two
lengths, a bin next to two nodes alike, an occupied, a narrow and an ineligible bin, limit
2. `AnswerIsTheNearest` compares the answer with a definition over walks;
`SettledStaysSettled` is the order of the heap.

**inventory_sync** (`MCInventorySync`): two overlapping syncs, pages of one, limit 1 or none,
three units, four ticks of the ERP's clock, each a change or the start of a sync: enough
for a unit to leave and another to come between two pages. `FreshAsStamped`: a row is as
fresh as its `source_synced_at` says even when the older sync writes last.
`MirrorsAQuietERP`: a full sync of a quiet ERP leaves its list. `HeldUnitsStopNoSync`: a
foreign key refuses a sync only for a pick taken up in that moment.

**catalog** (`MCCatalog`, about 372,000 states): three models (no height on its page; page
and feed at odds, and a width in its number; known to its page alone), a nameless record,
pages and `--limit` of two, a list that grows anywhere; any two of the four commands at once, and each may
fail between any two of its statements.
- `DimsAreTheirOwn`, `KnownStaysKnown`: what a row says some source said of that very model,
  and a known dimension stays known, with answers in any order and a tier computed from a
  height that has changed since.
- `EveryModelIsAsked`: a campaign over a growing table skips no model that was there at its
  start; a model that comes in before the offset pushes others back, never out.
- `PagesAreRead`, `TiersCatchUp`, `ModelsGetCataloged`: liveness. Nothing schedules these
  commands, so the specification states no fairness for them; each formula says what is
  assumed: that successful runs are repeated (`GoodPagesRun`, `TiersWrite`, full
  `MetaUpsert`). They show that such runs are then enough, though pages without a height take
  up the limit each time, and a page of the list can be missed while the list moves. `PagesAreRead`
  holds as long as such pages are fewer than the limit, as they are here.

**scanner** (`MCScanner`, about 698,000 states): an order of two lines beside a line of
another date, or no line of the date; two workers, one retry, one reallocation; three
operators, one without a login, two calls.
- `StillUnitsArePlannedOnce`, `StillOrdersAreFlagged`: a build that goes on has every unit
  that stayed where it was, once, under the order of its line and with its status, and flags exactly the
  short orders, whatever was busy, failed or was cancelled. A unit that moves between the
  reads of two lines can be planned twice or not at all; the property leaves out such units only.
- `TrailIsAccurate`: no movement in another's name, none twice, though an answer is lost and
  a request that was given up arrives late.
- `BuildsEnd`: with weak fairness on `ReadStep`, since every request has a timeout and the
  pool takes the next line by itself.

**migrate** (`MCMigrate`): three runs, overlapping or interrupted, from four checkouts (two
files; a third at the end; one in between; an edited one). `OncePerFailure`: a file runs
again only for a failed run or beside one. `EarlierFilesFirst`, `DoneMeansApplied`.

Two pickers are enough for one to act between two steps of the other, and a third adds no
new pair; the third phone of `shift` is there for a screen that went stale while its owner's
other phone gave the pick away. Two orders let one leave while the other stays; one date with will-calls of no
date of their own is enough for a build's clear to meet them, and `shift` has two dates.
Two commands of the catalog at once are the least that interleave; two lines on two workers
have one answered, failed or waiting beside the other.
The proofs lift these bounds for the properties of section 5. Deadlock is checked in
`warehouse`, `shift` and `catalog`; the other models end (the request is answered, the day is
read, the clock, the calls or the runs run out).

## 4. Where code and documentation differ

Four runs refute one sentence each; `PROJECT.json` quotes them under `findings`.

| Run | The sentence | What the code does |
|---|---|---|
| `one_assignment` | `pick_db.py:86` a picker holds at most one assignment | two `claim_next` both look, both claim |
| `will_calls_stay` | `0006…sql:5` will-calls are picked ahead of everything | a build of the date deletes queued will-calls (`neon.py:259`) |
| `untouched_stops` | `neon.py:192` a stop that dropped off is deleted | a shortfall flag's foreign key refuses it, and every later build of the date |
| `pruned_listed` | `neon.py:86` prune what the ERP no longer returns (not seen in this sync) | a unit pushed to a later page is unseen and pruned |

More differences have no run of their own:
- `CONTRACT.md:17` and `pick_claim.py:66`: None when the queue is empty for the date. Between the
  clear and the commit of a build a picker is told None too, though his picks were queued before
  and will be again; `NothingMeansNothing` has the exception.
- `routing_db.py:42` calls putaway's reference the next pick and says that its ordering "matches the
  claim query". It sorts by truck, stop and piece alone: will-calls come last or, of another
  date, not at all, and the next claim takes them first.
- `will_call.py:42` says that an order already picked is refused. `inventory_items` does not know
  what has been picked since the last sync, so such a unit is queued again.
- `migrate.py:6` says "at most once", while a file's own `COMMIT` leaves a window before it is
  recorded: `OncePerFailure` states what is true.
- `scanner_pick_db.py:37` "keeps the pick with a NULL bin" for an unsynced unit, but its row's
  foreign key aborts the queue's write, with the stops already committed.
- `0006…sql:27` "at most one open will-call" (and `will_call.py:61` "already on an open will-call"):
  the index covers rows of every status, so a unit whose will-call was picked is skipped for ever.
- `CONTRACT.md:22-23` orders claims by will-call, own fleet, third party, stop and piece. The
  morning tier, which comes before the fleet (`pick_order.py`), is left out there;
  `ClaimsFollowTheDay` has it.
- `void_finder.py:114` takes the reference bin's coordinates as numbers, while `warehouse_bins.x`
  and `.y` may be NULL (`0001_init.sql:142-143`) and `_FETCH_NEXT_PICK_BIN_SQL` does not ask for
  them: such a reference ends the request in a `TypeError`, without an answer.
- `sync_inventory --limit` prunes what the limit cut off; the model has such syncs, and its
  properties ask the mirror of the others only.
- `size_tiers.py:29` logs "no tier", while the query takes every model with a height. The code
  is the better one: `TiersCatchUp` fails for the logged meaning.

## 5. What is proved

Every theorem holds for all values of the constants that satisfy the named assumptions, which
TLC evaluates on the instances: `TableAssumption`, `SlotAssumption`, `ServingAssumption`,
`BuildAssumption`, `WillCallAssumption`, `GraphAssumption`, `PutawayAssumption`,
`CatalogAssumption`, `CheckoutAssumption`, `RunsAssumption`, `SyncAssumption`,
`ReadAssumption`, `WriteAssumption`, `DaysAssumption`, `LabelAssumption`. (`ShiftAssumption` is for
`shift`, about which nothing is proved.) Mostly they are typings;
`IsFiniteSet` of units, bins, nodes, models or runs is there for cardinalities.
`DaysAssumption` also says that a unit is allocated to one line of a day and once, as it is
in an ERP at rest; `ScannerRead` has the units that move between two reads.

`Warehouse_proofs`: any pickers, phones, dates, orders and plans, a crash at any step.
- **`Invariance`, `TypeCorrect`, `HoldersCorrect`.** `IInv == TypeOK /\ HoldersMatch /\
  BuildInProgress`. The types need `BuildInProgress` (a build under way has a plan, and
  only its open transactions hold locks), since a commit writes what the plan has, and
  `HoldersMatch` needs both.
- **`ImplementsTheLedger`** (`Spec => KeepsTheLedger`): a phone's step maps to a claim, return,
  finish or look of that very phone, or a stutter (`ServingLedger`), because the guards of the
  updates name the owner and the screen. Every other step maps to a revision: `RevisionEffect`
  says which rows it touches, `Withdrawal` that what it deletes was queued (`HoldersMatch`)
  and that just the screens that showed it are lost.
- **`ReferencesResolve`, `StopsAlwaysResolve`.** `RefsInv` adds
  `DropIsLocked`: the stops a build is about to drop have locked rows and no flags. That is
  why a claim between the read and the delete does no harm: the foreign key refuses the
  delete, and after it nobody can claim.
- **`ConfirmFailsClosed`** from `ScanVerified`: a phone that is confirming shows a slot whose
  serial its scan matches, or a lost pick.
- **`BuildsAreComplete`**: a written row stays live while the flags are outstanding.

`WarehouseQueue_proofs`, the same specification.
- **`KeptStopsAlwaysHaveWork`** from `DropIsDecided`: between the statements of `upsert_stops` a
  stop it has decided to keep still has a row, and its locks are on the other stops' rows.
- **`NothingAlwaysMeansNothing`** from `LocksAreDated`: what an open build holds is of its own
  date, which is what a picker who is told None may have missed.
- **`WillCallsAlwaysGoFirst`** from `SeqsApart`: no two will-calls in the table have one
  number, so the first of them by `_CLAIM_NEXT_SQL` is one row; `nextval` exceeds all of them,
  and an order's units are numbered apart.
- **`QueueIsAlwaysThePlan`**, of `HistorySpec`, which implies `Spec`, from `RestIsReleased`:
  between clear and commit a queued row of the date is locked by the build or was given back
  since. The commit deletes the locked ones and writes the plan's, so what is queued after
  it is the plan's or `released`.

`PickOrder_proofs`: any days of any lines, with any trucks, labels and units. Rank, stop and
piece number are counts of what comes before in an order; if the order never ties, counting
keeps it (`Counts`, over `Orders`), and that is all that is used of a number. The invariant
is `DayTyped`; the rest are facts about what `PickOrder` makes of one day or of two.
- **`RoutesFollowTheDay`**: first appearances are ordered as `FirstSeen` has them
  (`AppearancesAre`), labels as ranks, models and units as piece numbers; the lexicographic
  orders are the same component by component. **`RoutesNeverTie`**.
- **`StopsAlwaysKeepTheirPlace`**: a line more leaves where each stop first appears alone.
- **`PlansFit`**: what `BuildAssumption` asks, besides typings, of the plans that
  `ScannerBuild` takes (a row for each slot, a stop for each row) holds of every plan
  `PickOrder` makes, so the theorems about the warehouse are about such plans.
- **`NothingIsDropped`**: a line that is not short has as many units as pieces, and each is
  a row or of a status that is none.

`Putaway_proofs`: any finite graphs with natural lengths, any bins.
- **`SearchInvariant`, `ShortestDistances`, `SettledForGood`.** A *potential* grows along
  each edge by no more than the edge is long; the distances are the greatest one. `SearchInv`:
  every potential bounds `dist` from below, a settled node has passed its distance on, and
  settled nodes are no further than what is in the heap.
- **`RequestsSearch`**: a putaway request refines that search, so the above holds of it
  (`SettledInARequest`), and **`NearestAreRanked`**: the answer is the first of the open bins by
  score over those distances. `PutawayTypeCorrect`.
- **`AnswersAreTheNearest`** compares with walks: `Walks[k]` has the lengths of all walks of
  up to `k` edges from the reference. `Walked`: a distance in the search is the length of a
  walk of as many edges as there are settled nodes, so of no more than there are nodes. No
  walk is shorter (`NoWalkIsShorter`): one of fewest edges would be one edge more than a
  walk that is not, to a settled node, which has passed its distance on.

`InventorySync_proofs`: any units, lists, pages and limits, any number of overlapping syncs.
- **`SyncHolds`, `SyncTypeCorrect`, `RowsAreFresh`.** `SyncInv`: a fetched record is what the
  ERP said at some time since the sync began, so the row it becomes is as fresh as the sync's
  stamp; stamps of different syncs differ.
- **`QuietIsMirrored`** from `QuietSoFar`: if nothing has moved since the stamp, the records
  are a prefix of the list. **`HeldStopNone`** from the prune's own condition.

`Migrate_proofs`: any checkouts and runs.
- **`MigrateTypeCorrect`, `FilesInOrder`, `DoneIsApplied`.** `MigrateInv`: a file of a run is
  either still before it or recorded as its checkout has it, and what is recorded was executed.
- **`ExecutedOncePerFailure`** counts: each execution of a version but the recorded one is
  charged to a run of its own, failed or about to record (`Charged`, `Within`).

`Catalog_proofs`: any models, sources, pages and limits.
- **`CatalogTypeCorrect`, `RowsHoldTheirOwn`, `KnownForGood`.** `CatalogInv` adds what the
  commands remember to what the rows hold: the heights that size_tiers has read are the
  models' own.
- **`CampaignMissesNone`** from `CampaignIsAhead`: a model yet to be asked for stands behind
  the offset, and behind the run's slice once that is taken. Models are added, never
  deleted, and a new one only raises the places of those behind it.

`Scanner_proofs`: any units, lines, workers, retries, operators and calls.
- **`TrailAlwaysAccurate`** from `CallsInv`, which adds to the trail that a request on its way
  bears its caller's name and has moved nothing yet (`WireInv`).
- **`ScannerTypeCorrect`, `StillUnitsAlwaysPlannedOnce`, `StillOrdersAlwaysFlagged`** from
  `ReadInv`: types, `StepsTell` (a build that is done has an answer for each line; one that
  failed has none) and `AnswersStand`: what was answered of a line is still so for the units that
  have not been touched, and in number if none came or went. An answer lists a finite set of
  units, each once (`SequenceOfSet`), so the day has a unit once for each line that lists it.

With these, every safety property that a passing run checks is a theorem. Only model-checked,
and out of the prover's reach, are the liveness properties: `QueueDrains`, `BuildsEnd`,
`PagesAreRead`, `TiersCatchUp`, `ModelsGetCataloged`. In `shift`, whose specification is
pick serving alone, `KeepsTheLedger`, `WillCallsGoFirst` and `OnlyTheHolderConfirms` are checked
as they stand there; the theorems are those of `Warehouse`. What `PickOrder` computes is
proved of its definitions by sets and counts; that Python's sorting gives those counts is
read off the code.

## 6. Not modelled

- Putaway: every bin of the model has coordinates (see section 4), and the graph has a node. Without
  one `_snap_to_node` finds none and the answer is empty.
- Scanner: a 200 answer that is an object without `allocated` is read as a line without units
  (`scanner_pick_builder.py:66`), and one that is no object makes the writer's log line raise an
  `AttributeError` after the movement was made. Neither is a step of the model, whose 200 answers are
  well formed.
- Layout sync: `warehouse_bins` has no column `size_tier` (`0001_init.sql:136-147`), which
  `layout_db.py:21-34` writes, so on the repository's schema a sync fails at its first statement
  and changes nothing. Of the graph it would load, `ShortestPath` has what the search relies on.
- Catalog: manufacturer, description, category, product class and `floor_only`, each overwritten
  as a whole by `model_sync` alone; `batch_update_product_classes`, which nobody calls; the
  parsing of pages; `--dry-run`.
- ERP sessions: login, cookies and request shapes are I/O; their failure is in the models.
- `restamp`, `--dry-run`, comment stripping; what migration files do.
- Delivery calendar: a pure function, in which nothing takes two steps.
- Display data: labels, names, discrepancies, dimensions of a pick.
- Configuration, logging, command lines.

## 7. Plan

In order of importance; 1 to 8 are done.

1. `PickTable`, `PickServing`, `ScannerBuild`, `WillCall`, `Warehouse` and their run; the
   abstract `PickLedger` and its refinement.
2. `Shift` and the liveness of the queue.
3. `PickOrder`, and the warehouse's plans from it.
4. `ShortestPath`, `Putaway`. 5. `InventorySync`. 6. `Migrate`.
7. `Catalog`; `ScannerRead` and `ScannerWrite` over `PickOrder`.
8. Proofs about each of them.
9. More of the model: a second builder process (a build started by hand beside the
   scheduled one) with `QueueIsThePlan` and `KeepsTheLedger` asked of both; an instance with
   two dates, for flags that one date's build clears for another and stops of an order on
   both; the reads and the insert of `add_will_call_order` as two steps; serials that a sync
   changes under a confirm.
10. `restamp` in `Migrate`.
11. More proofs: the properties of item 9 as they come; the claim order and the fail-closed
    confirm for `Shift` itself; that a day read by `ScannerRead` over an ERP at rest is one
    of `PickOrderDays`.
