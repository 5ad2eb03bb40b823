# A formal model of mcp-paprika

mcp-paprika serves a Paprika account (recipes, meals, menus, groceries, pantry) to MCP
clients. It keeps a local replica of the account: every entity type has an in-memory store
that the tools read, a disk cache the store is hydrated from after a restart, and a sync
cycle that reconciles both with Paprika's canonical lists. Write tools save on Paprika first
and then commit to cache and store. Around that it is an OAuth server, an HTTP and stdio
server of MCP sessions, a semantic index of the recipes, and six widgets that run in the
client and call the tools. Commits and cycles run at the same time, Paprika's lists lag behind
its writes, requests overlap in every component, users tap faster than answers come, and
requests, file operations and the process itself may fail in between. These modules model that;
paths below are relative to `src/src/`, and `widgets/` is `features/widgets/`.

## Inventory

| Component | State | Operations | Talks to | What makes it correct |
|---|---|---|---|---|
| Entity store (`entity/store.ts`) | items, synced flag, pending-write marks with a time | set, delete, load, mark, clear, sweep | commit, reconcile, tools | a mark outlives every list older than the write, and no other |
| Commit protocol (`entity/commit.ts`) | none of its own | mark, cache ops, flush, clear on failure, apply | store, cache, notifier | an acknowledged write is on disk and is not undone by a cycle |
| Disk cache (`cache/disk-cache.ts`, `cache/hydrate.ts`) | buffer of pending puts, files, a mutex | put, remove, get, getAll, flush, tryPut | commit, reconcile, boot | buffer shadows files; a failed flush loses nothing |
| Replace-all reconcile (`paprika/sync.ts`) | locals across three awaits | list, filter, prune, load, put back, observe | Paprika, cache, store | shields pending rows; converges; leaves no ghosts |
| Aisle and meal-type catalogs (`domains/aisle`, `domains/meal-type`, `shared/catalog.ts`) | as above, positions, a write mutex | own reconcile, find-or-create, rename, move, delete | as above | names and positions are unique |
| Recipe sync (`domains/recipe`) | uid-to-hash index in memory and in index.json, besides the above | diff, fetch, land, remove, partial progress; pull | Paprika, cache, store, discover | index and store move together |
| Sync driver and loop (`kernel/sync.ts`, `server/sync-loop.ts`) | pace of the loop | tiers, abort, flush, sweep, pace | every reconcile | one entity's failure has the stated blast radius; retries end |
| Kernel and boot (`index.ts`, `kernel/`, `server/build.ts`, `transport/stdio.ts`) | modules, sessions, exit | sort, build, first cycle, hooks, serve, end | every module | order of dependencies; one end; no lost disconnect |
| Tools (`kernel/tool.ts`, `shared/tools.ts`, `domains/*/tools`) | calls under way | gate, look up, pick, confirm, ensure, save, commit | stores, client | what is at Paprika stays whole when a call stops half way |
| Paprika client (`paprika/client.ts`) | token, breaker, bulkhead | request, retry, sign in again | Paprika | bounded retries; no deadlock; one sign-in helps all |
| Discover (`features/discover`, `features/vector-store.ts`, `features/json-vector-index.ts`) | vectors, hashes, model, a mutex | index, remove, reconcile at start, recover, search | index events, recipe store | the index follows the store and says what it is |
| Photos (`features/photo*`, `features/generated-image-store.ts`) | bounded buffer of previews | generate, attach, upload | recipe commit | a preview becomes one photo of its own recipe |
| OAuth (`auth/`) | tokens, clients, one-time codes and states with TTL | authorize, consent, redeem, rotate, revoke, register, sweep | disk cache, identity provider | a refresh token has one heir; a code is good once |
| HTTP sessions (`transport/`) | session table, records, adoptions in flight | open, adopt, touch, persist, close, drain | auth, kernel | one transport per session id; caps hold; an answered session can be found again |
| Checklists (`widgets/pantry-checklist`, `widgets/grocery-checklist`) | rows, busy flags, undo, drawer, flying clones | tap, swipe, undo, clear, move, receive | tools, host | rows agree with the server; each touch acts once |
| Recipe widgets (`widgets/recipe-browser`, `menu`, `meal-week-planner`, `cooking`) | screens, rows, weeks, steps, reads under way | open, back, page, step, log, receive | tools, host | nothing shows that was not asked for |
| Telemetry, logging, configuration, dates | counters, static data | - | - | not stateful logic |

Components are connected by calls, by two callback channels (index events from commits and
cycles to discover; change notifications to sessions), and by the shared stores.

### Hard behaviours

* A cycle works from a list that was answered before a tool's write, and from a copy of the
  cache that it read before awaiting again.
* Two tool calls commit on the same row; one fails and withdraws the mark of the other.
* A flush writes some files and not others; the process stops between buffer, files, index.json
  and store; the vector index, its hash map and its model are three files.
* All requests share one circuit breaker and one token, so the failures of one entity turn others
  away, and one refused token is noticed by several requests at once.
* A refresh token is invalidated before its successor exists, while others present or revoke it.
* Two requests present the same unknown session, one with another's token, while it is shut down.
* A multi-step write (move, delete with items, extend a span, upload) fails between its steps.
* A widget's answer, animation frame, timer or the host's push arrives after the user has moved on.

`PROJECT.json` lists these and the others as `hazards`, each at its line.

## Modules

    EntitySync --------- EntitySync_proofs        SyncDriver --------- MCSyncDriver
        \----- MCEntitySync                           \----- Server_proofs
    RecipeSync --------- RecipeSync_proofs        Grants -------------/
        \----- MCRecipeSync                           \--INSTANCE--> RefreshLedger
    Sessions ----------- Sessions_proofs          Discover ---------- Discover_proofs
        \----- MCSessions                         MCTools, Widgets_proofs <-- Process_proofs
    Shopping, Menus, Catalogs, RecipeTools ----------- Tools_proofs
    Checklists, Swipes, Drawer ----------------------- Widgets_proofs
    ToolCalls <-- Shopping, Menus, Catalogs, RecipeTools      \
    Checklists, Swipes, Cooking, RecipeViews                   >-- MCTools
    Grouping <-- Drawer, Layouts                              /
    Boot, Requests, VectorIndex

`EntitySync` and `RecipeSync` model one entity type each, with the end of a cycle; `SyncDriver`
models the cycle as a whole and keeps of a reconcile only whether it succeeds. `Grants`, `Sessions`
and `Discover` are whole components. The modules on the left of `MCTools` are smaller ones;
`MCTools` extends them all, and its `focus`, fixed at the start, says which of them a behaviour is
about while the others stand still: one run in place of sixteen. The properties `ToolsTypeOK`,
`ChecklistsRight`, `ScreensRight` and `ProcessRight` join those of its modules.

### EntitySync

One entity type with its store, marks, cache, commits and replace-all reconcile.

| Model | Code |
|---|---|
| `server`, `listed` | what Paprika accepted, and what its list shows; the list catches up by `Propagate` |
| `disk`, `buf` | the `<uid>.json` files and `DiskCache._pending` |
| `store`, `synced`, `mark`, `age` | `EntityStore` |
| `wpc`, `wops` | each tool call: its place in the commit, and its operations |
| `spc`, `raw`, `seen`, `eff` | the reconcile: its place, and its locals `rawIncoming`, `cached`, `effective` |
| `committed`, `clean` | history variables used only by properties |

An action is what runs between two awaits that really wait. `Save`, `Mark`, `CacheOps`,
`FlushAndApply` and the failures are `commitSlices`; `SyncList` to `SyncPuts` are
`syncReplaceAllEntity`, with the two places where the code waits (the file reads of `getAll`,
the unlinks of the prune) as steps of their own; `CycleFlush`, `CycleSweep` and `CycleFail`
are the tail of `syncOnce`; `Crash` is a restart that hydrates from what the files hold, in
the middle of a flush too. `Reconcile = "catalog"` is the aisle and meal-type variant, which
filters pending upserts only and clears a mark when the uid is in the list.

The contents of a row are a model value. `ExternalEdit` stands for other devices and for a
save that reached Paprika although its response was lost. The model has one cache; the
other caches of a cycle are in `CycleFail`. Commits over several slices are one slice.
The mutex of the cache is not explicit here: its turns are the atomic actions.

### RecipeSync

The recipes, which sync by difference. Here the mutex matters, so `queue` is the queue of the
cache mutex: a `put` or a landing takes no I/O, so it and its continuation run before any
event is handled (`Drained`), while a `flush`, a `remove` and a `drop` end when their file
operations do. `hashes` and `index` are the index in memory and index.json. `task` and `got`
are what a cycle does about each recipe: asked, answered, landing, landed, failed, gone,
dropping, dropped. A recipe is its body and its trash flag; its hash is its body, because the
content hash does not depend on the trash flag. A tool call is create, update, trash, or a
look-up followed by restore, purge or a canonical pull.

If the last two things a mutex turn releases are the continuation of a flush (its store.set)
and the next queued landing, the model runs the former first, as the promise queue does.
A request for a recipe may be answered with what the list shows or with what was accepted;
the look-ups of restore and purge are authoritative, as their comments say.

### SyncDriver

The cycle over all reconciles, the loop that paces it, and the circuit breaker of the client.

| Model | Code |
|---|---|
| `Syncs`, `SyncOrder`, `Plan` | the modules' `syncs`, their stable sort with recipe first, the three tiers |
| `at`, `step`, `todo`, `landed`, `failed` | `syncOnce` and, for the recipes, the batch of fetches |
| `stage`, `phase`, `pace`, `wait`, `stopping` | the boot cycle of `buildKernel`, `runSyncLoop`, `nextSyncPace`, `stop` |
| `breaker`, `fails`, `cool` | cockatiel's `circuitBreaker` with `ConsecutiveBreaker`, as `paprika/client.ts` configures it |
| `req` | one request per endpoint; a tool's is its own |
| `health` | per endpoint: well, failing transiently, or giving an answer that no retry helps (not counted by the breaker) |
| `quick`, `opener` | history variables used only by properties |

A request is one execution under the breaker: its attempts and their backoff are inside it.
When the breaker is open and cooling a request is turned away at once (`RequestRejected`,
`FetchRejected`); when it has cooled the next request is the probe (`Send`), and others wait until
it is settled. `Err` is the tier rule: a core reconcile's error finishes the cycle, another's is
passed over. `Finish` computes the next pace, and exits if `stop` came meanwhile. The breaker is
library code, modelled from how the client uses it and its documented behaviour.

The state of the world changes only among the members of `Weather`. A tool's request may start
whenever some store is synced. An error that a reconcile breaks its contract with
(`contract_breach`) is not modelled; for the pace it equals `core_aborted`.


### Grants and RefreshLedger

The OAuth registry and token store (`auth/token-store.ts`, `client-registration.ts`, `cleanup.ts`).

| Model | Code |
|---|---|
| `reg`, `regDisk` | the clients of `DiskClientRegistrationStore`, as the cache shows them and on disk |
| `pairs`, `kept`, `durable` | the minted pairs with their parents; the token records a look-up finds, and those on disk |
| `task`, `lock` | per HTTP request and for the sweep: the operation and its place; `_rotateLock` |
| `answered`, `revoked`, `gone`, `cut`, `slipped` | history variables used only by properties |

Issue, rotate and revoke are split at every await: the put of the access token, that of the refresh
token, the read and the write-back of the client's last activity, the flush, the removals, the wait
for the lock. Each disk operation may fail, a removal half way, and the process may crash between
any two steps. A revocation that finds no record is answered at once, outside the lock
(`RevokeUnknown`, `provider.ts:243`), also while a rotation that has just removed the token is about to mint its
heir: that heir stays good, and the client whose revocation was answered is not told. `NoRevival` says what does hold.
`RefreshLedger` is what that promises, in two variables and three actions: a token is
issued once, replaced in one step by its heir or lost, and never good again. `Grants` maps a token
that is being rotated to "still good": between the removal of the old token and the put of the new
one the ledger has not moved yet, and what fails there is a `Lose`. A tick of the clock falls
between requests, since lifetimes are minutes and more.

### SignIn

`/authorize`, the consent screen, the callback of the identity provider, the code and its redemption:
three `TtlStore`s (`entries`, with the age of each flow's entry), what each flow was `handed`, the
callbacks that await the provider, and the token requests between their PKCE check and the
redemption. Sweeps, full stores, expiry, repeated requests and a restart are actions. PKCE,
signatures and state values are checks of libraries and are taken to work.

### Sessions

`transport/http.ts`, `session-rehydration.ts`, `session-store.ts`. `live` is the session map, with the
request that built an entry and whether its replayed handshake is over; `records` the persisted ones as a
`get` finds them, in the buffer or on disk, and `saved` those on disk; `inflight` the shared rebuilds by id
and subject; `touches`, `retries` and `prune` the fire-and-forget refreshes, the persists that wait at the
cap, and the sweep. A request decides, joins, rebuilds, is served, closes; the server drains, ends its
sessions, times out, restarts. An id is drawn by the initialize of its `Owner`; other subjects may present
it. `Exit` is the end of the process, by whichever path: the session map, rebuilds, requests and touches are
gone, and of the records those that were flushed stay. An initialize waits for its `persist`, whose put,
flush and, at the cap, sweep and second put are steps of their own; every put, flush, read and removal may
fail (`MaxDiskFaults`), a flush with some files written. `persist` logs a failure and goes on, so `Survives`
names what it costs: `unsaved`, the ids whose record a failed flush of their own has left in the buffer and
that no flush has written since. The refreshes that nobody waits for (`Refresh`) write in the step of their
put, or fail: only a crash could tell. No liveness of the shutdown is claimed; a single timer decides it.

### Discover and VectorIndex

`Discover` is the feature: the store's recipes and one category, their announcements, the handlers
behind one mutex (`jobs`, `step`), the index with its two companion files, a change of model, the
boot with its resets, and the startup reconcile that later cycles retry. Texts are a version and a
category name; hashes are the texts. `VectorIndex` is the store below it (`json-vector-index.ts`):
an update is a copy that is made durable and then swapped in, cancelled, or lost with the process,
and a search ranks what is committed. A search is one step there, since it waits for nothing once
the index is loaded. Non-finite vectors, which the store above leaves out, are not represented.

### Requests

`PaprikaClient.request`: several requests at a time with one token, one breaker and, for recipes, one
bulkhead. A request is one or more calls (`Chain`); a call is a run of attempts under the breaker, and after
a 401 a sign-in and a second run. Paprika may forget tokens, answer a mishap, or lose an answer. Several
tokens are taken to be valid at once; if Paprika honored the newest only, two requests that sign in together
would refuse each other and `RequestsRight` would not hold. A sign-in whose answer is late can overwrite a
newer token with one that was forgotten since; that is the one case the property leaves out. A request that
ends with an error may have been carried out, also one whose error no retry helps (a 2xx with a body that
does not parse, `client.ts:800`).

### ToolCalls and the tools

`ToolCalls` is the course of a writing tool: it reads the stores, may wait for a confirmation, a pick
or an ensured name, and then saves batch after batch at Paprika (`cloud`) and commits each to the
`store`, giving up at the first that fails. A commit is one step with three outcomes: the store has the batch and the
call goes on; it failed and the call ends; or a cycle that had read the cache before has loaded its older list
over it, and the call goes on although the store has lost the batch (`GoesOn`): the rollback window of
`EntitySync`, which counts as a loss here. A save may fail, its answer may be lost, another device
may edit, the process may restart. `Shopping`, `Menus`, `Catalogs` and `RecipeTools` say what each
tool reads, refuses and saves:

* `Shopping`: grocery lists and items, the ingredient memory of aisles, the pantry, the move between them in
  four steps, and `ShoppingSpec`, the specification of these tools alone. `ReconcileIngredients` is the
  reconcile of the ingredients, which keeps those in an aisle; it also drops an entry that a placement in
  aisle `""` has just taught.
* `Menus`: menus with a span, their items, meals; the shrink guard, the cascade, the extension; `MenusSpec`.
* `Catalogs`: aisles and meal types under the write lock, with the second look of an ensured name, the row
  kept in memory when its commit failed, contiguous positions, the cache with its buffer, and the reconcile
  in its steps: the list is fetched (`CatalogFetches`), the cache is read, filtered and pruned
  (`CatalogReads`), the store is loaded and the cache put (`CatalogLoads`), and the cycle flushes;
  `CatalogsSpec`. The history variable `undone` says that a load has taken back what a call committed since.
* `RecipeTools`: create, rate, flag, trash, restore and purge (which ask Paprika first), the category tree,
  photos uploaded in two posts, previews bounded in number and age that are attached at most once;
  `CategoriesSpec` and `PhotosSpec`.

Menus and categories are used by one client at a time; with two, nothing in the code keeps an item
from landing outside a span that another call is shrinking, or two re-parentings from closing a cycle.

### Checklists, Swipes, Drawer, Grouping, Layouts

The pantry and grocery checklists are modelled from four sides. `Checklists` has the rows and the server: a
tap flips a row at once, calls, and reverts on failure; a swipe slides out first; Undo, clear, move and "add
again" call on; reads and the host's pushes replace every row. `doubted` is the set of rows the widget
cannot know about, listed in the comment of `ListAgrees`. `Swipes` is one finger on one row, or on the
planner's day pane: the recognizer with its thresholds, slide, click and answer, in ticks of 100 ms. A row
swiped in the pantry stays where it slid, off the edge (`Away`), until its element goes with the row, 200 ms
after it left the list (`ExitTime`); a row that is back before that keeps the element. `Drawer` is what the
pantry shows around its rows: drawer, question, groups, and the clone that flies between them. `Layouts` is
what the grocery list, the menu, the browser and the planner draw of rows in any shape, over the shared
`Grouping`.

### RecipeViews, Cooking

The widgets that show recipes. A tap starts a read; its answer asks for a screen change that runs a
frame later; meanwhile the user goes back, pages on, and the host pushes. `wish` remembers what was
last asked for, by user or host. `RecipeViews` covers browser, menu and planner, with the planner's
cached and prefetched weeks; `Cooking` review, prep, steps and the log, with marks, meal types and cover.

### Boot

`index.ts`, `kernel/registry.ts`, `transport/stdio.ts`: the depth-first sort of the modules, building,
initial cycle, hooks, the stdio session, and every way out: the client's end, seen by whichever
listener is there, and signals, through the flush of the telemetry. The start of the HTTP server is
modelled in `Sessions` only, by its sweep before the first request.

## What is checked

| Run | Question | Instance |
|---|---|---|
| `EntitySync_writers` | Does a mark protect a completed commit, in the store and on disk, and is it cleared only by a list that shows the write? (`TypeOK`, `Shield`, `DurableAck`, `ClearsOnlyConfirmed`) | 1 row, 2 contents, 2 calls, 3 writes, 1 failure |
| `EntitySync_converges` | Do store, cache and Paprika agree in the end? (`Converges`) | 1 row, 2 contents, 1 call, 2 writes, 1 failure, TTL 2 |
| `RecipeSync_writers` | Does a mark protect a commit from a cycle, and does index.json never run ahead of the files? (`Shield`, `IndexAfterFile`) | 1 recipe, 2 calls, 2 writes, 1 failure of any kind |
| `RecipeSync_index` | Does a current index entry stand for a recipe the store has, and is partial progress kept? (`IndexTruthful`, `PartialProgress`) | 2 recipes, 1 call, 1 write, 2 failures of requests, unlinks, cycles |
| `RecipeSync_converges` | Does the store end up with what Paprika lists? (`TypeOK`, `Converges`) | 1 recipe, 1 call, 2 writes, 1 failure of these kinds |
| `RecipeSync_flush` (violated) | Does "the next sync" heal a failed flush? (`Converges`) | 1 recipe, 1 write, 1 failed write |
| `SyncDriver_paces` | Are early retries few, do they find the breaker ready, does the loop settle, does all get synced once nothing fails, is stop final? (`TypeOK`, `QuickTries`, `FastFindsReady`, `StopIsFinal`, `Settles`, `Recovers`) | a reference, two core and an additive reconcile, 2 recipes, 1 tool call, 2 changes of the world |
| `SyncDriver_catalog` (violated) | Can a failing catalog never hold up the core? (`CoreDespiteCatalogs`) | the 3 catalogs, 2 core reconciles, 1 recipe, a breaker of 5 failures |
| `Grants` | Has every refresh token one heir, does what was answered or revoked hold through failures and crashes, does a revoked token yield nothing, do cap and sweep keep to their bounds? (`GrantTypeOK`, `DurablyDone`, `RegistryKept`, `SweepsRight`, `NoRevival`, and `LedgerKept`: the store implements `RefreshLedger`) | 2 client ids, a cap of 1, 2 requests and the sweep, 3 requests and 3 pairs in all, 1 failure or crash |
| `Sessions` | Is a request served by the one, whole session of its id and its own subject, do counter and cap hold, do sessions survive a restart? (`SessionTypeOK`, `Bounds`, `Survives`, `Served`) | 2 ids, 2 subjects, 2 requests, a cap of 1, 1 restart or crash, 1 failure of the disk |
| `Discover` | Is nothing taken for indexed that is not, do models never mix, is the index fresh at rest, is a failed startup reconcile made up for? (`DiscoverTypeOK`, `IndexRight`, `CatchesUp`) | 2 recipes, 2 edits, 2 models, 1 failure, 1 restart |
| `Tools` | The smaller modules, each as one `focus` | below |

The properties of `Tools`:

| Property | Focus | What it says |
|---|---|---|
| `SignInSafe`, `InFlightKept` | sign-in | a code is redeemed once, after consent, and stores keep their caps; a full store or a sweep costs no live flow its entry |
| `NothingLost` | shopping | a move between list and pantry loses nothing, whichever step fails |
| `MenusWhole` | menus | no item outside the span of its menu, or of none, after calls that stop half way |
| `CatalogWhole` | aisle, type | no two entries share a name or a position |
| `RecipesWhole` | categories, photos | the category tree stays whole; a preview becomes at most one photo, of its own recipe |
| `ChecklistsRight` | checklists, swipes, drawer | rows agree with the server at rest; a touch acts once; nothing stays invisible or locked, nor off to the side but where a row came back or was busy in time |
| `ScreensRight` | views, cooking, layouts, drawer, vectors | no late read, frame or push shows what was not asked for; what is drawn is all rows, once; a search finds the nearest |
| `ProcessRight` | boot, requests, vectors | start and end in order and once; no request waits for nobody; the index is what was last written |
| `ToolsTypeOK` | all | types |

`MenusWhole` and `CatalogWhole` speak of states in which the store has missed nothing of Paprika's
(`Undisturbed`): after a lost answer or an edit elsewhere a tool decides on what it does not know.
`CatalogWhole` also leaves out what follows a load that took a commit back (`undone`): the code does not prevent
such a load, and without the proviso the property fails (below). `ToolsTypeOK` joins what each module's state
satisfies throughout; its mutant drops the planner's guard against paging on while a page is under way.

**Bounds.** `MaxEdits` counts writes accepted by Paprika, from tools and other devices; `MaxFaults` counts
failures and crashes; `TTL` is in ticks. Two contents are enough to tell a stale row from a fresh one, two
calls to have commits overlap each other and a cycle, three writes to have a commit, a competing commit and
an edit elsewhere. Cycles are not bounded. Rows do not influence each other except through the batch of one
commit, the joint flush and the settling of a recipe batch; `RecipeSync_index` has two for the latter, and
the theorems cover any number for the former. `IndexTruthful` speaks of one call at a time: with one call it
was also checked for two and three writes on one recipe, and with two calls it does not hold (below). Rows,
contents and calls are interchangeable, so the safety runs use them as symmetry sets; the liveness runs do
not.

In SyncDriver a tick is the half-open time of the breaker (30 s), so the short retry is 2 ticks;
the interval is 3, to keep it apart from both. The breaker of the passing run opens after 2
failures in place of 5: a smaller threshold opens it in more places of a cycle. Two changes of the
world give an outage that begins and ends, or ends in another failure; one edit lets a recipe
reappear. Two recipes are the least of which some land and others do not.

In Grants a pair, its heir and a competing one are three pairs; an access token expires at the first tick
and a refresh token at the second, before a client is stale, so that a sweep meets every combination. In
Sessions the cap of one record makes the second session wait for a sweep; one restart suffices because
nothing but what is on disk outlives it, and one failure because each leaves at most its own buffer behind.
Each of the two ids is owned by a subject of its own, so that either may present the other's. In Discover
the second recipe tells a batch from a single announcement and is the one outside the category.

In Tools (`Tools.cfg`) a shopping, menu, category or meal-type behaviour has two calls, the others three: a
call, one that overlaps it, and one that meets what they left. The aisles have three, the meal types the
same actions. One save fails, one answer is lost, one edit comes from elsewhere. The layouts are those of
three rows. `Requests` has two requests and chains of two calls where the upload has three; one retry, a
breaker that opens at the first failed run and a bulkhead of one make waiting the usual case. `Swipes` has
the finger at the thresholds and on either side of them. `VectorIndex` has two ids and vectors of one and
two dimensions with no negative coordinate, with a zero vector. `Boot` has every way three modules can
depend on one another that the sets in `MCGraphs` give: chains, a diamond's half, cycles, an unknown name.

**Fairness.** The loop of `server/sync-loop.ts` keeps starting cycles and requests and file operations
settle (weak fairness of the cycle's steps and of each call's steps; a call is never obliged to start),
lists catch up, and time passes. In RecipeSync an event that is due is disabled while a continuation runs,
so the events have strong fairness: the event loop gets to them. In SyncDriver time passes and requests end;
the driver's steps have strong fairness, because a request that waits for another's probe goes on once that
is settled. In Discover calls to the provider end and the loop goes on cycling, also when there is nothing
new. Failures are never fair. Grants, Sessions and Tools check safety only, the refinement included.

**Why the properties have provisos.** `Shield` and `DurableAck` speak of commits that overlapped
neither the window between the reconcile's cache read and its write back nor another commit on
the row (`clean`; `MarkAlwaysShields` below says why); `Shield` of RecipeSync of commits that had the
recipe to themselves.
`Fresh` (in `IndexRight`) leaves out recipes whose announcements overtook each other: those behind a
retried reconcile, or in a removal of several, can. `Survives` leaves out sessions the cap
turned away and those whose own flush failed. `NoRevival` is about revocations that found the token's record.
`SwipesOnce` excepts the rows that may be left off screen (`astray`), and `GroupedRight` the pantry's two groups
called "Other". `ListAgrees` leaves out what the widget cannot know.

## What the violated runs show

* `RecipeSync_flush`: `put` advances the hash index at once. If the flush then fails, the mark is
  withdrawn, the store keeps the old recipe, and the index equals Paprika's hash: no cycle fetches
  the recipe until it changes or the process restarts. The log message says that sync will heal it.

* `SyncDriver_catalog`: an outage opens the breaker. It ends for all endpoints but the category
  list, which is the first request of every cycle (the recipe module leads the reference tier as
  well). So that request is the probe; it fails, the breaker opens again, and the other requests of
  the cycle, the core ones among them, are turned away. The next cycle begins in the same way. The
  tiers keep a catalog's failure from aborting the core, the shared breaker does not. A tool's
  request that happens to be the probe and succeeds ends it, but after a cold start no tool can
  make one.

Five more statements of the sources are refuted by the modules. They stand there as definitions but
are not among the runs:

* `MarkAlwaysShields` (EntitySync; `entity/commit.ts:18`): `syncReplaceAllEntity` reads the cache,
  awaits, and then installs with `store.load` the copy it read, also for a pending row
  (`paprika/sync.ts:79`). A commit that completes in between is rolled back in the store while its
  mark stands; the file keeps the commit, and a later cycle puts it back.
* `ClearsOnlyConfirmed` with `Reconcile = "catalog"` (`domains/aisle/sync.ts:12`, `:38`): the aisle and
  meal-type reconcile takes presence in the list for a confirmation, although the row may be listed
  as it was before the write. The generic reconcile compares contents for exactly this reason.
* `GoneForGood` (Grants; `token-store.ts:400`): last activity is read, awaited and written back; a
  client removed in between is there again.
* `GoneStaysGone` (Sessions; `session-rehydration.ts:305`): a touch that has read a record writes it
  back after the client's DELETE has removed it.
* `NeverStaleAgainstEmpty` (Discover; `vector-store.ts:181`): a corrupt index is recreated before the hash
  map is written anew. A crash in between makes the next start load the old map against an empty
  index; the check for a short index goes by the map's size and finds nothing missing.

More sequences were met on instances that are not among the runs, or while the modules were written:

* With an interval below the half-open time (it may be as short as 1s) `FastFindsReady` fails, since the
  short retry is the smaller of 60s and the interval; and a tool's failing requests may open the breaker
  during the wait, which the property leaves out.
* `kernel/sync.ts` calls `core_aborted` a cycle that made no progress. When all recipes land and a later
  core reconcile fails, the outcome is `core_aborted`: the recipes are in the store and not flushed, and the
  loop counts a miss.
* A recipe that can never be fetched makes every cycle end before pantry and grocery are reconciled and
  before the flush and the sweep, for as long as it is listed (`recipe-sync.ts:101`). `Settles` shows that
  the loop at least does not retry fast for ever.
* With two calls on one recipe (`Writer = {w1, w2}`, no failure) `IndexTruthful` fails: a landing queued
  between a commit's put and its flush leaves the index with the landed hash and the store with the commit's
  recipe.
* With `Failure = {"crash"}` `Converges` of RecipeSync fails: a crash between a data file and index.json
  leaves a recipe without an index entry, and `diff` finds removed recipes by the index.
* The hash does not change with the trash flag: a recipe trashed here and restored elsewhere before a cycle
  has seen it missing stays in the local trash. `Converges` therefore compares bodies.
* Under `Reconcile = "catalog"` `Shield` fails for deletes: the list is not filtered through them. In
  `Catalogs` the row that is back has its old name and position in the store, so the next tool may be told
  that the name is taken, or find two rows of one position or name.
* `CatalogWhole` without `~undone`: the aisle and meal-type reconcile reads the cache, awaits the prune and
  only then loads (`domains/aisle/sync.ts:24-36`, `domains/meal-type/sync.ts:28-48`). A row ensured in
  between is in neither the list nor the view, so `store.load` drops it, and the next call that needs the
  name mints it again: two rows of one name at Paprika, with nothing lost, failed or edited elsewhere.
  `meal-type/sync.ts:33` says that a list taken before the create "can't drop" it, which holds only of rows
  that the cache showed.
* A degenerate embedding does not "self-heal on the next sync cycle" (`vector-store.ts:407`): a cycle
  without changes announces nothing for it. If the model's file never landed, a later change of model goes
  unnoticed (`vector-store.ts:198`).
* In the pantry, an aisle named "Other" and rows without an aisle, with another aisle sorted between them,
  give two groups of one key, which `widgets/grocery-checklist/App.svelte:76` says "would crash the whole
  widget". `Drawer` has such an aisle (`Other`), and `GroupedRight` excepts just this case (`TwoOthers`);
  without the exception TLC finds it.
* In the pantry a swiped row can be left off screen: `swipe-action.ts` leaves it at `translateX(-110%)` for
  the list to take away, and `App.svelte:630` keeps a busy row from starting a swipe. But a row that becomes
  busy during the 130 ms of its slide (the Undo of an earlier mark) is refused then, and one that is put
  back, answered with an error or pushed anew before its element has gone (200 ms) keeps the element and its
  transform. `SwipesOnce` fails without `astray`.
* Of the widgets: a planner week pushed while an older read is under way can be replaced by it; a late log
  answer marks the recipe that was received meanwhile as logged (`Cooking` sets this case aside); a grocery
  row marked bought by a push during its 130 ms slide is added once more.

## What is proved

`EntitySync_proofs` proves, for any sets of rows, contents and calls and any bounds:

* `TypeCorrect`: `Spec => []TypeOK`, by one lemma for each group of actions (`TypeTool`, `TypeSync`,
  `TypeFault`).
* `ShieldHolds`, `DurableAckHolds` and `ClearsOnlyConfirmedHolds`, under `Reconcile = "replaceAll"`.

`Shield` is not inductive: whether a cycle leaves a row alone depends on what it has already
collected. The inductive invariant `ShieldInv` adds, for each row whose clean commit is marked:
while its commit is under way (`Underway`), no reconcile is in its window and no other call has the
row, so that buffer and file move as the protocol says; once it has returned (`Settled`) store, disk
and view equal what it wrote; and what a reconcile has collected about the row since (`Collected`)
is that too: `seen` shows it, and `eff` keeps it. `Alone` says that at most one call commits on a
clean row, and `Disabled` that a TTL of zero sets no mark. A step is then a case per action; only
`Mark`, `FlushAndApply`, the reconcile's steps and the failures can touch the row of a mark.
`MarkAlwaysShields` would need `Collected` of rows marked inside the window, which is what the race
breaks. Dropping the assumption on `Reconcile` makes the proof fail at `SyncFilterLoad`.

Assumptions: `NoneAssumption` (the two marker values are no contents), `TTLAssumption`,
`ReconcileAssumption`, `BoundAssumption`. No fact is assumed without proof.

`RecipeSync_proofs` proves, for any recipes, contents and calls, whichever failures occur:

* `RecipeTypeCorrect`, `ShieldHolds`, `IndexAfterFileHolds`, `PartialProgressHolds`.

None of them is inductive. `RecipeInv` ties the jobs on the mutex to who waits for them (`QueueInv`,
`CallInv`, `TaskInv`: a call has one job, a landing has the contents it was answered with), the
hashes to what they stand for (`HashInv`: with nothing buffered, a hash in memory is that of the file
or of the index), and the mark to the plans of a reconcile (`Guarded`: none for a recipe whose
commit is marked and had it to itself, except to delete what the commit deleted). `AloneInv` is
what makes `Guarded` hold when a commit is applied: of calls that overlapped later, the jobs come
later too (`First`), and the mark is still the call's own (`Marked`). That a flush of one call ends after
the landings queued before it is `Before`. `IndexAfterFile` and `PartialProgress` are action
properties; both follow from `HashInv` and the steps of a flush. They use `NamesAssumption`,
`UidAssumption` (an account has finitely many recipes),
`FailureAssumption` and `BoundAssumption`.

`Server_proofs` proves the sync driver and the OAuth registry, which share nothing; one module holds both.
Of the driver, for any reconciles, recipes, tools, waits and thresholds:

* `QuickTriesHolds`: the number of quick cycles is bounded by the misses the pace has counted
  (`QuickInv`), plus the one that runs.
* `FastFindsReadyHolds`, if `HalfOpenAfter <= FastWait`: while the loop waits, a breaker opened by a
  cycle has no more time left to cool than the loop has to wait (`CoolInv`).
* `StopIsFinalHolds`: a loop that has been stopped does not wait (`StopInv`).

They need no knowledge of the plan of a cycle: `Steps` reduces every step to one of six forms, of which
only `Ends`, `StartCycle`, `Tick` and `Stop` touch the loop. They use `PaceAssumption`.

Of the registry, for any clients, requests, redirect URIs, lifetimes and caps (`GrantAssumption`):

* `GrantTypeCorrect`, `RegistryKeptHolds`, `DurablyDoneHolds`, `SweepsRightHolds`, `NoRevivalHolds`.
* `LedgerKeptHolds`: `GrantSpec` implements `RefreshLedger`. The initial states correspond, and each step is
  an issue, an heir, a loss, or nothing of the ledger's.

The invariant `GrantInv` says of every request, in every stage, what it may rely on while others run
(`TaskInv`): who is past the lock holds it (`Mutex`), the pair a grant is minting is known to nobody else
(`OwnPair`), the token being rotated is good until it is invalidated and has no heir before (`OldPair`), the
record it read was there and is valid (`OwnRecord`), a cascade has all tokens of its pairs (`Cascade`), and
what a sweep's snapshot calls due has gone, goes with a client, or goes at the end (`SnapshotRight`).
`Apart` says that no two requests mint one pair or register one client. Of the tables, `RegistryInv`,
`PairsInv`, `DurableInv` and `ActivityInv` say that the clients keep to the cap, a refresh token has left
before it has an heir, what was answered is on disk, and a client's last activity is no older than any grant
it was handed. The refinement needs `OldPair`: the ledger replaces a token when its heir's record is put,
some steps after the code has removed the old one, and nothing else may have happened to it by then.

`Process_proofs` proves the parts of one process that `MCTools` puts together. Signing in, for any flows,
allowlist, lifetimes and cap (`SignInAssumption`):

* `SignInTypeCorrect`, `SignInSafeHolds` and `InFlightKeptHolds`.

A flow is in one place at most (`OnePlace`:
ticket, request, callback, code or tokens), has nothing before it was handed something
(`NothingYet`), and is past the consent screen only by Allow (`Allowed`). What `SignInSafe` says of codes and
consent follows; that the caps hold (`Capped`) is about `PutResult`, the put of a store that sweeps first.

The start and end, for any number of modules and signals and any dependencies (`BootAssumption`); the
requests to Paprika, for any number of them, of retries, calls, places and mishaps (`RequestsAssumption`);
the index of vectors, for any ids, vectors, updates and failures (`VectorIndexAssumption`):

* `BootInvariant` and `BootRightHolds`, `RequestsInvariant` and `RequestsRightHolds`,
  `VectorIndexInvariant` and `IndexKeptHolds`, and `ProcessRightHolds` of the specification that the run checks.

That a sort fails only where there is no order needs a view of all rankings at once (`Descends`): in a ranking that
respects the dependencies the visits under way go down, so that a module met a second time would be
below itself; and when a ranking is to be shown, the finished order is one. `InOrder` and `Frames` say
what lies behind each visit, `BuildInv` that building and hooking are prefixes of that order, `EndInv` what must
have happened before each step of the end.

Of a request, `Course` says how far it is and `Counts` how often it was sent, by the run it is in. Why a
second run is never refused for a token that nobody forgot is in `Spares`: from the moment such a request
began, every sign-in that is answered, its own or another's, brings a token that is taken (`Good`), so
whichever of them is stored last is good. `Probing` is that a half-open circuit has its probe, and so the
waiting do not wait in vain: where nobody is the probe, the circuit is not half open, and where all wait for
a place, nobody has one. Each action is shown to be sound for the request that takes it (`Sound`), and
`OneStep` once for all that this leaves the others well.

Of the index, all that is kept anywhere, in memory, in the draft, on disk or in what was reported,
could be loaded (`Comparable`), and the draft's vectors have the length that is `Expected` of the next; `Seen`
and `OnFile` are the two halves of `IndexKept` with what they need while a write is under way.

`Widgets_proofs` proves the checklists, each side by its own specification: the rows, for any rows, taps,
reads and upsets (`ChecklistsAssumption`: rows 1 and 2 are there at the start); a row or a pane under the
finger, for any spots, touches and ticks (`SwipesAssumption`); the pantry's drawer, for any rows, acts and
feeds (`DrawerAssumption`).

* `ListAgreesHolds`, `SwipesInvariant` and `SwipesOnceHolds`, `DrawerRightHolds`; and in `Process_proofs`
  `ChecklistsRightHolds`, of the specification that the run checks.

`ListAgrees` speaks of a list at rest, so the invariant must say how each row differs from the server's
meanwhile and who is going to put it right (`Agrees`): a row under a call shows what the call is to bring
about, and the server what it has brought about (`Awaits`); a row that is missing here is one a call is
adding; one that is missing there is about to be read again (`Rereads`) or taken away. That no answer is
applied to the wrong row is `CallsRight`: the rows shown all came with the last read, and a call made on an
earlier one is overtaken. `OneCall` is what makes a revert safe: what is not in doubt has one call on it,
which in the grocery list the lock ensures (`RowHeld`), and in the pantry the history variable records.

Of a touch, `Unspent` says that what may still act has not acted: the click that is to come and the swipe
that is sliding never both count. In the grocery list they are kept apart by time alone, so `Slides` is
about when: the slide is over before a second tap is heard again. `Undragged` is that a drag that was given
up swallows its click. `Offside` says of every row off to the side why it is: it is dragged, or slides, or
has left and its element has not, or went astray.

`DrawerRight` lacks little of being inductive: that a locked row has not only a call but one that will
unlock it (`Unlocks`: a restock that a read has overtaken will not), that an open drawer has something in
it (`Opened`), and that two clones of one row are remembered (`Aloft`), since the first to arrive shows the row.

`Sessions_proofs` proves, for any ids, owners, subjects, requests, caps and lifetimes (`SessionAssumption`):
`SessionTypeCorrect`, `BoundsHold`, `SurvivesHolds` and `ServedHolds`. The heart of `SessionInv` is that the
in-flight map and the requests agree: a rebuild is led by one request that holds its key (`FlightInv`), whoever
joined waits on a leader of the same key (`RequestFor`), and a half-built session is that of a leader
that has replayed and not settled (`HalfInv`). So while a session is rebuilt for its own subject nobody else
can enter it into the map or find it there, which is `Served`. `Survives` is about what stands of an id:
its record on disk, its client's DELETE, that it lapsed, or that a flush failed, which only grows; an answer still to
come has one of them too, because its request waited for its flush (`RequestFor`). `Bounds` counts: the proof
is about cardinalities of the map's domain.

`Discover_proofs` proves, for any finite set of recipes, any versions, models and bounds (`DiscoverAssumption`):

* `DiscoverTypeCorrect`, and `IndexRightHolds`, which joins `HashAgrees`, `OneModel` and `Fresh`.

`Fresh` speaks of the moment at which all handlers have ended, so it needs what holds before. That is
`WordInv`, about the last word on a recipe: of the handlers that wait, the last that concerns a live
recipe brings it to its present contents (`Brings`); if that one holds the mutex, its batch carries the
present text already or the recipe is indexed (`Carries`); and if none concerns it, it is indexed as it is.
Each announcement is the new last word or leaves the recipe as it was (`Told`), a holder that ends
passes the word on, a failure or an overtaken recipe is excused. `BootInv` is about what a start finds on
disk: where the three files disagree is recorded as torn, so what it loads agrees.

`Tools_proofs` proves the tools, each component by the specification of its tools alone. For any callers,
number of calls, rows, ingredients and lists, and any number of failed saves, lost answers, restarts
and edits elsewhere (`ShoppingSpec`; no assumption on the constants is used):

* `ShoppingInvariant` and `NothingLostHolds`.

`NothingLost` is not inductive: that a row is on a list now does not say that no call is about to
take it off, with nothing in the pantry for it. `AllHeld` says so: what is wanted is in the pantry, or
on a list and in no move's removal still to come (`Shed`). For a move to get there, what it stocks
first must be of the ingredients of what it takes off then (`Covers`), which others may edit
meanwhile; that no edit changes the ingredient of an item is `OneName`: Paprika, the store and the
puts of all calls under way agree on it. Each call has one of five courses (`Shape`), and the uids
it has minted are its own until it has posted them (`Own`). A step that starts a call must only show
that its batches fit one of the courses (`Fits`, `StartKeeps`); the step of a save has a case for
what becomes of the rows that others hold (`TrackedKept`), of the stocked (`StockedKept`) and of the
removed (`RemovedKept`). That a uid is minted by one call alone is what `Free` gives: the code draws
random UUIDs, which the model takes never to collide.

For either catalog, any rows, names and callers, and any failures (`CatalogsSpec(k)`, `CatalogsAssumption`):

* `CatalogInvariant` and `CatalogWholeHolds`.

Of the calls that write, one is past the lock (`Sound`), and what it is about to save was computed from the
rows as they are now: what it adds or renames has a name no row has, what it moves or takes away leaves the
other positions apart. The store agrees with Paprika but for the batch that is landing (`Agree`, `Landing`),
a row that was ensured in memory only is a name like any other, and the list a reconcile has fetched, and
what it has made of it, are right about each row that is neither shielded nor landing (`Fresh`), as long as
no load takes a commit back. The new position of an appended row is above all others because there are
finitely many (`Greatest`); that the ranks of a reposition are apart is a matter of cardinalities.

For any slots of rows and callers (`MenusSpec`, `MenusAssumption`; `CategoriesSpec` and `PhotosSpec`,
`RecipeToolsAssumption`):

* `MenusInvariant` and `MenusWholeHolds`, `CategoriesInvariant` and `CategoriesWholeHolds`.
* `PhotosInvariant`, and `RecipesWholeHolds`: `RecipesWhole` of both specifications.

Menus and categories share one argument (`AloneInv`). One call is under way at a time (`Counted`), and while
nothing was missed (`Undisturbed`) its batches are in an order such that Paprika is whole after each of
them, and the store is Paprika's state, less at most the batch that is being committed (`Orderly`). So
wherever a call stops, what is left is whole. For a new parent of a category the point is the search for a
cycle: what it refuses is exactly what would close one. For the photos `InOnePlace` says that a preview is
in the buffer, with one call, or on one photo, and never in two of these; `AllGenuine` that the rows an
upload posts, wherever they are on their way, name the recipe the preview was made for.

Only model-checked: liveness (`Converges`, `Settles`, `Recovers`, `CatchesUp`), which is out
of the prover's reach; `TypeOK` of SyncDriver, which depends on what `SelectSeq` computes (a recursion);
`IndexTruthful` of RecipeSync, which is about one call at a time (see the bounds); the screens and the
search (`ScreensRight`), whose groups, sections and ranks are sorted by recursion; and `ToolsTypeOK` as a
whole, of which the theorems above cover sign-in, the boot, the requests and the checklists' three sides.

## What is not modelled

* Formatting, schemas, wording, logging, telemetry, configuration, the parsing of dates and durations.
* Tools that only read: they change nothing. (`search_meal_history` pages by an offset, which shifts
  when the history changes between two pages.)
* Reading corrupt cache files; `getAll` reads beside the mutex (`disk-cache.ts:229`), which EntitySync has
  as a step of its own.
* `utils/resilience.ts`, the fetch of the embedding, image and photo hosts: retries without a sign-in.
* The HTTP router, rate limits, the access log; the start of the HTTP server; signals before the
  handlers are there, which end the process without a flush.
* The looks of the widgets, the hand-overs to the assistant, the serving of their pages, the presets.
* The synthesized click
  of a grocery swipe that is released early; the re-anchoring of notes in the cooking widget.

Hazards known from reading that no model shows, most of them of two clients or of a stopped step:

* An upload and `update_recipe` take the stored recipe before they wait, and then save all of it. Two
  attaches at once get the same order flag. An upload whose second post fails leaves a recipe that
  names a photo which is not there; deleting a photo leaves the recipe's own photo fields.
* `generated-image-store.ts:60` says that a preview is restored when its attach fails;
  `photo-writes.ts` deliberately does not.
* Two clients can make lists of one name, re-parent categories into a cycle, or categorize under a
  category that is being deleted. The deletion of a category is announced to nobody.
* A create that is retried after a lost answer makes a second aisle or meal type.
  `update_grocery_item` and `update_pantry_item` take the row before they wait for the aisle. A row that
  was ensured in memory only is lost by a restart.

## Plan

Done: EntitySync, RecipeSync, SyncDriver with the breaker; signing in again on a 401 (`Requests`); OAuth
(`Grants`, `SignIn`) with the refinement of `RefreshLedger`; `Sessions`; `Discover` and `VectorIndex`; the
tools; the widgets; the boot; the proofs above. The conditions on recursion are kept in all of them: no
module declares a RECURSIVE operator. Next, in this order:

1. The screens: `NeverHijacks` and `InStep`.
2. EntitySync against an abstract shielded replica.
