# A TLA+ model of endstone-blockdata

endstone-blockdata lets Endstone plugins (C++ and Python) capture blocks and
block entities of a running Bedrock server as detached snapshots and write them
back by compare-and-swap patches. What is hard about it is not the data but the
steps: a container is written slot by slot through game code that may refuse or
rewrite an item or throw, bundles must keep a native lifetime through all of
that, snapshots are used long after they were taken, menus and tokens are answered
late, twice or after a reload, and a release is put together by scripts that may
be killed anywhere. This directory models those steps, checks them with TLC and
proves the results that matter most with TLAPS.

Paths below are relative to the repository (`src/` is its root here);
`PROJECT.json` maps every definition to the lines it stands for.

## 1. Inventory of the system

| Part | State it keeps | Operations | Talks to |
|---|---|---|---|
| `BlockDataService` and the block model (`src/block_data_service.cpp`, `include/endstone_blockdata/types.h`) | none of its own | capture, captureRegion, apply (validation), `BlockTransaction::commit`, `ContainerView`, `ShelfView`, revisions | one `IBedrockBlockAdapter` |
| `Bds2645BlockAdapter` (`src/bds_26_45_adapter.cpp`) | the live world: block, block actor, its container, the owner of its dynamic containers | capture, apply (three paths: public, NBT only, inventory) | the game through the native item bridge; the public adapter |
| Native storage-item bridge (`src/native_item_bridge.cpp`) | trackers of dynamic containers; the owner's vector of lifetimes | track, escrow, replace, repair saved contents | game code |
| `EndstonePublicAdapter` (`src/endstone_public_adapter.cpp`) | the live block | capture, apply (type and states) | Endstone's public API |
| `InMemoryAdapter` (`src/in_memory_adapter.cpp`) | a map of blocks under a mutex | capture, apply | - |
| Container audit (`src/container_audit_reactor.cpp`, `src/audit.cpp`) | `armed_`: baseline by location, under a mutex | arm, inspect, forget, clear, diffSnapshots | the service |
| Player inventory (`src/player_inventory.cpp`, `src/bds_26_45_player_inventory_adapter.cpp`) | the live sections of a player | capture, apply | Endstone's inventory API |
| `ShelfShop` (`examples/python/shelf_shop.py`) | active reservations, restored and completed IDs, under a lock | products, reserve, complete, restore, replace_stock | the service through `ShelfView` |
| Inspector plugin (`examples/python/block_data_inspector_plugin`) | form locks, selected targets, audit baselines and log, the bridge and its capabilities | `/bd` commands, menus, form callbacks, events | Endstone's forms; the live bridge |
| Plugin lifecycle, loaders, bindings (`src/plugin.cpp`, `src/live_python_bindings.cpp`, `_native_loader.py`) | services and providers | onLoad, onEnable, onDisable; a call of a provider | the service manager |
| Version gate, NBT values, storage-item editor | none (pure) | predicates, validation, equality and hash, edits of serialized contents | - |
| Build and release pipeline (`scripts/build_exact.py`, `build_test_wheel.py`, `package_release.py`, the three `verify_*.py` scripts of a release, `ci.yml`) | `dist/stage`, `dist/release`, the GitHub releases | build, package, verify, publish | one another through files; the loaders of the wheel on a server |
| Qualification scripts; module backup | files | offline tools | not part of the running system |

**Interactions.** Listeners, commands and shop callers hold snapshots and submit
patches to the service; the service validates and forwards to the one adapter it
was given. Live captures and writes happen on the server's primary thread (the
adapter refuses others), so one `apply` is not interleaved with other code, but
*between* two calls players, hoppers and other plugins change everything. The
only shared memory of several threads is `armed_`, the shop's registry and the
in-memory adapter's map, each behind its own lock; captures and applies of the
first two take place outside or across those locks.

**What is hard.** Failure between two slots of a write and again in its
rollback; native lifetimes that must outlive the stack frame that made them;
stale revisions; two critical sections with a capture between them; tokens
consumed by racing callers; callbacks of forms that no longer count; locks that
must be released whatever fails. `hazards` in `PROJECT.json` lists each at its
line with the properties that would catch it, or why none does yet.

**What makes each part correct.**

* *Inventory write*: no bundle in the container without a living manager; an
  answer that tells the truth about the container left behind; no lost update;
  lifetimes neither lost nor piling up.
* *Audit*: no change between two baselines escapes the deltas; a delta explains
  exactly the change it reports; with listeners on one thread nothing twice.
* *Shop*: stock is neither made nor lost; a token is used once; a restore only
  over the shelf its reservation left.
* *Forms*: only confirmed writes, by a living, permitted player, once; a lock
  never outlives its form, and always moves on.
* *Player inventory*: an invalid patch changes nothing; a bundle is never
  written; what a failing setter leaves is a prefix of the write; no lost update,
  and fields that no snapshot shows survive.
* *Block writes*: a transaction leaves what it answered Applied and nothing else;
  a guarded patch never writes over what its caller has not seen; the revision of
  an answer guards the next patch, and never fits what a failed write left.
* *Inspector commands*: a write goes to the block it was asked for and is reported
  as it happened; no command goes on without its capability; an audit is not lost.
* *Releases*: what is accepted and published is one build of one version,
  whatever earlier builds left behind; it loads.

## 2. Modules

```
BlockPatch              revisions, patches, policies, results
  AtomicContainer       what a caller of apply is promised (abstract)
  ContainerTransaction  the slot-by-slot write; Implements == AtomicContainer
      MCContainerTransaction, ContainerTransactionProofs
AuditReactor            arm / inspect / forget with their steps apart
      MCAuditReactor, AuditReactorProofs
ShelfShop               composed with AtomicContainer as its shelf
  AtomicShop            what the shop promises (abstract); Implements == AtomicShop
      MCShelfShop, ShelfShopProofs
InventoryPatch          sections, snapshots, patches and the order of setter calls
  InventoryCalls        what a caller of a player's inventory is promised (abstract)
  PlayerInventoryWrite  checks, then setters section by section;
                        Implements == InventoryCalls
      MCPlayerInventoryWrite, PlayerInventoryWriteProofs
BlockWrites             apply through every route, transactions, three adapters
  RegionCapture         the size test of captureRegion
      MCBlockWrites, BlockWritesProofs
InspectorForms          menu pages, callbacks, form locks
      InspectorFormsProofs
InspectorSession        the commands: connection, targets, baselines, writes
      MCInspectorSession, InspectorSessionProofs
ReleasePipeline         build, package, verify, publish, load
  AtomicRelease         what it promises (abstract); Implements == AtomicRelease
      MCReleasePipeline, ReleasePipelineProofs
```

### BlockPatch, AtomicContainer
`calculateRevision` hashes everything a snapshot shows, so a revision is
represented by the contents it was computed from. It follows that a container
that returns to its old contents has its old revision again (as in the code);
64-bit collisions are left out. `inventory_updates`, `inventory_removals` and
a replaced `Items` list all become one function from slots to content or `Keep`.
`AtomicContainer` says that a call ends in a single step as *nothing happened*,
*exactly the overlay over a revision that was not stale*, or *damage, reported
as an incomplete rollback*.

### ContainerTransaction
The inventory path of `Bds2645BlockAdapter::apply` with the bridge functions it
calls. `phase` is the position in the function; `final`, `originals`,
`requested`, `rollback` and `pending` are its locals (`final_items`, `originals`,
the two trackers, the rest of the loop); `container` and `owner` are the live
stacks and `ContainerOwner`'s vector. One action per region of the function:
the refusals, the conflict test, the plan, materialize and prepare-rollback slot
by slot, escrow, the write loop slot by slot, comparison, commit, restore slot by
slot, the three ends of a rollback, and the readback. Leaving the function
destroys the trackers (`Return`), so a manager only they held is gone.

External and nondeterministic: `Container::setItem` stores, visibly refuses,
stores another form (never a bundle made of a plain item), stores and changes a
neighbour, or throws; tracking, escrow and readback captures may fail. World
edits happen only between calls. An edit that takes a bundle out leaves its
lifetime in `owner`. `signalContainerChanged` has no state here, and
`FreshManager` picks the identity of a new manager canonically (identities are
only compared).

### AuditReactor
A snapshot is its position in the block's `history`; `inspect` is three steps
(read under the lock, capture outside, store under the lock), `arm` two. Threads,
changes of the block, `forget` and `clear` interleave between them. `accounted`
is a history variable: the states that lie in a returned delta or were passed
over by an explicit `arm`. `Diff` is `diffSnapshots` over slots, with its kinds.

### ShelfShop
Callers run `reserve`, `restore`, `replace_stock` in steps (capture, apply,
answer, register) and `complete` in one; `_reservation_lock` is a variable and is
held across the steps the code holds it across. The shelf is an INSTANCE of
`AtomicContainer`, so the shop meets every answer the adapter can give,
including revision 0 and the damaged shelf of an incomplete rollback. `ledger`
is a history variable: the stock that must exist, moved by world edits, by
restocking and by completed sales. Stock is summed with `SumFunction`. `Restocks`
names the shelves that `replace_stock` is called with.

`AtomicShop` has no shelf, no writes and no lock: a number per product, a state
per token, and one step for each of reserve, restore, complete and "stock came or
went". It is `ShelfShop` under the mapping `ForSale` and `Tokens`: for sale is what is on
the shelf, with what a registration still has in hand and without what a restore
under way has put back, so that a reservation happens where it is registered and a
restore where its token is used up.

### InventoryPatch, InventoryCalls, PlayerInventoryWrite
A patch is the updates and removals of `<<section, slot>>` places, valid or not.
The checks of the service and then of the adapter are operators in the code's
order, each with its refusal; `Parse` fixes what the setters are to leave, and
`Write` is one setter call, in the order main, armor, offhand, Ender Chest,
updates before removals, slots ascending. `SetterThrows` raises with or without
having stored, and answers with the revision of the start, as the code does.
A stack has `hidden` fields beside type and tag (count, data and NBT as one
value); a snapshot and its revision do not show them, and `itemFromNbt` keeps
them by copying the live stack. The held slot is part of the revision. A setter
that returns is taken to have stored what it was given: unlike in a block
container, the code neither compares nor expects otherwise.

`InventoryCalls` knows what snapshots show and nothing else. A call is one step of it:
`Refuse`, which says Conflict only of an outdated revision and InvalidPatch only of a
patch that cannot be carried out; `Commit`, the whole patch over the revision
expected; or `Break`, where a setter raised: the beginning of the patch in
the order of the setters, answered with the revision from before. The mapping is
`items <- Seen`, the live stacks as a snapshot shows them, or those from before while setters are
being called.

### InspectorForms
Pages form the graph of the `_show_*` methods; `Choices` is what `on_submit` of a
page can lead to, `Closing` what `on_close` does. `_release_form`,
`_run_form_action`, `_close_form`, `_send_locked_form` are whole actions: the
release, the checks for death and permission, the dispatch, and the sending of
the next page, which may fail before or after the client has the form. Clients
answer any form they still have, at any time and possibly again; `Dies` and the
event `DeathEvent` are separate steps, and `Quit` may leave callbacks behind.
Pages that differ only in their controls (with or without coordinates, start and
stop) are one page. `dispatched` is what the last step dispatched. A write of a
confirmation is its argument list: which block an *active target* means, and the
revision of it, are only looked up at dispatch, and are not shown on the form.
Commands typed in full in the chat need no form; they are `InspectorSession`'s.

### BlockWrites
A block is its type, one state, and what its actor has: a custom name, other NBT,
an inventory. `Outcomes` is the set of everything one `apply` may leave and answer,
route by route, refusals in the code's order: `PublicWrite` (setData and a capture
that may raise), `NativePublicWrite` (which captures again, outside of any
handler, so that an exception takes the answer with it), `FieldsWrite` (NBT and
name, either taken over or not when something raises), `ItemsWrite` (what
`ContainerTransaction` comes to: all, nothing, or damage) and `MemoryWrite`. A
revision is the part of a block that a capture through the same adapter shows: the
public adapter sees no actor, the native one mixes in the status of an actor it
cannot locate. `Begin`, `ApplyNext` and `Finish` are
`BlockTransaction::commit`; a live commit keeps the primary thread to itself,
those of the in-memory adapter interleave with one another and with edits.
`start` is a history variable: the world a live commit found. `Raised` is an
exception that leaves `commit`. Conflict messages, and the texts by which a caller
tells damage from other adapter errors, are kept apart as statuses.

### RegionCapture
Operators only: the extents of a region, the test that refuses it, and the
numbers that are computed before the test is decided, which `||` cuts short.

### InspectorSession
Every command of `/bd` but the menu, for any sender (a console has no location
and must name coordinates). A command runs on the primary thread and is one step,
with its connection check (`Connected` and `Refusal`: a connection once made is
kept with the capabilities read then), its capture, which may fail, and its
write, which may fail, damage the inventory or raise before or after it wrote
(`Apply`). A state is set before the block is captured again, so that a state write
said to have failed may have been made (`endstone_public_adapter.cpp:55-65`); an
inventory write said to have failed changed nothing, unless it says that its rollback
was incomplete. Because capture and apply are one step, the conflict answer cannot
occur and is left out, as are usage errors, which change nothing. `told` is what the sender is
told, with the write it asked for (a slot and an item, or a state) or the delta of
its report; `log` is the length of the audit log. Contents are functions of the
occupied slots alone, which is all that a capture shows, so that only the command's
comparison with the capacity keeps a write to a slot the block has; and
`Delta` follows `_diff_snapshots` over the slots that either snapshot shows.

### ReleasePipeline
One action per file written between an emptied tree and a published release;
`phase` is what `build_exact` does next, `Stop` kills it before, or in the middle
of, any write (`Torn`), and `Clean` may leave one kind of file behind, because
`rmtree` ignores what it cannot remove. A digest is the content it is taken of. Of
the sources only the five versions they state and their revision are kept.
`Tag` starts the workflow on a fresh tree, as a CI runner does, any number of
times for one version; `Verify` and `Publish` are its gates, and the phase `released`
is that of a run whose jobs all succeeded, whether it created the release or found
one. The version given to the verification is the one of `SOURCE_RELEASE.json`.

`AtomicRelease` knows a checked-out source and the published releases only: a
release appears in one step, once, and is what an undisturbed `Build` of that
source gives. Everything else the pipeline does, killed builds and leftovers among it, is
not visible in it.

## 3. Runs

| Run | Instance | Distinct states | Shows |
|---|---|---|---|
| `container_transaction` | 2 slots, one plain and one bundle content, 8 managers, `MaxOwned` 2, policies FailIfChanged / Force / an unserved one | 1.88 M | six invariants and that apply implements `AtomicContainer` |
| `audit_reactor` | 2 threads (symmetric), 1 location, 2 block data, 2 actor NBT, 2 items in 1 slot, 3 versions | 1.85 M | no change unaccounted, deltas explain, under overlapping calls |
| `shelf_shop` | 2 callers, 2 IDs, 2 products, counts to 2, 1 slot, 2 restocked shelves (callers and IDs symmetric) | 201 k | stock, restores, and that the shop implements `AtomicShop` |
| `shelf_shop_revision` | the same, without symmetry | violation | the finding below |
| `player_inventory` | main and offhand of 1 slot, patches of up to 2 entries over 5 places with 7 values, 2 held slots, 1 event between capture and call | 3.63 M | checks before changes, prefixes, hidden fields, bundles, and that apply implements `InventoryCalls` |
| `player_storage_items` | the same | violation | the second finding |
| `inspector_forms` | 1 player, 2 writes, 3 tokens, 2 forms that may still be answered | 10 k | locks, confirmed writes, progress |
| `block_writes` | 3 adapters, 1 caller, 2 locations, chest / shelf / stone, transactions of 1 or 2 of 14 patches, 1 location edited and unloaded | 1.70 M | what is left is what was answered; lost updates; revisions of answers |
| `inspector_session` | 2 senders (one a travelling player or the console), 2 sites in 2 dimensions, a hopper of 1 slot and stone, 2 block states, radius 1, 1 log entry | 420 k | targets, truthful answers, checked connections, audits |
| `release_pipeline` | a release and a prerelease, 2 revisions, 6 sources (3 that disagree with themselves), 1 kind of file left behind | 750 k | accepted, finished and published releases, and that the pipeline implements `AtomicRelease` |
| `release_prerelease` | the same | violation | the third finding |
| `release_rerun` | the same | violation | the fourth finding |

**Why these bounds are enough.** Two slots give a write that fails between slots,
one with a touched and an untouched bundle, and a neighbour that changes; eight
managers cover two trackers, the stacks and what is left of an owner beyond its limit. `MaxOwned`
stands for 65536: 2 lets the owner pass the limit by
repeated incomplete rollbacks, or by the bundles players put in, which only the number of
managers bounds (the game knows no limit). Two threads and three versions let an inspection
start before and end after a complete one of the other thread; the kinds of a slot
change need one slot with two items. Two callers and two IDs give every
race for a token and the reuse of an ID; with counts to 2 (for 255) a reservation
may take a part of a stack or all of it. (The overflow that `restore` tests for at
line 304 cannot be met after its test of the revision.)
One-slot sections
(armor has 4 in the code) with places before, in and after them give every refusal; two
entries give a contradiction, a valid entry beside an invalid one, and a write that
fails between two sections; `Found` and `Offered` name the stacks and values used,
and one event since the capture makes it stale in a slot or in the held slot.
Two live callbacks of one player are a stale and a live form; three
tokens leave a fresh one. One player suffices, since players share nothing but a
reload, and the theorems hold for any number.
In `block_writes` every patch sample takes another route or refusal; pairs on one
block give a second patch that meets what the first left, pairs on two blocks a
failure that must leave the other alone. One caller with another thread that
edits at any moment gives the in-memory adapter a block that changes between any
two answers, and the proofs are for any number of callers and any blocks.
`MCBlockWrites` also assumes, and so has TLC check, that small regions around a limit of 4
blocks are refused by their products exactly if counting refuses them. In
`inspector_session` the two sites have the same coordinates in two dimensions,
which is what a wrong dimension would confuse; two senders at one hopper can take
each other's baseline; slot 1 does not exist in a hopper of one slot. In
`release_pipeline` two revisions of one version give builds that could be mixed
without any version telling, and the three bad sources state the plugin, key or
wheel version wrongly.
Two runs have a VIEW: `shelf_shop` tells answers apart by what the shop looks at,
whether they are Applied and the revision of one that is, and `inspector_session`
leaves out `told`, which no action reads.
`MaxVersions`, `Ids`, `MaxForms`, `MaxCount`, `MaxTouched`, `MaxEdits`, `MaxOwned`,
`Found`, `Offered`, `Disturbed`, `Audited`, `Starting`, `Places`, `Restocks`, `MaxLog`,
`Transactions`, `Slots`,
`Radius`, `MaxLocked` and the sizes are the only bounds; no other counter is
capped. No run switches the deadlock check off.

**Fairness.** Only `inspector_forms` has a liveness property, under
`FairSpec`: the client of a player answers the form on its screen in the end, by
submitting or by closing (a Bedrock client answers every form it was sent,
also one it could not show; one that is disconnected instead triggers
`Quit`, which frees the lock as well). Nothing is assumed of any other action.
The adapter's own calls are synchronous: they end because their loops are finite.
Nothing in the other modules promises progress: callers stop when they like, a
killed build need not be started again.

## 4. What is proved

For every value of the constants that satisfies the named assumptions
(`PatchAssumption`, `TransactionAssumption`, `ReactorAssumption`, `MarksAssumption`,
`ShopAssumption`, `InventoryAssumption`, `FormsAssumption`, `WritesAssumption`,
`InputsAssumption`, `NoRevisionAssumption`, `RegionAssumption`,
`SessionAssumption`, `ReleaseAssumption`, `FilesAssumption`, which TLC evaluates
in the runs of their modules), all properties of the passing runs but one are
proved:

* `TypeCorrect`, `LifetimesInvariant`, **`BundlesKeepTheirManagers`**: for any
  number of slots. `NoStrandedBundle` is not inductive: while slots are
  written the container holds bundles of the old and the new set. `LifetimeInv`
  (checked with TLC before it was proved, in the instance of `container_transaction`)
  adds what each phase has in its trackers, that the escrow holds both sets from
  the first write on, and that the slots already passed by a loop hold stacks of
  that loop's set, so that at the end of a complete pass one set is enough.
* `LifetimesDoNotPileUp`: a second inductive invariant says
  what the owner's vector is made of at every phase: the lifetimes in use, those an
  incomplete rollback left, and, from the escrow on, those of the call.
* `PlanInvariant`, `RevisionsAreTruthful`, `NoLostUpdate`: `PlanInv` ties
  `originals` and `final` to the contents found current and says nothing changes
  before the first write; with it a commit is exactly the overlay.
* **`ImplementsAtomicContainer`**: every step of the transaction is a step of
  `AtomicContainer` or a stutter under the mapping `contents <- Shown` (original
  contents while slots are being written).
* `ReactorTypeCorrect`, **`NoChangeEscapes`**: with `BaselinesAccounted` (the
  baseline an inspection holds was accounted for when it was read) as the
  strengthening, for any number of threads and locations.
  `DeltasExplain`: every delta is built from the baseline and the capture of one
  inspection, and `diffSnapshots` has one change for every slot that differs.
  `OneThreadReportsOnce`: when one thread calls the reactor, each inspection starts
  where the one before ended and nothing is reported twice. With two threads that is
  false, as TLC shows in a few steps, and nothing in the repository promises it.
* **`StockIsConserved`**, `RestoresAreExact`, `TokensRedeemedOnce`, and the shop's
  `TypeCorrect`: for any callers, IDs, products and slots. The sums over slots and
  reservations are recursive functions, about which the library's induction
  theorems cannot be used; what is needed of them (a changed summand, an added
  or removed one) is proved by taking a smallest set for which it fails. The invariant
  says which capture and patch a submitted request was computed from, and that a
  record, pending or active, holds an item the shelf of its caller covered.
* **`ImplementsAtomicShop`**: by `StockConserved` what is for sale is what must exist
  less what tokens hold, so that a step which changes neither is a stutter; a
  restore, a completion and a registration move one token and its item. That
  a reservation is made over stock that is there needs one thing more: under the lock
  nothing is being put back, so that all parts of the sum are natural numbers.
  `RevisionsAreOwn` is what remains of the promise the first finding refutes: a record
  without the revision of the shelf its reservation left has none at all, never
  that of a later shelf.
* `InventoryTypeCorrect`, **`InvalidPatchesChangeNothing`**,
  `FailuresLeavePrefixes`, `InventoryNoLostUpdate`, `HiddenFieldsSurvive`,
  `BundlesNeverWritten`: from one inductive invariant. `Checked` says what the checks
  established about the patch that is being carried out, `Progress` that
  pending slots are old, the others new, and no pending call is earlier than one
  already made; `ChecksSuffice` and `ChecksNeeded` show that the code's checks of
  entries together are the plain definition of a feasible patch.
* **`ImplementsInventoryCalls`**: refusals, the end of a write and a setter that raises are
  the steps a caller sees, the capture, the parse and setters that return are stutters.
  For a write the setter calls that were made are `Writes \ pending`, which
  `Progress` makes a beginning; `OverlayShows` turns stacks into what a snapshot
  shows of them, where hidden fields do not count.
* `FormsTypeCorrect`, `LocksHaveForms`, **`WritesAreConfirmed`**: `TypeOK` (one
  form per token) and `LockHasForm` together are inductive; the action property
  follows from the first.

* BlockWrites' `TypeCorrect`, `NoUpdateLost`, `ResultingRevisionFits`,
  `FailedWriteShows`: everything an `apply` may leave and answer is `Sound`, shown
  route by route from the public write up to `Outcomes`. **`CommitLeavesAnswered`**:
  each answer is also `Told` (Applied means the whole patch, a refusal none of it),
  and the invariant `LiveInv` keeps, for every block, the course it took from
  answer to answer. `AfterApplied` is a recursive function, so that `CourseUnique`
  first shows by a smallest counterexample that it has one value.
* `RegionsAreMeasured`: with 32-bit corners and a limit of 32768 blocks
  captureRegion computes nothing beyond 2^32 and 2^30, in 64 bits, and refuses exactly what
  counting the blocks would refuse.
* InspectorSession's `TypeCorrect`, **`NoSilentFallback`**, **`CommandsTellTheTruth`**,
  `CurrentConnectionChecked`, `AuditKept`: from the types, and from what one command
  may do to the world (`WritesAsked`): nothing, or to the one block it was asked about
  what it tells of the write it was asked for. `SlotPatched` and `StatePatched` show that a
  write told as made is exactly the one asked for.
* ReleasePipeline's `TypeCorrect`, **`OneBuildAccepted`**, `FinishedAccepted`,
  `PublishedWheelLoads`: a build proceeds over the files of earlier ones, so the
  invariant speaks of all files wherever they were left: the plugin and bridge of a wheel
  are of one build, and the name of a standalone plugin tells its version; the
  verification's comparisons tie these together.
* **`ImplementsAtomicRelease`**: nothing but publishing and checking out is visible, and what
  is published is the undisturbed build of the source. Beyond the
  invariant it takes that a runner's stage holds no wheel but its own (`Alone`).
  Through the abstraction, `ScriptsLoadStableOnly`: for scripts, a published release
  loads exactly if it is stable. `PrereleaseAlwaysRefused`: what the third
  finding shows of one prerelease holds of every one whose versions are stated as the
  checks ask.

The properties of the abstract specifications are inherited through the refinements.
`TokensConsumedOnce`, the player inventory's `AppliedOverExpected` and `LifetimeInv` are
proved on their own and are properties of no run, the first two being part of
`Implements`, the third the strengthening of `NoStrandedBundle`.

**Only model-checked**: the liveness property `LockMovesOn` (liveness under
fairness is outside of what the installed provers do). The four properties of the
violation runs are refuted, not proved.

## 5. Findings and observations

**A revision of 0** (`shelf_shop_revision`): `docs/shelves.md:60` promises a
post-reservation shelf revision with every reservation. When the readback after
a committed write fails, apply answers Applied with revision 0, the
reservation carries 0, and `restore` refuses it although nobody touched the shelf.

**Custom storage items** (`player_storage_items`): `docs/player_inventory.md:84` says
storage-item updates of a player are rejected, and `docs/storage_items.md:16` counts
custom items among them. The adapter knows a storage item by a vanilla bundle
identifier or by a contents list in the update; a custom one named without contents
is written.

**Prereleases cannot be published** (`release_prerelease`): `CHANGELOG.md:158` and
`ci.yml:314` publish prereleases, but `build_test_wheel.py:97` declares the
PEP 440 version in the wheel's manifest while `verify_release_assets.py:271` and
`load_native_provider` compare it with the release version. The two agree for a
stable release only.

**A second run of a tag** (`release_rerun`): `docs/GITHUB_RELEASES.md:30` says that
re-running the tagged workflow updates existing assets with `--clobber`. The job
preserves the assets of a release that exists (`ci.yml:318`). In the run a tag is
put on another revision of the same version; its workflow succeeds, and the release
keeps the assets of the first. `AtomicRelease` says what the code does: published once.

Observed while modelling, and covered by how the properties are stated:

* An owner whose vector passed the limit can never be repaired by `apply`: every
  later write with bundles is refused. Nothing bounds the vector, neither the code nor
  the game, and no document promises that a container stays writable.
* `docs/in_game_testing.md:84` says every command checks native service
  availability and adapter capabilities first. `_require_bridge` (`plugin.py:966`) asks
  the service only while it has no connection; after the native plugin is disabled, or
  returns with the other adapter, commands pass the check on what was true before. No
  wrong answer comes of it (`TellsTheTruth`, and `ConnectionChecked` states what is
  checked), only a less helpful one, or a refusal of what would be possible.
* A second `audit start` of a sender for one block replaces its baseline: what
  happened in between is in no report. The sender is told that an audit started.
* A NaN in an item's NBT never compares equal, so a container holding one is
  always rolled back, and the rollback is reported incomplete.
* A player write that failed half-way answers with the revision of the start.
  That is safe for a caller who uses it: the next compare-and-swap conflicts.
  Hidden fields stay with the slot, not with an item that a patch moves, and a
  removal or an update may destroy a bundle with its contents.
* Overlapping inspections of one location may report a change twice or move the
  baseline back; a `forget` or `clear` during an inspection is undone by its
  re-arm. Nothing escapes in any of these.
* A reservation that applied and is interrupted before it is registered is lost
  with the process (reservations are documented as in-memory).
* `AtomicContainer` leaves open which of the refusals an answer is, because the
  repository's documents do.
* A failing public write of the native adapter is answered with the public
  adapter's revision. No native capture has it, which is why a retry with it
  conflicts (`PartialWriteIsNoticed`).
* `/bd state` may say that the write failed although the state was set: the public
  adapter captures the block again after it set it, and answers with the error of
  that capture. The sender who looks again sees the new state.
* An audit whose stop finds the block's actor out of reach captures no inventory
  and reports every item as removed.
* `verify_project_metadata.py` does not check `python_version`. A wrong one is
  stopped later, by `verify_release_assets.py`, except for a prerelease that
  states its release string there: that would be published, and load for commands
  but not for scripts.
* `docs/GITHUB_RELEASES.md:42` says each ZIP includes the native plugin;
  `package_release.py:113` leaves it out.

## 6. Order of the work, and what is not modelled

The modules were written in the order inventory write, audit, shop, player
inventory, forms, block writes, sessions, releases, each with its runs before its proofs.
What could still be proved: that `ItemsWrite` of `BlockWrites` and
`Apply` of `InspectorSession` allow what `AtomicContainer` allows, so that the three
descriptions of one write are tied by theorems and not by reading.
What could still be modelled: liveness of the shop's lock once its callers
are assumed to return; two committers of one adapter in one TLC instance, beside the
proof for any number; the repair of saved storage contents within a capture.

**Not modelled**:

* Symbol and layout verification of the native bridge: memory layout, no protocol.
  Likewise the symbol, file-magic and archive-path checks of
  `verify_release_assets.py`.
* Conversions of NBT and items, in the adapters and in the Python bindings, and
  the validation, equality and hash of NBT trees: stateless, and data the
  properties do not tell apart. Their results are inputs: valid or malformed patches, captures
  that fail, stacks that come back changed.
* The version gate: predicates over strings, decided character by character.
* The storage-item editor (`storage_item.py`, `storage_item.h`): pure sequential
  edits of one detached item, with neither steps nor actors nor failures between them.
* C++ callers that keep a provider after the native plugin is disabled: the provider
  owns its service and adapter, and the rest is up to the server's plugin loader.
* A shop caller interrupted for good between its write and its record: documented
  as a limit of in-memory reservations, so there is nothing the code promises.
* The qualification scripts, the unbuilt module backup, and the short
  examples, which keep no state beyond the audit reactor.
