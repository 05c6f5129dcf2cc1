------------------------ MODULE PlayerInventoryWrite ------------------------
(***************************************************************************)
(* Writes of a player's inventory: PlayerInventoryService::apply and the   *)
(* adapter behind it.  A patch names slots of four sections; the service   *)
(* and the adapter check all of it, then call Endstone's setters section   *)
(* by section.  Nothing is rolled back when a setter throws.  Snapshots    *)
(* do not show every field of an item, so an item that stays of its type   *)
(* is copied and not made anew.                                            *)
(*                                                                         *)
(* Bundles, and custom items that store items, cannot be written through   *)
(* these setters.  All calls run on the primary thread; the player plays   *)
(* between them.                                                           *)
(***************************************************************************)
EXTENDS InventoryPatch, FiniteSets

CONSTANTS
    WithContents, \* the tags that hold storage_item_component_content
    Hidden,       \* the fields of a stack the public API does not show
    NoHidden,     \* those fields of a stack that was just made
    NoInventory,  \* nothing has been parsed
    Found,        \* bound: the stacks a player comes by
    Offered,      \* bound: the values of updates
    MaxTouched,   \* bound: entries of a patch
    MaxEdits      \* bound: what happens between a capture and the next call

Stack == [type : Plain \cup Storage, tag : Tags, hidden : Hidden]

ASSUME InventoryAssumption ==
    /\ Capacity \in [Sections -> Nat]
    /\ Capacity["offhand"] <= 1
    /\ Places \subseteq Sections \X Int
    /\ Plain \cap Storage = {}
    /\ WithContents \subseteq Tags
    /\ NoHidden \in Hidden
    /\ Cardinality({Empty, NotAnItem, BadNbt, NoUpdate}) = 4
    /\ {Empty, NotAnItem, BadNbt, NoUpdate} \cap (Item \cup Stack) = {}
    /\ NoRequest \notin Request
    /\ NoReply \notin Reply
    /\ NoInventory \notin [Cells -> Stack \cup {Empty}]
    /\ Found \subseteq Stack
    /\ Offered \subseteq Value
    /\ MaxTouched \in Nat
    /\ MaxEdits \in Nat

VARIABLES
    inventory,    \* the live stacks, [Cells -> Stack \cup {Empty}]
    held,         \* the selected hotbar slot
    snapshot,     \* the revision the caller captured, or NoRevision
    edits,        \* how much happened since
    phase,        \* how far the call has come
    request,      \* the patch, expected revision and policy of the call
    before,       \* the stacks found when the patch was checked
    final,        \* the stacks the setters are to leave
    pending,      \* the setter calls still to be made
    reply         \* the ApplyResult returned

vars == <<inventory, held, snapshot, edits, phase, request, before, final,
          pending, reply>>

world == <<inventory, held, snapshot, edits>>

-----------------------------------------------------------------------------
Shown(stack) ==
    IF stack = Empty THEN Empty ELSE [type |-> stack.type, tag |-> stack.tag]

\* calculatePlayerInventoryRevision, by what it hashes.
Revision(stacks, slot) == [items |-> [c \in Cells |-> Shown(stacks[c])], held |-> slot]

PatchOf(updates, removals) ==
    [updates  |-> [p \in Places |->
                      IF p \in DOMAIN updates THEN updates[p] ELSE NoUpdate],
     removals |-> removals]

-----------------------------------------------------------------------------
(***************************************************************************)
(* The checks, in their order.                                             *)
(***************************************************************************)
Served == request.policy \in {"FailIfChanged", "Force"}

\* Mutant: a slot may be both updated and removed.
ServiceRejectsNotBoth(patch) ==
    \/ \E p \in Updates(patch) \cup patch.removals : p[2] < 0
    \/ \E p \in Updates(patch) : patch.updates[p] = BadNbt
    \/ \E p \in Updates(patch) \cup patch.removals : p[1] = "offhand" /\ p[2] # 0

\* validateSection for each section, and the one slot of the offhand.
ServiceRejects(patch) ==
    \/ \E p \in Updates(patch) \cup patch.removals : p[2] < 0
    \/ Updates(patch) \cap patch.removals # {}
    \/ \E p \in Updates(patch) : patch.updates[p] = BadNbt
    \/ \E p \in Updates(patch) \cup patch.removals : p[1] = "offhand" /\ p[2] # 0

\* Mutant: the expected revision is not looked at.
StaleNever(req) == FALSE

Stale(req) ==
    /\ req.expected # NoRevision
    /\ req.policy # "Force"
    /\ req.expected # Revision(inventory, held)

\* Mutant: a bundle is known by its contents only.
ContainsStorageItemWriteByContents(patch) ==
    \E p \in Updates(patch) :
       /\ patch.updates[p] \in Item
       /\ patch.updates[p].tag \in WithContents

ContainsStorageItemWrite(patch) ==
    \E p \in Updates(patch) :
       /\ patch.updates[p] \in Item
       /\ \/ patch.updates[p].tag \in WithContents
          \/ patch.updates[p].type \in VanillaBundles

\* parseUpdates and validateRemovals for each section.
AdapterRejects(patch) ==
    \/ \E p \in Updates(patch) \cup patch.removals : p \notin Cells
    \/ \E p \in Updates(patch) : patch.updates[p] \notin Item \cup {Empty}

\* Mutant: every updated item is made anew.
ParsedAnew(value, existing) ==
    IF value = Empty THEN Empty
    ELSE [type |-> value.type, tag |-> value.tag, hidden |-> NoHidden]

\* itemFromNbt: an item that stays of its type is copied for its hidden fields.
\* (Its own refusal of a vanilla bundle without contents is never met: a patch
\* with such an update was refused as ContainsStorageItemWrite before.)
Parsed(value, existing) ==
    IF value = Empty THEN Empty
    ELSE [type   |-> value.type,
          tag    |-> value.tag,
          hidden |-> IF /\ existing # Empty
                        /\ existing.type = value.type
                        /\ value.type \notin VanillaBundles
                        /\ value.tag \notin WithContents
                     THEN existing.hidden
                     ELSE NoHidden]

Overlay(patch, stacks) ==
    [c \in Cells |->
        IF c \in Updates(patch) THEN Parsed(patch.updates[c], stacks[c])
        ELSE IF c \in patch.removals THEN Empty
        ELSE stacks[c]]

-----------------------------------------------------------------------------
\* Mutant: the setters are called in any order.
ReachedAny(w) == w \in pending

Reached(w) == w \in pending /\ \A v \in pending : ~Earlier(v, w)

-----------------------------------------------------------------------------
Init ==
    /\ inventory \in [Cells -> Found \cup {Empty}]
    /\ held \in HeldSlots
    /\ snapshot = NoRevision
    /\ edits = 0
    /\ phase = "idle"
    /\ request = NoRequest
    /\ before = NoInventory
    /\ final = NoInventory
    /\ pending = {}
    /\ reply = NoReply

local == <<request, before, final, pending, reply>>

\* The player moves items, or selects another slot of the hotbar.
Plays ==
    /\ phase \in {"idle", "captured"}
    /\ edits < MaxEdits
    /\ edits' = edits + 1
    /\ \/ /\ \E c \in Cells, i \in Found \cup {Empty} :
                inventory' = [inventory EXCEPT ![c] = i]
          /\ held' = held
       \/ /\ held' \in HeldSlots
          /\ inventory' = inventory
    /\ UNCHANGED <<snapshot, phase, local>>

\* The snapshot a patch is made from.
Capture ==
    /\ phase = "idle"
    /\ phase' = "captured"
    /\ snapshot' = Revision(inventory, held)
    /\ edits' = 0
    /\ UNCHANGED <<inventory, held, local>>

Call ==
    /\ phase = "captured"
    /\ \E U, R \in SUBSET Places, expected \in {NoRevision, snapshot},
          policy \in Policies :
          /\ Cardinality(U) + Cardinality(R) <= MaxTouched
          /\ \E updates \in [U -> Offered] :
                request' = [patch    |-> PatchOf(updates, R),
                            expected |-> expected,
                            policy   |-> policy]
    /\ phase' = "called"
    /\ UNCHANGED <<world, before, final, pending, reply>>

Return(status, revision) ==
    /\ phase' = "returned"
    /\ reply' = [status |-> status, revision |-> revision]

Refuse(status, revision) ==
    /\ Return(status, revision)
    /\ UNCHANGED <<world, request, before, final, pending>>

RefusePolicy == ~Served /\ Refuse("Unsupported", NoRevision)

RefuseByService ==
    /\ Served
    /\ ServiceRejects(request.patch)
    /\ Refuse("InvalidPatch", NoRevision)

Accepted == Served /\ ~ServiceRejects(request.patch)

\* Off the primary thread, another build of the server, or the player is gone.
Unavailable ==
    /\ Accepted
    /\ \E status \in {"AdapterError", "Unsupported"} : Refuse(status, NoRevision)

Conflict ==
    /\ Accepted
    /\ Stale(request)
    /\ Refuse("Conflict", Revision(inventory, held))

Current == Accepted /\ ~Stale(request)

PlayerGone == Current /\ Refuse("AdapterError", Revision(inventory, held))

RefuseStorage ==
    /\ Current
    /\ ContainsStorageItemWrite(request.patch)
    /\ Refuse("Unsupported", Revision(inventory, held))

RefuseByAdapter ==
    /\ Current
    /\ ~ContainsStorageItemWrite(request.patch)
    /\ AdapterRejects(request.patch)
    /\ Refuse("InvalidPatch", Revision(inventory, held))

\* Everything is parsed before the first setter is called.
Parse ==
    /\ phase = "called"
    /\ Current
    /\ ~ContainsStorageItemWrite(request.patch)
    /\ ~AdapterRejects(request.patch)
    /\ before' = inventory
    /\ final' = Overlay(request.patch, inventory)
    /\ pending' = Writes(request.patch)
    /\ phase' = "write"
    /\ UNCHANGED <<world, request, reply>>

Set(w) == inventory' = [inventory EXCEPT ![w[2]] = final[w[2]]]

Write(w) ==
    /\ phase = "write"
    /\ Reached(w)
    /\ Set(w)
    /\ pending' = pending \ {w}
    /\ UNCHANGED <<held, snapshot, edits, phase, request, before, final, reply>>

\* A setter raises, having changed the slot or not; the answer carries the
\* revision found at the start.
SetterThrows(w) ==
    /\ phase = "write"
    /\ Reached(w)
    /\ \/ Set(w) /\ pending' = pending \ {w}
       \/ UNCHANGED <<inventory, pending>>
    /\ Return("AdapterError", Revision(before, held))
    /\ UNCHANGED <<held, snapshot, edits, request, before, final>>

\* The readback may fail, and then there is no revision.
Applied ==
    /\ phase = "write"
    /\ pending = {}
    /\ \E revision \in {NoRevision, Revision(inventory, held)} :
          Return("Applied", revision)
    /\ UNCHANGED <<world, request, before, final, pending>>

\* Mutant: the answer is handed to the next call as well.
CollectKeepsReply ==
    /\ phase = "returned"
    /\ phase' = "idle"
    /\ request' = NoRequest
    /\ before' = NoInventory
    /\ final' = NoInventory
    /\ pending' = {}
    /\ snapshot' = NoRevision
    /\ edits' = 0
    /\ UNCHANGED <<inventory, held, reply>>

\* The caller takes the answer; for another patch it captures again.
Collect ==
    /\ phase = "returned"
    /\ phase' = "idle"
    /\ request' = NoRequest
    /\ before' = NoInventory
    /\ final' = NoInventory
    /\ pending' = {}
    /\ reply' = NoReply
    /\ snapshot' = NoRevision
    /\ edits' = 0
    /\ UNCHANGED <<inventory, held>>

Refused ==
    /\ phase = "called"
    /\ \/ RefusePolicy \/ RefuseByService \/ Unavailable \/ Conflict
       \/ PlayerGone \/ RefuseStorage \/ RefuseByAdapter

Setting == \E w \in pending : Write(w) \/ SetterThrows(w)

Next == Plays \/ Capture \/ Call \/ Refused \/ Parse \/ Setting \/ Applied \/ Collect

Spec == Init /\ [][Next]_vars

-----------------------------------------------------------------------------
Stacks == [Cells -> Stack \cup {Empty}]

\* The types; the locals of a write are set in its phases only.
TypeOK ==
    /\ inventory \in Stacks
    /\ held \in HeldSlots
    /\ snapshot \in Revisions \cup {NoRevision}
    /\ edits \in 0..MaxEdits
    /\ phase \in {"idle", "captured", "called", "write", "returned"}
    /\ IF phase \in {"idle", "captured"} THEN request = NoRequest
                                         ELSE request \in Request
    /\ phase \in {"idle", "captured", "called"} => before = NoInventory /\ final = NoInventory
    /\ phase = "write" => before \in Stacks /\ final \in Stacks
    /\ before = NoInventory => final = NoInventory /\ pending = {}
    /\ before # NoInventory =>
          before \in Stacks /\ final \in Stacks /\ pending \subseteq Writes(request.patch)
    /\ IF phase = "returned" THEN reply \in Reply ELSE reply = NoReply

(***************************************************************************)
(* "Every replacement item and every slot is validated before the first    *)
(* live item is changed, so an invalid patch cannot leave a partially      *)
(* updated inventory": during a call items only change for a patch every   *)
(* entry of which, in every section, is one that can be carried out, and   *)
(* which does not contradict itself.                                       *)
(***************************************************************************)
InvalidChangesNothing ==
    [][request # NoRequest /\ inventory' # inventory => Feasible(request.patch)]_vars

(***************************************************************************)
(* What a write that failed leaves is the beginning of what it was to do:  *)
(* if a slot was changed, all setter calls before its own have their       *)
(* effect, and slots the patch does not name are as they were.             *)
(***************************************************************************)
LeavesPrefix ==
    before # NoInventory =>
       /\ \A c \in Cells \ (Updates(request.patch) \cup request.patch.removals) :
             inventory[c] = before[c]
       /\ \A v, w \in Writes(request.patch) :
             Earlier(v, w) /\ inventory[w[2]] # before[w[2]] =>
                inventory[v[2]] = final[v[2]]

(***************************************************************************)
(* No lost update: an Applied patch leaves what its caller saw, overlaid   *)
(* by the patch; whatever the player did since the capture.                *)
(***************************************************************************)
AppliedOverExpected ==
    phase = "returned" /\ reply.status = "Applied" =>
       \/ request.policy = "Force"
       \/ request.expected = NoRevision
       \/ Revision(inventory, held).items =
             Requested(request.patch, request.expected.items)

(***************************************************************************)
(* Fields a snapshot does not show (adventure-mode lists) survive a write: *)
(* a stack that stores nothing and stays of its type keeps them.           *)
(***************************************************************************)
StaysPlain(c) ==
    /\ Empty \notin {before[c], inventory[c]}
    /\ before[c].type = inventory[c].type
    /\ inventory[c].type \in Plain
    /\ inventory[c].tag \notin WithContents

HiddenFieldsKept ==
    before # NoInventory =>
       \A c \in Cells : StaysPlain(c) => inventory[c].hidden = before[c].hidden

(***************************************************************************)
(* Bundles and serialized contents never come in through the setters:      *)
(* where there is one after a write, it was there before.                  *)
(***************************************************************************)
HoldsItems(stack) ==
    /\ stack # Empty
    /\ stack.type \in VanillaBundles \/ stack.tag \in WithContents

BundlesAreNotWritten ==
    before # NoInventory =>
       \A c \in Cells : HoldsItems(inventory[c]) => inventory[c] = before[c]

(***************************************************************************)
(* "Storage-item updates are rejected with unsupported" (the player        *)
(* inventory page of the docs), custom items that store items being        *)
(* storage items (the storage items page).  The code knows them by the     *)
(* identifier of a vanilla bundle or by contents in the update.            *)
(***************************************************************************)
StorageItemsAreNotWritten ==
    before # NoInventory =>
       \A c \in Cells :
          inventory[c] # Empty /\ inventory[c].type \in Storage
             => inventory[c] = before[c]

(***************************************************************************)
(* All of it together, as InventoryCalls says it.  While setters are being *)
(* called the inventory counts as it was: nothing else runs on the thread. *)
(***************************************************************************)
Seen == [c \in Cells |-> Shown(IF phase = "write" THEN before[c] ELSE inventory[c])]

Calls == INSTANCE InventoryCalls WITH items <- Seen

Implements == Calls!Spec
=============================================================================
