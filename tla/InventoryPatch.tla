--------------------------- MODULE InventoryPatch ---------------------------
(***************************************************************************)
(* The vocabulary of writes to a player's inventory: its four sections,    *)
(* what a snapshot shows of them, the patch, revision and policy a caller  *)
(* submits, and the setter calls a patch comes to.                         *)
(***************************************************************************)
EXTENDS Integers

CONSTANTS
    Capacity,     \* the slots each section has
    Places,       \* <<section, number>> pairs patches name, valid or not
    Plain,        \* types of items that store nothing
    VanillaBundles, \* minecraft:bundle and minecraft:..._bundle
    CustomStorage,  \* types of other items that store items
    Tags,         \* count, data and user NBT of an item, as one value
    HeldSlots,    \* selected_hotbar_slot
    Empty,        \* an empty slot, and an update that empties one
    NotAnItem,    \* an update no item can be made from
    NoUpdate,     \* a place the updates of a patch do not have
    BadNbt,       \* an update validateNbtPayload rejects
    NoRevision,   \* no expected_revision, or none in an answer
    NoRequest,    \* no call is being served
    NoReply       \* the call has not been answered

\* In the order in which they are written.
Rank == [main |-> 1, armor |-> 2, offhand |-> 3, ender_chest |-> 4]

Sections == DOMAIN Rank

Cells == UNION {{<<s, n>> : n \in 0..(Capacity[s] - 1)} : s \in Sections}

Storage == VanillaBundles \cup CustomStorage

\* What a snapshot shows of an item, and what an update says of one.
Item == [type : Plain \cup Storage, tag : Tags]

Value == Item \cup {Empty, NotAnItem, BadNbt}

\* calculatePlayerInventoryRevision, by what it hashes.
Revisions == [items : [Cells -> Item \cup {Empty}], held : HeldSlots]

ApplyStatus == {"Applied", "Conflict", "Unsupported", "InvalidPatch", "AdapterError"}

Reply == [status : ApplyStatus, revision : Revisions \cup {NoRevision}]

Patch == [updates : [Places -> Value \cup {NoUpdate}], removals : SUBSET Places]

Policies == {"FailIfChanged", "Force", "Replace"}

Request == [patch : Patch, expected : Revisions \cup {NoRevision},
            policy : Policies]

Updates(patch) == {p \in Places : patch.updates[p] # NoUpdate}

\* A patch that contradicts nothing and every entry of which can be carried out.
Feasible(patch) ==
    /\ Updates(patch) \cup patch.removals \subseteq Cells
    /\ Updates(patch) \cap patch.removals = {}
    /\ \A p \in Updates(patch) : patch.updates[p] \in Item \cup {Empty}

\* What items are to show when the patch was carried out over them.
Requested(patch, items) ==
    [c \in Cells |->
        IF c \in Updates(patch) THEN patch.updates[c]
        ELSE IF c \in patch.removals THEN Empty
        ELSE items[c]]

(***************************************************************************)
(* The setter calls, as <<kind, cell>>: in each section the updates by     *)
(* slot, then the removals by slot.                                        *)
(***************************************************************************)
Writes(patch) ==
    ({"update"} \X Updates(patch)) \cup ({"removal"} \X patch.removals)

Earlier(v, w) ==
    \/ Rank[v[2][1]] < Rank[w[2][1]]
    \/ /\ v[2][1] = w[2][1]
       /\ \/ v[1] = "update" /\ w[1] = "removal"
          \/ v[1] = w[1] /\ v[2][2] < w[2][2]
=============================================================================
