------------------------------ MODULE BlockPatch ------------------------------
(***************************************************************************)
(* The vocabulary every adapter of IBedrockBlockAdapter shares: what a     *)
(* snapshot of an inventory shows, the revision computed from it, the      *)
(* patch and policy a caller submits and the ApplyResult it gets back.     *)
(***************************************************************************)
EXTENDS Naturals

CONSTANTS
    Size,         \* container_size, the number of slots
    Plain,        \* contents of items that own no dynamic container
    Bundles,      \* contents of storage items (bundles), flattened
    Empty,        \* an empty slot
    Keep,         \* the mark of a slot a patch does not touch
    NoRevision,   \* an absent expected_revision, and resulting_revision 0
    Policies      \* the conflict policies callers submit

Slots == 0..(Size - 1)

Contents == {Empty} \cup Plain \cup Bundles

ConflictPolicy == {"FailIfChanged", "MergeChangedPaths", "MergeInventorySlots",
                   "Replace", "Force"}

ASSUME PatchAssumption ==
    /\ Size \in Nat
    /\ Plain \cap Bundles = {}
    /\ Empty \notin Plain \cup Bundles
    /\ Keep \notin Contents
    /\ NoRevision \notin [Slots -> Contents]
    /\ Policies \subseteq ConflictPolicy

(***************************************************************************)
(* calculateRevision hashes every slot, so a revision is represented by    *)
(* the contents it was computed from: two revisions are equal exactly when *)
(* the contents are (64-bit collisions are left out).  Going back to old   *)
(* contents brings the old revision back.                                  *)
(***************************************************************************)
Revision == [Slots -> Contents] \cup {NoRevision}

(***************************************************************************)
(* inventory_updates, inventory_removals and a replacement of the Items    *)
(* list in one form: the content each touched slot is to have.             *)
(***************************************************************************)
Patch == [Slots -> Contents \cup {Keep}]

Touched(patch) == {s \in Slots : patch[s] # Keep}

Overlay(before, patch) ==
    [s \in Slots |-> IF patch[s] = Keep THEN before[s] ELSE patch[s]]

Request == [patch : Patch, expected : Revision, policy : Policies]

\* The captured revision the caller insists on is not the current one.
Stale(req, current) ==
    /\ req.expected # NoRevision
    /\ req.policy # "Force"
    /\ req.expected # current

ApplyStatus == {"Applied", "Conflict", "ChunkUnavailable", "Unsupported",
                "InvalidPatch", "AdapterError"}

(***************************************************************************)
(* The two messages of a failed container write are kept apart, because    *)
(* they are all a caller learns about what is left in the container.       *)
(***************************************************************************)
ApplyResult == [status   : ApplyStatus,
                revision : Revision,
                rollback : {"none", "complete", "incomplete"}]

Result(status, revision, rollback) ==
    [status |-> status, revision |-> revision, rollback |-> rollback]
=============================================================================
