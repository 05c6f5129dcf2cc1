--------------------------- MODULE InventoryCalls ---------------------------
(***************************************************************************)
(* What a caller of PlayerInventoryService::apply is promised, by what     *)
(* snapshots show: a call is answered once, and what it did it did in one  *)
(* step: nothing, the whole patch over the inventory expected, or, when a  *)
(* setter raised, the beginning of it.  An answer of the last kind carries *)
(* the revision from before.  Nothing is said of stacks, of checks and     *)
(* their order, or of how sections are written; PlayerInventoryWrite does  *)
(* that and implements this module.                                        *)
(***************************************************************************)
EXTENDS InventoryPatch

VARIABLES
    items,        \* the inventory as snapshots show it
    held,         \* the selected hotbar slot
    request,      \* the call being served, or NoRequest
    reply         \* its ApplyResult, or NoReply

vars == <<items, held, request, reply>>

Current == [items |-> items, held |-> held]

Init ==
    /\ items \in [Cells -> Item \cup {Empty}]
    /\ held \in HeldSlots
    /\ request = NoRequest
    /\ reply = NoReply

\* The player plays, and only between calls.
Play ==
    /\ request = NoRequest
    /\ \/ /\ \E c \in Cells, i \in Item \cup {Empty} :
                items' = [items EXCEPT ![c] = i]
          /\ held' = held
       \/ /\ held' \in HeldSlots
          /\ items' = items
    /\ UNCHANGED <<request, reply>>

Submit ==
    /\ request = NoRequest
    /\ request' \in Request
    /\ UNCHANGED <<items, held, reply>>

Serving == request # NoRequest /\ reply = NoReply

Expected ==
    \/ request.policy = "Force"
    \/ request.expected = NoRevision
    \/ request.expected = Current

\* Nothing happened; only an outdated revision conflicts, and only a patch
\* that cannot be carried out is invalid.
Refuse ==
    /\ Serving
    /\ \E status \in ApplyStatus \ {"Applied"}, revision \in {NoRevision, Current} :
          /\ status = "Conflict" => ~Expected
          /\ status = "InvalidPatch" => ~Feasible(request.patch)
          /\ reply' = [status |-> status, revision |-> revision]
    /\ UNCHANGED <<items, held, request>>

Allowed ==
    /\ Serving
    /\ request.policy \in {"FailIfChanged", "Force"}
    /\ Expected
    /\ Feasible(request.patch)

Commit ==
    /\ Allowed
    /\ items' = Requested(request.patch, items)
    /\ \E revision \in {NoRevision, Current'} :
          reply' = [status |-> "Applied", revision |-> revision]
    /\ UNCHANGED <<held, request>>

\* What setter calls leave of the items if these are all that were made.
After(made) ==
    [c \in Cells |->
        IF \E w \in made : w[2] = c THEN Requested(request.patch, items)[c] ELSE items[c]]

Break ==
    /\ Allowed
    /\ \E made \in SUBSET Writes(request.patch) :
          /\ \A w \in made, v \in Writes(request.patch) : Earlier(v, w) => v \in made
          /\ items' = After(made)
    /\ reply' = [status |-> "AdapterError", revision |-> Current]
    /\ UNCHANGED <<held, request>>

Collect ==
    /\ reply # NoReply
    /\ request' = NoRequest
    /\ reply' = NoReply
    /\ UNCHANGED <<items, held>>

Next == Play \/ Submit \/ Refuse \/ Commit \/ Break \/ Collect

Spec == Init /\ [][Next]_vars
=============================================================================
