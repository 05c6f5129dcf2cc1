------------------------ MODULE ContainerTransaction ------------------------
(***************************************************************************)
(* The inventory write of Bds2645BlockAdapter::apply, the one part of the  *)
(* system that changes a live container step by step, can fail between two *)
(* steps, and must keep every bundle in the container attached to the      *)
(* dynamic container that holds its items.                                 *)
(*                                                                         *)
(* A storage item (a bundle) in a live container is a stack that names a   *)
(* dynamic container; the manager of that dynamic container must be kept   *)
(* alive by the ContainerOwner of the block, a vector of lifetimes.  The   *)
(* transaction works on flattened copies of the stacks, gives each bundle  *)
(* among them a fresh manager in one of two temporary trackers, puts all   *)
(* those managers in escrow in the owner, writes slot by slot, compares,   *)
(* and then either makes the requested managers the owner's only ones or   *)
(* writes the originals back and does the same with the rollback managers. *)
(*                                                                         *)
(* All of it runs on the primary thread, so players and other plugins act  *)
(* only between calls.  Code of the game itself (Container::setItem, the   *)
(* storage-item tracker, the owner's vector) is external and modelled by   *)
(* the outcomes the adapter's code is prepared for.                        *)
(***************************************************************************)
EXTENDS BlockPatch, Sequences, FiniteSets

CONSTANTS
    Managers,     \* managers of dynamic containers
    NoManager,    \* what a stack that is no live bundle refers to
    MaxOwned,     \* MaxOwnedContainerLifetimes, the owner's sane length
    NoRequest,    \* no call is being served
    NoReply       \* the call has not been answered

ASSUME TransactionAssumption ==
    /\ NoManager \notin Managers
    /\ MaxOwned \in Nat
    /\ NoRequest \notin Request
    /\ NoReply \notin ApplyResult

VARIABLES
    container,    \* the live stacks, [Slots -> Item]
    owner,        \* ContainerOwner::owned_containers, a sequence of managers
    phase,        \* how far the call has come
    request,      \* the patch, expected revision and policy of the call
    final,        \* final_items: the stacks to be written
    originals,    \* the stacks the rollback writes back
    requested,    \* managers held by the tracker requested_storage
    rollback,     \* managers held by the tracker rollback_storage
    pending,      \* the slots the loop of this phase has not reached
    reply         \* the ApplyResult returned

vars == <<container, owner, phase, request, final, originals, requested,
          rollback, pending, reply>>

Phases == {"idle", "called", "materialize", "prepare_rollback", "escrow",
           "write", "restore", "returned"}

\* A stack: its flattened content and the manager it refers to.
Item == [content : Contents, manager : Managers \cup {NoManager}]

Stack(c) == [content |-> c, manager |-> NoManager]

EmptyProjection == [s \in Slots |-> Stack(Empty)]

\* What a capture of these stacks shows, and therefore their revision.
Fingerprint(stacks) == [s \in Slots |-> stacks[s].content]

\* hasSerializedNativeStorageContents, and itemSnapshot's flattening.
IsStorage(item) == item.content \in Bundles

StorageSlots(stacks) == {s \in Slots : IsStorage(stacks[s])}

NeedsLifetimes == StorageSlots(final) \cup StorageSlots(originals) # {}

\* Touched slots, and every slot whose final stack is a bundle.
WriteSlots == Touched(request.patch) \cup StorageSlots(final)

\* Mutant: only the slots the patch names are compared.
MatchesTouchedOnly(expected) ==
    \A s \in Touched(request.patch) : container[s].content = expected[s].content

\* containerMatches: compares what is shown, not the managers referred to.
Matches(expected) == Fingerprint(container) = Fingerprint(expected)

Elements(seq) == {seq[i] : i \in 1..Len(seq)}

\* The slot a loop over a std::set or std::map visits next: the least one left.
Reached(s) == s \in pending /\ \A t \in pending : s <= t

-----------------------------------------------------------------------------
(***************************************************************************)
(* The owner's vector.  An owner whose vector is longer than MaxOwned is   *)
(* not recognised as one, and then nothing can be added or replaced.       *)
(***************************************************************************)
OwnerValid == Len(owner) <= MaxOwned

Appended(lifetimes, managers) == lifetimes \o managers

\* Mutant: the prefix is not erased.
ReplacedWithoutErase(lifetimes, managers) == Appended(lifetimes, managers)

\* Append the complete new set, then erase the prefix that was there before.
Replaced(lifetimes, managers) ==
    LET both == Appended(lifetimes, managers)
    IN  SubSeq(both, Len(lifetimes) + 1, Len(both))

(***************************************************************************)
(* A manager that nothing refers to and nothing keeps alive is gone, and   *)
(* the next dynamic container may be given its identity.                   *)
(***************************************************************************)
FreeManagers ==
    Managers \ (Elements(owner) \cup Elements(requested) \cup Elements(rollback)
                \cup {container[s].manager : s \in Slots})

FreshManager == CHOOSE m \in FreeManagers : TRUE

(***************************************************************************)
(* Container::setItem.  It stores the stack; or refuses it (the slot keeps *)
(* what it has: what a container refuses by its content it does not        *)
(* already hold); or stores another form of it; or stores it and changes a *)
(* neighbouring slot, as special containers do.                            *)
(***************************************************************************)
Stored(s, item) == container' = [container EXCEPT ![s] = item]

Refused(s, item) ==
    /\ container[s].content # item.content
    /\ container' = container

Canonicalized(s, item) ==
    \E c \in Contents :
       /\ c \in Bundles => item.manager # NoManager
       /\ container' = [container EXCEPT ![s] =
             [content |-> c,
              manager |-> IF c \in Bundles THEN item.manager ELSE NoManager]]

StoredBeside(s, item) ==
    \E t \in Slots \ {s}, c \in {Empty} \cup Plain :
       container' = [container EXCEPT ![s] = item, ![t] = Stack(c)]

SetItem(s, item) ==
    \/ Stored(s, item)
    \/ Refused(s, item)
    \/ Canonicalized(s, item)
    \/ StoredBeside(s, item)

-----------------------------------------------------------------------------
Init ==
    /\ container = EmptyProjection
    /\ owner = <<>>
    /\ phase = "idle"
    /\ request = NoRequest
    /\ final = EmptyProjection
    /\ originals = EmptyProjection
    /\ requested = <<>>
    /\ rollback = <<>>
    /\ pending = {}
    /\ reply = NoReply

\* The function returns: its locals, the two trackers among them, are gone.
Return(result) ==
    /\ phase' = "returned"
    /\ reply' = result
    /\ final' = EmptyProjection
    /\ originals' = EmptyProjection
    /\ requested' = <<>>
    /\ rollback' = <<>>
    /\ pending' = {}
    /\ UNCHANGED request

(***************************************************************************)
(* The world between two calls.  A bundle a player puts down gets a        *)
(* manager the block's owner keeps; what a player takes away leaves its    *)
(* lifetime behind in the owner.  The game knows no MaxOwned: only the     *)
(* managers there are bound what players add to the owner's vector.        *)
(***************************************************************************)
WorldEdit ==
    /\ phase = "idle"
    /\ \E s \in Slots, c \in Contents :
          IF c \in Bundles
          THEN /\ FreeManagers # {}
               /\ container' = [container EXCEPT ![s] =
                      [content |-> c, manager |-> FreshManager]]
               /\ owner' = Append(owner, FreshManager)
          ELSE /\ container' = [container EXCEPT ![s] = Stack(c)]
               /\ UNCHANGED owner
    /\ UNCHANGED <<phase, request, final, originals, requested, rollback,
                   pending, reply>>

\* A caller submits a patch, with a revision captured at any earlier time.
Call ==
    /\ phase = "idle"
    /\ phase' = "called"
    /\ request' \in Request
    /\ UNCHANGED <<container, owner, final, originals, requested, rollback,
                   pending, reply>>

Served == request.policy \in {"FailIfChanged", "Force"}

\* The checks made before the block is captured.
RefuseCall ==
    /\ phase = "called"
    /\ IF ~Served
       THEN Return(Result("Unsupported", NoRevision, "none"))
       ELSE \E st \in {"AdapterError", "Unsupported", "ChunkUnavailable"} :
               Return(Result(st, NoRevision, "none"))
    /\ UNCHANGED <<container, owner>>

\* The captured revision is not the one the caller expects.
Conflict ==
    /\ phase = "called"
    /\ Served
    /\ Stale(request, Fingerprint(container))
    /\ Return(Result("Conflict", Fingerprint(container), "none"))
    /\ UNCHANGED <<container, owner>>

\* Mutant: the revision is not compared.
CurrentUnchecked == phase = "called" /\ Served

Current == phase = "called" /\ Served /\ ~Stale(request, Fingerprint(container))

\* A patch without changes is applied by doing nothing.
Unchanged ==
    /\ Current
    /\ Touched(request.patch) = {}
    /\ Return(Result("Applied", Fingerprint(container), "none"))
    /\ UNCHANGED <<container, owner>>

(***************************************************************************)
(* No actor or container, a slot or an item that fails validation, a       *)
(* projection the block actor rejects, or no storage-item tracker: all of  *)
(* them before anything live is touched.                                   *)
(***************************************************************************)
RefusePlan ==
    /\ Current
    /\ Touched(request.patch) # {}
    /\ \E st \in {"Unsupported", "InvalidPatch", "AdapterError"} :
          Return(Result(st, Fingerprint(container), "none"))
    /\ UNCHANGED <<container, owner>>

\* Mutant: the rollback projection is taken after the patch was overlaid.
PlanOriginalsLate ==
    /\ Current
    /\ Touched(request.patch) # {}
    /\ LET after == Overlay(Fingerprint(container), request.patch)
       IN  /\ originals' = [s \in Slots |-> Stack(after[s])]
           /\ final' = originals'
    /\ IF StorageSlots(final') # {}
       THEN phase' = "materialize" /\ pending' = StorageSlots(final')
       ELSE phase' = "write" /\ pending' = Touched(request.patch)
    /\ UNCHANGED <<container, owner, request, requested, rollback, reply>>

\* Build the two projections from flattened copies of the live stacks.
Plan ==
    /\ Current
    /\ Touched(request.patch) # {}
    /\ LET before == Fingerprint(container)
           after  == Overlay(before, request.patch)
       IN  /\ originals' = [s \in Slots |-> Stack(before[s])]
           /\ final' = [s \in Slots |-> Stack(after[s])]
    /\ IF StorageSlots(final') \cup StorageSlots(originals') # {}
       THEN phase' = "materialize" /\ pending' = StorageSlots(final')
       ELSE phase' = "write" /\ pending' = Touched(request.patch)
    /\ UNCHANGED <<container, owner, request, requested, rollback, reply>>

\* Track one requested bundle: its copy becomes a stack with a new manager.
Materialize ==
    /\ phase = "materialize"
    /\ FreeManagers # {}
    /\ \E s \in Slots :
          /\ Reached(s)
          /\ final' = [final EXCEPT ![s].manager = FreshManager]
          /\ pending' = pending \ {s}
    /\ requested' = Append(requested, FreshManager)
    /\ UNCHANGED <<container, owner, phase, request, originals, rollback, reply>>

Materialized ==
    /\ phase = "materialize"
    /\ pending = {}
    /\ phase' = "prepare_rollback"
    /\ pending' = StorageSlots(originals)
    /\ UNCHANGED <<container, owner, request, final, originals, requested,
                   rollback, reply>>

\* The bundle of a slot the caller wrote is the caller's mistake.
MaterializeFails ==
    /\ phase = "materialize"
    /\ \E s \in Slots :
          /\ Reached(s)
          /\ Return(Result(IF s \in Touched(request.patch)
                           THEN "InvalidPatch" ELSE "AdapterError",
                           Fingerprint(originals), "none"))
    /\ UNCHANGED <<container, owner>>

PrepareRollback ==
    /\ phase = "prepare_rollback"
    /\ FreeManagers # {}
    /\ \E s \in Slots :
          /\ Reached(s)
          /\ originals' = [originals EXCEPT ![s].manager = FreshManager]
          /\ pending' = pending \ {s}
    /\ rollback' = Append(rollback, FreshManager)
    /\ UNCHANGED <<container, owner, phase, request, final, requested, reply>>

RollbackPrepared ==
    /\ phase = "prepare_rollback"
    /\ pending = {}
    /\ phase' = "escrow"
    /\ UNCHANGED <<container, owner, request, final, originals, requested,
                   rollback, pending, reply>>

PrepareRollbackFails ==
    /\ phase = "prepare_rollback"
    /\ pending # {}
    /\ Return(Result("AdapterError", Fingerprint(originals), "none"))
    /\ UNCHANGED <<container, owner>>

\* Mutant: the rollback managers are left out of the escrow.
EscrowRequestedOnly ==
    /\ phase = "escrow"
    /\ OwnerValid
    /\ owner' = Appended(owner, requested)
    /\ phase' = "write"
    /\ pending' = WriteSlots
    /\ UNCHANGED <<container, request, final, originals, requested, rollback,
                   reply>>

\* Every manager of both trackers goes into the owner before the first write.
Escrow ==
    /\ phase = "escrow"
    /\ OwnerValid
    /\ owner' = Appended(owner, requested \o rollback)
    /\ phase' = "write"
    /\ pending' = WriteSlots
    /\ UNCHANGED <<container, request, final, originals, requested, rollback,
                   reply>>

EscrowFails ==
    /\ phase = "escrow"
    /\ Return(Result("AdapterError", Fingerprint(originals), "none"))
    /\ UNCHANGED <<container, owner>>

Write ==
    /\ phase = "write"
    /\ \E s \in Slots :
          /\ Reached(s)
          /\ SetItem(s, final[s])
          /\ pending' = pending \ {s}
    /\ UNCHANGED <<owner, phase, request, final, originals, requested,
                   rollback, reply>>

StartRestore ==
    /\ phase' = "restore"
    /\ pending' = Slots
    /\ UNCHANGED <<owner, request, final, originals, requested, rollback, reply>>

\* setItem throws, before or after it had an effect.
WriteThrows ==
    /\ phase = "write"
    /\ \E s \in Slots :
          /\ Reached(s)
          /\ container' = container \/ SetItem(s, final[s])
    /\ StartRestore

(***************************************************************************)
(* The write is complete when the container shows the requested stacks and *)
(* the requested managers have replaced all others in the owner.  The      *)
(* readback after that may fail, and then the revision is 0.               *)
(***************************************************************************)
Commit ==
    /\ phase = "write"
    /\ pending = {}
    /\ Matches(final)
    /\ IF NeedsLifetimes
       THEN OwnerValid /\ owner' = Replaced(owner, requested)
       ELSE UNCHANGED owner
    /\ \E rev \in {NoRevision, Fingerprint(container)} :
          Return(Result("Applied", rev, "none"))
    /\ UNCHANGED container

\* Another content, lifetimes not installed, or an exception while comparing.
Abandon ==
    /\ phase = "write"
    /\ pending = {}
    /\ UNCHANGED container
    /\ StartRestore

Restore ==
    /\ phase = "restore"
    /\ \E s \in Slots :
          /\ Reached(s)
          /\ SetItem(s, originals[s])
          /\ pending' = pending \ {s}
    /\ UNCHANGED <<owner, phase, request, final, originals, requested,
                   rollback, reply>>

\* Restored, and the rollback managers have replaced all others.
RolledBack ==
    /\ phase = "restore"
    /\ pending = {}
    /\ Matches(originals)
    /\ IF NeedsLifetimes
       THEN OwnerValid /\ owner' = Replaced(owner, rollback)
       ELSE UNCHANGED owner
    /\ Return(Result("AdapterError", Fingerprint(originals), "complete"))
    /\ UNCHANGED container

\* Restored, but the owner still holds the escrow of all three sets.
KeptInEscrow ==
    /\ phase = "restore"
    /\ pending = {}
    /\ Matches(originals)
    /\ NeedsLifetimes
    /\ Return(Result("AdapterError", Fingerprint(originals), "incomplete"))
    /\ UNCHANGED <<container, owner>>

\* Mutant: an incomplete rollback reports the revision captured at the start.
NotRestoredOldRevision ==
    /\ phase = "restore"
    /\ pending = {}
    /\ Return(Result("AdapterError", Fingerprint(originals), "incomplete"))
    /\ UNCHANGED <<container, owner>>

NotRestored ==
    /\ phase = "restore"
    /\ pending = {}
    /\ \E rev \in {NoRevision, Fingerprint(container)} :
          Return(Result("AdapterError", rev, "incomplete"))
    /\ UNCHANGED <<container, owner>>

RestoreThrows ==
    /\ phase = "restore"
    /\ \E s \in Slots :
          /\ Reached(s)
          /\ container' = container \/ SetItem(s, originals[s])
    /\ \E rev \in {NoRevision, Fingerprint(container')} :
          Return(Result("AdapterError", rev, "incomplete"))
    /\ UNCHANGED owner

\* Mutant: the result stays behind for the next call.
CollectKeepsReply ==
    /\ phase = "returned"
    /\ phase' = "idle"
    /\ request' = NoRequest
    /\ UNCHANGED <<container, owner, final, originals, requested, rollback,
                   pending, reply>>

\* The caller takes the result.
Collect ==
    /\ phase = "returned"
    /\ phase' = "idle"
    /\ request' = NoRequest
    /\ reply' = NoReply
    /\ UNCHANGED <<container, owner, final, originals, requested, rollback,
                   pending>>

Prepare == \/ RefuseCall \/ Conflict \/ Unchanged \/ RefusePlan \/ Plan
           \/ Materialize \/ Materialized \/ MaterializeFails
           \/ PrepareRollback \/ RollbackPrepared \/ PrepareRollbackFails
           \/ Escrow \/ EscrowFails

Mutate == \/ Write \/ WriteThrows \/ Commit \/ Abandon
          \/ Restore \/ RolledBack \/ KeptInEscrow \/ NotRestored
          \/ RestoreThrows

Next == WorldEdit \/ Call \/ Prepare \/ Mutate \/ Collect

Spec == Init /\ [][Next]_vars

-----------------------------------------------------------------------------
\* The types, and the phases in which the locals of the call hold anything.
TypeOK ==
    /\ container \in [Slots -> Item]
    /\ owner \in Seq(Managers)
    /\ phase \in Phases
    /\ request \in Request \cup {NoRequest}
    /\ phase = "idle" <=> request = NoRequest
    /\ final \in [Slots -> Item]
    /\ originals \in [Slots -> Item]
    /\ requested \in Seq(Managers)
    /\ rollback \in Seq(Managers)
    /\ pending \in SUBSET Slots
    /\ reply \in ApplyResult \cup {NoReply}
    /\ phase = "returned" <=> reply # NoReply

(***************************************************************************)
(* A bundle in the live container always refers to a manager that the      *)
(* block's owner keeps alive: before, during and after every write, after  *)
(* every failure and with the trackers gone ("Local tracker destruction    *)
(* can therefore never strand a live bundle stack").                       *)
(***************************************************************************)
NoStrandedBundle ==
    \A s \in Slots :
       IsStorage(container[s]) => container[s].manager \in Elements(owner)

(***************************************************************************)
(* Why no bundle is stranded.  The trackers are empty outside a            *)
(* transaction; every stack about to be written refers to a manager of its *)
(* tracker; both trackers are in the owner as long as anything is written; *)
(* and a slot already passed that shows the bundle it was to show refers   *)
(* to the manager of this pass, so that comparing contents is enough       *)
(* before the other lifetimes are dropped.                                 *)
(***************************************************************************)
TrackedBy(stacks, tracker, untracked) ==
    \A s \in Slots :
       /\ stacks[s].manager # NoManager => stacks[s].manager \in Elements(tracker)
       /\ IsStorage(stacks[s]) /\ s \notin untracked =>
             stacks[s].manager \in Elements(tracker)

PassedSlots(stacks, tracker) ==
    \A s \in Slots \ pending :
       IsStorage(stacks[s]) /\ container[s].content = stacks[s].content =>
          container[s].manager \in Elements(tracker)

LifetimeInv ==
    /\ NoStrandedBundle
    /\ phase \in {"idle", "called", "returned"} => requested = <<>> /\ rollback = <<>>
    /\ phase \in {"materialize", "prepare_rollback", "escrow", "write", "restore"} =>
          TrackedBy(final, requested, IF phase = "materialize" THEN pending ELSE {})
    /\ phase = "materialize" => TrackedBy(originals, rollback, Slots)
    /\ phase \in {"prepare_rollback", "escrow", "write", "restore"} =>
          TrackedBy(originals, rollback,
                    IF phase = "prepare_rollback" THEN pending ELSE {})
    /\ phase \in {"write", "restore"} =>
          Elements(requested) \cup Elements(rollback) \subseteq Elements(owner)
    /\ phase = "write" => PassedSlots(final, requested)
    /\ phase = "restore" => PassedSlots(originals, rollback)

(***************************************************************************)
(* What the locals of a transaction are worth: the originals are what was  *)
(* captured and found current, the final stacks are those originals under  *)
(* the patch, and nothing has changed before the first write.              *)
(***************************************************************************)
PlanInv ==
    /\ phase \in {"materialize", "prepare_rollback", "escrow", "write", "restore"} =>
          /\ Served
          /\ ~Stale(request, Fingerprint(originals))
          /\ Fingerprint(final) = Overlay(Fingerprint(originals), request.patch)
    /\ phase \in {"materialize", "prepare_rollback", "escrow"} =>
          Fingerprint(container) = Fingerprint(originals)

(***************************************************************************)
(* A result that carries a revision carries the revision of what is in the *)
(* container when apply returns, also after a failed write: the caller may *)
(* use it as the expected revision of its next patch.                      *)
(***************************************************************************)
RevisionOfWhatIsLeft ==
    phase = "returned" /\ reply.revision # NoRevision =>
       reply.revision = Fingerprint(container)

(***************************************************************************)
(* No lost update: a patch applied against a captured revision leaves the  *)
(* captured contents overlaid by the patch and nothing else, whatever      *)
(* happened between the capture and the call and between two writes.       *)
(***************************************************************************)
AppliedOverExpected ==
    phase = "returned" /\ reply.status = "Applied" =>
       /\ \/ request.policy = "Force"
          \/ request.expected = NoRevision
          \/ Fingerprint(container) = Overlay(request.expected, request.patch)
       /\ \A s \in Touched(request.patch) :
             container[s].content = request.patch[s]

(***************************************************************************)
(* Once a write with bundles is committed or rolled back completely, the   *)
(* owner keeps one lifetime for each bundle in the container and no other: *)
(* neither the escrow nor the lifetimes of replaced bundles pile up.       *)
(***************************************************************************)
Settled == \/ reply.status = "Applied" /\ Touched(request.patch) # {}
           \/ reply.rollback = "complete"

LifetimesExact ==
    phase = "returned" /\ Settled /\ StorageSlots(container) # {} =>
       /\ Elements(owner) = {container[s].manager : s \in StorageSlots(container)}
       /\ Len(owner) = Cardinality(StorageSlots(container))

(***************************************************************************)
(* The transaction implements AtomicContainer.  While slots are being      *)
(* written nothing else runs, so what snapshots show is still the original *)
(* contents; the write takes place when the result is returned.            *)
(***************************************************************************)
Shown == IF phase \in {"write", "restore"}
         THEN Fingerprint(originals)
         ELSE Fingerprint(container)

Atomic == INSTANCE AtomicContainer WITH contents <- Shown

Implements == Atomic!ASpec
=============================================================================
