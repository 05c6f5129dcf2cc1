----------------------------- MODULE BlockWrites -----------------------------
(***************************************************************************)
(* BlockDataService::apply and BlockTransaction::commit over the three     *)
(* adapters: the exact native adapter, which routes a patch to the public  *)
(* adapter, to an NBT write or to the inventory write; the public Endstone *)
(* adapter a server falls back to; and the in-memory adapter.  One apply   *)
(* is one step here (its slot-by-slot inventory path is                    *)
(* ContainerTransaction): what matters is which parts of a block it        *)
(* leaves written, what it answers, and what a transaction makes of the    *)
(* answers.  Live commits run on the primary thread, so nothing else does; *)
(* callers of the in-memory adapter are threads that interleave.           *)
(***************************************************************************)
EXTENDS Naturals, Sequences

CONSTANTS
    Adapters,     \* the adapters the service may have been given
    Callers, Locations,
    Types,        \* block types
    States,       \* values of a block state, Default among them
    Default,
    Names, Data, Items,  \* custom names, other actor NBT, inventories
    Unset,        \* an actor field that has no value
    ActorOf,      \* the block actor of a type: none, plain, container, shelf
    Schema,       \* the <<type, state>> pairs createBlockData accepts
    Keep, Remove, \* marks of a patch: field not touched, field removed
    Blank,        \* an empty replacement type
    NotText,      \* a CustomName that is not a string
    NoRevision,   \* an absent expected_revision, and resulting_revision 0
    Start,        \* blocks of the world at the start
    Edits,        \* blocks players and plugins put into the world
    Disturbed,    \* bound: locations that are edited or unloaded
    Transactions  \* [patches, policy], patches a sequence of [at, patch, guarded]

ASSUME WritesAssumption ==
    /\ Adapters \subseteq {"native", "public", "memory"}
    /\ ActorOf \in [Types -> {"none", "plain", "container", "shelf"}]
    /\ Schema \subseteq Types \X States
    /\ Default \in States
    /\ Keep \notin Types \cup States \cup Names \cup Data \cup Items
    /\ Remove \notin States \cup Names \cup Data

VARIABLES
    adapter,      \* the adapter of the service
    world,        \* the blocks
    reach,        \* what of a location a capture reaches
    seen,         \* revisions of the callers' last captures
    job           \* the transactions being committed; start, for the properties,
                  \* is the world a live commit found

vars == <<adapter, world, reach, seen, job>>

Block == [type : Types, state : States, actor : {"none", "plain", "container", "shelf"},
          name : Names \cup {Unset, NotText},     \* only the in-memory adapter keeps NotText
          data : Data \cup {Unset}, items : Items \cup {Unset}]

Patch == [type : Types \cup {Keep, Blank}, state : States \cup {Keep, Remove},
          name : Names \cup {Keep, Remove, NotText}, data : Data \cup {Keep, Remove},
          items : Items \cup {Keep},
          identity : BOOLEAN,                     \* touches a read-only field
          valid : {"yes", "malformed", "unfit"}]  \* NBT, slots; items, range

Policies == {"FailIfChanged", "MergeChangedPaths", "MergeInventorySlots", "Replace", "Force"}

\* Worlds and transactions are made of blocks and patches.
ASSUME InputsAssumption ==
    /\ Start \subseteq Block /\ Edits \subseteq Block
    /\ Disturbed \subseteq Locations
    /\ Transactions \subseteq
          [patches : Seq([at : Locations, patch : Patch, guarded : BOOLEAN]),
           policy : Policies]

(***************************************************************************)
(* A revision is represented by what it is computed from.  The public      *)
(* adapter never sees an actor; the native one mixes in the status of an   *)
(* actor it could not reach.                                               *)
(***************************************************************************)
WithoutActor(b, mark) ==
    [b EXCEPT !.actor = mark, !.name = Unset, !.data = Unset, !.items = Unset]

Shown(a, b, r) ==
    CASE a = "public"                    -> WithoutActor(b, "unseen")
      [] a = "native" /\ r = "block"     -> WithoutActor(b, "blocked")
      [] OTHER                           -> b

Capturable == [type : Types, state : States,
               actor : {"none", "plain", "container", "shelf", "unseen", "blocked"},
               name : Names \cup {Unset, NotText}, data : Data \cup {Unset},
               items : Items \cup {Unset}]

ASSUME NoRevisionAssumption == NoRevision \notin Capturable

Revision == Capturable \cup {NoRevision}

Statuses == {"Applied", "Conflict", "ChunkUnavailable", "Unsupported",
             "InvalidPatch", "AdapterError", "Damaged", "Raised"}

Outcome(block, status, revision) ==
    [block |-> block, status |-> status, revision |-> revision]

Refused(b, status, revision) == {Outcome(b, status, revision)}

\* A write that happened; the capture after it may be unavailable.
Wrote(b, revision) == {Outcome(b, "Applied", r) : r \in {revision, NoRevision}}

-----------------------------------------------------------------------------
TouchesBlock(p) == p.type # Keep \/ p.state # Keep

TouchesFields(p) == p.name # Keep \/ p.data # Keep \/ p.identity

TouchesActor(p) == TouchesFields(p) \/ p.items # Keep

\* Mutant: a removal stores its mark.
OverlaidMark(old, new, none) == IF new = Keep THEN old ELSE new

Overlaid(old, new, none) ==
    IF new = Keep THEN old ELSE IF new = Remove THEN none ELSE new

\* A block set to another type has the states of that type and a new actor.
Placed(b, type, state) ==
    IF type = b.type THEN [b EXCEPT !.state = state]
    ELSE [type |-> type, state |-> state, actor |-> ActorOf[type],
          name |-> Unset, data |-> Unset, items |-> Unset]

\* The states of the old block are carried over to a block of its own type only.
NewState(b, p, type) ==
    Overlaid(IF type = b.type THEN b.state ELSE Default, p.state, Default)

NewType(b, p) == IF p.type = Keep THEN b.type ELSE p.type

WithFields(b, p) ==
    [b EXCEPT !.name = Overlaid(b.name, p.name, Unset),
              !.data = Overlaid(b.data, p.data, Unset)]

WithItems(b, p) == [b EXCEPT !.items = Overlaid(b.items, p.items, Unset)]

\* What a patch asks of a live block.
Requested(b, p) ==
    WithItems(WithFields(Placed(b, NewType(b, p), NewState(b, p, NewType(b, p))), p), p)

-----------------------------------------------------------------------------
\* The public adapter: createBlockData may refuse; setData and the capture
\* after it may raise, before or after the block was set.
PublicWrite(b, p) ==
    LET type == NewType(b, p)
        new  == Placed(b, type, NewState(b, p, type))
        old  == Shown("public", b, "block")
    IN  IF <<type, new.state>> \notin Schema THEN Refused(b, "InvalidPatch", old)
        ELSE Wrote(new, Shown("public", new, "block"))
                \cup {Outcome(x, "AdapterError", old) : x \in {b, new}}

\* Mutant: the native adapter passes on the public adapter's revision.
RecaptureSkipped(b, r) ==
    Wrote(b, Shown("public", b, r)) \cup {Outcome(b, "Raised", NoRevision)}

\* The native adapter captures again, outside of any handler.
Recapture(b, r) ==
    Wrote(b, Shown("native", b, r)) \cup {Outcome(b, "Raised", NoRevision)}

NativePublicWrite(b, r, p) ==
    LET outcomes == PublicWrite(b, p)
    IN  {o \in outcomes : o.status # "Applied"}
            \cup UNION {Recapture(o.block, r) : o \in {x \in outcomes : x.status = "Applied"}}

\* Mutant: the handler answers with what it finds, as if nothing was written.
FieldsWriteRecaptured(b, r, p) ==
    Wrote(WithFields(b, p), Shown("native", WithFields(b, p), r))
        \cup {Outcome([b EXCEPT !.name = n, !.data = d], "AdapterError",
                      Shown("native", [b EXCEPT !.name = n, !.data = d], r)) :
                 n \in {b.name, WithFields(b, p).name}, d \in {b.data, WithFields(b, p).data}}

\* readAdditionalSaveData, setCustomName and the signal: any of them may
\* raise with part of the fields taken over.
FieldsWrite(b, r, p) ==
    LET new == WithFields(b, p)
        old == Shown("native", b, r)
    IN  Wrote(new, Shown("native", new, r))
            \cup {Outcome([b EXCEPT !.name = n, !.data = d], "AdapterError", old) :
                     n \in {b.name, new.name}, d \in {b.data, new.data}}

\* What ContainerTransaction comes to: all, nothing, or damage, told by the
\* message of an AdapterError that carries the revision of what is left.
ItemsWrite(b, r, p) ==
    LET new == WithItems(b, p)
    IN  Wrote(new, Shown("native", new, r))
            \cup {Outcome(b, "AdapterError", Shown("native", b, r))}
            \cup UNION {{Outcome(left, "Damaged", rev) :
                             rev \in {NoRevision, Shown("native", left, r)}} :
                         left \in {[b EXCEPT !.items = i] : i \in Items}}

\* Fields and inventory of an actor are not written by one patch.
MixesActorWrites(p) == p.items # Keep /\ (p.name # Keep \/ p.data # Keep)

\* The block actor's part of apply, refusals first.
NativeActorWrite(b, r, p) ==
    LET rev == Shown("native", b, r)
    IN  IF \/ r = "block" \/ b.actor \notin {"container", "shelf"}
           \/ b.actor = "shelf" /\ TouchesFields(p)
        THEN Refused(b, "Unsupported", rev)
        ELSE IF p.name = NotText \/ p.identity
        THEN Refused(b, "InvalidPatch", rev)
        ELSE IF p.data = Remove \/ MixesActorWrites(p)
        THEN Refused(b, "Unsupported", rev)
        ELSE IF p.items # Keep /\ p.valid = "unfit"
        THEN Refused(b, "InvalidPatch", rev)
        ELSE Refused(b, "AdapterError", rev)
                \cup IF p.items # Keep THEN ItemsWrite(b, r, p) ELSE FieldsWrite(b, r, p)

\* The native adapter after the conflict test.
NativeWrite(b, r, p) ==
    LET rev == Shown("native", b, r)
    IN  CASE TouchesBlock(p) /\ TouchesActor(p) -> Refused(b, "Unsupported", rev)
          [] TouchesBlock(p) /\ ~TouchesActor(p) -> NativePublicWrite(b, r, p)
          [] TouchesActor(p) /\ ~TouchesBlock(p) -> NativeActorWrite(b, r, p)
          [] OTHER -> Refused(b, "Applied", rev)

\* The in-memory adapter takes any patch, making a generic actor if need be.
MemoryWrite(b, p) ==
    LET new  == [b EXCEPT !.type = NewType(b, p), !.state = Overlaid(b.state, p.state, Default)]
        kind == IF p.items # Keep THEN "container"
                ELSE IF TouchesActor(p) /\ b.actor = "none" THEN "plain"
                ELSE b.actor
        left == [WithItems(WithFields(new, p), p) EXCEPT !.actor = kind]
    IN  Refused(left, "Applied", left)

-----------------------------------------------------------------------------
Served(policy) == policy \in {"FailIfChanged", "Force"}

\* Mutant: a captured revision is not compared.
StaleNever(expected, policy, current) == FALSE

\* The caller insists on a revision that is not the current one.
Stale(expected, policy, current) ==
    expected # NoRevision /\ policy # "Force" /\ expected # current

\* BlockDataService::apply refuses these before any adapter sees them.
ServiceRefuses(p) == p.type = Blank \/ p.valid = "malformed"

\* Everything one apply may leave and answer.
Outcomes(b, r, p, expected, policy) ==
    LET current == Shown(adapter, b, r)
    IN  IF ~Served(policy) THEN Refused(b, "Unsupported", NoRevision)
        ELSE IF ServiceRefuses(p) THEN Refused(b, "InvalidPatch", NoRevision)
        ELSE IF adapter = "public" /\ TouchesActor(p) THEN Refused(b, "Unsupported", NoRevision)
        ELSE IF r = "gone" /\ adapter # "memory" THEN Refused(b, "ChunkUnavailable", NoRevision)
        ELSE IF Stale(expected, policy, current) THEN Refused(b, "Conflict", current)
        ELSE CASE adapter = "native" -> NativeWrite(b, r, p)
               [] adapter = "public" -> PublicWrite(b, p)
               [] adapter = "memory" -> MemoryWrite(b, p)

-----------------------------------------------------------------------------
Idle == [patches |-> <<>>, policy |-> "Force", results |-> <<>>, start |-> <<>>]

Busy(c) == job[c].patches # <<>>

Result == [status : Statuses, revision : Revision, expected : Revision]

Init ==
    /\ adapter \in Adapters
    /\ world \in [Locations -> Start]
    /\ reach = [l \in Locations |-> "actor"]
    /\ seen = [c \in Callers |-> [l \in Locations |-> NoRevision]]
    /\ job = [c \in Callers |-> Idle]

\* On a live server a commit keeps the primary thread to itself.
ThreadFree(c) == adapter = "memory" \/ \A d \in Callers \ {c} : ~Busy(d)

Capture(c, l) ==
    /\ ~Busy(c) /\ ThreadFree(c)
    /\ seen' = [seen EXCEPT ![c][l] =
          IF reach[l] = "gone" THEN NoRevision ELSE Shown(adapter, world[l], reach[l])]
    /\ UNCHANGED <<adapter, world, reach, job>>

\* A caller has put patches together, guarded by the revisions it captured.
Begin(c, t) ==
    /\ ~Busy(c) /\ ThreadFree(c)
    /\ \A i \in DOMAIN t.patches :
          t.patches[i].guarded => seen[c][t.patches[i].at] # NoRevision
    /\ job' = [job EXCEPT ![c] = [patches |-> t.patches, policy |-> t.policy,
                                  results |-> <<>>,
                                  start |-> IF adapter = "memory" THEN <<>> ELSE world]]
    /\ UNCHANGED <<adapter, world, reach, seen>>

\* Mutant: commit goes on after a patch that failed.
StopsNever(c) == FALSE

\* commit stops at the first failing patch unless forced; an exception ends it.
Stops(c) ==
    LET r == job[c].results
    IN  r # <<>> /\ \/ r[Len(r)].status = "Raised"
                    \/ r[Len(r)].status # "Applied" /\ job[c].policy # "Force"

Done(c) == Busy(c) /\ (Stops(c) \/ Len(job[c].results) = Len(job[c].patches))

ApplyNext(c) ==
    /\ Busy(c) /\ ~Done(c)
    /\ LET n        == Len(job[c].results) + 1
           l        == job[c].patches[n].at
           expected == IF job[c].patches[n].guarded THEN seen[c][l] ELSE NoRevision
       IN  \E o \in Outcomes(world[l], reach[l], job[c].patches[n].patch,
                             expected, job[c].policy) :
              /\ world' = [world EXCEPT ![l] = o.block]
              /\ job' = [job EXCEPT ![c].results = Append(@,
                    [status |-> o.status, revision |-> o.revision, expected |-> expected])]
    /\ UNCHANGED <<adapter, reach, seen>>

\* The caller has its results, and captures anew for its next transaction.
Finish(c) ==
    /\ Done(c)
    /\ job' = [job EXCEPT ![c] = Idle]
    /\ seen' = [seen EXCEPT ![c] = [l \in Locations |-> NoRevision]]
    /\ UNCHANGED <<adapter, world, reach>>

NobodyWrites == adapter # "memory" /\ \A c \in Callers : ~Busy(c)

\* Players and plugins change blocks between two live calls; another thread
\* changes those of the in-memory adapter, which knows no shelves, at any moment.
Edit(l) ==
    /\ \E b \in Edits :
          /\ IF adapter = "memory" THEN b.actor # "shelf" ELSE NobodyWrites
          /\ world' = [world EXCEPT ![l] = b]
    /\ UNCHANGED <<adapter, reach, seen, job>>

\* A chunk unloads, or an actor can no longer be located, or either is back.
Reachable(l) ==
    /\ NobodyWrites
    /\ \E r \in {"actor", "block", "gone"} : reach' = [reach EXCEPT ![l] = r]
    /\ UNCHANGED <<adapter, world, seen, job>>

Next ==
    \/ \E c \in Callers :
          \/ \E l \in Locations : Capture(c, l)
          \/ \E t \in Transactions : Begin(c, t)
          \/ ApplyNext(c)
          \/ Finish(c)
    \/ \E l \in Disturbed : Edit(l) \/ Reachable(l)

Spec == Init /\ [][Next]_vars

-----------------------------------------------------------------------------
(***************************************************************************)
(* Properties.                                                             *)
(***************************************************************************)
\* Blocks, captured revisions and results keep their shape whatever a write
\* leaves behind.
TypeOK ==
    /\ adapter \in Adapters
    /\ world \in [Locations -> Block]
    /\ reach \in [Locations -> {"actor", "block", "gone"}]
    /\ seen \in [Callers -> [Locations -> Revision]]
    /\ \A c \in Callers :
          /\ job[c].patches \in {<<>>} \cup {t.patches : t \in Transactions}
          /\ job[c].results \in Seq(Result)
          /\ Len(job[c].results) <= Len(job[c].patches)

\* The block after the first n patches, taking those that were answered
\* Applied and no other.
AfterApplied(c, l) ==
    LET after[n \in 0..Len(job[c].results)] ==
            IF n = 0 THEN job[c].start[l]
            ELSE IF job[c].patches[n].at = l /\ job[c].results[n].status = "Applied"
                 THEN Requested(after[n - 1], job[c].patches[n].patch)
                 ELSE after[n - 1]
    IN  after[Len(job[c].results)]

Partial == {"AdapterError", "Damaged", "Raised"}

\* An AdapterError or an exception is all that may leave part of a patch.
MayBePartial(c, l) ==
    \E n \in DOMAIN job[c].results :
        job[c].patches[n].at = l /\ job[c].results[n].status \in Partial

\* A live transaction leaves exactly the patches it answered Applied, each
\* of them whole; refused patches, and those after the first failure, leave
\* no trace.  Only a block with an AdapterError or an exception may differ.
CommitWritesPrefix ==
    adapter # "memory" =>
        \A c \in Callers : Busy(c) =>
            /\ \A l \in Locations : MayBePartial(c, l) \/ world[l] = AfterApplied(c, l)
            /\ \A n \in DOMAIN job[c].results :
                  n < Len(job[c].results) /\ job[c].policy # "Force"
                     => job[c].results[n].status = "Applied"

Answered(c) == job'[c].results # job[c].results /\ job'[c].results # <<>>

NewResult(c) == job'[c].results[Len(job'[c].results)]

Where(c) == job[c].patches[Len(job'[c].results)].at

\* Nothing a caller has not seen is written over: a guarded patch that
\* changes a block finds it as the caller captured it, through every route
\* and whatever other threads, players or earlier patches did since.
NoLostUpdate ==
    [][\A c \in Callers :
          Answered(c) /\ world'[Where(c)] # world[Where(c)]
            /\ job[c].policy # "Force" /\ NewResult(c).expected # NoRevision
              => seen[c][Where(c)] = Shown(adapter, world[Where(c)], reach[Where(c)])]_vars

\* The revision of an Applied answer is that of a capture made right after
\* it through the same service, or 0: it can guard the caller's next patch.
RevisionGuardsNextPatch ==
    [][\A c \in Callers :
          Answered(c) /\ NewResult(c).status = "Applied" /\ NewResult(c).revision # NoRevision
              => NewResult(c).revision = Shown(adapter, world'[Where(c)], reach[Where(c)])]_vars

\* A caller that retries with the revision of an answer that was not Applied
\* cannot overwrite a part the failed write left behind: the answer then
\* carries a revision the block no longer has.  The one exception is damage
\* to an inventory, which the message of the answer reports.
PartialWriteIsNoticed ==
    [][\A c \in Callers :
          Answered(c) /\ NewResult(c).status \notin {"Applied", "Damaged"}
            /\ world'[Where(c)] # world[Where(c)]
              => NewResult(c).revision # Shown(adapter, world'[Where(c)], reach[Where(c)])]_vars
=============================================================================
