-------------------------- MODULE BlockWritesProofs --------------------------
(***************************************************************************)
(* Proofs about BlockWrites, for any blocks, patches and transactions, any *)
(* number of callers and locations, and every adapter.                     *)
(*                                                                         *)
(* The three action properties are about one apply.  Everything an apply   *)
(* may leave and answer is shown Sound route by route, from the public     *)
(* write up to Outcomes; that the callers' transactions and revisions are  *)
(* of their types is all that is then needed of the state.                 *)
(*                                                                         *)
(* CommitWritesPrefix needs more: what each status tells of the block, the *)
(* patches Told route by route, and an invariant that every block is what  *)
(* the answers so far make of the block the commit found.                  *)
(*                                                                         *)
(* The last theorem is about the other entry of the service that decides   *)
(* anything, captureRegion.                                                *)
(***************************************************************************)
EXTENDS BlockWrites, RegionCapture, FiniteSets, FiniteSetTheorems,
        WellFoundedInduction, TLAPS

Reach == {"actor", "block", "gone"}

Guarded == [at : Locations, patch : Patch, guarded : BOOLEAN]

Task == [patches : Seq(Guarded),
         policy : Policies, results : Seq(Result),
         start : {<<>>} \cup [Locations -> Block]]

Inv == TypeOK /\ job \in [Callers -> Task]

\* What the properties ask of one answer of adapter a for block b, reached as r.
Sound(a, b, r, o) ==
    /\ o.block \in Block /\ o.status \in Statuses /\ o.revision \in Revision
    /\ o.status = "Applied" /\ o.revision # NoRevision
          => o.revision = Shown(a, o.block, r)
    /\ o.status \notin {"Applied", "Damaged"} /\ o.block # b
          => o.revision # Shown(a, o.block, r)

-----------------------------------------------------------------------------
\* A capture of a block is a revision other than 0.
LEMMA ShownType ==
    ASSUME NEW a, NEW b \in Block, NEW r
    PROVE  Shown(a, b, r) \in Capturable
<1>1. /\ b.type \in Types /\ b.state \in States
      /\ b.actor \in {"none", "plain", "container", "shelf"}
      /\ b.name \in Names \cup {Unset, NotText}
      /\ b.data \in Data \cup {Unset} /\ b.items \in Items \cup {Unset}
      /\ b = [type |-> b.type, state |-> b.state, actor |-> b.actor,
              name |-> b.name, data |-> b.data, items |-> b.items]
  BY DEF Block
<1>2. b \in Capturable
  BY <1>1 DEF Capturable
<1>3. ASSUME NEW mark \in {"unseen", "blocked"}
      PROVE  WithoutActor(b, mark) \in Capturable
  BY <1>1 DEF WithoutActor, Capturable
<1> QED BY <1>2, <1>3 DEF Shown

LEMMA ShownIsRevision ==
    ASSUME NEW a, NEW b \in Block, NEW r
    PROVE  Shown(a, b, r) \in Revision /\ Shown(a, b, r) # NoRevision
BY ShownType, NoRevisionAssumption DEF Revision

\* An answer that leaves the block alone with a typed revision is sound
\* unless it claims to be Applied.
LEMMA RefusedSound ==
    ASSUME NEW a, NEW b \in Block, NEW r, NEW status \in Statuses,
           NEW revision \in Revision, status # "Applied",
           NEW o \in Refused(b, status, revision)
    PROVE  Sound(a, b, r, o) /\ o.block = b
BY DEF Refused, Outcome, Sound

\* A write that is answered with a capture of what it left, or with 0.
LEMMA WroteSound ==
    ASSUME NEW a, NEW b, NEW new \in Block, NEW r, NEW o \in Wrote(new, Shown(a, new, r))
    PROVE  Sound(a, b, r, o)
<1>1. o.block = new /\ o.status = "Applied" /\ o.revision \in {Shown(a, new, r), NoRevision}
  BY DEF Wrote, Outcome
<1>2. o.revision \in Revision
  BY <1>1, ShownIsRevision DEF Revision
<1> QED BY <1>1, <1>2 DEF Sound, Statuses

LEMMA OverlaidType ==
    ASSUME NEW S, NEW old \in S, NEW none \in S, NEW new \in S \cup {Keep, Remove}
    PROVE  Overlaid(old, new, none) \in S
BY DEF Overlaid

LEMMA PlacedType ==
    ASSUME NEW b \in Block, NEW type \in Types, NEW state \in States
    PROVE  Placed(b, type, state) \in Block
<1>1. CASE type = b.type
  BY <1>1 DEF Placed, Block
<1>2. CASE type # b.type
  BY <1>2, WritesAssumption DEF Placed, Block, WritesAssumption
<1> QED BY <1>1, <1>2

LEMMA WithFieldsType ==
    ASSUME NEW b \in Block, NEW p \in Patch
    PROVE  WithFields(b, p) \in Block
<1>1. /\ b.name \in Names \cup {Unset, NotText} /\ b.data \in Data \cup {Unset}
      /\ p.name \in Names \cup {Keep, Remove, NotText} /\ p.data \in Data \cup {Keep, Remove}
  BY DEF Block, Patch
<1>2. /\ Overlaid(b.name, p.name, Unset) \in Names \cup {Unset, NotText}
      /\ Overlaid(b.data, p.data, Unset) \in Data \cup {Unset}
  BY <1>1 DEF Overlaid
<1> QED BY <1>2 DEF WithFields, Block

LEMMA WithItemsType ==
    ASSUME NEW b \in Block, NEW p \in Patch
    PROVE  WithItems(b, p) \in Block
<1>1. b.items \in Items \cup {Unset} /\ p.items \in Items \cup {Keep}
  BY DEF Block, Patch
<1>2. Overlaid(b.items, p.items, Unset) \in Items \cup {Unset}
  BY <1>1 DEF Overlaid
<1> QED BY <1>2 DEF WithItems, Block

LEMMA NewTypeType ==
    ASSUME NEW b \in Block, NEW p \in Patch, ~ServiceRefuses(p)
    PROVE  NewType(b, p) \in Types
<1>1. b.type \in Types /\ p.type \in Types \cup {Keep, Blank}
  BY DEF Block, Patch
<1>2. p.type # Blank
  BY DEF ServiceRefuses
<1> QED BY <1>1, <1>2 DEF NewType

-----------------------------------------------------------------------------
\* The public adapter: a block that was set and not captured shows its new
\* type or state, so the old revision does not fit it.
LEMMA PublicWriteSound ==
    ASSUME NEW b \in Block, NEW p \in Patch, ~ServiceRefuses(p),
           NEW r, NEW o \in PublicWrite(b, p)
    PROVE  Sound("public", b, r, o)
<1> DEFINE type == NewType(b, p)
           new  == Placed(b, type, NewState(b, p, type))
           old  == Shown("public", b, "block")
<1>1. type \in Types
  BY NewTypeType
<1>2. old \in Revision
  BY ShownIsRevision
<1>3. CASE <<type, NewState(b, p, type)>> \notin Schema
  <2>1. NewState(b, p, type) = new.state
    BY DEF Placed, Block
  <2>2. o \in Refused(b, "InvalidPatch", old)
    BY <1>3, <2>1 DEF PublicWrite
  <2> QED BY <2>2, <1>2, RefusedSound DEF Statuses
<1>4. CASE <<type, NewState(b, p, type)>> \in Schema
  <2>1. NewState(b, p, type) \in States
    BY <1>4, WritesAssumption DEF WritesAssumption
  <2>2. new \in Block
    BY <1>1, <2>1, PlacedType
  <2>3. Shown("public", new, "block") = Shown("public", new, r)
    BY DEF Shown
  <2>4. NewState(b, p, type) = new.state
    BY DEF Placed, Block
  <2>5. \/ o \in Wrote(new, Shown("public", new, "block"))
        \/ \E x \in {b, new} : o = Outcome(x, "AdapterError", old)
    BY <1>4, <2>4 DEF PublicWrite
  <2>6. CASE o \in Wrote(new, Shown("public", new, "block"))
    BY <2>2, <2>3, <2>6, WroteSound
  <2>7. ASSUME o = Outcome(b, "AdapterError", old)
        PROVE  Sound("public", b, r, o)
    BY <1>2, <2>7 DEF Sound, Outcome, Statuses
  <2>8. ASSUME o = Outcome(new, "AdapterError", old), new # b
        PROVE  Sound("public", b, r, o)
    <3>1. new.type # b.type \/ new.state # b.state
      BY <2>8 DEF Placed, Block
    <3>2. /\ Shown("public", new, r).type = new.type
          /\ Shown("public", new, r).state = new.state
          /\ old.type = b.type /\ old.state = b.state
      BY <2>2 DEF Shown, WithoutActor, Block
    <3>3. old # Shown("public", new, r)
      BY <3>1, <3>2
    <3> QED BY <1>2, <2>2, <2>8, <3>3 DEF Sound, Outcome, Statuses
  <2> QED BY <2>5, <2>6, <2>7, <2>8
<1> QED BY <1>3, <1>4

\* The native adapter passes on the public adapter's failures with the
\* public revision, which no native capture has, and captures again after
\* its successes.
LEMMA NativePublicWriteSound ==
    ASSUME NEW b \in Block, NEW p \in Patch, ~ServiceRefuses(p),
           NEW r, NEW o \in NativePublicWrite(b, r, p)
    PROVE  Sound("native", b, r, o)
<1>1. \A x \in PublicWrite(b, p) : x.block \in Block /\ x.status \in Statuses /\ x.revision \in Revision
  BY PublicWriteSound DEF Sound
<1>2. CASE o \in PublicWrite(b, p) /\ o.status # "Applied"
  <2>1. o.revision = Shown("public", b, "block")
    BY <1>2 DEF PublicWrite, Refused, Wrote, Outcome
  <2>2. o.revision.actor = "unseen"
    BY <2>1 DEF Shown, WithoutActor, Block
  <2>3. Shown("native", o.block, r).actor # "unseen"
    BY <1>1, <1>2 DEF Shown, WithoutActor, Block
  <2> QED BY <1>1, <1>2, <2>2, <2>3 DEF Sound
<1>3. CASE \E x \in PublicWrite(b, p) : o \in Recapture(x.block, r)
  <2>1. PICK x \in PublicWrite(b, p) : o \in Recapture(x.block, r)
    BY <1>3
  <2>2. x.block \in Block
    BY <1>1
  <2>3. CASE o \in Wrote(x.block, Shown("native", x.block, r))
    BY <2>2, <2>3, WroteSound
  <2>4. CASE o = Outcome(x.block, "Raised", NoRevision)
    <3>1. Shown("native", x.block, r) # NoRevision
      BY <2>2, ShownIsRevision
    <3> QED BY <2>2, <2>4, <3>1 DEF Sound, Outcome, Statuses, Revision
  <2> QED BY <2>1, <2>3, <2>4 DEF Recapture
<1> QED BY <1>2, <1>3 DEF NativePublicWrite

\* Fields that were taken over by a write that raised are in the captures
\* of an actor that can be reached.
LEMMA FieldsWriteSound ==
    ASSUME NEW b \in Block, NEW p \in Patch, NEW r, r # "block",
           NEW o \in FieldsWrite(b, r, p)
    PROVE  Sound("native", b, r, o)
<1> DEFINE new == WithFields(b, p)
           old == Shown("native", b, r)
<1>1. new \in Block /\ old \in Revision
  BY WithFieldsType, ShownIsRevision
<1>2. CASE o \in Wrote(new, Shown("native", new, r))
  BY <1>1, <1>2, WroteSound
<1>3. ASSUME NEW n \in {b.name, new.name}, NEW d \in {b.data, new.data},
             o = Outcome([b EXCEPT !.name = n, !.data = d], "AdapterError", old)
      PROVE  Sound("native", b, r, o)
  <2> DEFINE left == [b EXCEPT !.name = n, !.data = d]
  <2>1. left \in Block
    BY <1>1 DEF Block
  <2>2. old = b /\ Shown("native", left, r) = left
    BY DEF Shown
  <2> QED BY <1>1, <1>3, <2>1, <2>2 DEF Sound, Outcome, Statuses
<1> QED BY <1>2, <1>3 DEF FieldsWrite

LEMMA ItemsWriteSound ==
    ASSUME NEW b \in Block, NEW p \in Patch, NEW r, NEW o \in ItemsWrite(b, r, p)
    PROVE  Sound("native", b, r, o)
<1>1. WithItems(b, p) \in Block /\ Shown("native", b, r) \in Revision
  BY WithItemsType, ShownIsRevision
<1>2. CASE o \in Wrote(WithItems(b, p), Shown("native", WithItems(b, p), r))
  BY <1>1, <1>2, WroteSound
<1>3. CASE o = Outcome(b, "AdapterError", Shown("native", b, r))
  BY <1>1, <1>3 DEF Sound, Outcome, Statuses
<1>4. ASSUME NEW i \in Items,
             NEW rev \in {NoRevision, Shown("native", [b EXCEPT !.items = i], r)},
             o = Outcome([b EXCEPT !.items = i], "Damaged", rev)
      PROVE  Sound("native", b, r, o)
  <2>1. [b EXCEPT !.items = i] \in Block
    BY DEF Block
  <2>2. rev \in Revision
    BY <2>1, ShownIsRevision DEF Revision
  <2> QED BY <1>4, <2>1, <2>2 DEF Sound, Outcome, Statuses
<1> QED BY <1>2, <1>3, <1>4 DEF ItemsWrite

LEMMA NativeActorWriteSound ==
    ASSUME NEW b \in Block, NEW p \in Patch, NEW r, NEW o \in NativeActorWrite(b, r, p)
    PROVE  Sound("native", b, r, o)
<1> DEFINE rev == Shown("native", b, r)
<1>1. rev \in Revision
  BY ShownIsRevision
<1>2. \/ \E s \in {"Unsupported", "InvalidPatch", "AdapterError"} : o \in Refused(b, s, rev)
      \/ o \in ItemsWrite(b, r, p)
      \/ r # "block" /\ o \in FieldsWrite(b, r, p)
  BY DEF NativeActorWrite
<1>3. ASSUME NEW s \in {"Unsupported", "InvalidPatch", "AdapterError"}, o \in Refused(b, s, rev)
      PROVE  Sound("native", b, r, o)
  BY <1>1, <1>3, RefusedSound DEF Statuses
<1> QED BY <1>2, <1>3, ItemsWriteSound, FieldsWriteSound

LEMMA NativeWriteSound ==
    ASSUME NEW b \in Block, NEW p \in Patch, ~ServiceRefuses(p),
           NEW r, NEW o \in NativeWrite(b, r, p)
    PROVE  Sound("native", b, r, o)
<1> DEFINE rev == Shown("native", b, r)
<1>1. rev \in Revision
  BY ShownIsRevision
<1>2. \/ o \in Refused(b, "Unsupported", rev)
      \/ o \in NativePublicWrite(b, r, p)
      \/ o \in NativeActorWrite(b, r, p)
      \/ o \in Refused(b, "Applied", rev)
  BY DEF NativeWrite
<1>3. CASE o \in Refused(b, "Unsupported", rev)
  BY <1>1, <1>3, RefusedSound DEF Statuses
<1>4. CASE o \in Refused(b, "Applied", rev)
  BY <1>1, <1>4 DEF Refused, Outcome, Sound, Statuses
<1> QED BY <1>2, <1>3, <1>4, NativePublicWriteSound, NativeActorWriteSound

LEMMA MemoryWriteSound ==
    ASSUME NEW b \in Block, NEW p \in Patch, ~ServiceRefuses(p),
           NEW r, NEW o \in MemoryWrite(b, p)
    PROVE  Sound("memory", b, r, o)
<1> DEFINE new  == [b EXCEPT !.type = NewType(b, p),
                             !.state = Overlaid(b.state, p.state, Default)]
           kind == IF p.items # Keep THEN "container"
                   ELSE IF TouchesActor(p) /\ b.actor = "none" THEN "plain" ELSE b.actor
           left == [WithItems(WithFields(new, p), p) EXCEPT !.actor = kind]
<1>1. Overlaid(b.state, p.state, Default) \in States
  <2>1. b.state \in States /\ p.state \in States \cup {Keep, Remove} /\ Default \in States
    BY WritesAssumption DEF Block, Patch, WritesAssumption
  <2> QED BY <2>1, OverlaidType
<1>2. new \in Block
  BY <1>1, NewTypeType DEF Block
<1>3. WithItems(WithFields(new, p), p) \in Block
  BY <1>2, WithFieldsType, WithItemsType
<1>4. kind \in {"none", "plain", "container", "shelf"}
  <2>1. b.actor \in {"none", "plain", "container", "shelf"}
    BY DEF Block
  <2> QED BY <2>1
<1>5. left \in Block
  BY <1>3, <1>4 DEF Block
<1>6. o = Outcome(left, "Applied", left)
  BY DEF MemoryWrite, Refused
<1>7. Shown("memory", left, r) = left
  BY DEF Shown
<1>8. left \in Revision
  BY <1>5, <1>7, ShownIsRevision
<1> QED BY <1>5, <1>6, <1>7, <1>8 DEF Sound, Outcome, Statuses

\* The whole of apply: what it leaves and answers is sound, and a guarded
\* patch that is stale leaves the block alone.
LEMMA OutcomesSound ==
    ASSUME NEW b \in Block, NEW p \in Patch, NEW r, NEW expected \in Revision, NEW policy,
           adapter \in Adapters,
           NEW o \in Outcomes(b, r, p, expected, policy)
    PROVE  /\ Sound(adapter, b, r, o)
           /\ o.block # b => ~Stale(expected, policy, Shown(adapter, b, r))
<1> DEFINE current == Shown(adapter, b, r)
<1>1. current \in Revision /\ NoRevision \in Revision
  BY ShownIsRevision DEF Revision
<1>2. adapter \in {"native", "public", "memory"}
  BY WritesAssumption DEF WritesAssumption
<1>3. \/ \E s \in {"Unsupported", "InvalidPatch", "ChunkUnavailable"} : o \in Refused(b, s, NoRevision)
      \/ o \in Refused(b, "Conflict", current)
      \/ /\ ~ServiceRefuses(p) /\ ~Stale(expected, policy, current)
         /\ \/ adapter = "native" /\ o \in NativeWrite(b, r, p)
            \/ adapter = "public" /\ o \in PublicWrite(b, p)
            \/ adapter = "memory" /\ o \in MemoryWrite(b, p)
  BY <1>2 DEF Outcomes
<1>4. ASSUME NEW s \in {"Unsupported", "InvalidPatch", "ChunkUnavailable"},
             o \in Refused(b, s, NoRevision)
      PROVE  Sound(adapter, b, r, o) /\ o.block = b
  BY <1>1, <1>4, RefusedSound DEF Statuses
<1>5. CASE o \in Refused(b, "Conflict", current)
  <2>1. Sound(adapter, b, r, o) /\ o.block = b
    BY <1>1, <1>5, RefusedSound DEF Statuses
  <2> QED BY <2>1
<1> QED BY <1>3, <1>4, <1>5, NativeWriteSound, PublicWriteSound, MemoryWriteSound

-----------------------------------------------------------------------------
\* What the status of an answer of a live adapter says of the block: Applied
\* means the whole patch, a refusal none of it.
Told(b, p, o) ==
    /\ o.status = "Applied" => o.block = Requested(b, p)
    /\ o.status \notin Partial \cup {"Applied"} => o.block = b

\* The parts a patch keeps are left as they are.
LEMMA UntouchedBlock ==
    ASSUME NEW b \in Block, NEW p, ~TouchesBlock(p)
    PROVE  Placed(b, NewType(b, p), NewState(b, p, NewType(b, p))) = b
<1>1. NewType(b, p) = b.type /\ NewState(b, p, b.type) = b.state
  BY DEF TouchesBlock, NewType, NewState, Overlaid
<1>2. [b EXCEPT !.state = b.state] = b
  BY DEF Block
<1> QED BY <1>1, <1>2 DEF Placed

LEMMA UntouchedFields ==
    ASSUME NEW b \in Block, NEW p, p.name = Keep, p.data = Keep
    PROVE  WithFields(b, p) = b
BY DEF WithFields, Overlaid, Block

LEMMA UntouchedItems ==
    ASSUME NEW b \in Block, NEW p, p.items = Keep
    PROVE  WithItems(b, p) = b
BY DEF WithItems, Overlaid, Block

LEMMA RefusedTold ==
    ASSUME NEW b, NEW p, NEW status, NEW revision, status # "Applied",
           NEW o \in Refused(b, status, revision)
    PROVE  Told(b, p, o)
BY DEF Refused, Outcome, Told

LEMMA PublicWriteTold ==
    ASSUME NEW b \in Block, NEW p \in Patch, ~ServiceRefuses(p), ~TouchesActor(p),
           NEW o \in PublicWrite(b, p)
    PROVE  Told(b, p, o)
<1> DEFINE type == NewType(b, p)
           new  == Placed(b, type, NewState(b, p, type))
           old  == Shown("public", b, "block")
<1>1. NewState(b, p, type) = new.state
  BY DEF Placed, Block
<1>2. \/ o \in Refused(b, "InvalidPatch", old)
      \/ <<type, new.state>> \in Schema /\ o \in Wrote(new, Shown("public", new, "block"))
      \/ o.status = "AdapterError"
  BY DEF PublicWrite, Outcome
<1>3. CASE <<type, new.state>> \in Schema /\ o \in Wrote(new, Shown("public", new, "block"))
  <2>1. type \in Types /\ NewState(b, p, type) \in States
    BY <1>1, <1>3, NewTypeType, WritesAssumption DEF WritesAssumption
  <2>2. new \in Block
    BY <2>1, PlacedType
  <2>3. Requested(b, p) = new
    BY <2>2, UntouchedFields, UntouchedItems DEF Requested, TouchesActor, TouchesFields
  <2>4. o.status = "Applied" /\ o.block = new
    BY <1>3 DEF Wrote, Outcome
  <2> QED BY <2>3, <2>4 DEF Told
<1>4. CASE o.status = "AdapterError"
  BY <1>4 DEF Told, Partial
<1> QED BY <1>2, <1>3, <1>4, RefusedTold

LEMMA NativePublicWriteTold ==
    ASSUME NEW b \in Block, NEW p \in Patch, ~ServiceRefuses(p), ~TouchesActor(p),
           NEW r, NEW o \in NativePublicWrite(b, r, p)
    PROVE  Told(b, p, o)
<1>1. CASE o \in PublicWrite(b, p)
  BY <1>1, PublicWriteTold
<1>2. CASE \E x \in PublicWrite(b, p) : x.status = "Applied" /\ o \in Recapture(x.block, r)
  <2>1. PICK x \in PublicWrite(b, p) : x.status = "Applied" /\ o \in Recapture(x.block, r)
    BY <1>2
  <2>2. o.block = x.block /\ o.status \in {"Applied", "Raised"}
    BY <2>1 DEF Recapture, Wrote, Outcome
  <2>3. x.block = Requested(b, p)
    BY <2>1, PublicWriteTold DEF Told
  <2> QED BY <2>2, <2>3 DEF Told, Partial
<1> QED BY <1>1, <1>2 DEF NativePublicWrite

LEMMA NativeActorWriteTold ==
    ASSUME NEW b \in Block, NEW p \in Patch, ~TouchesBlock(p),
           NEW r, NEW o \in NativeActorWrite(b, r, p)
    PROVE  Told(b, p, o)
<1> DEFINE rev == Shown("native", b, r)
<1>1. \/ \E s \in {"Unsupported", "InvalidPatch", "AdapterError"} : o \in Refused(b, s, rev)
      \/ p.items # Keep /\ ~MixesActorWrites(p) /\ o \in ItemsWrite(b, r, p)
      \/ p.items = Keep /\ o \in FieldsWrite(b, r, p)
  BY DEF NativeActorWrite
<1>2. CASE \E s \in {"Unsupported", "InvalidPatch", "AdapterError"} : o \in Refused(b, s, rev)
  BY <1>2, RefusedTold
<1>3. CASE p.items # Keep /\ ~MixesActorWrites(p) /\ o \in ItemsWrite(b, r, p)
  <2>1. Requested(b, p) = WithItems(b, p)
    BY <1>3, UntouchedBlock, UntouchedFields DEF Requested, MixesActorWrites
  <2>2. \/ o.status = "Applied" /\ o.block = WithItems(b, p)
        \/ o.status \in {"AdapterError", "Damaged"}
    BY <1>3 DEF ItemsWrite, Wrote, Outcome
  <2> QED BY <2>1, <2>2 DEF Told, Partial
<1>4. CASE p.items = Keep /\ o \in FieldsWrite(b, r, p)
  <2>1. Requested(b, p) = WithFields(b, p)
    BY <1>4, UntouchedBlock, UntouchedItems, WithFieldsType DEF Requested
  <2>2. \/ o.status = "Applied" /\ o.block = WithFields(b, p)
        \/ o.status = "AdapterError"
    BY <1>4 DEF FieldsWrite, Wrote, Outcome
  <2> QED BY <2>1, <2>2 DEF Told, Partial
<1> QED BY <1>1, <1>2, <1>3, <1>4

LEMMA NativeWriteTold ==
    ASSUME NEW b \in Block, NEW p \in Patch, ~ServiceRefuses(p),
           NEW r, NEW o \in NativeWrite(b, r, p)
    PROVE  Told(b, p, o)
<1> DEFINE rev == Shown("native", b, r)
<1>1. \/ o \in Refused(b, "Unsupported", rev)
      \/ ~TouchesActor(p) /\ o \in NativePublicWrite(b, r, p)
      \/ ~TouchesBlock(p) /\ o \in NativeActorWrite(b, r, p)
      \/ ~TouchesActor(p) /\ ~TouchesBlock(p) /\ o \in Refused(b, "Applied", rev)
  BY DEF NativeWrite
<1>2. CASE ~TouchesActor(p) /\ ~TouchesBlock(p) /\ o \in Refused(b, "Applied", rev)
  <2>1. Requested(b, p) = b
    BY <1>2, UntouchedBlock, UntouchedFields, UntouchedItems
    DEF Requested, TouchesActor, TouchesFields
  <2> QED BY <1>2, <2>1 DEF Told, Refused, Outcome
<1> QED BY <1>1, <1>2, RefusedTold, NativePublicWriteTold, NativeActorWriteTold

LEMMA OutcomesTold ==
    ASSUME NEW b \in Block, NEW p \in Patch, NEW r, NEW expected, NEW policy,
           adapter \in Adapters, adapter # "memory",
           NEW o \in Outcomes(b, r, p, expected, policy)
    PROVE  Told(b, p, o)
<1>1. adapter \in {"native", "public"}
  BY WritesAssumption DEF WritesAssumption
<1>2. \/ \E s \in {"Unsupported", "InvalidPatch", "ChunkUnavailable"} : o \in Refused(b, s, NoRevision)
      \/ o \in Refused(b, "Conflict", Shown(adapter, b, r))
      \/ ~ServiceRefuses(p) /\ adapter = "native" /\ o \in NativeWrite(b, r, p)
      \/ /\ ~ServiceRefuses(p) /\ ~TouchesActor(p)
         /\ adapter = "public" /\ o \in PublicWrite(b, p)
  BY <1>1 DEF Outcomes
<1> QED BY <1>2, RefusedTold, NativeWriteTold, PublicWriteTold

-----------------------------------------------------------------------------
LEMMA IdleType == Idle \in Task
<1>1. <<>> \in Seq(Guarded) /\ <<>> \in Seq(Result)
  OBVIOUS
<1>2. <<>> \in {<<>>} \cup [Locations -> Block]
  BY Zenon
<1>3. "Force" \in Policies
  BY DEF Policies
<1> QED BY <1>1, <1>2, <1>3, Zenon DEF Idle, Task

\* A commit's next patch is one of a transaction, and what is expected a revision.
LEMMA NextPatchType ==
    ASSUME Inv, NEW c \in Callers, Busy(c), ~Done(c)
    PROVE  LET n == Len(job[c].results) + 1
           IN  /\ n \in DOMAIN job[c].patches
               /\ job[c].patches[n].at \in Locations
               /\ job[c].patches[n].patch \in Patch
               /\ job[c].patches[n].guarded \in BOOLEAN
<1> DEFINE n == Len(job[c].results) + 1
<1>1. /\ job[c].results \in Seq(Result) /\ Len(job[c].results) <= Len(job[c].patches)
      /\ job[c].patches \in Seq(Guarded)
  BY DEF Inv, TypeOK, Task
<1>2. Len(job[c].results) # Len(job[c].patches)
  BY DEF Done
<1>3. n \in 1..Len(job[c].patches)
  BY <1>1, <1>2
<1>4. job[c].patches[n] \in Guarded
  BY <1>1, <1>3
<1> QED BY <1>1, <1>3, <1>4 DEF Guarded

\* What one step of a commit does, for the invariant and the properties alike.
LEMMA ApplyNextSound ==
    ASSUME Inv, NEW c \in Callers, ApplyNext(c)
    PROVE  \E l, expected, o :
           /\ l \in Locations /\ expected \in Revision
           /\ l = job[c].patches[Len(job[c].results) + 1].at
           /\ expected \in {NoRevision, seen[c][l]}
           /\ world' = [world EXCEPT ![l] = o.block]
           /\ job' = [job EXCEPT ![c].results = Append(@,
                 [status |-> o.status, revision |-> o.revision, expected |-> expected])]
           /\ Sound(adapter, world[l], reach[l], o)
           /\ o.block # world[l] => ~Stale(expected, job[c].policy, Shown(adapter, world[l], reach[l]))
           /\ adapter # "memory"
                 => Told(world[l], job[c].patches[Len(job[c].results) + 1].patch, o)
<1> DEFINE n == Len(job[c].results) + 1
           l == job[c].patches[n].at
           expected == IF job[c].patches[n].guarded THEN seen[c][l] ELSE NoRevision
<1>1. l \in Locations /\ job[c].patches[n].patch \in Patch
  BY NextPatchType DEF ApplyNext
<1>2. world[l] \in Block /\ adapter \in Adapters /\ expected \in Revision
  BY <1>1 DEF Inv, TypeOK, Revision
<1>3. expected \in {NoRevision, seen[c][l]}
  OBVIOUS
<1>4. PICK o \in Outcomes(world[l], reach[l], job[c].patches[n].patch, expected, job[c].policy) :
         /\ world' = [world EXCEPT ![l] = o.block]
         /\ job' = [job EXCEPT ![c].results = Append(@,
               [status |-> o.status, revision |-> o.revision, expected |-> expected])]
  BY DEF ApplyNext
<1>5. /\ Sound(adapter, world[l], reach[l], o)
      /\ o.block # world[l] => ~Stale(expected, job[c].policy, Shown(adapter, world[l], reach[l]))
      /\ adapter # "memory" => Told(world[l], job[c].patches[n].patch, o)
  BY <1>1, <1>2, OutcomesSound, OutcomesTold
<1> QED BY <1>1, <1>2, <1>3, <1>4, <1>5

\* What concerns one caller's task, and is kept by writes to the others.
TaskOK(t) ==
    /\ t.patches \in {<<>>} \cup {x.patches : x \in Transactions}
    /\ t.results \in Seq(Result)
    /\ Len(t.results) <= Len(t.patches)

LEMMA InvTasks ==
    ASSUME adapter \in Adapters, world \in [Locations -> Block],
           reach \in [Locations -> Reach], seen \in [Callers -> [Locations -> Revision]],
           job \in [Callers -> Task], \A c \in Callers : TaskOK(job[c])
    PROVE  Inv
BY DEF Inv, TypeOK, TaskOK, Reach

LEMMA InitInv == Init => Inv
<1> SUFFICES ASSUME Init PROVE Inv
  OBVIOUS
<1>1. world \in [Locations -> Block]
  BY InputsAssumption DEF Init, InputsAssumption
<1>2. job \in [Callers -> Task]
  BY IdleType DEF Init
<1>3. seen \in [Callers -> [Locations -> Revision]]
  BY DEF Init, Revision
<1>4. ASSUME NEW c \in Callers PROVE TaskOK(job[c])
  <2>1. job[c].patches = <<>> /\ job[c].results = <<>>
    BY DEF Init, Idle
  <2> QED BY <2>1 DEF TaskOK
<1>5. adapter \in Adapters /\ reach \in [Locations -> Reach]
  BY DEF Init, Reach
<1> QED BY <1>1, <1>2, <1>3, <1>4, <1>5, InvTasks

LEMMA NextInv == Inv /\ [Next]_vars => Inv'
<1> SUFFICES ASSUME Inv, [Next]_vars PROVE Inv'
  OBVIOUS
<1> USE DEF Reach
<1>1. /\ adapter \in Adapters /\ world \in [Locations -> Block]
      /\ reach \in [Locations -> Reach] /\ seen \in [Callers -> [Locations -> Revision]]
      /\ job \in [Callers -> Task] /\ \A c \in Callers : TaskOK(job[c])
  BY DEF Inv, TypeOK, TaskOK
<1> SUFFICES /\ adapter' \in Adapters /\ world' \in [Locations -> Block]
             /\ reach' \in [Locations -> Reach] /\ seen' \in [Callers -> [Locations -> Revision]]
             /\ job' \in [Callers -> Task] /\ \A c \in Callers : TaskOK(job'[c])
  BY DEF Inv, TypeOK, TaskOK
<1>2. ASSUME NEW c \in Callers, NEW l \in Locations, Capture(c, l)
      PROVE  /\ UNCHANGED <<adapter, world, reach, job>>
             /\ seen' \in [Callers -> [Locations -> Revision]]
  <2>1. Shown(adapter, world[l], reach[l]) \in Revision /\ NoRevision \in Revision
    BY <1>1, ShownIsRevision DEF Revision
  <2> QED BY <1>1, <1>2, <2>1 DEF Capture
<1>3. ASSUME NEW c \in Callers, NEW t \in Transactions, Begin(c, t)
      PROVE  /\ UNCHANGED <<adapter, world, reach, seen>>
             /\ job' \in [Callers -> Task] /\ \A d \in Callers : TaskOK(job'[d])
  <2> DEFINE new == [patches |-> t.patches, policy |-> t.policy, results |-> <<>>,
                     start |-> IF adapter = "memory" THEN <<>> ELSE world]
  <2>1. t.patches \in Seq(Guarded) /\ t.policy \in Policies
    BY InputsAssumption DEF InputsAssumption, Guarded
  <2>2. new \in Task
    BY <1>1, <2>1 DEF Task
  <2>3. TaskOK(new)
    BY <2>1 DEF TaskOK
  <2>4. job' = [job EXCEPT ![c] = new]
    BY <1>3 DEF Begin
  <2> QED BY <1>1, <1>3, <2>2, <2>3, <2>4 DEF Begin
<1>4. ASSUME NEW c \in Callers, ApplyNext(c)
      PROVE  /\ UNCHANGED <<adapter, reach, seen>> /\ world' \in [Locations -> Block]
             /\ job' \in [Callers -> Task] /\ \A d \in Callers : TaskOK(job'[d])
  <2>1. PICK l, expected, o :
           /\ l \in Locations /\ expected \in Revision
           /\ world' = [world EXCEPT ![l] = o.block]
           /\ job' = [job EXCEPT ![c].results = Append(@,
                 [status |-> o.status, revision |-> o.revision, expected |-> expected])]
           /\ Sound(adapter, world[l], reach[l], o)
    BY <1>4, ApplyNextSound
  <2> DEFINE result == [status |-> o.status, revision |-> o.revision, expected |-> expected]
             results == Append(job[c].results, result)
             new == [job[c] EXCEPT !.results = results]
  <2>2. result \in Result /\ o.block \in Block
    BY <2>1 DEF Sound, Result
  <2>3. job[c] \in Task /\ TaskOK(job[c])
    BY <1>1
  <2>4. results \in Seq(Result) /\ Len(results) = Len(job[c].results) + 1
    BY <2>2, <2>3 DEF Task
  <2>5. new \in Task
    BY <2>3, <2>4 DEF Task
  <2>6. Len(job[c].results) # Len(job[c].patches)
    BY <1>4 DEF ApplyNext, Done
  <2>7. /\ Len(job[c].results) \in Nat /\ Len(job[c].patches) \in Nat
        /\ Len(job[c].results) <= Len(job[c].patches)
    BY <2>3 DEF Task, TaskOK
  <2>8. Len(results) <= Len(job[c].patches)
    BY <2>4, <2>6, <2>7
  <2>9. new.patches = job[c].patches /\ new.results = results
    BY <2>3 DEF Task
  <2>10. TaskOK(new)
    BY <2>3, <2>4, <2>8, <2>9 DEF TaskOK
  <2>11. job' = [job EXCEPT ![c] = new]
    BY <1>1, <2>1
  <2> QED BY <1>1, <1>4, <2>1, <2>2, <2>5, <2>10, <2>11 DEF ApplyNext
<1>5. ASSUME NEW c \in Callers, Finish(c)
      PROVE  /\ UNCHANGED <<adapter, world, reach>>
             /\ seen' \in [Callers -> [Locations -> Revision]]
             /\ job' \in [Callers -> Task] /\ \A d \in Callers : TaskOK(job'[d])
  <2>1. TaskOK(Idle)
    BY DEF TaskOK, Idle
  <2>2. [l \in Locations |-> NoRevision] \in [Locations -> Revision]
    BY DEF Revision
  <2> QED BY <1>1, <1>5, <2>1, <2>2, IdleType DEF Finish
<1>6. ASSUME NEW l \in Disturbed, Edit(l)
      PROVE  UNCHANGED <<adapter, reach, seen, job>> /\ world' \in [Locations -> Block]
  BY <1>1, <1>6, InputsAssumption DEF Edit, InputsAssumption
<1>7. ASSUME NEW l \in Disturbed, Reachable(l)
      PROVE  UNCHANGED <<adapter, world, seen, job>> /\ reach' \in [Locations -> Reach]
  BY <1>1, <1>7, InputsAssumption DEF Reachable, InputsAssumption
<1>8. CASE UNCHANGED vars
  BY <1>1, <1>8 DEF vars
<1>9. CASE \E c \in Callers, l \in Locations : Capture(c, l)
  BY <1>1, <1>2, <1>9
<1>10. CASE \E c \in Callers, t \in Transactions : Begin(c, t)
  BY <1>1, <1>3, <1>10
<1>11. CASE \E c \in Callers : ApplyNext(c)
  BY <1>1, <1>4, <1>11
<1>12. CASE \E c \in Callers : Finish(c)
  BY <1>1, <1>5, <1>12
<1>13. CASE \E l \in Disturbed : Edit(l) \/ Reachable(l)
  BY <1>1, <1>6, <1>7, <1>13
<1> QED BY <1>8, <1>9, <1>10, <1>11, <1>12, <1>13 DEF Next

\* Whatever a write leaves behind, blocks, captured revisions and results
\* keep their shape.
THEOREM TypeCorrect == Spec => []TypeOK
<1>1. Inv => TypeOK
  BY DEF Inv
<1> QED BY InitInv, NextInv, <1>1, PTL DEF Spec

-----------------------------------------------------------------------------
\* What an outcome has to do with the result a commit has just added.
AnsweredWith(c, o) ==
    /\ Where(c) \in Locations
    /\ world'[Where(c)] = o.block /\ reach' = reach
    /\ NewResult(c).status = o.status /\ NewResult(c).revision = o.revision
    /\ NewResult(c).expected \in {NoRevision, seen[c][Where(c)]}
    /\ Sound(adapter, world[Where(c)], reach[Where(c)], o)
    /\ o.block # world[Where(c)]
          => ~Stale(NewResult(c).expected, job[c].policy,
                    Shown(adapter, world[Where(c)], reach[Where(c)]))

\* A step that adds a result is a step of the caller's own commit, and the
\* properties speak of the outcome that step picked.
LEMMA AnsweredSound ==
    ASSUME Inv, Next, NEW c \in Callers, Answered(c)
    PROVE  \E o : AnsweredWith(c, o)
<1>0. job \in [Callers -> Task] /\ world \in [Locations -> Block]
  BY DEF Inv, TypeOK
<1>1. ApplyNext(c)
  <2>1. ASSUME NEW d \in Callers, NEW t \in Transactions, Begin(d, t)
        PROVE  FALSE
    <3>1. job'[c].results \in {job[c].results, <<>>}
      BY <1>0, <2>1 DEF Begin
    <3> QED BY <3>1 DEF Answered
  <2>2. ASSUME NEW d \in Callers, Finish(d)
        PROVE  FALSE
    <3>1. job'[c].results \in {job[c].results, <<>>}
      BY <1>0, <2>2 DEF Finish, Idle
    <3> QED BY <3>1 DEF Answered
  <2>3. ASSUME NEW d \in Callers, ApplyNext(d), d # c
        PROVE  FALSE
    <3>1. job'[c] = job[c]
      BY <1>0, <2>3, ApplyNextSound
    <3> QED BY <3>1 DEF Answered
  <2>4. job' # job
    BY DEF Answered
  <2> QED BY <2>1, <2>2, <2>3, <2>4 DEF Next, Capture, Edit, Reachable
<1>2. PICK l, expected, o :
         /\ l \in Locations /\ expected \in Revision
         /\ l = job[c].patches[Len(job[c].results) + 1].at
         /\ expected \in {NoRevision, seen[c][l]}
         /\ world' = [world EXCEPT ![l] = o.block]
         /\ job' = [job EXCEPT ![c].results = Append(@,
               [status |-> o.status, revision |-> o.revision, expected |-> expected])]
         /\ Sound(adapter, world[l], reach[l], o)
         /\ o.block # world[l] => ~Stale(expected, job[c].policy, Shown(adapter, world[l], reach[l]))
  BY <1>1, ApplyNextSound
<1> DEFINE result == [status |-> o.status, revision |-> o.revision, expected |-> expected]
<1>3. job[c].results \in Seq(Result) /\ result \in Result
  BY <1>0, <1>2 DEF Task, Sound, Result
<1>4. job'[c].results = Append(job[c].results, result)
  BY <1>0, <1>2 DEF Task
<1>5. Len(job'[c].results) = Len(job[c].results) + 1 /\ NewResult(c) = result
  BY <1>3, <1>4 DEF NewResult
<1>6. Where(c) = l
  BY <1>2, <1>5 DEF Where
<1>7. world'[l] = o.block /\ reach' = reach
  BY <1>0, <1>1, <1>2 DEF ApplyNext
<1>8. /\ NewResult(c).status = o.status /\ NewResult(c).revision = o.revision
      /\ NewResult(c).expected = expected
  BY <1>5
<1> QED BY <1>2, <1>6, <1>7, <1>8 DEF AnsweredWith

\* A guarded patch never writes over a block its caller has not captured as
\* it is: BlockTransaction::commit loses no update.
THEOREM NoUpdateLost == Spec => NoLostUpdate
<1> DEFINE A == \A c \in Callers :
          Answered(c) /\ world'[Where(c)] # world[Where(c)]
            /\ job[c].policy # "Force" /\ NewResult(c).expected # NoRevision
              => seen[c][Where(c)] = Shown(adapter, world[Where(c)], reach[Where(c)])
<1>1. ASSUME Inv, Next, NEW c \in Callers,
             Answered(c),
             world'[Where(c)] # world[Where(c)],
             job[c].policy # "Force",
             NewResult(c).expected # NoRevision
      PROVE  seen[c][Where(c)] = Shown(adapter, world[Where(c)], reach[Where(c)])
  <2>1. PICK o : AnsweredWith(c, o)
    BY <1>1, AnsweredSound
  <2> QED BY <1>1, <2>1 DEF AnsweredWith, Stale
<1>2. Inv /\ [Next]_vars => [A]_vars
  BY <1>1
<1> QED BY InitInv, NextInv, <1>2, PTL DEF Spec, NoLostUpdate

\* The revision of an Applied answer fits the block as it was left, on every
\* route: ApplyResult.resulting_revision can guard the next patch.
THEOREM ResultingRevisionFits == Spec => RevisionGuardsNextPatch
<1> DEFINE A == \A c \in Callers :
          Answered(c) /\ NewResult(c).status = "Applied" /\ NewResult(c).revision # NoRevision
              => NewResult(c).revision = Shown(adapter, world'[Where(c)], reach[Where(c)])
<1>1. ASSUME Inv, Next, NEW c \in Callers,
             Answered(c),
             NewResult(c).status = "Applied",
             NewResult(c).revision # NoRevision
      PROVE  NewResult(c).revision = Shown(adapter, world'[Where(c)], reach[Where(c)])
  <2>1. PICK o : AnsweredWith(c, o)
    BY <1>1, AnsweredSound
  <2> QED BY <1>1, <2>1 DEF AnsweredWith, Sound
<1>2. Inv /\ [Next]_vars => [A]_vars
  BY <1>1
<1> QED BY InitInv, NextInv, <1>2, PTL DEF Spec, RevisionGuardsNextPatch

\* No failing answer but reported damage carries a revision that fits what a
\* failed write left behind.
THEOREM FailedWriteShows == Spec => PartialWriteIsNoticed
<1> DEFINE A == \A c \in Callers :
          Answered(c) /\ NewResult(c).status \notin {"Applied", "Damaged"}
            /\ world'[Where(c)] # world[Where(c)]
              => NewResult(c).revision # Shown(adapter, world'[Where(c)], reach[Where(c)])
<1>1. ASSUME Inv, Next, NEW c \in Callers,
             Answered(c),
             NewResult(c).status \notin {"Applied", "Damaged"},
             world'[Where(c)] # world[Where(c)]
      PROVE  NewResult(c).revision # Shown(adapter, world'[Where(c)], reach[Where(c)])
  <2>1. PICK o : AnsweredWith(c, o)
    BY <1>1, AnsweredSound
  <2> QED BY <1>1, <2>1 DEF AnsweredWith, Sound
<1>2. Inv /\ [Next]_vars => [A]_vars
  BY <1>1
<1> QED BY InitInv, NextInv, <1>2, PTL DEF Spec, PartialWriteIsNoticed

-----------------------------------------------------------------------------
(***************************************************************************)
(* CommitWritesPrefix.  AfterApplied is the last value of a recursive      *)
(* function over the results; the invariant LiveInv keeps a witness of     *)
(* that function for every block, which each answer extends by one value.  *)
(***************************************************************************)
LEMMA LeastNumber ==
    ASSUME NEW S \in SUBSET Nat, S # {}
    PROVE  \E n \in S : \A m \in S : n <= m
<1>1. \E n \in S : \A m \in S : ~ (<<m, n>> \in OpToRel(<, Nat))
  BY NatLessThanWellFounded, WFMin
<1>2. PICK n \in S : \A m \in S : ~ (<<m, n>> \in OpToRel(<, Nat))
  BY <1>1
<1>3. ASSUME NEW m \in S PROVE n <= m
  <2>1. m \in Nat /\ n \in Nat
    OBVIOUS
  <2>2. m < n => <<m, n>> \in OpToRel(<, Nat)
    BY <2>1 DEF OpToRel
  <2>3. ~(m < n)
    BY <1>2, <1>3, <2>2, Zenon
  <2> QED BY <2>1, <2>3
<1> QED BY <1>3

\* A block through the results of a transaction, as AfterApplied computes it.
Course(t, l, g) ==
    g = [n \in 0..Len(t.results) |->
            IF n = 0 THEN t.start[l]
            ELSE IF t.patches[n].at = l /\ t.results[n].status = "Applied"
                 THEN Requested(g[n - 1], t.patches[n].patch)
                 ELSE g[n - 1]]

LEMMA CourseUnique ==
    ASSUME NEW t \in Task, NEW l, NEW g, NEW h, Course(t, l, g), Course(t, l, h)
    PROVE  g[Len(t.results)] = h[Len(t.results)]
<1> DEFINE N == Len(t.results)
           Bad == {n \in 0..N : g[n] # h[n]}
<1>1. N \in Nat
  BY DEF Task
<1>2. SUFFICES ASSUME Bad # {} PROVE FALSE
  BY <1>1
<1>3. PICK n \in Bad : \A m \in Bad : n <= m
  <2> HIDE DEF Bad
  <2>1. Bad \in SUBSET Nat
    BY <1>1 DEF Bad
  <2> QED BY <1>2, <2>1, LeastNumber
<1>4. n \in 0..N /\ g[n] # h[n]
  OBVIOUS
<1>5. /\ g[n] = IF n = 0 THEN t.start[l]
                ELSE IF t.patches[n].at = l /\ t.results[n].status = "Applied"
                     THEN Requested(g[n - 1], t.patches[n].patch) ELSE g[n - 1]
      /\ h[n] = IF n = 0 THEN t.start[l]
                ELSE IF t.patches[n].at = l /\ t.results[n].status = "Applied"
                     THEN Requested(h[n - 1], t.patches[n].patch) ELSE h[n - 1]
  BY <1>4 DEF Course
<1>6. n # 0
  BY <1>4, <1>5
<1>7. n - 1 \in 0..N /\ n - 1 < n
  BY <1>1, <1>4, <1>6
<1>8. n - 1 \notin Bad
  BY <1>1, <1>3, <1>4, <1>7
<1>9. g[n - 1] = h[n - 1]
  BY <1>7, <1>8
<1> QED BY <1>4, <1>5, <1>6, <1>9

PartialAt(t, l) ==
    \E n \in DOMAIN t.results : t.patches[n].at = l /\ t.results[n].status \in Partial

\* Block b is what the results of t say of location l.
Explained(t, l, b) ==
    \E g : Course(t, l, g) /\ (PartialAt(t, l) \/ b = g[Len(t.results)])

Orderly(t) ==
    \A n \in DOMAIN t.results :
       n < Len(t.results) /\ t.policy # "Force" => t.results[n].status = "Applied"

LiveInv ==
    adapter # "memory" =>
       /\ \A c, d \in Callers : Busy(c) /\ Busy(d) => c = d
       /\ \A c \in Callers : Busy(c) =>
             Orderly(job[c]) /\ \A l \in Locations : Explained(job[c], l, world[l])

\* One more answer, and what it left of the block at l.
LEMMA ExplainedNext ==
    ASSUME NEW t \in Task, NEW x \in Result, NEW l, NEW b, NEW left, Explained(t, l, b),
           NEW p, p = t.patches[Len(t.results) + 1],
           p.at # l => left = b,
           p.at = l /\ x.status = "Applied" => left = Requested(b, p.patch),
           p.at = l /\ x.status \notin Partial \cup {"Applied"} => left = b
    PROVE  Explained([t EXCEPT !.results = Append(@, x)], l, left)
<1> DEFINE N == Len(t.results)
           u == [t EXCEPT !.results = Append(@, x)]
<1>1. /\ N \in Nat /\ t.results \in Seq(Result)
      /\ u.start = t.start /\ u.patches = t.patches /\ u.results = Append(t.results, x)
  BY DEF Task
<1>2. /\ Len(u.results) = N + 1 /\ u.results[N + 1] = x
      /\ \A n \in 1..N : u.results[n] = t.results[n]
      /\ DOMAIN u.results = 1..(N + 1) /\ DOMAIN t.results = 1..N
  BY <1>1
<1>3. PICK g : Course(t, l, g) /\ (PartialAt(t, l) \/ b = g[N])
  BY DEF Explained
<1> DEFINE last == IF p.at = l /\ x.status = "Applied" THEN Requested(g[N], p.patch) ELSE g[N]
           h == [n \in 0..(N + 1) |-> IF n = N + 1 THEN last ELSE g[n]]
<1>4. \A n \in 0..N : g[n] = IF n = 0 THEN t.start[l]
                             ELSE IF t.patches[n].at = l /\ t.results[n].status = "Applied"
                                  THEN Requested(g[n - 1], t.patches[n].patch) ELSE g[n - 1]
  BY <1>3 DEF Course
<1>5. Course(u, l, h)
  <2> DEFINE next(n) == IF n = 0 THEN u.start[l]
                        ELSE IF u.patches[n].at = l /\ u.results[n].status = "Applied"
                             THEN Requested(h[n - 1], u.patches[n].patch) ELSE h[n - 1]
  <2>1. ASSUME NEW n \in 0..N PROVE h[n] = next(n)
    <3>1. h[n] = g[n]
      BY <1>1
    <3>2. CASE n = 0
      BY <1>1, <1>4, <3>1, <3>2
    <3>3. CASE n # 0
      <4>1. n \in 1..N /\ n - 1 \in 0..N /\ n - 1 # N + 1 /\ n - 1 \in 0..(N + 1)
        BY <1>1, <3>3
      <4>2. h[n - 1] = g[n - 1]
        BY <4>1
      <4>3. u.results[n] = t.results[n]
        BY <1>2, <4>1
      <4> HIDE DEF h
      <4> QED BY <1>1, <1>4, <3>1, <3>3, <4>2, <4>3
    <3> QED BY <3>2, <3>3
  <2>2. h[N + 1] = next(N + 1)
    <3>1. h[N] = g[N] /\ N + 1 # 0 /\ (N + 1) - 1 = N /\ h[N + 1] = last
      BY <1>1
    <3> HIDE DEF h
    <3> QED BY <1>1, <1>2, <3>1
  <2>3. \A n \in 0..(N + 1) : h[n] = next(n)
    <3>1. \A n \in 0..(N + 1) : n \in 0..N \/ n = N + 1
      BY <1>1
    <3> HIDE DEF h, next
    <3> QED BY <2>1, <2>2, <3>1
  <2>4. h = [n \in 0..(N + 1) |-> next(n)]
    <3> HIDE DEF next, last
    <3>1. h = [n \in 0..(N + 1) |-> h[n]]
      OBVIOUS
    <3> HIDE DEF h
    <3> QED BY <2>3, <3>1
  <2> HIDE DEF h
  <2> QED BY <1>2, <2>4 DEF Course
<1>6. h[N + 1] = last
  BY <1>1
<1>7. CASE PartialAt(t, l)
  <2>1. PICK n \in 1..N : t.patches[n].at = l /\ t.results[n].status \in Partial
    BY <1>2, <1>7 DEF PartialAt
  <2>2. n \in 1..(N + 1) /\ u.results[n] = t.results[n]
    BY <1>1, <1>2
  <2>3. PartialAt(u, l)
    BY <1>1, <1>2, <2>1, <2>2 DEF PartialAt
  <2> QED BY <1>5, <2>3 DEF Explained
<1>8. CASE p.at = l /\ x.status \in Partial
  <2>1. N + 1 \in DOMAIN u.results
    BY <1>1, <1>2
  <2>2. PartialAt(u, l)
    BY <1>1, <1>2, <1>8, <2>1 DEF PartialAt
  <2> QED BY <1>5, <2>2 DEF Explained
<1>9. CASE b = g[N] /\ ~(p.at = l /\ x.status \in Partial)
  <2>1. left = last
    BY <1>9
  <2> HIDE DEF h
  <2> QED BY <1>2, <1>5, <1>6, <2>1 DEF Explained
<1> QED BY <1>3, <1>7, <1>8, <1>9

\* On a live server one commit runs at a time, it has answers up to its first
\* failure, and every block is what they say of the block it found.
LEMMA LiveTask ==
    ASSUME LiveInv, adapter # "memory", NEW c \in Callers, Busy(c)
    PROVE  /\ \A d \in Callers : Busy(d) => d = c
           /\ Orderly(job[c])
           /\ \A l \in Locations : Explained(job[c], l, world[l])
BY DEF LiveInv

LEMMA InitLive == Init => LiveInv
BY DEF Init, LiveInv, Busy, Idle

\* A transaction without results has left everything as it found it.
LEMMA ExplainedStart ==
    ASSUME NEW t \in Task, t.results = <<>>, NEW l
    PROVE  Explained(t, l, t.start[l]) /\ Orderly(t)
<1> DEFINE g == [n \in 0..Len(t.results) |-> t.start[l]]
<1>1. Len(t.results) = 0
  OBVIOUS
<1>2. \A n \in 0..Len(t.results) : n = 0
  BY <1>1
<1>3. Course(t, l, g)
  BY <1>2 DEF Course
<1>4. g[Len(t.results)] = t.start[l]
  BY <1>1
<1>5. DOMAIN t.results = {}
  OBVIOUS
<1> HIDE DEF g
<1> QED BY <1>3, <1>4, <1>5 DEF Explained, Orderly

LEMMA BeginLive ==
    ASSUME Inv, LiveInv, adapter # "memory",
           NEW c \in Callers, NEW t \in Transactions, Begin(c, t), Inv'
    PROVE  LiveInv'
<1> DEFINE new == [patches |-> t.patches, policy |-> t.policy, results |-> <<>>,
                   start |-> world]
<1>1. job' = [job EXCEPT ![c] = new] /\ world' = world
  BY DEF Begin
<1>2. job \in [Callers -> Task] /\ job' \in [Callers -> Task]
  BY DEF Inv
<1>3. job'[c] = new
  BY <1>1, <1>2
<1>4. \A d \in Callers : d # c => job'[d].patches = <<>>
  <2>1. \A d \in Callers : d # c => job[d].patches = <<>>
    BY DEF Begin, ThreadFree, Busy
  <2> QED BY <1>1, <1>2, <2>1
<1>5. new \in Task
  BY <1>2, <1>3
<1>6. Orderly(new) /\ \A l \in Locations : Explained(new, l, world[l])
  BY <1>5, ExplainedStart
<1> QED BY <1>1, <1>3, <1>4, <1>6 DEF LiveInv, Busy

LEMMA ApplyLive ==
    ASSUME Inv, LiveInv, adapter # "memory", NEW c \in Callers, ApplyNext(c)
    PROVE  LiveInv'
<1>1. Busy(c) /\ ~Done(c) /\ adapter' = adapter
  BY DEF ApplyNext
<1>2. PICK l, expected, o :
         /\ l \in Locations /\ expected \in Revision
         /\ l = job[c].patches[Len(job[c].results) + 1].at
         /\ world' = [world EXCEPT ![l] = o.block]
         /\ job' = [job EXCEPT ![c].results = Append(@,
               [status |-> o.status, revision |-> o.revision, expected |-> expected])]
         /\ Sound(adapter, world[l], reach[l], o)
         /\ Told(world[l], job[c].patches[Len(job[c].results) + 1].patch, o)
  BY ApplyNextSound
<1> DEFINE t == job[c]
           x == [status |-> o.status, revision |-> o.revision, expected |-> expected]
           u == [t EXCEPT !.results = Append(@, x)]
           p == t.patches[Len(t.results) + 1]
<1>3. t \in Task /\ job \in [Callers -> Task] /\ world \in [Locations -> Block]
  BY DEF Inv, TypeOK
<1>4. x \in Result
  BY <1>2 DEF Sound, Result
<1>5. job'[c] = u /\ \A d \in Callers : d # c => job'[d] = job[d]
  BY <1>2, <1>3
<1>6. /\ \A d \in Callers : Busy(d) => d = c
      /\ Orderly(t) /\ \A k \in Locations : Explained(t, k, world[k])
  BY <1>1, LiveTask
<1>7. \A d, e \in Callers : Busy(d)' /\ Busy(e)' => d = e
  BY <1>5, <1>6 DEF Busy
<1>8. Orderly(u)
  <2>1. /\ Len(t.results) \in Nat /\ t.results \in Seq(Result)
        /\ u.results = Append(t.results, x) /\ u.policy = t.policy
    BY <1>3 DEF Task
  <2>2. /\ Len(u.results) = Len(t.results) + 1 /\ DOMAIN u.results = 1..(Len(t.results) + 1)
        /\ DOMAIN t.results = 1..Len(t.results)
        /\ \A n \in 1..Len(t.results) : u.results[n] = t.results[n]
    BY <2>1, <1>4
  <2>3. ASSUME NEW n \in DOMAIN u.results, n < Len(u.results), u.policy # "Force"
        PROVE  u.results[n].status = "Applied"
    <3>1. n \in 1..Len(t.results) /\ u.results[n] = t.results[n]
      BY <2>1, <2>2, <2>3
    <3>2. CASE n < Len(t.results)
      BY <1>6, <2>1, <2>2, <2>3, <3>1, <3>2 DEF Orderly
    <3>3. CASE n = Len(t.results)
      <4>1. t.results # <<>>
        BY <2>1, <3>1, <3>3
      <4> QED BY <1>1, <2>1, <2>3, <3>1, <3>3, <4>1 DEF Done, Stops
    <3> QED BY <2>1, <3>1, <3>2, <3>3
  <2> QED BY <2>3 DEF Orderly
<1>9. ASSUME NEW k \in Locations PROVE Explained(u, k, world'[k])
  <2>1. p.at = l /\ Explained(t, k, world[k])
    BY <1>2, <1>6
  <2>2. CASE k = l
    <3>1. world'[k] = o.block
      BY <1>2, <1>3, <2>2
    <3>2. /\ x.status = "Applied" => o.block = Requested(world[k], p.patch)
          /\ x.status \notin Partial \cup {"Applied"} => o.block = world[k]
      BY <1>2, <2>2 DEF Told
    <3> HIDE DEF t, x, p
    <3>3. Explained([t EXCEPT !.results = Append(@, x)], k, o.block)
      BY <1>3, <1>4, <2>1, <2>2, <3>2, ExplainedNext DEF p
    <3> QED BY <3>1, <3>3
  <2>3. CASE k # l
    <3>1. world'[k] = world[k]
      BY <1>2, <1>3, <2>3
    <3> HIDE DEF t, x, p
    <3>2. Explained([t EXCEPT !.results = Append(@, x)], k, world[k])
      BY <1>3, <1>4, <2>1, <2>3, ExplainedNext DEF p
    <3> QED BY <3>1, <3>2
  <2> QED BY <2>2, <2>3
<1>10. \A d \in Callers : Busy(d)' => d = c
  BY <1>5, <1>6 DEF Busy
<1> HIDE DEF u
<1> QED BY <1>5, <1>7, <1>8, <1>9, <1>10 DEF LiveInv

LEMMA NextLive == Inv /\ LiveInv /\ [Next]_vars => LiveInv'
<1> SUFFICES ASSUME Inv, LiveInv, [Next]_vars PROVE LiveInv'
  OBVIOUS
<1>1. adapter' = adapter /\ Inv'
  BY NextInv DEF Next, vars, Capture, Begin, ApplyNext, Finish, Edit, Reachable
<1>2. CASE adapter = "memory"
  BY <1>1, <1>2 DEF LiveInv
<1>3. CASE adapter # "memory"
  <2>1. ASSUME UNCHANGED <<world, job>> PROVE LiveInv'
    BY <1>1, <2>1 DEF LiveInv, Busy
  <2>2. ASSUME NEW c \in Callers, Finish(c) PROVE LiveInv'
    <3>1. job \in [Callers -> Task]
      BY DEF Inv
    <3>2. world' = world /\ \A d \in Callers : job'[d] = IF d = c THEN Idle ELSE job[d]
      BY <2>2, <3>1 DEF Finish
    <3>3. \A d \in Callers : Busy(d)' => d # c /\ Busy(d) /\ job'[d] = job[d]
      BY <3>2 DEF Busy, Idle
    <3> QED BY <1>1, <3>2, <3>3 DEF LiveInv
  <2>3. ASSUME NEW l \in Disturbed, Edit(l) PROVE LiveInv'
    <3>1. job' = job /\ \A c \in Callers : ~Busy(c)
      BY <1>3, <2>3 DEF Edit, NobodyWrites
    <3> QED BY <3>1 DEF LiveInv, Busy
  <2> QED BY <1>1, <1>3, <2>1, <2>2, <2>3, BeginLive, ApplyLive
      DEF Next, vars, Capture, Reachable
<1> QED BY <1>2, <1>3

LEMMA LivePrefix == Inv /\ LiveInv => CommitWritesPrefix
<1> SUFFICES ASSUME Inv, LiveInv, adapter # "memory", NEW c \in Callers, Busy(c)
             PROVE  /\ \A l \in Locations : MayBePartial(c, l) \/ world[l] = AfterApplied(c, l)
                    /\ \A n \in DOMAIN job[c].results :
                          n < Len(job[c].results) /\ job[c].policy # "Force"
                             => job[c].results[n].status = "Applied"
  BY DEF CommitWritesPrefix
<1>1. job[c] \in Task
  BY DEF Inv
<1>2. Orderly(job[c]) /\ \A l \in Locations : Explained(job[c], l, world[l])
  BY LiveTask
<1>3. ASSUME NEW l \in Locations, ~MayBePartial(c, l)
      PROVE  world[l] = AfterApplied(c, l)
  <2> DEFINE h == CHOOSE g : Course(job[c], l, g)
  <2>1. PICK g : Course(job[c], l, g) /\ (PartialAt(job[c], l) \/ world[l] = g[Len(job[c].results)])
    BY <1>2 DEF Explained
  <2>2. ~PartialAt(job[c], l)
    BY <1>3 DEF MayBePartial, PartialAt
  <2>3. Course(job[c], l, h)
    BY <2>1
  <2>4. world[l] = h[Len(job[c].results)]
    <3> HIDE DEF h
    <3> QED BY <1>1, <2>1, <2>2, <2>3, CourseUnique
  <2>5. AfterApplied(c, l) = h[Len(job[c].results)]
    BY DEF AfterApplied, Course
  <2> HIDE DEF h
  <2> QED BY <2>4, <2>5
<1> QED BY <1>2, <1>3 DEF Orderly

\* A live BlockTransaction leaves exactly the patches it answered Applied,
\* each whole, on every block without an AdapterError or an exception.
THEOREM CommitLeavesAnswered == Spec => []CommitWritesPrefix
<1>1. Inv /\ LiveInv /\ [Next]_vars => (Inv /\ LiveInv)'
  BY NextInv, NextLive
<1> QED BY InitInv, InitLive, <1>1, LivePrefix, PTL DEF Spec
-----------------------------------------------------------------------------
\* Products are monotone, and no smaller than a factor.
LEMMA ProductMonotone ==
    ASSUME NEW a \in Nat, NEW b \in Nat, NEW n \in Nat, a <= b
    PROVE  a * n <= b * n
OBVIOUS

LEMMA ProductOfPositive ==
    ASSUME NEW a \in Nat \ {0}, NEW b \in Nat \ {0}
    PROVE  a * b \in Nat \ {0} /\ a <= a * b /\ b <= a * b
<1>1. a * b \in Nat /\ a * b = b * a
  OBVIOUS
<1>2. 1 * a <= b * a /\ 1 * b <= a * b
  BY ProductMonotone
<1> QED BY <1>1, <1>2

LEMMA ExtentType ==
    ASSUME NEW half \in Nat, NEW a \in -half..(half - 1), NEW b \in -half..(half - 1)
    PROVE  /\ Lower(a, b) \in Int /\ Upper(a, b) \in Int /\ Lower(a, b) <= Upper(a, b)
           /\ Extent(a, b) \in Nat \ {0} /\ Extent(a, b) <= 2 * half
BY DEF Lower, Upper, Extent

\* The comparisons of the extents keep every product small, and with them
\* the test is the plain one.
LEMMA VolumeTest ==
    ASSUME NEW w \in Nat \ {0}, NEW h \in Nat \ {0}, NEW d \in Nat \ {0}
    PROVE  /\ \A n \in Computed(w, h, d) :
                 n \in {w, h, d} \/ n <= MaxCaptureRegionBlocks * MaxCaptureRegionBlocks
           /\ TooLarge(w, h, d) <=> w * h * d > MaxCaptureRegionBlocks
<1> DEFINE M == MaxCaptureRegionBlocks
           area == w * h
           volume == area * d
<1>1. M \in Nat
  BY RegionAssumption DEF RegionAssumption
<1>2. area \in Nat \ {0} /\ w <= area /\ h <= area
  BY ProductOfPositive
<1>3. volume \in Nat \ {0} /\ area <= volume /\ d <= volume
  BY <1>2, ProductOfPositive
<1>4. ASSUME NEW a \in Nat, NEW b \in Nat, a <= M, b <= M PROVE a * b <= M * M
  <2>1. a * b <= M * b /\ b * M <= M * M
    BY <1>1, <1>4, ProductMonotone
  <2>2. M * b = b * M /\ a * b \in Nat /\ M * b \in Nat /\ M * M \in Nat
    BY <1>1
  <2> HIDE DEF M
  <2> QED BY <2>1, <2>2
<1>5. ~TooLong(w, h, d) => w <= M /\ h <= M /\ d <= M
  BY <1>1 DEF TooLong
<1>6. ~TooLong(w, h, d) => area <= M * M
  BY <1>4, <1>5
<1>7. ~TooLong(w, h, d) /\ ~(area > M) => volume <= M * M
  <2> SUFFICES ASSUME ~TooLong(w, h, d), ~(area > M) PROVE volume <= M * M
    OBVIOUS
  <2>1. area \in Nat /\ area <= M /\ d <= M
    BY <1>1, <1>2, <1>5
  <2> HIDE DEF area
  <2> QED BY <1>4, <2>1
<1>8. Computed(w, h, d) = {w, h, d} \cup (IF TooLong(w, h, d) THEN {} ELSE {area})
                              \cup (IF TooLong(w, h, d) \/ area > M THEN {} ELSE {volume})
  BY DEF Computed
<1>9. TooLarge(w, h, d) <=> TooLong(w, h, d) \/ area > M \/ volume > M
  BY DEF TooLarge
<1>10. w * h * d = volume
  OBVIOUS
<1> HIDE DEF area, volume, M
<1>11. \A n \in Computed(w, h, d) : n \in {w, h, d} \/ n <= M * M
  BY <1>6, <1>7, <1>8
<1>12. TooLong(w, h, d) => volume > M
  <2>1. TooLong(w, h, d) => w > M \/ h > M \/ d > M
    BY DEF TooLong, M
  <2> QED BY <1>1, <1>2, <1>3, <2>1
<1>13. TooLarge(w, h, d) <=> volume > M
  BY <1>1, <1>2, <1>3, <1>9, <1>12
<1> QED BY <1>10, <1>11, <1>13 DEF M

\* captureRegion refuses exactly the regions of more than the permitted
\* number of blocks, for all corners and in any order of the two, and computes
\* nothing larger than the longest extent and the square of that number: with
\* 32-bit coordinates and 32768 blocks, 2^32 and 2^30 in 64 bits.
THEOREM RegionsAreMeasured ==
    ASSUME NEW half \in Nat,
           NEW x1 \in -half..(half - 1), NEW x2 \in -half..(half - 1),
           NEW y1 \in -half..(half - 1), NEW y2 \in -half..(half - 1),
           NEW z1 \in -half..(half - 1), NEW z2 \in -half..(half - 1)
    PROVE  LET width  == Extent(x1, x2)
               height == Extent(y1, y2)
               depth  == Extent(z1, z2)
           IN  /\ \A n \in Computed(width, height, depth) :
                     n <= 2 * half \/ n <= MaxCaptureRegionBlocks * MaxCaptureRegionBlocks
               /\ TooLarge(width, height, depth)
                     <=> Cardinality(Blocks(x1, x2, y1, y2, z1, z2)) > MaxCaptureRegionBlocks
<1> DEFINE w == Extent(x1, x2)
           h == Extent(y1, y2)
           d == Extent(z1, z2)
           X == Lower(x1, x2)..Upper(x1, x2)
           Y == Lower(y1, y2)..Upper(y1, y2)
           Z == Lower(z1, z2)..Upper(z1, z2)
<1>1. /\ w \in Nat \ {0} /\ h \in Nat \ {0} /\ d \in Nat \ {0}
      /\ w <= 2 * half /\ h <= 2 * half /\ d <= 2 * half
  BY ExtentType
<1>2. ASSUME NEW a \in -half..(half - 1), NEW b \in -half..(half - 1)
      PROVE  /\ IsFiniteSet(Lower(a, b)..Upper(a, b))
             /\ Cardinality(Lower(a, b)..Upper(a, b)) = Extent(a, b)
  <2>1. /\ Lower(a, b) \in Int /\ Upper(a, b) \in Int /\ Lower(a, b) <= Upper(a, b)
    BY ExtentType
  <2> QED BY <2>1, FS_Interval DEF Extent
<1>3. /\ IsFiniteSet(X) /\ Cardinality(X) = w
      /\ IsFiniteSet(Y) /\ Cardinality(Y) = h
      /\ IsFiniteSet(Z) /\ Cardinality(Z) = d
  BY <1>2
<1>4. Cardinality(Blocks(x1, x2, y1, y2, z1, z2)) = w * h * d
  <2>1. Blocks(x1, x2, y1, y2, z1, z2) = (X \X Y) \X Z
    BY DEF Blocks
  <2> HIDE DEF X, Y, Z, w, h, d
  <2>2. IsFiniteSet(X \X Y) /\ Cardinality(X \X Y) = w * h
    BY <1>3, FS_Product
  <2>3. Cardinality((X \X Y) \X Z) = (w * h) * d
    BY <1>3, <2>2, FS_Product
  <2> QED BY <2>1, <2>3
<1> HIDE DEF w, h, d
<1>5. /\ \A n \in Computed(w, h, d) :
            n \in {w, h, d} \/ n <= MaxCaptureRegionBlocks * MaxCaptureRegionBlocks
      /\ TooLarge(w, h, d) <=> w * h * d > MaxCaptureRegionBlocks
  BY <1>1, VolumeTest
<1> QED BY <1>1, <1>4, <1>5 DEF w, h, d
=============================================================================
