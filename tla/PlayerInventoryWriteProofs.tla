--------------------- MODULE PlayerInventoryWriteProofs ---------------------
(***************************************************************************)
(* Proofs about PlayerInventoryWrite, for any capacities, items, patches   *)
(* and bounds.                                                             *)
(***************************************************************************)
EXTENDS PlayerInventoryWrite, FiniteSetTheorems, TLAPS

\* What the checks established about the patch that is being carried out.
Checked ==
    before # NoInventory =>
       /\ Served
       /\ Feasible(request.patch)
       /\ ~ContainsStorageItemWrite(request.patch)
       /\ final = Overlay(request.patch, before)
       /\ \/ request.policy = "Force"
          \/ request.expected = NoRevision
          \/ request.expected = Revision(before, held)

\* How far the setter calls have come.
Progress ==
    before # NoInventory =>
       /\ \A c \in Cells \ (Updates(request.patch) \cup request.patch.removals) :
             inventory[c] = before[c]
       /\ \A w \in pending : inventory[w[2]] = before[w[2]]
       /\ \A w \in Writes(request.patch) \ pending : inventory[w[2]] = final[w[2]]
       /\ \A v \in Writes(request.patch) \ pending, w \in pending : ~Earlier(w, v)
       /\ phase = "returned" /\ reply.status = "Applied" => pending = {}

\* Applied is answered only after a write.
Answered ==
    phase = "returned" /\ reply.status = "Applied" => before # NoInventory

IInv == TypeOK /\ Checked /\ Progress /\ Answered

-----------------------------------------------------------------------------
LEMMA RevisionType ==
    ASSUME NEW stacks \in Stacks, NEW slot \in HeldSlots
    PROVE  Revision(stacks, slot) \in Revisions
<1>1. \A c \in Cells : Shown(stacks[c]) \in Item \cup {Empty}
    BY InventoryAssumption DEF Shown, Stacks, Stack, Item
<1>. QED  BY <1>1 DEF Revision, Revisions

\* A parsed value is an item slot, and shows what the update says.
LEMMA ParsedShows ==
    ASSUME NEW value \in Item \cup {Empty}, NEW existing \in Stack \cup {Empty}
    PROVE  /\ Parsed(value, existing) \in Stack \cup {Empty}
           /\ Shown(Parsed(value, existing)) = value
<1>1. CASE value = Empty
    BY <1>1 DEF Parsed, Shown
<1>2. CASE value # Empty
    <2>1. value \in Item
        BY <1>2
    <2>2. Parsed(value, existing) \in Stack
        BY <1>2, <2>1, InventoryAssumption DEF Parsed, Item, Stack
    <2>3. Parsed(value, existing) # Empty
        BY <2>2, InventoryAssumption
    <2>4. /\ Parsed(value, existing).type = value.type
          /\ Parsed(value, existing).tag = value.tag
        BY <1>2 DEF Parsed
    <2>5. [type |-> value.type, tag |-> value.tag] = value
        BY <2>1 DEF Item
    <2>. QED  BY <2>2, <2>3, <2>4, <2>5 DEF Shown
<1>. QED  BY <1>1, <1>2

LEMMA OverlayType ==
    ASSUME NEW patch, NEW stacks \in Stacks, Feasible(patch)
    PROVE  Overlay(patch, stacks) \in Stacks
<1>1. \A c \in Updates(patch) \cap Cells :
         Parsed(patch.updates[c], stacks[c]) \in Stack \cup {Empty}
    BY ParsedShows DEF Feasible, Stacks
<1>. QED  BY <1>1 DEF Overlay, Stacks

\* The two checks accept nothing that cannot be carried out.
LEMMA ChecksSuffice ==
    ASSUME NEW patch, ~ServiceRejects(patch), ~AdapterRejects(patch)
    PROVE  Feasible(patch)
BY DEF ServiceRejects, AdapterRejects, Feasible

LEMMA BadNbtIsNotEmpty == BadNbt # Empty
<1>. SUFFICES ASSUME BadNbt = Empty PROVE FALSE
    OBVIOUS
<1>1. IsFiniteSet({Empty}) /\ Cardinality({Empty}) = 1
    BY FS_Singleton
<1>2. IsFiniteSet({Empty} \cup {NotAnItem}) /\ Cardinality({Empty} \cup {NotAnItem}) <= 2
    BY <1>1, FS_AddElement
<1>3. Cardinality(({Empty} \cup {NotAnItem}) \cup {NoUpdate}) <= 3
    <2>. DEFINE S == {Empty} \cup {NotAnItem}
    <2>1. IsFiniteSet(S) /\ Cardinality(S) <= 2 /\ Cardinality(S) \in Nat
        BY <1>2, FS_CardinalityType
    <2>2. Cardinality(S \cup {NoUpdate}) \in {Cardinality(S), Cardinality(S) + 1}
        BY <2>1, FS_AddElement
    <2>. HIDE DEF S
    <2>3. Cardinality(S \cup {NoUpdate}) <= 3
        BY <2>1, <2>2
    <2>. QED  BY <2>3 DEF S
<1>4. {Empty, NotAnItem, BadNbt, NoUpdate} = ({Empty} \cup {NotAnItem}) \cup {NoUpdate}
    OBVIOUS
<1>. QED  BY <1>3, <1>4, InventoryAssumption

\* And they reject nothing that could be.
LEMMA ChecksNeeded ==
    ASSUME NEW patch, ServiceRejects(patch) \/ AdapterRejects(patch)
    PROVE  ~Feasible(patch)
<1>1. ASSUME NEW p \in Cells
      PROVE  p[2] \in Int /\ 0 <= p[2] /\ (p[1] = "offhand" => p[2] = 0)
    <2>1. PICK s \in Sections : p \in {<<s, n>> : n \in 0..(Capacity[s] - 1)}
        BY DEF Cells
    <2>2. PICK n \in 0..(Capacity[s] - 1) : p = <<s, n>>
        BY <2>1
    <2>3. Capacity[s] \in Nat /\ n \in Int /\ 0 <= n /\ n < Capacity[s]
        BY <2>2, InventoryAssumption
    <2>. QED  BY <2>2, <2>3, InventoryAssumption
<1>2. BadNbt \notin Item \cup {Empty}
    BY InventoryAssumption, BadNbtIsNotEmpty
<1>3. CASE AdapterRejects(patch)
    BY <1>3 DEF AdapterRejects, Feasible
<1>4. CASE ServiceRejects(patch)
    <2>. SUFFICES ASSUME Feasible(patch) PROVE FALSE
        OBVIOUS
    <2>1. CASE \E p \in Updates(patch) \cup patch.removals :
                  p[2] < 0 \/ (p[1] = "offhand" /\ p[2] # 0)
        <3>1. PICK p \in Cells : p[2] < 0 \/ (p[1] = "offhand" /\ p[2] # 0)
            BY <2>1 DEF Feasible
        <3>. QED  BY <1>1, <3>1
    <2>2. CASE Updates(patch) \cap patch.removals # {}
        BY <2>2 DEF Feasible
    <2>3. CASE \E p \in Updates(patch) : patch.updates[p] = BadNbt
        BY <1>2, <2>3 DEF Feasible
    <2>. QED  BY <1>4, <2>1, <2>2, <2>3 DEF ServiceRejects
<1>. QED  BY <1>3, <1>4

\* A patch shows as what it says over what was shown.
LEMMA OverlayShows ==
    ASSUME NEW patch, Feasible(patch), NEW stacks \in Stacks, NEW c \in Cells
    PROVE  Shown(Overlay(patch, stacks)[c]) =
              Requested(patch, [d \in Cells |-> Shown(stacks[d])])[c]
<1>1. CASE c \in Updates(patch)
    <2>1. patch.updates[c] \in Item \cup {Empty} /\ stacks[c] \in Stack \cup {Empty}
        BY <1>1 DEF Feasible, Stacks
    <2>2. Shown(Parsed(patch.updates[c], stacks[c])) = patch.updates[c]
        BY <2>1, ParsedShows
    <2>. QED  BY <1>1, <2>2 DEF Overlay, Requested
<1>2. CASE c \notin Updates(patch)
    BY <1>2 DEF Overlay, Requested, Shown
<1>. QED  BY <1>1, <1>2

\* Two setter calls are for two slots.
LEMMA WritesApart ==
    ASSUME NEW patch, Feasible(patch),
           NEW v \in Writes(patch), NEW w \in Writes(patch), v # w
    PROVE  v[2] # w[2] /\ v[2] \in Cells
BY DEF Writes, Feasible

LEMMA WritesTouch ==
    ASSUME NEW patch, NEW w \in Writes(patch)
    PROVE  w[2] \in Updates(patch) \cup patch.removals
BY DEF Writes

LEMMA TouchedIsWritten ==
    ASSUME NEW patch, NEW c \in Updates(patch) \cup patch.removals
    PROVE  \E w \in Writes(patch) : w[2] = c
<1>1. CASE c \in Updates(patch)
    <2>1. <<"update", c>> \in Writes(patch)
        BY <1>1 DEF Writes
    <2>. QED  BY <2>1
<1>2. CASE c \in patch.removals
    <2>1. <<"removal", c>> \in Writes(patch)
        BY <1>2 DEF Writes
    <2>. QED  BY <2>1
<1>. QED  BY <1>1, <1>2

-----------------------------------------------------------------------------
LEMMA InitIInv == Init => IInv
BY InventoryAssumption DEF Init, IInv, TypeOK, Checked, Progress, Answered, Stacks

LEMMA CallRequest ==
    ASSUME TypeOK, Call
    PROVE  request' \in Request
<1>1. PICK U \in SUBSET Places, R \in SUBSET Places,
           expected \in {NoRevision, snapshot}, policy \in Policies :
           \E updates \in [U -> Offered] :
              request' = [patch    |-> PatchOf(updates, R),
                          expected |-> expected,
                          policy   |-> policy]
    BY DEF Call
<1>2. PICK updates \in [U -> Offered] :
           request' = [patch    |-> PatchOf(updates, R),
                       expected |-> expected,
                       policy   |-> policy]
    BY <1>1
<1>3. PatchOf(updates, R) \in Patch
    BY InventoryAssumption DEF PatchOf, Patch
<1>. QED  BY <1>2, <1>3 DEF Request, TypeOK

LEMMA ParseStep ==
    ASSUME IInv, Parse
    PROVE  IInv'
<1>. USE DEF IInv
<1>1. Feasible(request.patch) /\ ~ContainsStorageItemWrite(request.patch)
    BY ChecksSuffice DEF Parse, Current, Accepted
<1>2. inventory \in Stacks /\ Overlay(request.patch, inventory) \in Stacks
    BY <1>1, OverlayType DEF TypeOK
<1>3. NoInventory \notin Stacks
    BY InventoryAssumption DEF Stacks
<1>4. TypeOK'
    BY <1>2, <1>3 DEF Parse, TypeOK, world
<1>5. Checked'
    BY <1>1 DEF Parse, Current, Accepted, Served, Stale, Checked, world, Revision, Feasible,
               ContainsStorageItemWrite, Overlay, Updates
<1>6. Progress'
    BY DEF Parse, Progress, world, Writes, Updates
<1>7. Answered'
    BY DEF Parse, Answered
<1>. QED  BY <1>4, <1>5, <1>6, <1>7

\* The effect of one setter call, made or about to raise.
LEMMA SetStep ==
    ASSUME IInv, phase = "write", NEW w \in pending, Reached(w), Set(w),
           pending' = pending \ {w},
           UNCHANGED <<request, before, final>>
    PROVE  /\ inventory' \in Stacks
           /\ \A c \in Cells \ (Updates(request.patch) \cup request.patch.removals) :
                 inventory'[c] = before[c]
           /\ \A v \in pending' : inventory'[v[2]] = before[v[2]]
           /\ \A v \in Writes(request.patch) \ pending' : inventory'[v[2]] = final[v[2]]
           /\ \A v \in Writes(request.patch) \ pending', u \in pending' : ~Earlier(u, v)
<1>1. /\ before # NoInventory
      /\ inventory \in Stacks /\ final \in Stacks
      /\ pending \subseteq Writes(request.patch)
    BY InventoryAssumption DEF IInv, TypeOK, Stacks
<1>2. Feasible(request.patch)
    BY <1>1 DEF IInv, Checked
<1>3. w \in Writes(request.patch)
    BY <1>1
<1>4. w[2] \in Cells
    BY <1>2, <1>3, WritesTouch DEF Feasible
<1>5. inventory' = [inventory EXCEPT ![w[2]] = final[w[2]]]
    BY DEF Set
<1>6. /\ inventory'[w[2]] = final[w[2]]
      /\ \A c \in Cells : c # w[2] => inventory'[c] = inventory[c]
    BY <1>1, <1>4, <1>5 DEF Stacks
<1>7. inventory' \in Stacks
    BY <1>1, <1>4, <1>5 DEF Stacks
<1>8. \A v \in Writes(request.patch) :
         v # w => v[2] \in Cells /\ inventory'[v[2]] = inventory[v[2]]
    BY <1>2, <1>3, <1>6, WritesApart
<1>9. \A c \in Cells \ (Updates(request.patch) \cup request.patch.removals) :
         inventory'[c] = before[c]
    BY <1>1, <1>3, <1>6, WritesTouch DEF IInv, Progress
<1>10. \A v \in pending' : inventory'[v[2]] = before[v[2]]
    BY <1>1, <1>8 DEF IInv, Progress
<1>11. \A v \in Writes(request.patch) \ pending' : inventory'[v[2]] = final[v[2]]
    BY <1>1, <1>6, <1>8 DEF IInv, Progress
<1>12. \A v \in Writes(request.patch) \ pending', u \in pending' : ~Earlier(u, v)
    BY <1>1 DEF IInv, Progress, Reached
<1>. QED  BY <1>7, <1>9, <1>10, <1>11, <1>12

LEMMA SettingStep ==
    ASSUME IInv, Setting
    PROVE  IInv'
<1>. USE DEF IInv
<1>1. PICK w \in pending : Write(w) \/ SetterThrows(w)
    BY DEF Setting
<1>2. phase = "write" /\ before # NoInventory /\ before \in Stacks
    BY <1>1, InventoryAssumption DEF Write, SetterThrows, TypeOK, Stacks
<1>3. Revision(before, held) \in Revisions
    BY <1>2, RevisionType DEF TypeOK
<1>4. CASE Write(w)
    <2>1. TypeOK'
        BY <1>2, <1>4, SetStep DEF Write, TypeOK
    <2>2. Checked'
        BY <1>4 DEF Write, Checked, Served, Feasible, ContainsStorageItemWrite, Overlay,
                    Updates, Revision
    <2>3. Progress'
        BY <1>2, <1>4, SetStep DEF Write, Progress, Updates, Writes
    <2>4. Answered'
        BY <1>2, <1>4 DEF Write, Answered
    <2>. QED  BY <2>1, <2>2, <2>3, <2>4
<1>5. CASE SetterThrows(w)
    <2>1. reply' = [status |-> "AdapterError", revision |-> Revision(before, held)]
          /\ phase' = "returned"
        BY <1>5 DEF SetterThrows, Return
    <2>2. Checked'
        BY <1>5 DEF SetterThrows, Checked, Served, Feasible, ContainsStorageItemWrite,
                    Overlay, Updates, Revision
    <2>3. Answered'
        BY <2>1 DEF Answered
    <2>4. CASE Set(w) /\ pending' = pending \ {w}
        <3>1. TypeOK'
            BY <1>2, <1>3, <1>5, <2>1, <2>4, SetStep
               DEF SetterThrows, TypeOK, ApplyStatus, Reply
        <3>2. Progress'
            BY <1>2, <1>5, <2>1, <2>4, SetStep
               DEF SetterThrows, Progress, Updates, Writes
        <3>. QED  BY <2>2, <2>3, <3>1, <3>2
    <2>5. CASE UNCHANGED <<inventory, pending>>
        <3>1. TypeOK'
            BY <1>2, <1>3, <1>5, <2>1, <2>5 DEF SetterThrows, TypeOK, ApplyStatus, Reply
        <3>2. Progress'
            BY <1>2, <1>5, <2>1, <2>5 DEF SetterThrows, Progress, Updates, Writes
        <3>. QED  BY <2>2, <2>3, <3>1, <3>2
    <2>. QED  BY <1>5, <2>4, <2>5 DEF SetterThrows
<1>. QED  BY <1>1, <1>4, <1>5

LEMMA RefusedStep ==
    ASSUME IInv, Refused
    PROVE  IInv'
<1>. USE DEF IInv
<1>1. Revision(inventory, held) \in Revisions
    BY RevisionType DEF TypeOK
<1>2. PICK status \in ApplyStatus \ {"Applied"}, revision \in Revisions \cup {NoRevision} :
         Refuse(status, revision)
    BY <1>1 DEF Refused, RefusePolicy, RefuseByService, Unavailable, Conflict,
                PlayerGone, RefuseStorage, RefuseByAdapter, ApplyStatus
<1>3. /\ phase = "called" /\ phase' = "returned"
      /\ reply' = [status |-> status, revision |-> revision]
      /\ UNCHANGED <<world, request, before, final, pending>>
    BY <1>2 DEF Refused, Refuse, Return
<1>4. before = NoInventory /\ before' = NoInventory
    BY <1>3 DEF TypeOK
<1>5. TypeOK'
    BY <1>2, <1>3, <1>4 DEF TypeOK, world, Reply
<1>. QED  BY <1>2, <1>3, <1>4, <1>5 DEF Checked, Progress, Answered

LEMMA AppliedStep ==
    ASSUME IInv, Applied
    PROVE  IInv'
<1>. USE DEF IInv
<1>1. Revision(inventory, held) \in Revisions
    BY RevisionType DEF TypeOK
<1>2. /\ phase = "write" /\ phase' = "returned" /\ pending = {}
      /\ reply' \in Reply
      /\ UNCHANGED <<world, request, before, final, pending>>
    BY <1>1 DEF Applied, Return, ApplyStatus, Reply
<1>3. TypeOK'
    BY <1>2, InventoryAssumption DEF TypeOK, world, Stacks
<1>4. Checked'
    BY <1>2 DEF world, Checked, Served, Feasible, ContainsStorageItemWrite, Overlay,
                Updates, Revision
<1>5. Progress'
    BY <1>2 DEF world, Progress, Updates, Writes
<1>6. Answered'
    BY <1>2, InventoryAssumption DEF TypeOK, Stacks, Answered
<1>. QED  BY <1>3, <1>4, <1>5, <1>6

\* Steps outside a write: the player, the capture, the call and its end.
LEMMA OutsideStep ==
    ASSUME IInv, Plays \/ Capture \/ Call \/ Collect
    PROVE  IInv'
<1>. USE DEF IInv
<1>1. CASE Plays
    <2>1. inventory' \in Stacks /\ held' \in HeldSlots
        BY <1>1, InventoryAssumption DEF Plays, TypeOK, Stacks
    <2>2. edits' \in 0..MaxEdits
        BY <1>1, InventoryAssumption DEF Plays, TypeOK
    <2>3. TypeOK' /\ before' = NoInventory
        BY <1>1, <2>1, <2>2 DEF Plays, local, TypeOK
    <2>. QED  BY <1>1, <2>3 DEF Plays, Checked, Progress, Answered
<1>2. CASE Capture
    <2>1. Revision(inventory, held) \in Revisions
        BY RevisionType DEF TypeOK
    <2>2. TypeOK' /\ before' = NoInventory
        BY <1>2, <2>1, InventoryAssumption DEF Capture, local, TypeOK
    <2>. QED  BY <1>2, <2>2 DEF Capture, Checked, Progress, Answered
<1>3. CASE Call
    <2>1. request' \in Request
        BY <1>3, CallRequest
    <2>2. TypeOK' /\ before' = NoInventory
        BY <1>3, <2>1 DEF Call, world, TypeOK
    <2>. QED  BY <1>3, <2>2 DEF Call, Checked, Progress, Answered
<1>4. CASE Collect
    <2>1. TypeOK' /\ before' = NoInventory
        BY <1>4, InventoryAssumption DEF Collect, TypeOK
    <2>. QED  BY <1>4, <2>1 DEF Collect, Checked, Progress, Answered
<1>. QED  BY <1>1, <1>2, <1>3, <1>4

LEMMA NextIInv == IInv /\ [Next]_vars => IInv'
<1>. SUFFICES ASSUME IInv, [Next]_vars PROVE IInv'
    OBVIOUS
<1>1. CASE Next
    BY <1>1, OutsideStep, RefusedStep, ParseStep, SettingStep, AppliedStep DEF Next
<1>2. CASE UNCHANGED vars
    BY <1>2 DEF vars, IInv, TypeOK, Checked, Progress, Answered, Served, Feasible, Overlay, Updates,
                ContainsStorageItemWrite, Revision, Writes
<1>. QED  BY <1>1, <1>2

LEMMA Invariant == Spec => []IInv
BY InitIInv, NextIInv, PTL DEF Spec

-----------------------------------------------------------------------------
(***************************************************************************)
(* The locals of apply hold what their phase says.                         *)
(***************************************************************************)
THEOREM InventoryTypeCorrect == Spec => []TypeOK
<1>1. IInv => TypeOK
    BY DEF IInv
<1>. QED  BY <1>1, Invariant, PTL

(***************************************************************************)
(* A patch one entry of which cannot be carried out changes nothing.       *)
(***************************************************************************)
THEOREM InvalidPatchesChangeNothing == Spec => InvalidChangesNothing
<1>1. ASSUME IInv, [Next]_vars, request # NoRequest, inventory' # inventory
      PROVE  Feasible(request.patch)
    <2>1. Setting
        BY <1>1 DEF Next, vars, Plays, Capture, Call, Refused, RefusePolicy,
               RefuseByService, Unavailable, Conflict, PlayerGone, RefuseStorage,
               RefuseByAdapter, Refuse, Parse, Applied, Collect, world, IInv, TypeOK
    <2>2. phase = "write"
        BY <2>1 DEF Setting, Write, SetterThrows
    <2>3. before # NoInventory
        BY <1>1, <2>2, InventoryAssumption DEF IInv, TypeOK, Stacks
    <2>. QED  BY <1>1, <2>3 DEF IInv, Checked
<1>2. IInv /\ [Next]_vars =>
         [request # NoRequest /\ inventory' # inventory => Feasible(request.patch)]_vars
    BY <1>1
<1>. QED  BY <1>2, Invariant, PTL DEF Spec, InvalidChangesNothing

(***************************************************************************)
(* Whatever a setter raises, what is left is the beginning of the write.   *)
(***************************************************************************)
THEOREM FailuresLeavePrefixes == Spec => []LeavesPrefix
<1>1. IInv => LeavesPrefix
    BY DEF IInv, Progress, LeavesPrefix
<1>. QED  BY <1>1, Invariant, PTL

\* After the checks, every slot holds what it held or what it is to hold.
LEMMA OldOrNew ==
    ASSUME IInv, before # NoInventory, NEW c \in Cells
    PROVE  \/ inventory[c] = before[c]
           \/ /\ c \in Updates(request.patch)
              /\ request.patch.updates[c] \in Item \cup {Empty}
              /\ inventory[c] = Parsed(request.patch.updates[c], before[c])
           \/ inventory[c] = Empty
<1>1. CASE c \notin Updates(request.patch) \cup request.patch.removals
    BY <1>1 DEF IInv, Progress
<1>2. CASE c \in Updates(request.patch) \cup request.patch.removals
    <2>1. PICK w \in Writes(request.patch) : w[2] = c
        BY <1>2, TouchedIsWritten
    <2>2. inventory[c] = before[c] \/ inventory[c] = final[c]
        BY <2>1 DEF IInv, Progress
    <2>3. final[c] = IF c \in Updates(request.patch)
                     THEN Parsed(request.patch.updates[c], before[c])
                     ELSE Empty
        BY <1>2 DEF IInv, Checked, Overlay
    <2>. QED  BY <2>2, <2>3 DEF IInv, Checked, Feasible
<1>. QED  BY <1>1, <1>2

(***************************************************************************)
(* Hidden fields of items that stay of their type survive.                 *)
(***************************************************************************)
THEOREM HiddenFieldsSurvive == Spec => []HiddenFieldsKept
<1>1. ASSUME IInv, before # NoInventory, NEW c \in Cells, StaysPlain(c)
      PROVE  inventory[c].hidden = before[c].hidden
    <2>1. CASE inventory[c] = before[c]
        BY <2>1
    <2>2. CASE inventory[c] = Empty
        BY <1>1, <2>2 DEF StaysPlain
    <2>3. CASE inventory[c] = Parsed(request.patch.updates[c], before[c])
        BY <1>1, <2>3, InventoryAssumption DEF StaysPlain, Parsed, Storage
    <2>. QED  BY <1>1, <2>1, <2>2, <2>3, OldOrNew
<1>2. IInv => HiddenFieldsKept
    BY <1>1 DEF HiddenFieldsKept
<1>. QED  BY <1>2, Invariant, PTL

(***************************************************************************)
(* No setter is given a bundle or serialized contents.                     *)
(***************************************************************************)
THEOREM BundlesNeverWritten == Spec => []BundlesAreNotWritten
<1>1. ASSUME IInv, before # NoInventory, NEW c \in Cells, HoldsItems(inventory[c])
      PROVE  inventory[c] = before[c]
    <2>. SUFFICES ASSUME inventory[c] # before[c] PROVE FALSE
        OBVIOUS
    <2>1. /\ c \in Updates(request.patch)
          /\ request.patch.updates[c] \in Item
          /\ inventory[c].type = request.patch.updates[c].type
          /\ inventory[c].tag = request.patch.updates[c].tag
        <3>1. inventory[c] # Empty
            BY <1>1 DEF HoldsItems
        <3>2. /\ c \in Updates(request.patch)
              /\ request.patch.updates[c] \in Item \cup {Empty}
              /\ inventory[c] = Parsed(request.patch.updates[c], before[c])
            BY <1>1, <3>1, OldOrNew
        <3>3. request.patch.updates[c] # Empty
            BY <3>1, <3>2 DEF Parsed
        <3>. QED  BY <3>2, <3>3 DEF Parsed
    <2>. QED  BY <1>1, <2>1 DEF IInv, Checked, ContainsStorageItemWrite, HoldsItems
<1>2. IInv => BundlesAreNotWritten
    BY <1>1 DEF BundlesAreNotWritten
<1>. QED  BY <1>2, Invariant, PTL

(***************************************************************************)
(* An Applied patch is the overlay of what its caller saw.                 *)
(***************************************************************************)
THEOREM InventoryNoLostUpdate == Spec => []AppliedOverExpected
<1>1. ASSUME IInv, phase = "returned", reply.status = "Applied", before # NoInventory
      PROVE  AppliedOverExpected
    <2>. DEFINE patch == request.patch
                old == Revision(before, held).items
    <2>1. \A c \in Cells : Shown(inventory[c]) = Requested(patch, old)[c]
        <3>. TAKE c \in Cells
        <3>1. old[c] = Shown(before[c])
            BY DEF Revision
        <3>2. CASE c \notin Updates(patch) \cup patch.removals
            BY <1>1, <3>1, <3>2 DEF IInv, Progress, Requested
        <3>3. CASE c \in Updates(patch) \cup patch.removals
            <4>1. PICK w \in Writes(patch) : w[2] = c
                BY <3>3, TouchedIsWritten
            <4>2. inventory[c] = Overlay(patch, before)[c]
                BY <1>1, <4>1 DEF IInv, Progress, Checked
            <4>3. Feasible(patch) /\ before \in Stacks
                BY <1>1 DEF IInv, Checked, TypeOK
            <4>. QED  BY <4>2, <4>3, OverlayShows DEF Revision
        <3>. QED  BY <3>2, <3>3
    <2>2. Revision(inventory, held).items = Requested(patch, old)
        BY <2>1 DEF Revision, Requested
    <2>. QED  BY <1>1, <2>2 DEF IInv, Checked, AppliedOverExpected
<1>2. IInv => AppliedOverExpected
    BY <1>1 DEF IInv, Answered, AppliedOverExpected
<1>. QED  BY <1>2, Invariant, PTL

-----------------------------------------------------------------------------
(***************************************************************************)
(* The abstract specification: what a caller is promised.                  *)
(***************************************************************************)
LEMMA CallsVocabulary ==
    /\ Calls!Cells = Cells
    /\ Calls!Item = Item
    /\ Calls!ApplyStatus = ApplyStatus
    /\ Calls!Request = Request
    /\ \A patch : Calls!Feasible(patch) <=> Feasible(patch)
    /\ \A patch, shown : Calls!Requested(patch, shown) = Requested(patch, shown)
    /\ \A patch : Calls!Writes(patch) = Writes(patch)
    /\ \A v, w : Calls!Earlier(v, w) <=> Earlier(v, w)
    /\ Calls!Current = [items |-> Seen, held |-> held]
<1>1. Calls!Rank = Rank /\ Calls!Sections = Sections
    BY DEF Calls!Rank, Rank, Calls!Sections, Sections
<1>2. Calls!Cells = Cells
    BY <1>1 DEF Calls!Cells, Cells
<1>3. Calls!Item = Item /\ Calls!Value = Value
    BY DEF Calls!Item, Item, Calls!Value, Value, Calls!Storage, Storage
<1>4. Calls!ApplyStatus = ApplyStatus
    BY DEF Calls!ApplyStatus, ApplyStatus
<1>5. Calls!Patch = Patch /\ Calls!Revisions = Revisions /\ Calls!Policies = Policies
    BY <1>2, <1>3 DEF Calls!Patch, Patch, Calls!Revisions, Revisions, Calls!Policies, Policies
<1>6. Calls!Request = Request
    BY <1>5 DEF Calls!Request, Request
<1>7. \A patch : Calls!Updates(patch) = Updates(patch)
    BY DEF Calls!Updates, Updates
<1>8. \A patch : Calls!Feasible(patch) <=> Feasible(patch)
    BY <1>2, <1>3, <1>7 DEF Calls!Feasible, Feasible
<1>9. \A patch, shown : Calls!Requested(patch, shown) = Requested(patch, shown)
    BY <1>2, <1>7 DEF Calls!Requested, Requested
<1>10. \A patch : Calls!Writes(patch) = Writes(patch)
    BY <1>7 DEF Calls!Writes, Writes
<1>11. \A v, w : Calls!Earlier(v, w) <=> Earlier(v, w)
    BY <1>1 DEF Calls!Earlier, Earlier
<1>12. Calls!Current = [items |-> Seen, held |-> held]
    BY DEF Calls!Current
<1>. QED  BY <1>2, <1>3, <1>4, <1>6, <1>8, <1>9, <1>10, <1>11, <1>12

\* Outside of a write a caller sees the live stacks, within one those before it.
LEMMA SeenIs ==
    /\ phase # "write" => Seen = Revision(inventory, held).items
    /\ phase = "write" => Seen = Revision(before, held).items
BY DEF Seen, Revision

LEMMA SeenIsNext ==
    /\ phase' # "write" => Seen' = [c \in Cells |-> Shown(inventory'[c])]
    /\ phase' = "write" => Seen' = [c \in Cells |-> Shown(before'[c])]
BY DEF Seen, Shown

LEMMA PlaysIsPlay ==
    ASSUME IInv, Plays
    PROVE  Calls!Play
<1>1. /\ phase # "write" /\ phase' # "write" /\ request = NoRequest
      /\ UNCHANGED <<request, reply>>
    BY DEF Plays, local, IInv, TypeOK
<1>2. ASSUME NEW c \in Cells, NEW i \in Found \cup {Empty},
             inventory' = [inventory EXCEPT ![c] = i]
      PROVE  Shown(i) \in Item \cup {Empty} /\ Seen' = [Seen EXCEPT ![c] = Shown(i)]
    <2>1. Shown(i) \in Item \cup {Empty}
        BY <1>2, InventoryAssumption DEF Shown, Stack, Item
    <2>2. \A d \in Cells : inventory'[d] = IF d = c THEN i ELSE inventory[d]
        BY <1>2 DEF IInv, TypeOK, Stacks
    <2>3. Seen = [d \in Cells |-> Shown(inventory[d])]
        BY <1>1, SeenIs DEF Revision
    <2>4. Seen' = [d \in Cells |-> IF d = c THEN Shown(i) ELSE Shown(inventory[d])]
        BY <1>1, <2>2, SeenIsNext
    <2>. QED  BY <2>1, <2>3, <2>4
<1>3. ASSUME inventory' = inventory
      PROVE  Seen' = Seen
    BY <1>1, <1>3, SeenIs, SeenIsNext DEF Revision
<1>. QED  BY <1>1, <1>2, <1>3, CallsVocabulary DEF Plays, Calls!Play

LEMMA CallIsSubmit ==
    ASSUME IInv, Call
    PROVE  Calls!Submit
<1>1. request' \in Request
    BY CallRequest DEF IInv
<1>2. request = NoRequest /\ UNCHANGED <<held, reply>> /\ Seen' = Seen
    BY SeenIs, SeenIsNext DEF Call, world, IInv, TypeOK, Revision
<1>. QED  BY <1>1, <1>2, CallsVocabulary DEF Calls!Submit

LEMMA InCall ==
    ASSUME IInv, phase \in {"called", "write"}
    PROVE  Calls!Serving /\ request \in Request
BY InventoryAssumption DEF IInv, TypeOK, Calls!Serving

LEMMA RefusedIsRefuse ==
    ASSUME IInv, Refused
    PROVE  Calls!Refuse
<1>. DEFINE now == Revision(inventory, held)
<1>1. PICK status \in ApplyStatus \ {"Applied"}, revision \in {NoRevision, now} :
         /\ Refuse(status, revision)
         /\ status = "Conflict" => Stale(request)
         /\ status = "InvalidPatch" =>
               ServiceRejects(request.patch) \/ AdapterRejects(request.patch)
    BY DEF Refused, RefusePolicy, RefuseByService, Unavailable, Conflict, PlayerGone,
           RefuseStorage, RefuseByAdapter, ApplyStatus, Current, Accepted
<1>2. /\ phase = "called" /\ phase' = "returned"
      /\ reply' = [status |-> status, revision |-> revision]
      /\ UNCHANGED <<inventory, held, request>>
    BY <1>1 DEF Refused, Refuse, Return, world
<1>3. Seen' = Seen /\ now = Calls!Current
    BY <1>2, SeenIs, SeenIsNext, CallsVocabulary DEF Revision
<1>4. status = "Conflict" => ~Calls!Expected
    BY <1>1, <1>3 DEF Stale, Calls!Expected
<1>5. status = "InvalidPatch" => ~Calls!Feasible(request.patch)
    BY <1>1, ChecksNeeded, CallsVocabulary
<1>. QED  BY <1>1, <1>2, <1>3, <1>4, <1>5, InCall, CallsVocabulary DEF Calls!Refuse

LEMMA WriteIsAllowed ==
    ASSUME IInv, phase = "write"
    PROVE  Calls!Allowed /\ before # NoInventory /\ before \in Stacks
<1>1. before # NoInventory /\ before \in Stacks
    BY InventoryAssumption DEF IInv, TypeOK, Stacks
<1>2. Calls!Expected
    BY <1>1, SeenIs, CallsVocabulary DEF IInv, Checked, Calls!Expected, Revision
<1>. QED  BY <1>1, <1>2, InCall, CallsVocabulary DEF IInv, Checked, Served, Calls!Allowed

\* What a slot shows once a call is over, by the setter calls that were made.
LEMMA MadeShows ==
    ASSUME IInv, phase = "write", IInv', UNCHANGED <<request, before, final>>,
           NEW c \in Cells
    PROVE  Shown(inventory'[c]) =
              IF \E w \in Writes(request.patch) \ pending' : w[2] = c
              THEN Requested(request.patch, Seen)[c]
              ELSE Seen[c]
<1>1. before # NoInventory /\ before \in Stacks
    BY WriteIsAllowed
<1>2. Seen = [d \in Cells |-> Shown(before[d])]
    BY SeenIs DEF Revision
<1>3. /\ Feasible(request.patch)
      /\ final = Overlay(request.patch, before)
    BY <1>1 DEF IInv, Checked
<1>4. /\ c \notin Updates(request.patch) \cup request.patch.removals
            => inventory'[c] = before[c]
      /\ \A w \in pending' : inventory'[w[2]] = before[w[2]]
      /\ \A w \in Writes(request.patch) \ pending' : inventory'[w[2]] = final[w[2]]
    BY <1>1 DEF IInv, Progress, Updates, Writes
<1>5. CASE \E w \in Writes(request.patch) \ pending' : w[2] = c
    <2>1. inventory'[c] = Overlay(request.patch, before)[c]
        BY <1>3, <1>4, <1>5
    <2>. QED  BY <1>1, <1>2, <1>3, <1>5, <2>1, OverlayShows
<1>6. CASE ~\E w \in Writes(request.patch) \ pending' : w[2] = c
    <2>1. inventory'[c] = before[c]
        BY <1>4, <1>6, TouchedIsWritten
    <2>. QED  BY <1>2, <1>6, <2>1
<1>. QED  BY <1>5, <1>6

LEMMA ThrowIsBreak ==
    ASSUME IInv, NEW w \in pending, SetterThrows(w)
    PROVE  Calls!Break
<1>. DEFINE made == Writes(request.patch) \ pending'
<1>1. /\ phase = "write" /\ phase' = "returned"
      /\ reply' = [status |-> "AdapterError", revision |-> Revision(before, held)]
      /\ UNCHANGED <<held, request, before, final>>
    BY DEF SetterThrows, Return
<1>2. IInv'
    BY SettingStep DEF Setting
<1>3. Calls!Allowed /\ before # NoInventory
    BY <1>1, WriteIsAllowed
<1>4. \A w1 \in made, v \in Writes(request.patch) : Earlier(v, w1) => v \in made
    BY <1>1, <1>2, <1>3 DEF IInv, Progress, Writes, Updates, Earlier
<1>5. Seen' = Calls!After(made)
    <2>1. Seen' = [c \in Cells |-> Shown(inventory'[c])]
        BY <1>1, SeenIsNext
    <2>2. \A c \in Cells : Shown(inventory'[c]) =
             IF \E w1 \in made : w1[2] = c
             THEN Requested(request.patch, Seen)[c] ELSE Seen[c]
        BY <1>1, <1>2, MadeShows
    <2>. HIDE DEF made
    <2>. QED  BY <2>1, <2>2, CallsVocabulary DEF Calls!After
<1>6. Revision(before, held) = Calls!Current
    BY <1>1, SeenIs, CallsVocabulary DEF Revision
<1>7. made \in SUBSET Calls!Writes(request.patch)
    BY CallsVocabulary
<1>. HIDE DEF made
<1>8. \A w1 \in made, v \in Calls!Writes(request.patch) :
         Calls!Earlier(v, w1) => v \in made
    BY <1>4, CallsVocabulary
<1>. QED  BY <1>1, <1>3, <1>5, <1>6, <1>7, <1>8 DEF Calls!Break

LEMMA AppliedIsCommit ==
    ASSUME IInv, Applied
    PROVE  Calls!Commit
<1>1. PICK revision \in {NoRevision, Revision(inventory, held)} :
         Return("Applied", revision)
    BY DEF Applied
<1>2. /\ phase = "write" /\ phase' = "returned" /\ pending' = {}
      /\ reply' = [status |-> "Applied", revision |-> revision]
      /\ UNCHANGED <<inventory, held, request, before, final>>
    BY <1>1 DEF Applied, Return, world
<1>3. IInv'
    BY AppliedStep
<1>4. Seen' = [c \in Cells |-> Shown(inventory'[c])]
    BY <1>2, SeenIsNext
<1>5. \A c \in Cells : Shown(inventory'[c]) = Requested(request.patch, Seen)[c]
    <2>. TAKE c \in Cells
    <2>1. CASE c \in Updates(request.patch) \cup request.patch.removals
        <3>1. \E w \in Writes(request.patch) \ pending' : w[2] = c
            BY <1>2, <2>1, TouchedIsWritten
        <3>. QED  BY <1>2, <1>3, <3>1, MadeShows
    <2>2. CASE c \notin Updates(request.patch) \cup request.patch.removals
        <3>1. Requested(request.patch, Seen)[c] = Seen[c]
            BY <2>2 DEF Requested
        <3>. QED  BY <1>2, <1>3, <3>1, MadeShows
    <2>. QED  BY <2>1, <2>2
<1>6. Seen' = Requested(request.patch, Seen)
    BY <1>4, <1>5 DEF Requested
<1>7. Revision(inventory, held) = Calls!Current'
    BY <1>2, <1>4 DEF Revision, Calls!Current
<1>. QED  BY <1>2, <1>6, <1>7, WriteIsAllowed, CallsVocabulary DEF Calls!Commit

\* The capture, the parse and the setter calls that return are not seen.
LEMMA UnseenStep ==
    ASSUME IInv, Capture \/ Parse \/ (\E w \in pending : Write(w)) \/ UNCHANGED vars
    PROVE  UNCHANGED Calls!vars
<1>1. UNCHANGED <<held, request, reply>>
    BY DEF Capture, Parse, Write, vars, world, local
<1>2. Seen' = Seen
    <2>1. CASE Capture
        BY <2>1, SeenIs, SeenIsNext DEF Capture, Revision
    <2>2. CASE Parse
        BY <2>2, SeenIs, SeenIsNext DEF Parse, world, Revision
    <2>3. CASE \E w \in pending : Write(w)
        BY <2>3, SeenIs, SeenIsNext DEF Write, Revision
    <2>4. CASE UNCHANGED vars
        BY <2>4 DEF vars, Seen, Shown
    <2>. QED  BY <2>1, <2>2, <2>3, <2>4
<1>. QED  BY <1>1, <1>2 DEF Calls!vars

LEMMA CollectIsCollect ==
    ASSUME IInv, Collect
    PROVE  Calls!Collect
<1>1. reply # NoReply
    BY InventoryAssumption DEF Collect, IInv, TypeOK
<1>2. Seen' = Seen
    BY SeenIs, SeenIsNext DEF Collect, Revision
<1>. QED  BY <1>1, <1>2 DEF Collect, Calls!Collect

(***************************************************************************)
(* Every call does what InventoryCalls promises, in one step and as it     *)
(* answers: nothing, the whole patch over the revision expected, or the    *)
(* beginning of it.                                                        *)
(***************************************************************************)
THEOREM ImplementsInventoryCalls == Spec => Implements
<1>1. Init => Calls!Init
    <2>. SUFFICES ASSUME Init PROVE Calls!Init
        OBVIOUS
    <2>1. IInv /\ phase # "write"
        BY InitIInv DEF Init
    <2>2. Seen \in [Cells -> Item \cup {Empty}]
        BY <2>1, SeenIs, RevisionType DEF IInv, TypeOK, Revisions
    <2>. QED  BY <2>2, CallsVocabulary DEF Init, Calls!Init
<1>2. IInv /\ [Next]_vars => [Calls!Next]_(Calls!vars)
    BY PlaysIsPlay, CallIsSubmit, RefusedIsRefuse, ThrowIsBreak, AppliedIsCommit,
       UnseenStep, CollectIsCollect DEF Next, Setting, Calls!Next
<1>. QED  BY <1>1, <1>2, Invariant, PTL DEF Spec, Implements, Calls!Spec
=============================================================================
