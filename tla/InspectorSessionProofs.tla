----------------------- MODULE InspectorSessionProofs -----------------------
(***************************************************************************)
(* Proofs about InspectorSession, for any number of senders and blocks,    *)
(* any capacities and any distance between the blocks.                     *)
(*                                                                         *)
(* The action properties follow from the types and from what one command   *)
(* may do to the world: nothing, or a write to the one block it was asked  *)
(* about, told as a write.  An audit's delta explains the capture of its   *)
(* stop because it has at most one change for a slot, and one for every    *)
(* slot that differs.                                                      *)
(***************************************************************************)
EXTENDS InspectorSession, TLAPS

Spots == Sites \cup {None}

Ask == [explicit : BOOLEAN, site : Spots]

-----------------------------------------------------------------------------
LEMMA BlockParts ==
    ASSUME NEW b \in Block
    PROVE  /\ b.type \in Types /\ b.state \in States /\ b.slots \in Contents(b.type)
           /\ b = [type |-> b.type, state |-> b.state, slots |-> b.slots]
BY DEF Block

LEMMA BlockMade ==
    ASSUME NEW t \in Types, NEW state \in States, NEW slots \in Contents(t)
    PROVE  [type |-> t, state |-> state, slots |-> slots] \in Block
<1>1. [type |-> t, state |-> state, slots |-> slots]
        \in [type : {t}, state : States, slots : Contents(t)]
  OBVIOUS
<1> QED BY <1>1 DEF Block

\* Items of a slot the container has.
LEMMA PutType ==
    ASSUME NEW t \in Types, NEW slots \in Contents(t), NEW slot \in 0..(Capacity[t] - 1),
           NEW item \in Items \cup {Empty}
    PROVE  Put(slots, slot, item) \in Contents(t)
<1>1. PICK occupied \in SUBSET (0..(Capacity[t] - 1)) : slots \in [occupied -> Items]
  BY DEF Contents
<1>2. CASE item = Empty
  <2>1. occupied \ {slot} \in SUBSET (0..(Capacity[t] - 1))
    OBVIOUS
  <2>2. Put(slots, slot, item) \in [occupied \ {slot} -> Items]
    BY <1>1, <1>2 DEF Put
  <2> QED BY <2>1, <2>2 DEF Contents
<1>3. CASE item # Empty
  <2>1. occupied \cup {slot} \in SUBSET (0..(Capacity[t] - 1))
    OBVIOUS
  <2>2. Put(slots, slot, item) \in [occupied \cup {slot} -> Items]
    BY <1>1, <1>3 DEF Put
  <2> QED BY <2>1, <2>2 DEF Contents
<1> QED BY <1>2, <1>3

\* What a write makes of a block is what was asked for.
LEMMA SlotPatched ==
    ASSUME NEW b \in Block, NEW write \in SlotWrite, write.slot \in 0..(Capacity[b.type] - 1)
    PROVE  /\ Patched(b, write) \in Block
           /\ AsAsked(write, b, Patched(b, write))
           /\ ~IsStateWrite(write)
<1> DEFINE slots == Put(b.slots, write.slot, write.item)
<1>1. write.item \in Items \cup {Empty} /\ ~IsStateWrite(write)
  BY DEF SlotWrite, IsStateWrite
<1>2. slots \in Contents(b.type)
  BY <1>1, BlockParts, PutType
<1>3. Patched(b, write) = [type |-> b.type, state |-> b.state, slots |-> slots]
  BY <1>1, BlockParts DEF Patched
<1>4. /\ \A i \in (DOMAIN slots \cup DOMAIN b.slots) \ {write.slot} :
            i \in DOMAIN slots /\ i \in DOMAIN b.slots /\ slots[i] = b.slots[i]
      /\ IF write.item = Empty THEN write.slot \notin DOMAIN slots
         ELSE write.slot \in DOMAIN slots /\ slots[write.slot] = write.item
  BY DEF Put
<1> HIDE DEF slots
<1> QED BY <1>1, <1>2, <1>3, <1>4, BlockParts, BlockMade DEF AsAsked

LEMMA StatePatched ==
    ASSUME NEW b \in Block, NEW write \in StateWrite
    PROVE  /\ Patched(b, write) \in Block
           /\ AsAsked(write, b, Patched(b, write))
           /\ IsStateWrite(write)
<1>1. write.state \in States /\ IsStateWrite(write)
  BY DEF StateWrite, IsStateWrite
<1>2. Patched(b, write) = [type |-> b.type, state |-> write.state, slots |-> b.slots]
  BY <1>1, BlockParts DEF Patched
<1> QED BY <1>1, <1>2, BlockParts, BlockMade DEF AsAsked

LEMMA SlotsDamaged ==
    ASSUME NEW b \in Block, NEW slots \in Contents(b.type)
    PROVE  [b EXCEPT !.slots = slots] \in Block
<1>1. [b EXCEPT !.slots = slots] = [type |-> b.type, state |-> b.state, slots |-> slots]
  BY BlockParts
<1> QED BY <1>1, BlockParts, BlockMade

LEMMA CapturedType ==
    ASSUME TypeOK, NEW s \in Sites
    PROVE  /\ Captured(s) \in Snapshot \cup {None}
           /\ Captured(s) # None => Captured(s).type = world[s].type
<1> DEFINE b == world[s]
<1>1. b \in Block
  BY DEF TypeOK
<1>2. b.type \in Types /\ b.state \in States /\ Inventory(b) \in {NoInventory} \cup Contents(b.type)
  BY <1>1, BlockParts DEF Inventory
<1>3. ASSUME NEW i \in {NoInventory} \cup Contents(b.type)
      PROVE  Shown(b, i) \in Snapshot /\ Shown(b, i).type = b.type
  <2>1. Shown(b, i) \in [type : {b.type}, state : States,
                         inventory : {NoInventory} \cup Contents(b.type)]
    BY <1>2 DEF Shown
  <2> QED BY <1>2, <2>1 DEF Snapshot, Shown
<1>4. NoInventory \in {NoInventory} \cup Contents(b.type)
  OBVIOUS
<1> QED BY <1>2, <1>3, <1>4 DEF Captured

LEMMA AskedType ==
    ASSUME TypeOK, NEW s \in Senders, NEW ask \in Asked(s)
    PROVE  /\ ask \in Ask
           /\ IF ask.explicit THEN ask.site \in Explicit(s) ELSE ask.site = targets[s]
<1>1. CASE ask \in [explicit : {TRUE}, site : Explicit(s)]
  <2>1. PICK site \in Explicit(s) : ask = [explicit |-> TRUE, site |-> site]
    BY <1>1
  <2>2. site \in Spots
    BY DEF Explicit, Spots
  <2>3. [explicit |-> TRUE, site |-> site] \in Ask
    BY <2>2 DEF Ask
  <2>4. ask.explicit /\ ask.site = site
    BY <2>1
  <2> QED BY <2>1, <2>3, <2>4
<1>2. CASE ask = [explicit |-> FALSE, site |-> targets[s]]
  <2>1. targets[s] \in Spots
    BY DEF TypeOK, Spots
  <2> QED BY <1>2, <2>1 DEF Ask
<1> QED BY <1>1, <1>2 DEF Asked

-----------------------------------------------------------------------------
\* What a command does to the world: nothing, or what it tells of the block
\* it was asked about.
WritesAsked(s) ==
    \/ world' = world /\ told'.what \notin Outcomes
    \/ \E ask \in Asked(s), what \in Outcomes, b \in Block : \E write :
          /\ ask.site \in Sites
          /\ told' = Told(s, what, ask, write)
          /\ world' = [world EXCEPT ![ask.site] = b]
          /\ Honest(what, write, world[ask.site], b)

LEMMA ApplyWrites ==
    ASSUME TypeOK, NEW s \in Senders, NEW ask \in Asked(s), ask.site \in Sites,
           NEW write, NEW possible, NEW damage, NEW failed,
           Patched(world[ask.site], write) \in Block,
           AsAsked(write, world[ask.site], Patched(world[ask.site], write)),
           \/ /\ ~IsStateWrite(write)
              /\ damage \subseteq Contents(world[ask.site].type) /\ failed = {world[ask.site]}
           \/ /\ IsStateWrite(write) /\ damage = {}
              /\ failed = {world[ask.site], Patched(world[ask.site], write)},
           Apply(s, ask, write, possible, damage, failed)
    PROVE  WritesAsked(s)
<1> DEFINE was == world[ask.site]
           new == Patched(world[ask.site], write)
<1>1. world \in [Sites -> Block] /\ was \in Block /\ new \in Block
  BY DEF TypeOK
<1>2. world = [world EXCEPT ![ask.site] = was]
  BY <1>1
<1>3. ASSUME NEW what \in Outcomes, told' = Told(s, what, ask, write), NEW b \in Block,
             world' = [world EXCEPT ![ask.site] = b], Honest(what, write, was, b)
      PROVE  WritesAsked(s)
  BY <1>3 DEF WritesAsked
<1> HIDE DEF new, was
<1>4. CASE world' = [world EXCEPT ![ask.site] = new] /\ told' = Told(s, "written", ask, write)
  <2>1. Honest("written", write, was, new)
    BY DEF Honest, was, new
  <2> QED BY <1>1, <1>3, <1>4, <2>1 DEF Outcomes
<1>5. ASSUME NEW b \in failed, world' = [world EXCEPT ![ask.site] = b],
             told' = Told(s, "failed", ask, write)
      PROVE  WritesAsked(s)
  <2>1. Honest("failed", write, was, b) /\ b \in Block
    BY <1>1 DEF Honest, was, new
  <2> QED BY <1>3, <1>5, <2>1 DEF Outcomes
<1>6. ASSUME NEW slots \in damage, world' = [world EXCEPT ![ask.site].slots = slots],
             told' = Told(s, "damaged", ask, write)
      PROVE  WritesAsked(s)
  <2> DEFINE b == [was EXCEPT !.slots = slots]
  <2>1. b \in Block /\ ~IsStateWrite(write)
    BY <1>1, SlotsDamaged DEF was
  <2>2. b.type = was.type /\ b.state = was.state
    BY <1>1, BlockParts
  <2>3. world' = [world EXCEPT ![ask.site] = b]
    BY <1>6 DEF was
  <2> HIDE DEF b
  <2>4. Honest("damaged", write, was, b)
    BY <2>1, <2>2 DEF Honest
  <2> QED BY <1>3, <1>6, <2>1, <2>3, <2>4 DEF Outcomes
<1>7. CASE /\ world' \in {world, [world EXCEPT ![ask.site] = new]}
           /\ told' = Told(s, "raised", ask, write)
  <2>1. Honest("raised", write, was, was) /\ Honest("raised", write, was, new)
    BY DEF Honest, was, new
  <2> QED BY <1>1, <1>2, <1>3, <1>7, <2>1 DEF Outcomes
<1> QED BY <1>4, <1>5, <1>6, <1>7 DEF Apply, new

-----------------------------------------------------------------------------
Baselines == [Senders -> [Sites -> Snapshot \cup {None}]]

\* What every command of a sender comes to.
CommandOK(s) ==
    /\ told'.sender = s /\ WritesAsked(s)
    /\ targets' \in [Senders -> Spots] /\ baselines' \in Baselines
    /\ log' \in 0..MaxLog /\ bridge' \in {"native", "public", None}
    /\ UNCHANGED <<sight, service, where>>

KeepsBaselines == baselines' = baselines

\* A command that answers without doing anything.
Answers(s) ==
    /\ told'.sender = s /\ told'.what \notin Outcomes
    /\ UNCHANGED <<world, targets, baselines, log>>

LEMMA SayAnswers ==
    ASSUME NEW s, NEW what, what \notin Outcomes, Say(s, what)
    PROVE  Answers(s)
BY DEF Say, Tell, Told, Answers

LEMMA RefusalAnswers ==
    ASSUME NEW s, NEW need, Say(s, Refusal(need))
    PROVE  Answers(s)
<1>1. Refusal(need) \notin Outcomes
  BY DEF Refusal, Outcomes
<1> QED BY <1>1, SayAnswers

LEMMA WriteTold ==
    ASSUME NEW s, NEW ask, NEW write, NEW possible, NEW damage, NEW failed,
           Apply(s, ask, write, possible, damage, failed)
    PROVE  told'.sender = s /\ told'.what \in Outcomes /\ UNCHANGED <<targets, baselines, log>>
<1>1. \E what \in Outcomes : told' = Told(s, what, ask, write)
  BY Zenon DEF Apply, Outcomes
<1>2. UNCHANGED <<targets, baselines, log>>
  BY DEF Apply
<1> QED BY <1>1, <1>2 DEF Told

LEMMA BridgeType == ASSUME TypeOK PROVE Connected \in {"native", "public", None}
BY DEF TypeOK, Connected

LEMMA AnswersOK ==
    ASSUME TypeOK, NEW s \in Senders, Answers(s), UNCHANGED <<sight, service, where>>,
           bridge' \in {bridge, Connected}
    PROVE  CommandOK(s) /\ KeepsBaselines
BY BridgeType DEF Answers, CommandOK, KeepsBaselines, WritesAsked, TypeOK, Spots, Baselines

LEMMA WritesOK ==
    ASSUME TypeOK, NEW s \in Senders, WritesAsked(s), told'.sender = s,
           UNCHANGED <<targets, baselines, log, sight, service, where>>, bridge' = Connected
    PROVE  CommandOK(s) /\ KeepsBaselines
BY BridgeType DEF CommandOK, KeepsBaselines, TypeOK, Spots, Baselines

LEMMA LocateOK ==
    ASSUME TypeOK, NEW s \in Senders, Locate(s)
    PROVE  CommandOK(s) /\ KeepsBaselines
<1>1. UNCHANGED <<sight, service, where>> /\ bridge' = Connected
  BY DEF Locate
<1>2. CASE Answers(s)
  BY <1>1, <1>2, AnswersOK
<1>3. ASSUME NEW site \in Nearest(s), targets' = [targets EXCEPT ![s] = site],
             Tell(s, "located", [explicit |-> FALSE, site |-> site]),
             UNCHANGED <<world, baselines, log>>
      PROVE  CommandOK(s) /\ KeepsBaselines
  <2>1. site \in Sites
    BY DEF Nearest, Near
  <2>2. targets' \in [Senders -> Spots]
    BY <1>3, <2>1 DEF TypeOK, Spots
  <2>3. told'.sender = s /\ told'.what \notin Outcomes
    BY <1>3 DEF Tell, Told, Outcomes
  <2> QED BY <1>1, <1>3, <2>2, <2>3, BridgeType
          DEF CommandOK, KeepsBaselines, WritesAsked, TypeOK, Baselines
<1>4. \/ Answers(s)
      \/ \E site \in Nearest(s) :
            /\ targets' = [targets EXCEPT ![s] = site]
            /\ Tell(s, "located", [explicit |-> FALSE, site |-> site])
            /\ UNCHANGED <<world, baselines, log>>
  <2>1. \/ Say(s, Refusal("block_entity_nbt")) \/ Say(s, "no location")
        \/ Say(s, "no snapshot") \/ Say(s, "none found")
        \/ \E site \in Nearest(s) :
              /\ targets' = [targets EXCEPT ![s] = site]
              /\ Tell(s, "located", [explicit |-> FALSE, site |-> site])
              /\ UNCHANGED <<world, baselines, log>>
    BY DEF Locate
  <2> QED BY <2>1, RefusalAnswers, SayAnswers DEF Outcomes
<1> QED BY <1>2, <1>3, <1>4

LEMMA InspectOK ==
    ASSUME TypeOK, NEW s \in Senders, Inspect(s)
    PROVE  CommandOK(s) /\ KeepsBaselines
<1>1. PICK ask \in Asked(s) :
         \/ Say(s, "no target") /\ bridge' = bridge
         \/ /\ bridge' = Connected
            /\ \/ Say(s, Refusal("capture"))
               \/ Say(s, "no snapshot")
               \/ Say(s, "shown")
               \/ /\ ask.site # None
                  /\ targets' = [targets EXCEPT ![s] = ask.site]
                  /\ Tell(s, "selected", ask)
                  /\ UNCHANGED <<world, baselines, log>>
  BY DEF Inspect
<1>2. UNCHANGED <<sight, service, where>>
  BY DEF Inspect
<1>3. CASE Answers(s)
  BY <1>1, <1>2, <1>3, AnswersOK
<1>4. CASE /\ bridge' = Connected /\ ask.site # None
           /\ targets' = [targets EXCEPT ![s] = ask.site]
           /\ Tell(s, "selected", ask)
           /\ UNCHANGED <<world, baselines, log>>
  <2>1. ask.site \in Spots
    BY AskedType DEF Ask
  <2>2. targets' \in [Senders -> Spots]
    BY <1>4, <2>1 DEF TypeOK, Spots
  <2>3. told'.sender = s /\ told'.what \notin Outcomes
    BY <1>4 DEF Tell, Told, Outcomes
  <2> QED BY <1>2, <1>4, <2>2, <2>3, BridgeType
          DEF CommandOK, KeepsBaselines, WritesAsked, TypeOK, Baselines
<1> QED BY <1>1, <1>3, <1>4, RefusalAnswers, SayAnswers DEF Outcomes

LEMMA ItemOK ==
    ASSUME TypeOK, NEW s \in Senders, NEW write \in SlotWrite, Item(s, write)
    PROVE  CommandOK(s) /\ KeepsBaselines
<1> DEFINE Possible == service = "native"
           Damage(site) == Contents(world[site].type)
<1>1. PICK ask \in Asked(s) :
         \/ Say(s, "no target") /\ bridge' = bridge
         \/ /\ bridge' = Connected
            /\ \/ Say(s, Refusal("inventory"))
               \/ Say(s, "no snapshot")
               \/ Say(s, "no container")
               \/ Say(s, "no slot")
               \/ /\ ask.site # None /\ Captured(ask.site) # None
                  /\ HasSlot(Captured(ask.site), write.slot)
                  /\ Apply(s, ask, write, Possible, Damage(ask.site), {world[ask.site]})
  BY DEF Item, Captures
<1>2. UNCHANGED <<sight, service, where>>
  BY DEF Item
<1>3. CASE Answers(s)
  BY <1>1, <1>2, <1>3, AnswersOK
<1>4. CASE /\ bridge' = Connected /\ ask.site # None /\ Captured(ask.site) # None
           /\ HasSlot(Captured(ask.site), write.slot)
           /\ Apply(s, ask, write, Possible, Damage(ask.site), {world[ask.site]})
  <2>1. ask.site \in Sites /\ world[ask.site] \in Block
    BY <1>4, AskedType DEF TypeOK, Ask, Spots
  <2>2. write.slot \in 0..(Capacity[world[ask.site].type] - 1)
    <3>1. write.slot < Capacity[world[ask.site].type]
      BY <1>4, <2>1, CapturedType DEF HasSlot
    <3>2. write.slot \in Nat /\ Capacity[world[ask.site].type] \in Nat
      BY <2>1, BlockParts, SessionAssumption DEF SlotWrite, SessionAssumption, Types
    <3> QED BY <3>1, <3>2
  <2>3. Damage(ask.site) \subseteq Contents(world[ask.site].type)
    OBVIOUS
  <2> HIDE DEF Possible, Damage
  <2>4. WritesAsked(s)
    BY <1>4, <2>1, <2>2, <2>3, SlotPatched, ApplyWrites
  <2> QED BY <1>2, <1>4, <2>4, WriteTold, WritesOK
<1> HIDE DEF Possible, Damage
<1> QED BY <1>1, <1>3, <1>4, RefusalAnswers, SayAnswers DEF Outcomes

LEMMA StateSetOK ==
    ASSUME TypeOK, NEW s \in Senders, NEW write \in StateWrite, StateSet(s, write)
    PROVE  CommandOK(s) /\ KeepsBaselines
<1> DEFINE Failed(site) == {world[site], Patched(world[site], write)}
<1>1. PICK ask \in Asked(s) :
         \/ Say(s, "no target") /\ bridge' = bridge
         \/ /\ bridge' = Connected
            /\ \/ Say(s, Refusal("block_writes"))
               \/ Say(s, "no snapshot")
               \/ /\ ask.site # None
                  /\ Apply(s, ask, write, TRUE, {}, Failed(ask.site))
  BY DEF StateSet, Captures
<1>2. UNCHANGED <<sight, service, where>>
  BY DEF StateSet
<1>3. CASE Answers(s)
  BY <1>1, <1>2, <1>3, AnswersOK
<1>4. CASE /\ bridge' = Connected /\ ask.site # None
           /\ Apply(s, ask, write, TRUE, {}, Failed(ask.site))
  <2>1. ask.site \in Sites /\ world[ask.site] \in Block
    BY <1>4, AskedType DEF TypeOK, Ask, Spots
  <2>2. Failed(ask.site) = {world[ask.site], Patched(world[ask.site], write)}
    OBVIOUS
  <2> HIDE DEF Failed
  <2>3. WritesAsked(s)
    BY <1>4, <2>1, <2>2, StatePatched, ApplyWrites
  <2> QED BY <1>2, <1>4, <2>3, WriteTold, WritesOK
<1> HIDE DEF Failed
<1> QED BY <1>1, <1>3, <1>4, RefusalAnswers, SayAnswers DEF Outcomes

\* An audit of a site that its sender starts, anew if there was one.
Starts(s, site) ==
    /\ told'.sender = s /\ told'.what = "started" /\ told'.site = site
    /\ Captured(site) # None
    /\ baselines' = [baselines EXCEPT ![s][site] = Captured(site)]

LEMMA AuditStartOK ==
    ASSUME TypeOK, NEW s \in Senders, AuditStart(s)
    PROVE  CommandOK(s) /\ (KeepsBaselines \/ \E site \in Sites : Starts(s, site))
<1>1. PICK ask \in Asked(s) :
         \/ Say(s, "no target") /\ bridge' = bridge
         \/ /\ bridge' = Connected
            /\ \/ Say(s, Refusal("capture"))
               \/ Say(s, "no snapshot")
               \/ /\ ask.site # None /\ Captured(ask.site) # None
                  /\ baselines' = Armed(s, ask.site, Captured(ask.site))
                  /\ Tell(s, "started", ask)
                  /\ UNCHANGED <<world, targets, log>>
  BY DEF AuditStart, Captures
<1>2. UNCHANGED <<sight, service, where>>
  BY DEF AuditStart
<1>3. CASE Answers(s)
  BY <1>1, <1>2, <1>3, AnswersOK
<1>4. CASE /\ bridge' = Connected /\ ask.site # None /\ Captured(ask.site) # None
           /\ baselines' = Armed(s, ask.site, Captured(ask.site))
           /\ Tell(s, "started", ask)
           /\ UNCHANGED <<world, targets, log>>
  <2>1. ask.site \in Sites /\ Captured(ask.site) \in Snapshot \cup {None}
    BY <1>4, AskedType, CapturedType DEF Ask, Spots
  <2>2. baselines' = [baselines EXCEPT ![s][ask.site] = Captured(ask.site)]
    BY <1>4 DEF Armed
  <2>3. baselines \in Baselines
    BY DEF TypeOK, Baselines
  <2>4. baselines' \in Baselines
    BY <2>1, <2>2, <2>3 DEF Baselines
  <2>5. told'.sender = s /\ told'.what = "started" /\ told'.site = ask.site
    BY <1>4 DEF Tell, Told
  <2>6. Starts(s, ask.site)
    BY <1>4, <2>2, <2>5 DEF Starts
  <2>7. CommandOK(s)
    BY <1>2, <1>4, <2>4, <2>5, BridgeType DEF CommandOK, WritesAsked, Outcomes, TypeOK, Spots
  <2> QED BY <2>1, <2>6, <2>7
<1> QED BY <1>1, <1>3, <1>4, RefusalAnswers, SayAnswers DEF Outcomes

\* A delta applied to its baseline gives the inventory of the capture.
LEMMA DeltaExplains ==
    ASSUME NEW a, NEW b
    PROVE  LET left == Applied(SlotChanges(a, b), a)
           IN  /\ \A i \in DOMAIN left :
                     left[i] = IF i \in Filled(b) THEN b.inventory[i] ELSE Empty
               /\ Filled(b) \subseteq DOMAIN left
<1> DEFINE changes == SlotChanges(a, b)
           left == Applied(changes, a)
           wanted(i) == IF i \in Filled(b) THEN b.inventory[i] ELSE Empty
<1>1. ASSUME NEW c \in changes PROVE c.after = wanted(c.slot)
  <2>1. CASE \E i \in Filled(a) \ Filled(b) : c = Change(i, "removed", a.inventory[i], Empty)
    BY <2>1 DEF Change
  <2>2. CASE \E i \in Filled(b) \ Filled(a) : c = Change(i, "added", Empty, b.inventory[i])
    BY <2>2 DEF Change
  <2>3. CASE \E i \in Filled(a) \cap Filled(b) :
                c = Change(i, "changed", a.inventory[i], b.inventory[i])
    BY <2>3 DEF Change
  <2> QED BY <2>1, <2>2, <2>3 DEF SlotChanges
<1>2. ASSUME NEW i \in Filled(a) \cup Filled(b), \A c \in changes : c.slot # i
      PROVE  i \in Filled(a) \cap Filled(b) /\ a.inventory[i] = b.inventory[i]
  <2>1. ASSUME i \in Filled(a) \ Filled(b) PROVE FALSE
    <3>1. Change(i, "removed", a.inventory[i], Empty) \in changes
      BY <2>1 DEF SlotChanges
    <3> QED BY <1>2, <3>1 DEF Change
  <2>2. ASSUME i \in Filled(b) \ Filled(a) PROVE FALSE
    <3>1. Change(i, "added", Empty, b.inventory[i]) \in changes
      BY <2>2 DEF SlotChanges
    <3> QED BY <1>2, <3>1 DEF Change
  <2>3. ASSUME i \in Filled(a) \cap Filled(b), a.inventory[i] # b.inventory[i] PROVE FALSE
    <3>1. Change(i, "changed", a.inventory[i], b.inventory[i]) \in changes
      BY <2>3 DEF SlotChanges
    <3> QED BY <1>2, <3>1 DEF Change
  <2> QED BY <2>1, <2>2, <2>3
<1>3. ASSUME NEW i \in Filled(b) PROVE i \in Filled(a) \cup {c.slot : c \in changes}
  BY <1>2
<1> HIDE DEF changes
<1>4. DOMAIN left = Filled(a) \cup {c.slot : c \in changes}
  BY DEF Applied
<1>5. ASSUME NEW i \in DOMAIN left PROVE left[i] = wanted(i)
  <2>1. CASE \E c \in changes : c.slot = i
    <3>1. /\ (CHOOSE c \in changes : c.slot = i) \in changes
          /\ (CHOOSE c \in changes : c.slot = i).slot = i
      BY <2>1
    <3>2. left[i] = (CHOOSE c \in changes : c.slot = i).after
      BY <1>4, <2>1 DEF Applied
    <3> QED BY <1>1, <3>1, <3>2
  <2>2. CASE \A c \in changes : c.slot # i
    <3>1. i \in Filled(a)
      BY <1>4, <2>2
    <3>2. left[i] = a.inventory[i]
      BY <1>4, <2>2 DEF Applied
    <3> QED BY <1>2, <2>2, <3>1, <3>2
  <2> QED BY <2>1, <2>2
<1> QED BY <1>3, <1>4, <1>5 DEF changes

\* A report of the audit of a site by its sender, which ends that audit only.
Reports(s, site) ==
    /\ log' = log + 1 /\ told'.sender = s
    /\ told'.of = Delta(site, baselines[s][site], Captured(site))
    /\ baselines' = [baselines EXCEPT ![s][site] = None]

LEMMA AuditStopOK ==
    ASSUME TypeOK, NEW s \in Senders, AuditStop(s)
    PROVE  /\ CommandOK(s)
           /\ KeepsBaselines \/ \E site \in Sites : Reports(s, site)
<1>1. PICK ask \in Asked(s) :
         \/ Say(s, "no target") /\ bridge' = bridge
         \/ Say(s, "no baseline") /\ bridge' = bridge
         \/ /\ bridge' = Connected
            /\ \/ Say(s, Refusal("capture"))
               \/ Say(s, "no snapshot")
               \/ /\ ask.site # None
                  /\ baselines' = [baselines EXCEPT ![s][ask.site] = None]
                  /\ log' = log + 1
                  /\ told' = Told(s, "report", ask,
                        Delta(ask.site, baselines[s][ask.site], Captured(ask.site)))
                  /\ UNCHANGED <<world, targets>>
  BY DEF AuditStop, Captures
<1>2. UNCHANGED <<sight, service, where>> /\ log < MaxLog
  BY DEF AuditStop
<1>3. CASE Answers(s)
  BY <1>1, <1>2, <1>3, AnswersOK
<1>4. CASE /\ bridge' = Connected /\ ask.site # None
           /\ baselines' = [baselines EXCEPT ![s][ask.site] = None]
           /\ log' = log + 1
           /\ told' = Told(s, "report", ask,
                 Delta(ask.site, baselines[s][ask.site], Captured(ask.site)))
           /\ UNCHANGED <<world, targets>>
  <2>1. ask.site \in Sites
    BY <1>4, AskedType DEF Ask, Spots
  <2>2. baselines' \in Baselines
    BY <1>4, <2>1 DEF TypeOK, Baselines
  <2>3. log' \in 0..MaxLog
    BY <1>2, <1>4, SessionAssumption DEF TypeOK, SessionAssumption
  <2>4. /\ told'.sender = s /\ told'.what = "report"
        /\ told'.of = Delta(ask.site, baselines[s][ask.site], Captured(ask.site))
    BY <1>4 DEF Told
  <2>5. Reports(s, ask.site)
    BY <1>4, <2>4 DEF Reports
  <2>6. CommandOK(s)
    BY <1>2, <1>4, <2>2, <2>3, <2>4, BridgeType DEF CommandOK, WritesAsked, Outcomes, TypeOK, Spots
  <2> QED BY <2>1, <2>4, <2>5, <2>6
<1> QED BY <1>1, <1>3, <1>4, RefusalAnswers, SayAnswers DEF Outcomes

-----------------------------------------------------------------------------
LEMMA CommandsOK ==
    ASSUME TypeOK, NEW s \in Senders, Command(s)
    PROVE  /\ CommandOK(s)
           /\ KeepsBaselines \/ \E site \in Sites : Starts(s, site) \/ Reports(s, site)
BY LocateOK, InspectOK, ItemOK, StateSetOK, AuditStartOK, AuditStopOK DEF Command

LEMMA InitType == Init => TypeOK
<1> SUFFICES ASSUME Init PROVE TypeOK
  OBVIOUS
<1>1. targets \in [Senders -> Sites \cup {None}]
  BY DEF Init
<1>2. baselines \in [Senders -> [Sites -> Snapshot \cup {None}]]
  BY DEF Init
<1>3. log \in 0..MaxLog
  BY SessionAssumption DEF Init, SessionAssumption
<1> QED BY <1>1, <1>2, <1>3 DEF Init, TypeOK

\* What the rest of the server does is told to nobody.
LEMMA OthersQuiet ==
    ASSUME Edit \/ Look \/ Service \/ Travel \/ Reload
    PROVE  told'.sender = None /\ told'.what = "none"
BY DEF Edit, Look, Service, Travel, Reload, Quiet, Tell, Told

LEMMA NextType == TypeOK /\ [Next]_vars => TypeOK'
<1> SUFFICES ASSUME TypeOK, [Next]_vars PROVE TypeOK'
  OBVIOUS
<1>1. ASSUME NEW s \in Senders, Command(s) PROVE TypeOK'
  <2>1. CommandOK(s)
    BY <1>1, CommandsOK
  <2>2. world' \in [Sites -> Block]
    BY <2>1 DEF CommandOK, WritesAsked, TypeOK
  <2> QED BY <2>1, <2>2 DEF CommandOK, TypeOK, Baselines, Spots
<1>2. CASE Edit
  BY <1>2, SessionAssumption DEF Edit, TypeOK, SessionAssumption
<1>3. CASE Look
  BY <1>3 DEF Look, TypeOK
<1>4. CASE Service
  BY <1>4 DEF Service, TypeOK
<1>5. CASE Travel
  <2>1. PICK s \in Senders, site \in Sites : where' = [where EXCEPT ![s] = site]
    BY <1>5, SessionAssumption DEF Travel, SessionAssumption
  <2>2. where' \in [Senders -> Sites \cup {Nowhere}]
    BY <2>1 DEF TypeOK
  <2> QED BY <1>5, <2>2 DEF Travel, Quiet, TypeOK
<1>6. CASE Reload
  <2>1. log' \in 0..MaxLog
    BY <1>6, SessionAssumption DEF Reload, SessionAssumption
  <2> QED BY <1>6, <2>1 DEF Reload, server, TypeOK
<1>7. CASE UNCHANGED vars
  BY <1>7 DEF vars, TypeOK
<1> QED BY <1>1, <1>2, <1>3, <1>4, <1>5, <1>6, <1>7 DEF Next

\* Whatever slots, sites and values commands name, blocks keep the shape of
\* their type, targets are sites and baselines snapshots.
THEOREM TypeCorrect == Spec => []TypeOK
BY InitType, NextType, PTL DEF Spec

\* A step told to a sender is a command of that sender.
LEMMA SenderCommands ==
    ASSUME Next, NEW s \in Senders, told'.sender = s, TypeOK
    PROVE  Command(s)
<1>1. s # None
  BY SessionAssumption DEF SessionAssumption
<1>2. ~(Edit \/ Look \/ Service \/ Travel \/ Reload)
  BY <1>1, OthersQuiet
<1>3. PICK t \in Senders : Command(t)
  BY <1>2 DEF Next
<1>4. t = s
  BY <1>3, CommandsOK DEF CommandOK
<1> QED BY <1>3, <1>4

\* No command writes to a block its sender did not name, by coordinates or by
\* selecting it, and none writes to two.
THEOREM NoSilentFallback == Spec => NoFallback
<1>1. ASSUME TypeOK, Next, NEW s \in Senders, NEW site \in Sites,
             told'.sender = s, world'[site] # world[site]
      PROVE  /\ told'.site = site
             /\ IF told'.explicit THEN site \in Explicit(s) ELSE site = targets[s]
             /\ \A other \in Sites \ {site} : world'[other] = world[other]
  <2>1. WritesAsked(s)
    BY <1>1, SenderCommands, CommandsOK DEF CommandOK
  <2>2. PICK ask \in Asked(s), what \in Outcomes, b \in Block : \E write :
           ask.site \in Sites /\ told' = Told(s, what, ask, write) /\ world' = [world EXCEPT ![ask.site] = b]
    BY <1>1, <2>1 DEF WritesAsked
  <2>3. world \in [Sites -> Block]
    BY <1>1 DEF TypeOK
  <2>4. ask.site = site /\ \A other \in Sites \ {site} : world'[other] = world[other]
    BY <1>1, <2>2, <2>3
  <2>5. told'.site = ask.site /\ told'.explicit = ask.explicit
    BY <2>2 DEF Told
  <2> QED BY <1>1, <2>4, <2>5, AskedType
<1>2. TypeOK /\ [Next]_vars =>
         [\A s \in Senders, site \in Sites :
             told'.sender = s /\ world'[site] # world[site]
                => /\ told'.site = site
                   /\ IF told'.explicit THEN site \in Explicit(s) ELSE site = targets[s]
                   /\ \A other \in Sites \ {site} : world'[other] = world[other]]_vars
  BY <1>1
<1> QED BY InitType, NextType, <1>2, PTL DEF Spec, NoFallback

\* One step does to the world what is told of it: a write told as made is the
\* one asked for, a write told as failed was not made, but for a state, a
\* write that raised was made or not, and nothing else told has changed
\* anything.
THEOREM CommandsTellTheTruth == Spec => TellsTheTruth
<1> DEFINE Truth == IF told'.what \in Outcomes
                    THEN Honest(told'.what, told'.of, world[told'.site], world'[told'.site])
                    ELSE world' = world
<1>1. ASSUME TypeOK, Next, told'.sender # None PROVE Truth
  <2>1. PICK s \in Senders : Command(s)
    BY <1>1, OthersQuiet DEF Next
  <2>2. WritesAsked(s)
    BY <1>1, <2>1, CommandsOK DEF CommandOK
  <2>3. CASE world' = world /\ told'.what \notin Outcomes
    BY <2>3
  <2>4. ASSUME NEW ask \in Asked(s), NEW what \in Outcomes, NEW write, NEW b \in Block,
               ask.site \in Sites, told' = Told(s, what, ask, write),
               world' = [world EXCEPT ![ask.site] = b],
               Honest(what, write, world[ask.site], b)
        PROVE  Truth
    <3>1. told'.what = what /\ told'.site = ask.site /\ told'.of = write
      BY <2>4 DEF Told
    <3>2. world'[ask.site] = b
      BY <1>1, <2>4 DEF TypeOK
    <3> QED BY <2>4, <3>1, <3>2
  <2> QED BY <2>2, <2>3, <2>4 DEF WritesAsked
<1>2. TypeOK /\ [Next]_vars => [told'.sender # None => Truth]_vars
  BY <1>1
<1> QED BY InitType, NextType, <1>2, PTL DEF Spec, TellsTheTruth

\* An audit ends with its own sender's report, which explains the capture, or
\* with a reload; its baseline is replaced by its own sender alone, who is
\* told so.
Accounted(s, site) ==
    \/ StartsAnew
    \/ Reported(s, site)
    \/ /\ told'.sender = s /\ told'.what = "started" /\ told'.site = site
       /\ baselines'[s][site] = Captured(site)

THEOREM AuditKept == Spec => AuditNotLost
<1>1. ASSUME TypeOK, Next, NEW s \in Senders, NEW site \in Sites,
             baselines[s][site] # None, baselines'[s][site] # baselines[s][site]
      PROVE  Accounted(s, site)
  <2>1. CASE Edit \/ Look \/ Service \/ Travel
    BY <1>1, <2>1 DEF Edit, Look, Service, Travel
  <2>2. CASE Reload
    BY <2>2, OthersQuiet DEF Reload, Accounted, StartsAnew
  <2>3. ASSUME NEW t \in Senders, Command(t) PROVE Accounted(s, site)
    <3>1. PICK there \in Sites : Starts(t, there) \/ Reports(t, there)
      BY <1>1, <2>3, CommandsOK DEF KeepsBaselines
    <3>2. t = s /\ there = site
      BY <1>1, <3>1 DEF Starts, Reports, TypeOK
    <3>3. CASE Starts(s, site)
      BY <1>1, <3>3 DEF Starts, Accounted, TypeOK
    <3>4. CASE Reports(s, site)
      <4>1. /\ told'.of.location = site
            /\ told'.of.inventory_changes = SlotChanges(baselines[s][site], Captured(site))
        BY <3>4 DEF Reports, Delta
      <4>2. told'.sender = s /\ log' = log + 1 /\ baselines'[s][site] = None
        BY <1>1, <3>4 DEF Reports, TypeOK
      <4>3. Reported(s, site)
        BY <4>1, <4>2, DeltaExplains DEF Reported
      <4> QED BY <4>3 DEF Accounted
    <3> QED BY <3>1, <3>2, <3>3, <3>4
  <2> QED BY <1>1, <2>1, <2>2, <2>3 DEF Next
<1>2. TypeOK /\ [Next]_vars =>
         [\A s \in Senders, site \in Sites :
             baselines[s][site] # None /\ baselines'[s][site] # baselines[s][site]
                => Accounted(s, site)]_vars
  BY <1>1
<1> QED BY InitType, NextType, <1>2, PTL DEF Spec, AuditNotLost, Accounted

-----------------------------------------------------------------------------
LEMMA Passed ==
    ASSUME NEW need, Refusal(need) = "none"
    PROVE  Connected # None /\ (need = "inventory" => Connected = "native")
BY DEF Refusal, Supports

LEMMA TellWhat == ASSUME NEW s, NEW what, NEW ask, Tell(s, what, ask) PROVE told'.what = what
BY DEF Tell, Told

LEMMA SayWhat == ASSUME NEW s, NEW what, Say(s, what) PROVE told'.what = what
BY DEF Say, Tell, Told

LEMMA RefusalHalts ==
    ASSUME NEW s, NEW need, Refusal(need) # "none", Say(s, Refusal(need))
    PROVE  told'.what \notin Went
<1>1. Refusal(need) \notin Went
  BY DEF Refusal, Went
<1> QED BY <1>1 DEF Say, Tell, Told

LEMMA CommandGoesOn ==
    ASSUME NEW s, Command(s), told'.what \in Went
    PROVE  GoesOn(Connected)
<1>1. CASE Locate(s)
  <2>1. CASE Refusal("block_entity_nbt") # "none"
    BY <1>1, <2>1, RefusalHalts DEF Locate
  <2>2. CASE Refusal("block_entity_nbt") = "none"
    <3>1. \/ Say(s, "no location") \/ Say(s, "no snapshot") \/ Say(s, "none found")
          \/ \E ask : Tell(s, "located", ask)
      BY <1>1, <2>2 DEF Locate
    <3> QED BY <2>2, <3>1, Passed, SayWhat, TellWhat DEF GoesOn
  <2> QED BY <2>1, <2>2
<1>2. CASE Inspect(s)
  <2>1. CASE Refusal("capture") = "none"
    <3>1. \/ Say(s, "no target") \/ Say(s, "no snapshot") \/ Say(s, "shown")
          \/ \E ask : Tell(s, "selected", ask)
      BY <1>2, <2>1 DEF Inspect
    <3> QED BY <2>1, <3>1, Passed, SayWhat, TellWhat DEF GoesOn
  <2>2. CASE Refusal("capture") # "none"
    <3>1. Say(s, "no target") \/ Say(s, Refusal("capture"))
      BY <1>2, <2>2 DEF Inspect
    <3> QED BY <2>2, <3>1, RefusalHalts, SayWhat DEF Went
  <2> QED BY <2>1, <2>2
<1>3. ASSUME NEW write, Item(s, write) PROVE GoesOn(Connected)
  <2>1. CASE Refusal("inventory") = "none"
    BY <2>1, Passed DEF GoesOn
  <2>2. CASE Refusal("inventory") # "none"
    <3>1. Say(s, "no target") \/ Say(s, Refusal("inventory"))
      BY <1>3, <2>2 DEF Item
    <3> QED BY <2>2, <3>1, RefusalHalts, SayWhat DEF Went
  <2> QED BY <2>1, <2>2
<1>4. ASSUME NEW write, StateSet(s, write) PROVE GoesOn(Connected)
  <2>1. CASE Refusal("block_writes") = "none"
    <3>1. \/ Say(s, "no target") \/ Say(s, "no snapshot")
          \/ \E ask, possible, damage, failed : Apply(s, ask, write, possible, damage, failed)
      BY <1>4, <2>1 DEF StateSet
    <3> QED BY <2>1, <3>1, Passed, SayWhat, WriteTold DEF GoesOn, Outcomes
  <2>2. CASE Refusal("block_writes") # "none"
    <3>1. Say(s, "no target") \/ Say(s, Refusal("block_writes"))
      BY <1>4, <2>2 DEF StateSet
    <3> QED BY <2>2, <3>1, RefusalHalts, SayWhat DEF Went
  <2> QED BY <2>1, <2>2
<1>5. CASE AuditStart(s)
  <2>1. CASE Refusal("capture") = "none"
    <3>1. \/ Say(s, "no target") \/ Say(s, "no snapshot")
          \/ \E ask : Tell(s, "started", ask)
      BY <1>5, <2>1 DEF AuditStart
    <3> QED BY <2>1, <3>1, Passed, SayWhat, TellWhat DEF GoesOn
  <2>2. CASE Refusal("capture") # "none"
    <3>1. Say(s, "no target") \/ Say(s, Refusal("capture"))
      BY <1>5, <2>2 DEF AuditStart
    <3> QED BY <2>2, <3>1, RefusalHalts, SayWhat DEF Went
  <2> QED BY <2>1, <2>2
<1>6. CASE AuditStop(s)
  <2>1. CASE Refusal("capture") = "none"
    <3>1. \/ Say(s, "no target") \/ Say(s, "no baseline") \/ told'.what \in {"no snapshot", "report"}
      <4>1. \/ Say(s, "no target") \/ Say(s, "no baseline")
            \/ Say(s, "no snapshot")
            \/ \E ask, delta : told' = Told(s, "report", ask, delta)
        BY <1>6, <2>1 DEF AuditStop
      <4>2. ASSUME NEW ask, NEW delta, told' = Told(s, "report", ask, delta)
            PROVE  told'.what = "report"
        BY <4>2 DEF Told
      <4> QED BY <4>1, <4>2, SayWhat
    <3> QED BY <2>1, <3>1, Passed, SayWhat DEF GoesOn
  <2>2. CASE Refusal("capture") # "none"
    <3>1. Say(s, "no target") \/ Say(s, "no baseline") \/ Say(s, Refusal("capture"))
      BY <1>6, <2>2 DEF AuditStop
    <3> QED BY <2>2, <3>1, RefusalHalts, SayWhat DEF Went
  <2> QED BY <2>1, <2>2
<1> QED BY <1>1, <1>2, <1>3, <1>4, <1>5, <1>6 DEF Command

\* A command that captures or writes checked the connection it goes on with;
\* so what the guide says of the service is so of every command whose
\* connection is still the service's.
THEOREM CurrentConnectionChecked == Spec => ConnectionChecked
<1>1. ASSUME Next, told'.what \in Went
      PROVE  GoesOn(Connected) /\ (Current => GoesOn(service))
  <2>1. PICK s \in Senders : Command(s)
    BY <1>1, OthersQuiet DEF Next, Went
  <2>2. Current => Connected = service
    BY DEF Current, Connected
  <2> QED BY <1>1, <2>1, <2>2, CommandGoesOn
<1>2. [Next]_vars => [told'.what \in Went
                        => GoesOn(Connected) /\ (Current => GoesOn(service))]_vars
  BY <1>1
<1> QED BY <1>2, PTL DEF Spec, ConnectionChecked
=============================================================================
