-------------------------- MODULE InspectorSession --------------------------
(***************************************************************************)
(* The commands of the inspector plugin: locate, inspect, item, audit and  *)
(* state.  Between two commands the plugin remembers the connection to the *)
(* native service with its capabilities, one active target per sender and  *)
(* one audit baseline per sender and block; meanwhile blocks change, can   *)
(* no longer be captured or are replaced, players travel, and the native   *)
(* service goes away or comes back with another adapter.  A command runs   *)
(* on the primary thread and is one step, its capture and its apply each   *)
(* of which may raise.                                                     *)
(***************************************************************************)
EXTENDS Integers

CONSTANTS
    Senders,      \* by _sender_key
    Sites,        \* block positions, records [dim, pos]
    Overworld,    \* the dimension of a sender without a location
    Nowhere,      \* the location of such a sender (the console)
    Capacity,     \* of each block type; 0 is not a container
    States,       \* values of the block state that is set
    Items,        \* what a slot holds if it is occupied
    Empty,        \* what a command or a delta calls a slot that is not
    NoInventory,  \* a snapshot that shows no container
    None,         \* no bridge, no target, no baseline, no snapshot
    Slots,        \* slots senders name
    Radius,       \* of locate
    Starting,     \* bound: the types of block a site starts with
    Places,       \* bound: where each sender may be
    Disturbed,    \* bound: sites that other players edit, hide or unload
    Audited,      \* bound: sites that are audited
    MaxLog        \* bound: entries of the audit log

ASSUME SessionAssumption ==
    /\ Sites \subseteq [dim : {s.dim : s \in Sites}, pos : Int]
    /\ Nowhere \notin Sites
    /\ None \notin Sites \cup Senders
    /\ Places \in [Senders -> SUBSET (Sites \cup {Nowhere})]
    /\ Disturbed \subseteq Sites
    /\ MaxLog \in Nat
    /\ Empty \notin Items
    /\ Slots \subseteq Nat
    /\ Capacity \in [DOMAIN Capacity -> Nat]

VARIABLES
    world,        \* the blocks
    sight,        \* what a capture of a site shows: actor, block or nothing
    service,      \* the native service: its adapter, or None
    bridge,       \* live_bridge with native_capabilities, or None
    where,        \* where the senders are
    targets,      \* selected_targets
    baselines,    \* audit_baselines
    log,          \* the length of audit_logs; its last entry is in told
    told          \* what the last command told its sender

server == <<world, sight, service, where>>
vars == <<world, sight, service, bridge, where, targets, baselines, log, told>>

Types == DOMAIN Capacity

\* The occupied slots of a container and their items.
Contents(type) ==
    UNION {[occupied -> Items] : occupied \in SUBSET (0..(Capacity[type] - 1))}

Block == UNION {[type : {t}, state : States, slots : Contents(t)] : t \in Types}

Inventory(b) == IF Capacity[b.type] = 0 THEN NoInventory ELSE b.slots

\* Block types _looks_like_container_block knows are the containers here.
Snapshot == UNION {[type : {t}, state : States, inventory : {NoInventory} \cup Contents(t)] :
                      t \in Types}

Shown(b, inventory) == [type |-> b.type, state |-> b.state, inventory |-> inventory]

\* What the service can capture of a site, by the adapter it runs on.
Captured(s) ==
    IF service = None \/ sight[s] = "nothing" THEN None
    ELSE Shown(world[s], IF service = "native" /\ sight[s] = "actor"
                         THEN Inventory(world[s]) ELSE NoInventory)

\* The outcomes of _capture, which reports an exception as no snapshot.
Captures(s) == {Captured(s), None}

IsContainer(snapshot) == snapshot # None /\ snapshot.inventory # NoInventory

\* Mutant: the slot is not compared with the capacity.
HasSlotAlways(snapshot, slot) == TRUE

HasSlot(snapshot, slot) == slot < Capacity[snapshot.type]

-----------------------------------------------------------------------------
\* _require_bridge connects when it has no connection, and keeps one it has.
Connected == IF bridge # None THEN bridge ELSE service

\* Mutant: the capabilities of a connection are not looked at.
SupportsAny(connection, need) == TRUE

Supports(connection, need) ==
    need = "capture" \/ need = "block_writes" \/ connection = "native"

\* What a command that needs a capability is told, if it may not go on.
Refusal(need) ==
    IF Connected = None THEN "unavailable"
    ELSE IF Supports(Connected, need) THEN "none" ELSE "unsupported"

\* What a sender is told, of which write it asked for or of which delta.
Told(s, what, ask, of) ==
    [sender |-> s, what |-> what, site |-> ask.site, explicit |-> ask.explicit, of |-> of]

NoSite == [explicit |-> FALSE, site |-> None]

Tell(s, what, ask) == told' = Told(s, what, ask, None)

\* A command that only answers.
Say(s, what) ==
    /\ Tell(s, what, NoSite)
    /\ UNCHANGED <<world, targets, baselines, log>>

DimensionOf(s) == IF where[s] = Nowhere THEN Overworld ELSE where[s].dim

\* Coordinates are taken in the dimension the sender is in.
Explicit(s) == {site \in Sites : site.dim = DimensionOf(s)}

\* Mutant: without a target the block at the sender is taken.
AskedOrUnder(s) ==
    [explicit : {TRUE}, site : Explicit(s)]
        \cup {[explicit |-> FALSE,
               site |-> IF targets[s] # None \/ where[s] = Nowhere THEN targets[s] ELSE where[s]]}

\* The site a command is about: explicit coordinates or the active target.
Asked(s) ==
    [explicit : {TRUE}, site : Explicit(s)] \cup {[explicit |-> FALSE, site |-> targets[s]]}

-----------------------------------------------------------------------------
Init ==
    /\ world \in {w \in [Sites -> Block] : \A s \in Sites : w[s].type \in Starting[s]}
    /\ sight = [s \in Sites |-> "actor"]
    /\ service \in {"native", "public", None}
    /\ bridge = service
    /\ where \in {w \in [Senders -> Sites \cup {Nowhere}] : \A s \in Senders : w[s] \in Places[s]}
    /\ targets = [s \in Senders |-> None]
    /\ baselines = [s \in Senders |-> [site \in Sites |-> None]]
    /\ log = 0
    /\ told = Told(None, "none", NoSite, None)

\* Captured containers within the radius, of the sender's dimension.
Near(s) ==
    {site \in Sites : /\ site.dim = where[s].dim
                      /\ site.pos - where[s].pos \in (-Radius)..Radius
                      /\ IsContainer(Captured(site))}

Distance(s, site) ==
    IF site.pos < where[s].pos THEN where[s].pos - site.pos ELSE site.pos - where[s].pos

\* The stable sort leaves the first captured of the nearest in front.
Nearest(s) ==
    {site \in Near(s) : \A other \in Near(s) \ {site} :
        \/ Distance(s, site) < Distance(s, other)
        \/ Distance(s, site) = Distance(s, other) /\ site.pos < other.pos}

Locate(s) ==
    /\ bridge' = Connected
    /\ IF Refusal("block_entity_nbt") # "none" THEN Say(s, Refusal("block_entity_nbt"))
       ELSE IF where[s] = Nowhere THEN Say(s, "no location")
       ELSE \/ Say(s, "no snapshot")
            \/ Near(s) = {} /\ Say(s, "none found")
            \/ \E site \in Nearest(s) :
                  /\ targets' = [targets EXCEPT ![s] = site]
                  /\ Tell(s, "located", [explicit |-> FALSE, site |-> site])
                  /\ UNCHANGED <<world, baselines, log>>
    /\ UNCHANGED <<sight, service, where>>

\* Only coordinates select a target, and only if a container was captured.
Inspect(s) ==
    /\ \E ask \in Asked(s) :
          IF ask.site = None THEN Say(s, "no target") /\ bridge' = bridge
          ELSE /\ bridge' = Connected
               /\ IF Refusal("capture") # "none" THEN Say(s, Refusal("capture"))
                  ELSE \E snapshot \in Captures(ask.site) :
                          CASE snapshot = None -> Say(s, "no snapshot")
                            [] snapshot # None /\ ask.explicit /\ IsContainer(snapshot) ->
                                  /\ targets' = [targets EXCEPT ![s] = ask.site]
                                  /\ Tell(s, "selected", ask)
                                  /\ UNCHANGED <<world, baselines, log>>
                            [] OTHER -> Say(s, "shown")
    /\ UNCHANGED <<sight, service, where>>

\* What the patch of a command sets: an item (Empty for a removal), a state.
SlotWrite == [slot : Slots, item : Items \cup {Empty}]

StateWrite == [state : States]

IsStateWrite(write) == "state" \in DOMAIN write

Put(slots, slot, item) ==
    [i \in (IF item = Empty THEN DOMAIN slots \ {slot} ELSE DOMAIN slots \cup {slot})
        |-> IF i = slot THEN item ELSE slots[i]]

Patched(b, write) ==
    IF IsStateWrite(write) THEN [b EXCEPT !.state = write.state]
    ELSE [b EXCEPT !.slots = Put(b.slots, write.slot, write.item)]

\* Mutant: the status of the result is not looked at.
ApplyUnchecked(s, ask, write, possible, damage, failed) ==
    /\ LET new == Patched(world[ask.site], write)
           Answer(what) == told' = Told(s, what, ask, write)
       IN  \/ /\ world' \in {[world EXCEPT ![ask.site] = b] :
                              b \in failed \cup {x \in {new} : possible}}
             /\ Answer("written")
          \/ \E slots \in damage :
                /\ world' = [world EXCEPT ![ask.site].slots = slots]
                /\ Answer("written")
          \/ /\ possible
             /\ world' \in {world, [world EXCEPT ![ask.site] = new]}
             /\ Answer("raised")
    /\ UNCHANGED <<targets, baselines, log>>

(***************************************************************************)
(* _apply with the revision just captured, in the same step: no conflict.  *)
(* The adapter writes, refuses, fails with a block it may leave so, says   *)
(* that it is damaged, or raises, before or after it wrote.                *)
(***************************************************************************)
Apply(s, ask, write, possible, damage, failed) ==
    /\ LET new == Patched(world[ask.site], write)
           Answer(what) == told' = Told(s, what, ask, write)
       IN  \/ /\ possible
             /\ world' = [world EXCEPT ![ask.site] = new]
             /\ Answer("written")
          \/ \E block \in failed :
                /\ world' = [world EXCEPT ![ask.site] = block]
                /\ Answer("failed")
          \/ \E slots \in damage :
                /\ world' = [world EXCEPT ![ask.site].slots = slots]
                /\ Answer("damaged")
          \/ /\ possible
             /\ world' \in {world, [world EXCEPT ![ask.site] = new]}
             /\ Answer("raised")
    /\ UNCHANGED <<targets, baselines, log>>

(***************************************************************************)
(* item add and item remove.  An adapter refuses a slot the container does *)
(* not have as well; here it writes whatever slot it is given, so that the *)
(* check is the command's own.                                             *)
(***************************************************************************)
Item(s, write) ==
    /\ \E ask \in Asked(s) :
          IF ask.site = None THEN Say(s, "no target") /\ bridge' = bridge
          ELSE /\ bridge' = Connected
               /\ IF Refusal("inventory") # "none" THEN Say(s, Refusal("inventory"))
                  ELSE \E snapshot \in Captures(ask.site) :
                          CASE snapshot = None -> Say(s, "no snapshot")
                            [] snapshot # None /\ ~IsContainer(snapshot) -> Say(s, "no container")
                            [] IsContainer(snapshot) /\ ~HasSlot(snapshot, write.slot) ->
                                  Say(s, "no slot")
                            [] OTHER ->
                                  Apply(s, ask, write, service = "native",
                                        Contents(world[ask.site].type), {world[ask.site]})
    /\ UNCHANGED <<sight, service, where>>

\* The state is set before the block is captured again, which may fail.
StateSet(s, write) ==
    /\ \E ask \in Asked(s) :
          IF ask.site = None THEN Say(s, "no target") /\ bridge' = bridge
          ELSE /\ bridge' = Connected
               /\ IF Refusal("block_writes") # "none" THEN Say(s, Refusal("block_writes"))
                  ELSE \E snapshot \in Captures(ask.site) :
                          IF snapshot = None THEN Say(s, "no snapshot")
                          ELSE Apply(s, ask, write, TRUE, {},
                                     {world[ask.site], Patched(world[ask.site], write)})
    /\ UNCHANGED <<sight, service, where>>

-----------------------------------------------------------------------------
Filled(snapshot) ==
    IF snapshot.inventory = NoInventory THEN {} ELSE DOMAIN snapshot.inventory

Change(slot, kind, old, new) == [slot |-> slot, kind |-> kind, before |-> old, after |-> new]

\* The slots of either snapshot that differ.
SlotChanges(a, b) ==
    {Change(i, "removed", a.inventory[i], Empty) : i \in Filled(a) \ Filled(b)}
        \cup {Change(i, "added", Empty, b.inventory[i]) : i \in Filled(b) \ Filled(a)}
        \cup {Change(i, "changed", a.inventory[i], b.inventory[i]) :
                 i \in {j \in Filled(a) \cap Filled(b) : a.inventory[j] # b.inventory[j]}}

Delta(site, a, b) ==
    [location |-> site, block_changed |-> <<a.type, a.state>> # <<b.type, b.state>>,
     inventory_changes |-> SlotChanges(a, b)]

\* Mutant: the key of a baseline leaves out the sender.
ArmedBySite(s, site, snapshot) ==
    [t \in Senders |-> [baselines[t] EXCEPT ![site] = snapshot]]

Armed(s, site, snapshot) == [baselines EXCEPT ![s][site] = snapshot]

\* audit start: a baseline there is, is replaced.
AuditStart(s) ==
    /\ \E ask \in Asked(s) :
          IF ask.site = None THEN Say(s, "no target") /\ bridge' = bridge
          ELSE /\ ask.site \in Audited
               /\ bridge' = Connected
               /\ IF Refusal("capture") # "none" THEN Say(s, Refusal("capture"))
                  ELSE \E snapshot \in Captures(ask.site) :
                          IF snapshot = None THEN Say(s, "no snapshot")
                          ELSE /\ baselines' = Armed(s, ask.site, snapshot)
                               /\ Tell(s, "started", ask)
                               /\ UNCHANGED <<world, targets, log>>
    /\ UNCHANGED <<sight, service, where>>

\* A stop that captures nothing leaves the baseline for another one.
AuditStop(s) ==
    /\ log < MaxLog
    /\ \E ask \in Asked(s) :
          CASE ask.site = None -> Say(s, "no target") /\ bridge' = bridge
            [] ask.site # None /\ baselines[s][ask.site] = None ->
                  Say(s, "no baseline") /\ bridge' = bridge
            [] OTHER ->
                  /\ bridge' = Connected
                  /\ IF Refusal("capture") # "none" THEN Say(s, Refusal("capture"))
                     ELSE \E snapshot \in Captures(ask.site) :
                          IF snapshot = None THEN Say(s, "no snapshot")
                          ELSE /\ baselines' = [baselines EXCEPT ![s][ask.site] = None]
                               /\ log' = log + 1
                               /\ told' = Told(s, "report", ask,
                                     Delta(ask.site, baselines[s][ask.site], snapshot))
                               /\ UNCHANGED <<world, targets>>
    /\ UNCHANGED <<sight, service, where>>

-----------------------------------------------------------------------------
Quiet == Tell(None, "none", NoSite)

\* Another player changes a block.
Edit ==
    /\ \E s \in Disturbed, b \in Block : world' = [world EXCEPT ![s] = b]
    /\ Quiet /\ UNCHANGED <<sight, service, bridge, where, targets, baselines, log>>

\* A chunk unloads or an actor can no longer be located, and back.
Look ==
    /\ \E s \in Disturbed, w \in {"actor", "block", "nothing"} : sight' = [sight EXCEPT ![s] = w]
    /\ Quiet /\ UNCHANGED <<world, service, bridge, where, targets, baselines, log>>

\* The native plugin is disabled, or enabled with one adapter or the other.
Service ==
    /\ service' \in {"native", "public", None}
    /\ Quiet /\ UNCHANGED <<world, sight, bridge, where, targets, baselines, log>>

Travel ==
    /\ \E s \in Senders : \E site \in Places[s] \ {Nowhere} :
          where[s] # Nowhere /\ where' = [where EXCEPT ![s] = site]
    /\ Quiet /\ UNCHANGED <<world, sight, service, bridge, targets, baselines, log>>

\* on_enable starts anew.
Reload ==
    /\ bridge' = service
    /\ targets' = [s \in Senders |-> None]
    /\ baselines' = [s \in Senders |-> [site \in Sites |-> None]]
    /\ log' = 0
    /\ Quiet /\ UNCHANGED server

Command(s) ==
    \/ Locate(s)
    \/ Inspect(s)
    \/ \E write \in SlotWrite : Item(s, write)
    \/ \E write \in StateWrite : StateSet(s, write)
    \/ AuditStart(s)
    \/ AuditStop(s)

Next ==
    \/ \E s \in Senders : Command(s)
    \/ Edit \/ Look \/ Service \/ Travel \/ Reload

Spec == Init /\ [][Next]_vars

-----------------------------------------------------------------------------
(***************************************************************************)
(* Properties.                                                             *)
(***************************************************************************)
\* Targets are sites, baselines snapshots, and blocks keep the shape of their
\* type whatever slots commands name.
TypeOK ==
    /\ world \in [Sites -> Block]
    /\ service \in {"native", "public", None}
    /\ bridge \in {"native", "public", None}
    /\ where \in [Senders -> Sites \cup {Nowhere}]
    /\ targets \in [Senders -> Sites \cup {None}]
    /\ baselines \in [Senders -> [Sites -> Snapshot \cup {None}]]
    /\ log \in 0..MaxLog

\* "No mutating command silently falls back to the block under the player":
\* a block changed by a command is one the sender gave coordinates of, in the
\* dimension it is in, or the active target it was told of when it was
\* selected; and one block at most changes.
NoFallback ==
    [][\A s \in Senders, site \in Sites :
          told'.sender = s /\ world'[site] # world[site]
              => /\ told'.site = site
                 /\ IF told'.explicit THEN site \in Explicit(s) ELSE site = targets[s]
                 /\ \A other \in Sites \ {site} : world'[other] = world[other]]_vars

\* A block is what it was but for what a write sets, and that is as asked.
AsAsked(write, was, is) ==
    /\ is.type = was.type
    /\ IF IsStateWrite(write)
       THEN is.state = write.state /\ is.slots = was.slots
       ELSE /\ is.state = was.state
            /\ \A i \in (DOMAIN is.slots \cup DOMAIN was.slots) \ {write.slot} :
                  i \in DOMAIN is.slots /\ i \in DOMAIN was.slots /\ is.slots[i] = was.slots[i]
            /\ IF write.item = Empty THEN write.slot \notin DOMAIN is.slots
               ELSE write.slot \in DOMAIN is.slots /\ is.slots[write.slot] = write.item

\* What a command that sent a write tells, and what that write did to the block.
Outcomes == {"written", "failed", "damaged", "raised"}

Honest(what, write, was, is) ==
    CASE what = "written" -> AsAsked(write, was, is)
      [] what = "failed"  -> is = was \/ (IsStateWrite(write) /\ AsAsked(write, was, is))
      [] what = "raised"  -> is = was \/ AsAsked(write, was, is)
      [] what = "damaged" -> is.type = was.type /\ is.state = was.state /\ ~IsStateWrite(write)

\* What a sender is told about its write is so.  "written": the block asked
\* for is now what was asked, and otherwise what it was.  A failure left the
\* block alone, but for a state that may have been set all the same; an
\* exception of the bridge leaves open whether the write was made, but not
\* half of it; an incomplete rollback may leave any items in that block.
\* Whatever else a sender is told, nothing was changed.  (That no other block
\* is changed either is NoFallback.)
TellsTheTruth ==
    [][told'.sender # None =>
          IF told'.what \in Outcomes
          THEN Honest(told'.what, told'.of, world[told'.site], world'[told'.site])
          ELSE world' = world]_vars

\* What a delta makes of the inventory its baseline showed.
Applied(changes, before) ==
    [i \in Filled(before) \cup {c.slot : c \in changes} |->
        IF \E c \in changes : c.slot = i
        THEN (CHOOSE c \in changes : c.slot = i).after
        ELSE before.inventory[i]]

\* The plugin starts anew, and with it every audit ends.
StartsAnew ==
    /\ told'.sender = None /\ log' = 0
    /\ \A s \in Senders, site \in Sites : baselines'[s][site] = None

\* The report of a sender's audit of a site: its delta applied to the baseline
\* gives the inventory of the capture.
Reported(s, site) ==
    /\ told'.sender = s /\ log' = log + 1 /\ baselines'[s][site] = None
    /\ LET delta == told'.of
           left  == Applied(delta.inventory_changes, baselines[s][site])
           now   == Captured(site)
       IN  /\ delta.location = site
           /\ \A i \in DOMAIN left :
                 left[i] = IF i \in Filled(now) THEN now.inventory[i] ELSE Empty
           /\ Filled(now) \subseteq DOMAIN left

\* An audit once started is not lost: its baseline is taken away by its own
\* sender's stop, which logs a delta, or by a reload, and replaced only by a
\* second start of its own sender for this block, which is told of it.
\* Failing stops, the starts and stops of other senders, other blocks and a
\* vanished service leave it as it is.
AuditNotLost ==
    [][\A s \in Senders, site \in Sites :
          baselines[s][site] # None /\ baselines'[s][site] # baselines[s][site]
              => \/ StartsAnew
                 \/ Reported(s, site)
                 \/ /\ told'.sender = s /\ told'.what = "started" /\ told'.site = site
                    /\ baselines'[s][site] = Captured(site)]_vars

\* What is told of a command that went on to capture or to write.
Went == {"no snapshot", "no container", "no slot", "written", "failed", "damaged", "raised"}

\* A command goes on only over a connection that has what it needs.
GoesOn(c) == c # None /\ (told'.what \in {"no container", "no slot"} => c = "native")

\* A connection that is the current service's, or made by the command itself.
Current == bridge = None \/ bridge = service

\* A command that captures or writes found its capability in the connection
\* it goes on with.  That connection is the one made first, so the service is
\* checked only as far as it still is the service's; services come and go
\* between any two commands.
ConnectionChecked ==
    [][told'.what \in Went => GoesOn(Connected) /\ (Current => GoesOn(service))]_vars
=============================================================================
