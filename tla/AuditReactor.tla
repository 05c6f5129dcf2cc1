---------------------------- MODULE AuditReactor ----------------------------
(***************************************************************************)
(* ContainerAuditReactor: event listeners arm a location before an action  *)
(* and inspect it afterwards; what they get back is the difference between *)
(* the armed baseline and a new capture.  The map of baselines is guarded  *)
(* by a mutex, but captures are taken outside it, so the steps of two      *)
(* calls and the changes of the world interleave between the two critical  *)
(* sections of inspect and before the one of arm.                          *)
(*                                                                         *)
(* A detached snapshot is represented by its position in the history of    *)
(* the block it was taken from.                                            *)
(***************************************************************************)
EXTENDS Integers, Sequences

CONSTANTS
    Threads,      \* the threads listeners run on
    Locations,    \* block locations
    BlockData,    \* type, runtime ID and states of a block, as one value
    ActorNbt,     \* type and NBT of a block actor, as one value
    NoActor,      \* block_entity is absent
    Slots,        \* slot numbers
    Items,        \* items
    NoItem,       \* an unoccupied slot
    MaxVersions   \* bound: how many states a block goes through

ASSUME ReactorAssumption ==
    /\ Locations # {}
    /\ NoActor \notin ActorNbt
    /\ NoItem \notin Items
    /\ MaxVersions \in Nat

VARIABLES
    history,      \* the states of each block, the last one being current
    armed,        \* armed_: the position of the baseline, 0 when there is none
    calls,        \* the call each thread is in
    accounted     \* history variable: states reported, or passed over by arm

vars == <<history, armed, calls, accounted>>

Snapshot ==
    {s \in [block     : BlockData,
            actor     : ActorNbt \cup {NoActor},
            inventory : [Slots -> Items \cup {NoItem}]] :
        s.actor = NoActor => \A n \in Slots : s.inventory[n] = NoItem}

Current(l) == Len(history[l])

-----------------------------------------------------------------------------
(***************************************************************************)
(* diffSnapshots.  An InventoryChange holds the slot, its kind and the     *)
(* items before and after.                                                 *)
(***************************************************************************)
Kind(old, new) == IF old = NoItem THEN "added"
                  ELSE IF new = NoItem THEN "removed" ELSE "changed"

\* Mutant: slots that became occupied are overlooked.
DiffLeftOnly(before, after) ==
    [block_changed     |-> before.block # after.block,
     actor_nbt_changed |-> before.actor # after.actor,
     inventory_changes |->
        {[slot |-> n, kind |-> Kind(before.inventory[n], after.inventory[n]),
          before |-> before.inventory[n], after |-> after.inventory[n]] :
            n \in {n \in Slots : /\ before.inventory[n] # after.inventory[n]
                                 /\ before.inventory[n] # NoItem}}]

Diff(before, after) ==
    [block_changed     |-> before.block # after.block,
     actor_nbt_changed |-> before.actor # after.actor,
     inventory_changes |->
        {[slot |-> n, kind |-> Kind(before.inventory[n], after.inventory[n]),
          before |-> before.inventory[n], after |-> after.inventory[n]] :
            n \in {n \in Slots : before.inventory[n] # after.inventory[n]}}]

-----------------------------------------------------------------------------
NoDelta == [block_changed |-> FALSE, actor_nbt_changed |-> FALSE,
            inventory_changes |-> {}]

\* Positions 0 in before and after: not read, not captured yet.
Idle == [op |-> "idle", location |-> CHOOSE l \in Locations : TRUE,
         rearm |-> FALSE, before |-> 0, after |-> 0, delta |-> NoDelta]

Init ==
    /\ history \in [Locations -> {<<s>> : s \in Snapshot}]
    /\ armed = [l \in Locations |-> 0]
    /\ calls = [t \in Threads |-> Idle]
    /\ accounted = [l \in Locations |-> {}]

Change(l) ==
    /\ Current(l) < MaxVersions
    /\ \E s \in Snapshot \ {history[l][Current(l)]} :
          history' = [history EXCEPT ![l] = Append(@, s)]
    /\ UNCHANGED <<armed, calls, accounted>>

(***************************************************************************)
(* arm: capture without the lock, then store.  A call whose capture fails  *)
(* or shows no block actor returns false and changes nothing.              *)
(***************************************************************************)
ArmCapture(t, l) ==
    /\ calls[t] = Idle
    /\ history[l][Current(l)].actor # NoActor
    /\ calls' = [calls EXCEPT ![t] = [Idle EXCEPT !.op = "arm", !.location = l,
                                                  !.after = Current(l)]]
    /\ UNCHANGED <<history, armed, accounted>>

ArmStore(t) ==
    /\ calls[t].op = "arm"
    /\ LET l == calls[t].location
       IN  /\ armed' = [armed EXCEPT ![l] = calls[t].after]
           /\ accounted' = [accounted EXCEPT ![l] = @ \cup 1..calls[t].after]
    /\ calls' = [calls EXCEPT ![t] = Idle]
    /\ UNCHANGED history

\* inspect, first critical section: copy the baseline, if there is one.
InspectRead(t, l, rearm) ==
    /\ calls[t] = Idle
    /\ armed[l] # 0
    /\ calls' = [calls EXCEPT ![t] = [Idle EXCEPT !.op = "inspect", !.location = l,
                                                  !.rearm = rearm,
                                                  !.before = armed[l]]]
    /\ UNCHANGED <<history, armed, accounted>>

InspectCapture(t) ==
    /\ calls[t].op = "inspect"
    /\ calls[t].after = 0
    /\ LET l == calls[t].location
       IN  calls' = [calls EXCEPT ![t].after = Current(l),
                                  ![t].delta = Diff(history[l][calls[t].before],
                                                    history[l][Current(l)])]
    /\ UNCHANGED <<history, armed, accounted>>

InspectCaptureFails(t) ==
    /\ calls[t].op = "inspect"
    /\ calls[t].after = 0
    /\ calls' = [calls EXCEPT ![t] = Idle]
    /\ UNCHANGED <<history, armed, accounted>>

\* Mutant: the block is captured again for the new baseline.
InspectStoreRecaptured(t) ==
    /\ calls[t].op = "inspect"
    /\ calls[t].after # 0
    /\ LET l == calls[t].location
       IN  /\ armed' = [armed EXCEPT ![l] = IF calls[t].rearm THEN Current(l) ELSE 0]
           /\ accounted' = [accounted EXCEPT ![l] =
                 @ \cup (calls[t].before + 1)..calls[t].after]
    /\ calls' = [calls EXCEPT ![t] = Idle]
    /\ UNCHANGED history

\* Mutant: the call is not over when its delta is returned.
InspectStoreLingers(t) ==
    /\ calls[t].op = "inspect"
    /\ calls[t].after # 0
    /\ LET l == calls[t].location
       IN  /\ armed' = [armed EXCEPT ![l] = IF calls[t].rearm THEN calls[t].after ELSE 0]
           /\ accounted' = [accounted EXCEPT ![l] =
                 @ \cup (calls[t].before + 1)..calls[t].after]
    /\ calls' = [calls EXCEPT ![t].op = "idle"]
    /\ UNCHANGED history

(***************************************************************************)
(* inspect, second critical section: the new capture becomes the baseline, *)
(* or the location is no longer armed; either way whatever other calls did *)
(* to this entry in between is overwritten.  The delta is returned.        *)
(***************************************************************************)
InspectStore(t) ==
    /\ calls[t].op = "inspect"
    /\ calls[t].after # 0
    /\ LET l == calls[t].location
       IN  /\ armed' = [armed EXCEPT ![l] = IF calls[t].rearm THEN calls[t].after ELSE 0]
           /\ accounted' = [accounted EXCEPT ![l] =
                 @ \cup (calls[t].before + 1)..calls[t].after]
    /\ calls' = [calls EXCEPT ![t] = Idle]
    /\ UNCHANGED history

Forget(l) ==
    /\ armed' = [armed EXCEPT ![l] = 0]
    /\ UNCHANGED <<history, calls, accounted>>

Clear ==
    /\ armed' = [l \in Locations |-> 0]
    /\ UNCHANGED <<history, calls, accounted>>

Step(t) ==
    \/ \E l \in Locations : ArmCapture(t, l)
    \/ ArmStore(t)
    \/ \E l \in Locations, rearm \in BOOLEAN : InspectRead(t, l, rearm)
    \/ InspectCapture(t)
    \/ InspectCaptureFails(t)
    \/ InspectStore(t)

Next ==
    \/ \E l \in Locations : Change(l) \/ Forget(l)
    \/ \E t \in Threads : Step(t)
    \/ Clear

Spec == Init /\ [][Next]_vars

-----------------------------------------------------------------------------
Delta == [block_changed : BOOLEAN, actor_nbt_changed : BOOLEAN,
          inventory_changes : SUBSET [slot : Slots,
                                      kind : {"added", "removed", "changed"},
                                      before : Items \cup {NoItem},
                                      after : Items \cup {NoItem}]]

Call == [op : {"idle", "arm", "inspect"}, location : Locations, rearm : BOOLEAN,
         before : Nat, after : Nat, delta : Delta]

\* The types; every position held refers to a state the block has been in.
TypeOK ==
    /\ history \in [Locations -> Seq(Snapshot) \ {<<>>}]
    /\ armed \in [Locations -> Nat]
    /\ accounted \in [Locations -> SUBSET Nat]
    /\ \A l \in Locations :
          /\ armed[l] <= Current(l)
          /\ accounted[l] \subseteq 1..Current(l)
    /\ calls \in [Threads -> Call]
    /\ \A t \in Threads :
          /\ calls[t].op = "idle" => calls[t] = Idle
          /\ calls[t].op = "arm" => calls[t].after # 0
          /\ calls[t].op = "inspect" => calls[t].before # 0
          /\ calls[t].before <= Current(calls[t].location)
          /\ calls[t].after <= Current(calls[t].location)

(***************************************************************************)
(* No change slips between two baselines: every state of the block up to   *)
(* the baseline now armed lies in a delta that was returned, or was passed *)
(* over by an explicit arm -- whatever other threads armed, inspected or   *)
(* forgot, and however the block changed, between the steps of a call.     *)
(***************************************************************************)
NoChangeUnaccounted ==
    \A l \in Locations : armed[l] # 0 => 1..armed[l] \subseteq accounted[l]

(***************************************************************************)
(* A delta is what turns the baseline into the new state: replayed over    *)
(* the baseline it gives the new inventory slot by slot, and its flags say *)
(* whether the block and the actor differ; it is empty exactly when the    *)
(* two states are the same.                                                *)
(***************************************************************************)
Replayed(inventory, changes) ==
    [n \in Slots |->
        IF \E c \in changes : c.slot = n /\ c.before = inventory[n]
        THEN (CHOOSE c \in changes : c.slot = n /\ c.before = inventory[n]).after
        ELSE inventory[n]]

DeltaExplains ==
    \A t \in Threads : calls[t].op = "inspect" /\ calls[t].after # 0 =>
       LET l      == calls[t].location
           before == history[l][calls[t].before]
           after  == history[l][calls[t].after]
           delta  == calls[t].delta
       IN  /\ Replayed(before.inventory, delta.inventory_changes) = after.inventory
           /\ delta = NoDelta <=> before = after
=============================================================================
