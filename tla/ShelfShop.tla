----------------------------- MODULE ShelfShop ------------------------------
(***************************************************************************)
(* The stock manager of a shelf shop.  Callers (purchases in progress)     *)
(* reserve stock by a compare-and-swap write of the shelf, then complete   *)
(* the reservation or restore it by another compare-and-swap write.  The   *)
(* registry of reservations is guarded by a lock; the shelf is not: other  *)
(* callers, restocking and players change it between any two steps.        *)
(*                                                                         *)
(* The shelf and BlockDataService.apply are an instance of                 *)
(* AtomicContainer, so the shop meets every answer the native adapter can  *)
(* give, those with revision 0 and the damaged shelf of an incomplete      *)
(* rollback among them.                                                    *)
(***************************************************************************)
EXTENDS Integers, FiniteSets, Functions

CONSTANTS
    Callers,      \* purchases in progress, each a thread of its own
    Ids,          \* reservation IDs (bound: how many reservations are made)
    Products,     \* item identifiers
    MaxCount,     \* the item count limit, 255
    Size,         \* capacity of the shelf
    Listing,      \* product_id of each listed slot
    Restocks,     \* what shelves are restocked to (bound)
    Empty, Keep, NoRevision, NoRequest, NoReply, NoRecord, NoCaller

Slots == 0..(Size - 1)

Stack == [product : Products, count : 1..MaxCount]

ASSUME ShopAssumption ==
    /\ Size \in Nat
    /\ MaxCount \in Nat
    /\ IsFiniteSet(Callers)
    /\ IsFiniteSet(Ids)
    /\ Listing \in [DOMAIN Listing -> Products]
    /\ DOMAIN Listing \subseteq Slots
    /\ Restocks \subseteq [Slots -> Stack \cup {Empty}]
    /\ NoCaller \notin Callers

VARIABLES
    shelf,        \* the inventory of the shelf
    request,      \* the patch being applied to it, or NoRequest
    reply,        \* the answer to it, or NoReply
    client,       \* whose request it is
    active,       \* _active_reservations, by ID
    restored,     \* _restored_reservations
    completed,    \* _completed_reservations
    lock,         \* who holds _reservation_lock
    calls,        \* what each caller is doing
    ledger        \* history variable: stock that must still exist, by product

vars == <<shelf, request, reply, client, active, restored, completed, lock,
          calls, ledger>>

shop == <<active, restored, completed, lock>>

Adapter == INSTANCE AtomicContainer WITH
    Plain <- Stack, Bundles <- {}, Policies <- {"FailIfChanged"},
    contents <- shelf

\* An active record; "before" is a history field, the shelf reserved from.
Record == [slot : Slots, item : Stack, shelf_revision : Adapter!Revision,
           before : [Slots -> Adapter!Contents]]

ASSUME MarksAssumption ==
    /\ Empty \notin Stack
    /\ Keep \notin Stack \cup {Empty}
    /\ NoRevision \notin [Slots -> Stack \cup {Empty}]
    /\ NoRequest \notin Adapter!Request
    /\ NoReply \notin Adapter!ApplyResult
    /\ NoRecord \notin Record

WithCount(item, count) == [item EXCEPT !.count = count]

PatchItem(s, item) == [t \in Slots |-> IF t = s THEN item ELSE Keep]

ClearItem(s) == PatchItem(s, Empty)

\* How much of a product an item, or an empty slot, is.
Amount(item, p) ==
    IF item # Empty /\ item.product = p THEN item.count ELSE 0

CountOn(contents, p) == SumFunction([s \in Slots |-> Amount(contents[s], p)])

-----------------------------------------------------------------------------
Idle == [op |-> "idle"]

Init ==
    /\ Adapter!AInit
    /\ client = NoCaller
    /\ active = [id \in Ids |-> NoRecord]
    /\ restored = {}
    /\ completed = {}
    /\ lock = NoCaller
    /\ calls = [c \in Callers |-> Idle]
    /\ ledger = [p \in Products |-> CountOn(shelf, p)]

Become(c, call) == calls' = [calls EXCEPT ![c] = call]

\* The ledger follows changes of the shelf that are not the shop's doing.
Outside ==
    ledger' = [p \in Products |->
                  ledger[p] + CountOn(shelf', p) - CountOn(shelf, p)]

ShelfEdit ==
    /\ Adapter!AEdit
    /\ Outside
    /\ UNCHANGED <<client, calls>>
    /\ UNCHANGED shop

(***************************************************************************)
(* reserve, up to apply: capture the shelf, check product and stock.  A    *)
(* call that fails a check raises and changes nothing.                     *)
(***************************************************************************)
ReserveCapture(c, s, quantity) ==
    /\ calls[c] = Idle
    /\ request = NoRequest
    /\ shelf[s] # Empty
    /\ shelf[s].product = Listing[s]
    /\ quantity <= shelf[s].count
    /\ Become(c, [op |-> "reserve", slot |-> s, view |-> shelf,
                  item |-> WithCount(shelf[s], quantity)])
    /\ UNCHANGED <<shelf, request, reply, client, ledger>>
    /\ UNCHANGED shop

ReservePatch(call) ==
    LET remaining == call.view[call.slot].count - call.item.count
    IN  IF remaining = 0
        THEN ClearItem(call.slot)
        ELSE PatchItem(call.slot, WithCount(call.view[call.slot], remaining))

(***************************************************************************)
(* restore, up to apply: take the lock, check that the token presented is  *)
(* the active record and the shelf still the one the reservation left.  A  *)
(* token with a settled, unknown or altered record is refused, as is one   *)
(* for a shelf that changed; nothing changes then.  The two checks after   *)
(* that of the revision guard against another product and too many items.  *)
(***************************************************************************)
Presentable(id, genuine) ==
    /\ id \notin completed \cup restored
    /\ active[id] # NoRecord
    /\ genuine

\* Mutant: the revision the reservation left is not looked at.
RestorableAnyRevision(record) ==
    shelf[record.slot] # Empty =>
       /\ shelf[record.slot].product = record.item.product
       /\ shelf[record.slot].count + record.item.count <= MaxCount

Restorable(record) ==
    /\ shelf = record.shelf_revision
    /\ shelf[record.slot] # Empty =>
          /\ shelf[record.slot].product = record.item.product
          /\ shelf[record.slot].count + record.item.count <= MaxCount

RestoreCapture(c, id, genuine) ==
    /\ calls[c] = Idle
    /\ lock = NoCaller
    /\ request = NoRequest
    /\ Presentable(id, genuine)
    /\ Restorable(active[id])
    /\ lock' = c
    /\ Become(c, [op |-> "restore", id |-> id, view |-> shelf])
    /\ UNCHANGED <<shelf, request, reply, client, active, restored, completed,
                   ledger>>

RestorePatch(call) ==
    LET record == active[call.id]
        now    == call.view[record.slot]
    IN  PatchItem(record.slot,
                  IF now = Empty THEN record.item
                  ELSE WithCount(now, now.count + record.item.count))

\* replace_stock: what the shelf is to hold is decided by the caller.
ReplaceCapture(c, stock) ==
    /\ calls[c] = Idle
    /\ request = NoRequest
    /\ Become(c, [op |-> "replace", view |-> shelf, stock |-> stock])
    /\ UNCHANGED <<shelf, request, reply, client, ledger>>
    /\ UNCHANGED shop

PatchOf(call) == IF call.op = "reserve" THEN ReservePatch(call)
                 ELSE IF call.op = "restore" THEN RestorePatch(call)
                 ELSE call.stock

\* Mutant: the write does not insist on the captured revision.
ApplyUnconditionally(c) ==
    /\ calls[c].op \in {"reserve", "restore", "replace"}
    /\ request = NoRequest
    /\ request' = [patch |-> PatchOf(calls[c]), expected |-> NoRevision,
                   policy |-> "FailIfChanged"]
    /\ client' = c
    /\ UNCHANGED <<shelf, reply, calls, ledger>>
    /\ UNCHANGED shop

\* service.apply, with the revision of the captured view.
Apply(c) ==
    /\ calls[c].op \in {"reserve", "restore", "replace"}
    /\ request = NoRequest
    /\ request' = [patch |-> PatchOf(calls[c]), expected |-> calls[c].view,
                   policy |-> "FailIfChanged"]
    /\ client' = c
    /\ UNCHANGED <<shelf, reply, calls, ledger>>
    /\ UNCHANGED shop

Refuse ==
    /\ Adapter!ARefuse
    /\ UNCHANGED <<client, calls, ledger>>
    /\ UNCHANGED shop

\* Restocking is the one write of the shop that brings or removes stock.
Commit ==
    /\ Adapter!ACommit
    /\ IF calls[client].op = "replace" THEN Outside ELSE UNCHANGED ledger
    /\ UNCHANGED <<client, calls>>
    /\ UNCHANGED shop

\* What an incomplete rollback destroys or leaves behind is not the shop's.
Damage ==
    /\ Adapter!ADamage
    /\ Outside
    /\ UNCHANGED <<client, calls>>
    /\ UNCHANGED shop

Answered(c, op) ==
    /\ client = c
    /\ reply # NoReply
    /\ calls[c].op = op

Ok == reply.status = "Applied"

\* The stock is off the shelf; the reservation is not registered yet.
Reserved(c) ==
    /\ Answered(c, "reserve")
    /\ Become(c, IF Ok
                 THEN [op     |-> "register",
                       record |-> [slot           |-> calls[c].slot,
                                   item           |-> calls[c].item,
                                   shelf_revision |-> reply.revision,
                                   before         |-> calls[c].view]]
                 ELSE Idle)
    /\ Adapter!ACollect
    /\ client' = NoCaller
    /\ UNCHANGED ledger
    /\ UNCHANGED shop

\* Mutant: an ID is new when it is not that of an active reservation.
NewIdNotActive(id) == active[id] = NoRecord

NewId(id) == active[id] = NoRecord /\ id \notin restored \cup completed

Register(c) ==
    /\ calls[c].op = "register"
    /\ lock = NoCaller
    /\ \E id \in Ids :
          /\ NewId(id)
          /\ active' = [active EXCEPT ![id] = calls[c].record]
    /\ Become(c, Idle)
    /\ UNCHANGED <<shelf, request, reply, client, restored, completed, lock, ledger>>

\* Mutant: the lock is released only after a write that happened.
RestoredLockKept(c) ==
    /\ Answered(c, "restore")
    /\ IF Ok
       THEN /\ active' = [active EXCEPT ![calls[c].id] = NoRecord]
            /\ restored' = restored \cup {calls[c].id}
            /\ lock' = NoCaller
       ELSE UNCHANGED <<active, restored, lock>>
    /\ Become(c, Idle)
    /\ Adapter!ACollect
    /\ client' = NoCaller
    /\ UNCHANGED <<completed, ledger>>

\* restore, after apply: the token is used up only by a write that happened.
Restored(c) ==
    /\ Answered(c, "restore")
    /\ IF Ok
       THEN /\ active' = [active EXCEPT ![calls[c].id] = NoRecord]
            /\ restored' = restored \cup {calls[c].id}
       ELSE UNCHANGED <<active, restored>>
    /\ lock' = NoCaller
    /\ Become(c, Idle)
    /\ Adapter!ACollect
    /\ client' = NoCaller
    /\ UNCHANGED <<completed, ledger>>

Replaced(c) ==
    /\ Answered(c, "replace")
    /\ Become(c, Idle)
    /\ Adapter!ACollect
    /\ client' = NoCaller
    /\ UNCHANGED ledger
    /\ UNCHANGED shop

\* The buyer has the stock.
Complete(c, id, genuine) ==
    /\ calls[c] = Idle
    /\ lock = NoCaller
    /\ Presentable(id, genuine)
    /\ active' = [active EXCEPT ![id] = NoRecord]
    /\ completed' = completed \cup {id}
    /\ ledger' = [ledger EXCEPT ![active[id].item.product] = @ - active[id].item.count]
    /\ UNCHANGED <<shelf, request, reply, client, restored, lock, calls>>

Call(c) ==
    \/ \E s \in DOMAIN Listing, quantity \in 1..MaxCount : ReserveCapture(c, s, quantity)
    \/ \E id \in Ids, genuine \in BOOLEAN :
          RestoreCapture(c, id, genuine) \/ Complete(c, id, genuine)
    \/ \E stock \in Restocks : ReplaceCapture(c, stock)

Answer == Refuse \/ Commit \/ Damage

Proceed(c) == Apply(c) \/ Reserved(c) \/ Register(c) \/ Restored(c) \/ Replaced(c)

Next == ShelfEdit \/ Answer \/ \E c \in Callers : Call(c) \/ Proceed(c)

Spec == Init /\ [][Next]_vars

-----------------------------------------------------------------------------
CallState ==
    [op : {"idle"}]
    \cup [op : {"reserve"}, slot : Slots, item : Stack,
          view : [Slots -> Adapter!Contents]]
    \cup [op : {"register"}, record : Record]
    \cup [op : {"restore"}, id : Ids, view : [Slots -> Adapter!Contents]]
    \cup [op : {"replace"}, view : [Slots -> Adapter!Contents],
          stock : [Slots -> Adapter!Contents]]

(***************************************************************************)
(* The types, and who is served: a request is always that of one caller,   *)
(* and the lock is held exactly while a reservation is being restored.     *)
(***************************************************************************)
TypeOK ==
    /\ shelf \in [Slots -> Adapter!Contents]
    /\ request \in Adapter!Request \cup {NoRequest}
    /\ reply \in Adapter!ApplyResult \cup {NoReply}
    /\ client \in Callers \cup {NoCaller}
    /\ client = NoCaller <=> request = NoRequest
    /\ active \in [Ids -> Record \cup {NoRecord}]
    /\ restored \subseteq Ids
    /\ completed \subseteq Ids
    /\ calls \in [Callers -> CallState]
    /\ \A c \in Callers : lock = c <=> calls[c].op = "restore"
    /\ ledger \in [Products -> Int]

(***************************************************************************)
(* Stock is neither lost nor duplicated: what is on the shelf, taken off   *)
(* it by a reservation being made, and held by active reservations adds up *)
(* to what was there, plus what came from outside, minus what was sold --  *)
(* whatever callers interleave and whichever writes fail.                  *)
(***************************************************************************)
HeldBy(id, p) ==
    IF active[id] = NoRecord THEN 0 ELSE Amount(active[id].item, p)

\* A write is answered before the caller takes note of it.
Written(c, op) == Answered(c, op) /\ Ok

HandOf(c, p) ==
    IF calls[c].op = "register" THEN Amount(calls[c].record.item, p)
    ELSE IF Written(c, "reserve") THEN Amount(calls[c].item, p) ELSE 0

BackOf(c, p) ==
    IF Written(c, "restore") THEN Amount(active[calls[c].id].item, p) ELSE 0

Held(p)    == SumFunction([id \in Ids |-> HeldBy(id, p)])
InHand(p)  == SumFunction([c \in Callers |-> HandOf(c, p)])
PutBack(p) == SumFunction([c \in Callers |-> BackOf(c, p)])

StockConserved ==
    \A p \in Products :
       CountOn(shelf, p) + Held(p) + InHand(p) - PutBack(p) = ledger[p]

(***************************************************************************)
(* A restore brings the shelf back to what it was when the stock was       *)
(* reserved: exactly those stacks, whatever happened in between.           *)
(***************************************************************************)
RestoresWhatWasReserved ==
    [][\A c \in Callers : Answered(c, "restore")' /\ ~Answered(c, "restore") /\ Ok' =>
          shelf' = active[calls[c].id].before]_vars

(***************************************************************************)
(* Both terminal operations consume the token and reject replays: an ID is *)
(* active, restored or completed, never two of them, and a settled one is  *)
(* never active again.                                                     *)
(***************************************************************************)
Settled == restored \cup completed

TokensConsumedOnce ==
    [][/\ restored' \cap completed' = {}
       /\ \A id \in Settled : id \in Settled' /\ active'[id] = NoRecord]_vars

(***************************************************************************)
(* The shop sells as if every operation were one step.  What is for sale   *)
(* is what is on the shelf, with what a registration still has in hand and *)
(* without what a restore under way has put back: a reservation happens    *)
(* when it is registered, a restore when the token is used up.             *)
(***************************************************************************)
ForSale == [p \in Products |-> CountOn(shelf, p) + InHand(p) - PutBack(p)]

Tokens ==
    [id \in Ids |->
        IF active[id] # NoRecord THEN [state |-> "held", item |-> active[id].item]
        ELSE [state |-> IF id \in restored THEN "restored"
                        ELSE IF id \in completed THEN "completed" ELSE "new"]]

Sales == INSTANCE AtomicShop WITH stock <- ForSale, tokens <- Tokens

Implements == Sales!Spec

(***************************************************************************)
(* What docs/shelves.md says of a reservation: it carries "its             *)
(* post-reservation shelf revision", that of the shelf its write left.     *)
(***************************************************************************)
CarriesPostReservationRevision ==
    [][\A c \in Callers :
          calls[c].op = "reserve" /\ calls'[c].op = "register" =>
             calls'[c].record.shelf_revision = shelf]_vars
=============================================================================
