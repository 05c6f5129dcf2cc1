----------------------------- MODULE AtomicShop -----------------------------
(***************************************************************************)
(* What the stock manager promises its callers: reserving, restoring and   *)
(* completing are each one step on one number per product.  A reservation  *)
(* is made over stock that is there, holds exactly what it took, and is    *)
(* redeemed once, by giving exactly that back or by selling it.  There is  *)
(* no shelf, no lock, no write in flight and no answer to wait for.        *)
(***************************************************************************)
EXTENDS Integers

CONSTANTS Ids, Products, Stack

VARIABLES
    stock,      \* what is for sale, by product
    tokens,     \* the state of each reservation, and what it holds
    ledger      \* stock that must still exist, by product

Unheld(state) == [state |-> state]

Holding(item) == [state |-> "held", item |-> item]

Init ==
    /\ stock \in [Products -> Nat]
    /\ tokens = [id \in Ids |-> Unheld("new")]
    /\ ledger = stock

\* Restocking, players and damage: stock comes and goes, reservations stay.
Outside ==
    /\ stock' \in [Products -> Nat]
    /\ ledger' = [p \in Products |-> ledger[p] + stock'[p] - stock[p]]
    /\ UNCHANGED tokens

Reserve(id, item) ==
    /\ tokens[id] = Unheld("new")
    /\ item.count <= stock[item.product]
    /\ stock' = [stock EXCEPT ![item.product] = @ - item.count]
    /\ tokens' = [tokens EXCEPT ![id] = Holding(item)]
    /\ UNCHANGED ledger

Restore(id) ==
    /\ tokens[id].state = "held"
    /\ LET item == tokens[id].item
       IN  stock' = [stock EXCEPT ![item.product] = @ + item.count]
    /\ tokens' = [tokens EXCEPT ![id] = Unheld("restored")]
    /\ UNCHANGED ledger

Complete(id) ==
    /\ tokens[id].state = "held"
    /\ LET item == tokens[id].item
       IN  ledger' = [ledger EXCEPT ![item.product] = @ - item.count]
    /\ tokens' = [tokens EXCEPT ![id] = Unheld("completed")]
    /\ UNCHANGED stock

Next ==
    \/ Outside
    \/ \E id \in Ids : Restore(id) \/ Complete(id) \/ \E item \in Stack : Reserve(id, item)

Spec == Init /\ [][Next]_<<stock, tokens, ledger>>
=============================================================================
