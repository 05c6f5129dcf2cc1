---------------------- MODULE MCPlayerInventoryWrite ----------------------
(***************************************************************************)
(* Instances of PlayerInventoryWrite for TLC: a main inventory and an      *)
(* offhand of one slot each, and sections that have none.  Patches name    *)
(* slots before, in and after these.                                       *)
(***************************************************************************)
EXTENDS PlayerInventoryWrite

CONSTANTS stone, bundle, backpack, plain, contents, some

SmallCapacity == [main |-> 1, armor |-> 0, offhand |-> 1, ender_chest |-> 0]

SmallPlaces == {<<"main", -1>>, <<"main", 0>>, <<"main", 1>>,
                <<"offhand", 0>>, <<"offhand", 1>>}

\* An item with hidden fields, and a bundle with its contents.
FoundStacks == {[type |-> stone, tag |-> plain, hidden |-> some],
                [type |-> bundle, tag |-> contents, hidden |-> NoHidden]}

OfferedValues == {[type |-> stone, tag |-> plain],
                  [type |-> backpack, tag |-> plain],
                  [type |-> backpack, tag |-> contents],
                  [type |-> bundle, tag |-> plain],
                  Empty, NotAnItem, BadNbt}
=============================================================================
