---------------------------- MODULE MCBlockWrites ----------------------------
(***************************************************************************)
(* Instances of BlockWrites: a chest, a shelf and a stone, and patches     *)
(* that take every route of apply.                                         *)
(***************************************************************************)
EXTENDS BlockWrites, RegionCapture, FiniteSets, TLC

CONSTANTS chest, shelf, stone, plain, lit, n1, d0, d1, i0, i1

MCActorOf == chest :> "container" @@ shelf :> "shelf" @@ stone :> "none"

MCSchema == (Types \X States) \ {<<chest, lit>>}

Fresh(type) == [type |-> type, state |-> plain, actor |-> ActorOf[type],
                name |-> Unset, data |-> Unset, items |-> Unset]

Filled(type) == [Fresh(type) EXCEPT !.data = d0, !.items = i0]

MCStart == {Filled(chest), Fresh(stone)}

MCEdits == {[Filled(chest) EXCEPT !.items = i1], Filled(shelf)}

Nothing == [type |-> Keep, state |-> Keep, name |-> Keep, data |-> Keep,
            items |-> Keep, identity |-> FALSE, valid |-> "yes"]

\* One patch for every route, one for every refusal.
Samples == {
    Nothing,
    [Nothing EXCEPT !.type = stone],
    [Nothing EXCEPT !.type = Blank],
    [Nothing EXCEPT !.state = lit],
    [Nothing EXCEPT !.state = Remove, !.items = i1],
    [Nothing EXCEPT !.name = n1, !.data = d1],
    [Nothing EXCEPT !.name = NotText],
    [Nothing EXCEPT !.name = Remove],
    [Nothing EXCEPT !.name = n1, !.items = i1],
    [Nothing EXCEPT !.data = Remove],
    [Nothing EXCEPT !.items = i1],
    [Nothing EXCEPT !.items = i1, !.valid = "unfit"],
    [Nothing EXCEPT !.name = n1, !.valid = "malformed"],
    [Nothing EXCEPT !.identity = TRUE]}

On(l, p, g) == [at |-> l, patch |-> p, guarded |-> g]

Commit(patches, policy) == [patches |-> patches, policy |-> policy]

TheOne == CHOOSE l \in Locations : TRUE

MCDisturbed == {TheOne}

Core == {[Nothing EXCEPT !.state = lit], [Nothing EXCEPT !.name = n1, !.data = d1],
         [Nothing EXCEPT !.items = i1]}

\* Every patch alone, and pairs on one block or on two.
MCTransactions ==
    {Commit(<<On(TheOne, p, TRUE)>>, "FailIfChanged") : p \in Samples}
    \cup {Commit(<<On(TheOne, Nothing, FALSE)>>, "Replace")}
    \cup {Commit(<<On(TheOne, p, TRUE), On(l, q, FALSE)>>, "FailIfChanged") :
             p \in Core, q \in Core, l \in Locations}
    \cup {Commit(<<On(TheOne, p, TRUE), On(TheOne, q, TRUE)>>, policy) :
             p \in Core, q \in Core, policy \in {"FailIfChanged", "Force"}}

\* Small corners, and a limit of blocks they fall short of and pass: captureRegion
\* refuses by its extents and products what it would refuse by counting.
ASSUME RegionsChecked ==
    \A x1, x2, y1, y2 \in -2..2, z1, z2 \in -1..1 :
        TooLarge(Extent(x1, x2), Extent(y1, y2), Extent(z1, z2))
            <=> Cardinality(Blocks(x1, x2, y1, y2, z1, z2)) > MaxCaptureRegionBlocks
=============================================================================
