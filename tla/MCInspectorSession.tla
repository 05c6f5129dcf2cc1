------------------------- MODULE MCInspectorSession -------------------------
(***************************************************************************)
(* Instances of InspectorSession: a hopper of one slot others may break or *)
(* replace, stone in another dimension, a sender that goes from one to the *)
(* other or is the console, and one that stays at the hopper.              *)
(***************************************************************************)
EXTENDS InspectorSession, TLC

CONSTANTS Player, Other

MCSenders == {Player, Other}

Site(dim, pos) == [dim |-> dim, pos |-> pos]

Hopper == Site("overworld", 0)

TargetSites == {Hopper, Site("nether", 0)}

MCDisturbed == {Hopper}

MCPlaces == Player :> TargetSites \cup {Nowhere} @@ Other :> {Hopper}

MCCapacity == "hopper" :> 1 @@ "stone" :> 0

MCStarting ==
    [s \in TargetSites |-> IF s = Hopper THEN {"hopper", "stone"} ELSE {"stone"}]

\* No action reads what the last command told.
WithoutTold == <<world, sight, service, bridge, where, targets, baselines, log>>
=============================================================================
