CONSTANTS
    chest = chest  shelf = shelf  stone = stone
    plain = plain  lit = lit
    n1 = n1  d0 = d0  d1 = d1  i0 = i0  i1 = i1
    Adapters = {"native", "public", "memory"}
    Callers = {c1}
    Locations = {l1, l2}
    Types = {chest, shelf, stone}
    States = {plain, lit}
    Default = plain
    Names = {n1}
    Data = {d0, d1}
    Items = {i0, i1}
    Unset = Unset
    ActorOf <- MCActorOf
    Schema <- MCSchema
    Keep = Keep
    Remove = Remove
    Blank = Blank
    NotText = NotText
    NoRevision = NoRevision
    Start <- MCStart
    Edits <- MCEdits
    Disturbed <- MCDisturbed
    Transactions <- MCTransactions
    MaxCaptureRegionBlocks = 4
SPECIFICATION Spec
INVARIANTS TypeOK CommitWritesPrefix
PROPERTIES NoLostUpdate RevisionGuardsNextPatch PartialWriteIsNoticed
