CONSTANTS
    Threads = {t1, t2}
    Locations = {l1}
    BlockData = {k1, k2}
    ActorNbt = {n1, n2}
    NoActor = NoActor
    Slots = {0}
    Items = {i1, i2}
    NoItem = NoItem
    MaxVersions = 3
SYMMETRY ThreadSymmetry
SPECIFICATION Spec
INVARIANTS TypeOK NoChangeUnaccounted DeltaExplains
