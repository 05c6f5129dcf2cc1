CONSTANTS
    Senders <- MCSenders
    Player = Player
    Other = Other
    Sites <- TargetSites
    Overworld = "overworld"
    Nowhere = Nowhere
    Capacity <- MCCapacity
    States = {s0, s1}
    Items = {i1}
    Empty = Empty
    NoInventory = NoInventory
    None = None
    Slots = {0, 1}
    Radius = 1
    Starting <- MCStarting
    Places <- MCPlaces
    Disturbed <- MCDisturbed
    Audited <- MCDisturbed
    MaxLog = 1
SPECIFICATION Spec
INVARIANT TypeOK
PROPERTIES NoFallback TellsTheTruth  AuditNotLost
VIEW WithoutTold
