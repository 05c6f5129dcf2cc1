CONSTANTS
    Size = 2
    Plain = {p}
    Bundles = {b}
    Empty = Empty
    Keep = Keep
    NoRevision = NoRevision
    Policies = {"FailIfChanged", "Force", "Replace"}
    Managers = {m1, m2, m3, m4, m5, m6, m7, m8}
    NoManager = NoManager
    MaxOwned = 2
    NoRequest = NoRequest
    NoReply = NoReply
SPECIFICATION Spec
INVARIANTS TypeOK NoStrandedBundle PlanInv RevisionOfWhatIsLeft AppliedOverExpected LifetimesExact
PROPERTY Implements
