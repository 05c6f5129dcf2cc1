CONSTANTS
    Capacity <- SmallCapacity
    Places <- SmallPlaces
    stone = stone
    bundle = bundle
    backpack = backpack
    plain = plain
    contents = contents
    some = some
    Found <- FoundStacks
    Offered <- OfferedValues
    Plain = {stone}
    VanillaBundles = {bundle}
    CustomStorage = {backpack}
    Tags = {plain, contents}
    WithContents = {contents}
    Hidden = {none, some}
    NoHidden = none
    HeldSlots = {0, 1}
    Empty = Empty
    NotAnItem = NotAnItem
    NoUpdate = NoUpdate
    BadNbt = BadNbt
    NoRevision = NoRevision
    NoRequest = NoRequest
    NoReply = NoReply
    NoInventory = NoInventory
    MaxTouched = 2
    MaxEdits = 1
SPECIFICATION Spec
INVARIANTS TypeOK LeavesPrefix HiddenFieldsKept BundlesAreNotWritten
PROPERTIES InvalidChangesNothing Implements
