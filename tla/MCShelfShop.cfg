CONSTANTS
    Callers = {c1, c2}
    Ids = {r1, r2}
    Products = {p, q}
    Product = p
    MaxCount = 2
    Size = 1
    Listing <- SlotZeroListed
    Restocks <- ClearedOrFilled
    Empty = Empty
    Keep = Keep
    NoRevision = NoRevision
    NoRequest = NoRequest
    NoReply = NoReply
    NoRecord = NoRecord
    NoCaller = NoCaller
SYMMETRY Symmetry
VIEW WhatTheShopSees
SPECIFICATION Spec
INVARIANTS TypeOK StockConserved
PROPERTIES RestoresWhatWasReserved Implements
