CONSTANTS
    Players = {p1}
    Writes = {w1, w2}
    Tokens = {t1, t2, t3}
    NoToken = NoToken
    NoWrite = NoWrite
    Nothing = Nothing
    Read = Read
    MaxForms = 2
SPECIFICATION FairSpec
INVARIANTS TypeOK LockHasForm
PROPERTIES ConfirmedWritesOnly LockMovesOn
