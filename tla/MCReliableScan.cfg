SPECIFICATION MCSpec
CONSTANTS
    a = a
    b = b
    s1 = s1
    s2 = s2
    p1 = p1
    p2 = p2
    NoId = NoId
    Skip = Skip
    NoFile = NoFile
    Torn = Torn
    Unreadable = Unreadable
    Procs = {p1, p2}
    Scopes = {s1, s2}
    Ids = {a, b}
    IdOf <- MCHistory
    N = 3
    PageLimit = 2
    MaxPages = 2
INVARIANTS NoLoss NeverTorn OncePerRun
PROPERTIES ReplayOnlyUncommitted OnlyForward RunEnds ImplementsContract
