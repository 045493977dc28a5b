\* Two importers of one record, one of them calling twice, and a creation.
SPECIFICATION ImportSpec
CONSTANTS
    a1 = a1
    a2 = a2
    d1 = d1
    d2 = d2
    r1 = r1
    c1 = c1
    c2 = c2
    c3 = c3
    Calls = {c1, c2, c3}
    Actors = {a1, a2}
    Domains = {d1, d2}
    Records = {r1}
    Requests <- AllRequests
    Rows <- MCRows
    Asks <- MCAsks
    MaxCreated = 1
    NoActor = NoActor
    NoRequest = NoRequest
    NoAnswer = NoAnswer
    Undecided = Undecided
    Foreign = Foreign
    Free = Free
INVARIANTS OneImportPerRecord ReceiptsMatchImports
PROPERTIES ImplementsAtomicImport EveryImportEnds
