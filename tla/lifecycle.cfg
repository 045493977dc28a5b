\* Four calls, any of the commands each.
CONSTANTS
    Calls = {c1, c2, c3, c4}
    p = p
    q = q
    v1 = v1
    v2 = v2
    empty = empty
    g1 = g1
    g2 = g2
    s1 = s1
    external = external
    Versions = {v1, v2}
    Graphs = {g1, g2}
    EmptyGraph = empty
    ValidGraphs = {g1, g2}
    Schemas = {s1, external}
    ValidSchemas = {s1}
    NoDigest = NoDigest
    Commands <- MCCommands
    NoCommand = NoCommand
    Keep = Keep
    Principals = {p, q}
    FixedPrincipals <- MCFixed
    Standings <- MCStandings
    MaxChanges = 1
SYMMETRY MCSymmetry
SPECIFICATION AuthoritySpec
INVARIANTS
    EditedDraftIsValid
    PublishedIsSealed
    OnePublisher
PROPERTIES
    ImplementsVersionLog
    FrozenOncePublished
    WritersWereEntitled
    AssigneesWereEnabled
CHECK_DEADLOCK FALSE
