SPECIFICATION QuerySpec
CONSTANTS
    alice = alice
    olga = olga
    svc = svc
    dom = dom
    v1 = v1
    draft = draft
    review = review
    done = done
    dropped = dropped
    submit = submit
    withdraw = withdraw
    approve = approve
    back = back
    reject = reject
    redo = redo
    Nobody = Nobody
    NoTransition = NoTransition
    NoInstance = NoInstance
    Principals = {alice, olga}
    Services = {}
    Domains = {dom}
    Versions = {v1}
    Nodes = {draft, review, dropped, done}
    Transitions = {submit, withdraw, approve, back, reject, redo}
    Instances = {1}
    NodeDef <- MCNodeDef
    TransitionDef <- MCTransitionDef
    VersionDomain <- MCVersionDomain
    SeedBindings <- MCMembers
    Switchable <- AliceSwitched
    Grantable <- OlgaGranted
    Driftable = {1}
    MaxVersion = 3
    Queries <- MCQueries
    NoQuery = NoQuery
    NoSnapshot = NoSnapshot
    NoBase = NoBase
    PageLimit = 1
    MaxDuring = 1
INVARIANTS ProjectionIsReplay NoFalseAlarm OffersAreHonest HistoryAndTimelineAgree CombinedIsReviseThenAdvance
PROPERTIES DriftedRowIsFrozen ImplementsAtomicQuery ParticipantsKeepSight
CHECK_DEADLOCK FALSE
