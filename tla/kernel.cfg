SPECIFICATION Spec
CONSTANTS
    alice = alice
    olga = olga
    svc = svc
    dom = dom
    v1 = v1
    draft = draft
    review = review
    done = done
    dropped = dropped
    submit = submit
    withdraw = withdraw
    approve = approve
    back = back
    reject = reject
    redo = redo
    Nobody = Nobody
    NoTransition = NoTransition
    NoInstance = NoInstance
    Principals = {alice, olga, svc}
    Services = {svc}
    Domains = {dom}
    Versions = {v1}
    Nodes = {draft, review, dropped, done}
    Transitions = {submit, withdraw, approve, back, reject, redo}
    Instances = {1}
    NodeDef <- MCNodeDef
    TransitionDef <- MCTransitionDef
    VersionDomain <- MCVersionDomain
    SeedBindings <- MCSeed
    Switchable <- AliceSwitched
    Grantable <- OlgaGranted
    Driftable = {}
    MaxVersion = 4
INVARIANTS TypeOK HistoryReplays OnlyAssigneesMove ContextFrozenAfterDraft OneSubmissionPerVisit OnlyReturnsGoBack ReferencesPrecede
CHECK_DEADLOCK FALSE
