\* A creation and a legacy import in one domain.
CONSTANTS
    Transactions = {t1, t2}
    p1 = p1
    p2 = p2
    k1 = k1
    k2 = k2
    i1 = i1
    i2 = i2
    v1 = v1
    Principals = {p1, p2}
    Keys = {k1, k2}
    Instances = {i1, i2}
    Versions = {v1}
    Members <- MCMembers
    MembersWith <- MCMembersWith
    Commands <- MCImports
    Idle = Idle
SPECIFICATION Spec
INVARIANT NoDeadlock
