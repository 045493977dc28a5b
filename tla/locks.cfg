\* Three concurrent transactions, every command but the legacy import.
CONSTANTS
    Transactions = {t1, t2, t3}
    p1 = p1
    p2 = p2
    k1 = k1
    k2 = k2
    i1 = i1
    i2 = i2
    v1 = v1
    Principals = {p1, p2}
    Keys = {k1, k2}
    Instances = {i1, i2}
    Versions = {v1}
    Members <- MCMembers
    MembersWith <- MCMembersWith
    Commands <- MCCommands
    Idle = Idle
SYMMETRY MCSymmetry
SPECIFICATION Spec
INVARIANT NoDeadlock
