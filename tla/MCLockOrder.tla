------------------------------ MODULE MCLockOrder ------------------------------
(* Commands of two actors on two instances of one version: the second      *)
(* actor is the assignee of the first one's commands and the other way     *)
(* round.                                                                  *)
EXTENDS LockOrder, TLC

CONSTANTS p1, p2, k1, k2, i1, i2, v1

Cmd(kind, actor, key, instance, assignee) ==
    [kind |-> kind, actor |-> actor, key |-> key, instance |-> instance, version |-> v1,
     assignee |-> assignee]

MCCommands ==
    {Cmd("CREATE", p1, k1, i1, p2), Cmd("REVISE", p1, k1, i1, p1),
     Cmd("TRANSITION", p2, k2, i1, p1), Cmd("TRANSITION", p1, k1, i2, p2),
     Cmd("COMBINED", p1, k1, i1, p2),
     Cmd("OVERRIDE", p1, k1, i1, p2), Cmd("OVERRIDE", p2, k2, i2, p1),
     Cmd("OVERRIDE", p2, k2, i1, p1),
     Cmd("REBUILD", p2, k2, i1, p2), Cmd("LIFECYCLE", p2, k2, i1, p2),
     Cmd("REPLACE_GRAPH", p1, k1, i1, p2),
     Cmd("SWITCH", p1, k1, i1, p2), Cmd("SWITCH", p1, k1, i1, p1)}

MCImports ==
    {Cmd("CREATE", p1, k1, i1, p2), Cmd("IMPORT", p2, k2, i1, p1)}

MCMembers     == <<p1, p2>>
MCMembersWith == [p \in {p1, p2} |-> <<p1, p2>>]
MCSymmetry    == Permutations(Transactions)
================================================================================
