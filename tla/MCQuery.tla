-------------------------------- MODULE MCQuery ---------------------------------
(* An instance of Query for TLC: the definition is that of MCKernel; there *)
(* is no SERVICE and so nothing is imported.                               *)
EXTENDS MCKernel, QueryProperties

MCMembers == {b \in MCSeed : b[2] # svc}

(* One query that shows the current state, one a page of the history, one  *)
(* a worklist: the creator's and the owner's.                              *)
Question(kind, actor, after) ==
    [kind |-> kind, actor |-> actor, instance |-> 1, after |-> after]
MCQueries == {Question("DETAIL", alice, 0), Question("TIMELINE", alice, 1),
              Question("ASSIGNED", olga, 0)}
================================================================================
