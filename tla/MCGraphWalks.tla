----------------------------- MODULE MCGraphWalks ------------------------------
(* Graphs of three nodes: a DRAFT, a node that may be a second DRAFT and   *)
(* one that may be TERMINAL; every choice of primary targets, and at most  *)
(* one more transition.  A transition is named by its source and target;   *)
(* one of the targets is a node that is not there.                         *)
EXTENDS GraphWalks

CONSTANTS n1, n2, n3, missing

Three == {n1, n2, n3}
Named == Three \cup {missing}

GraphWith(type, target, more) ==
    LET primaries == {<<n, target[n]>> : n \in {m \in Three : target[m] # NoTransition}} IN
    [node |-> [n \in Three |->
        [type |-> type[n], order |-> 0, assignee |-> "NONE", fixed |-> Nobody,
         primary |-> IF target[n] = NoTransition THEN NoTransition ELSE <<n, target[n]>>]],
     transition |-> [t \in primaries \cup more |->
        [source |-> t[1], target |-> t[2], effect |-> "ADVANCE"]]]

Types == {f \in [Three -> NodeTypes] :
            f[n1] = "DRAFT" /\ f[n2] # "TERMINAL" /\ f[n3] # "DRAFT"}
MoreTransitions == {{}} \cup {{t} : t \in {<<a, b>> \in Named \X Named : a # b}}

ThreeNodeGraphs ==
    {GraphWith(type, target, more) :
        type \in Types, target \in [Three -> Named \cup {NoTransition}], more \in MoreTransitions}
================================================================================
