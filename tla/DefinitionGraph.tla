---------------------------- MODULE DefinitionGraph ----------------------------
(***************************************************************************)
(* The rules a workflow definition graph must satisfy before its version   *)
(* can be published (src/src/domain/definition/graph/).  A graph is        *)
(*   [node : [id -> [type, order, assignee, fixed, primary]],              *)
(*    transition : [id -> [source, target, effect]]]                       *)
(* and every rule below is one of the validator's error codes, negated.    *)
(***************************************************************************)
EXTENDS Integers, FiniteSets

CONSTANTS NoTransition,   \* a node without primary_advance_transition_id
          Nobody          \* no principal: an unassigned visit, no fixed principal

NodeTypes    == {"DRAFT", "NORMAL", "TERMINAL"}
Effects      == {"ADVANCE", "RETURN", "TERMINATE"}
AssigneeRefs == {"NONE", "WORKFLOW_CREATOR", "DOMAIN_OWNER", "FIXED_PRINCIPAL"}

NodeIds(g)       == DOMAIN g.node
TransitionIds(g) == DOMAIN g.transition
OfType(g, type)  == {n \in NodeIds(g) : g.node[n].type = type}

--------------------------------------------------------------------------------
(* Node rules: MIN_NODES, NO_DRAFT_NODE and MULTIPLE_DRAFT_NODES,          *)
(* NO_TERMINAL_NODE, DUPLICATE_ORDER_INDEX.                                *)
NodeRules(g) ==
    /\ \E m, n \in NodeIds(g) : m # n
    /\ \E d \in NodeIds(g) : OfType(g, "DRAFT") = {d}
    /\ OfType(g, "TERMINAL") # {}
    /\ \A m, n \in NodeIds(g) : m # n => g.node[m].order # g.node[n].order

(* TERMINAL_HAS_ASSIGNEE, ASSIGNEE_REQUIRED, DRAFT_NOT_WORKFLOW_CREATOR,   *)
(* UNEXPECTED_FIXED_PRINCIPAL, FIXED_PRINCIPAL_MISSING_ID.                 *)
AssigneeRules(g) ==
    \A n \in NodeIds(g) :
        LET node == g.node[n] IN
        /\ node.type = "TERMINAL" => node.assignee = "NONE"
        /\ node.type = "DRAFT"    => node.assignee = "WORKFLOW_CREATOR"
        /\ node.type = "NORMAL"   => node.assignee # "NONE"
        /\ (node.fixed # Nobody) <=> (node.assignee = "FIXED_PRINCIPAL")

(* TRANSITION_SOURCE_MISSING, TRANSITION_TARGET_MISSING, SELF_LOOP.        *)
ReferenceRules(g) ==
    \A t \in TransitionIds(g) :
        /\ g.transition[t].source \in NodeIds(g)
        /\ g.transition[t].target \in NodeIds(g)
        /\ g.transition[t].source # g.transition[t].target

(* The primary targets of the nodes that contribute to the trunk: a        *)
(* non-terminal node whose primary transition exists.                      *)
HasPrimary(g, n) == g.node[n].primary \in TransitionIds(g)
TrunkNodes(g)    == {n \in NodeIds(g) : g.node[n].type # "TERMINAL" /\ HasPrimary(g, n)}
PrimaryTarget(g, n) == g.transition[g.node[n].primary].target

(* PRIMARY_NOT_FROM_NODE, PRIMARY_NOT_ADVANCE, PRIMARY_NOT_ADVANCING,      *)
(* PRIMARY_TRANSITION_MISSING, TERMINAL_HAS_PRIMARY, MISSING_PRIMARY.      *)
PrimaryRules(g) ==
    \A n \in NodeIds(g) :
        /\ HasPrimary(g, n) =>
             LET t == g.transition[g.node[n].primary] IN
             /\ t.source = n
             /\ t.effect = "ADVANCE"
             /\ t.target \in NodeIds(g) => g.node[t.target].order > g.node[n].order
        /\ (g.node[n].type # "TERMINAL") => HasPrimary(g, n)
        /\ (g.node[n].type = "TERMINAL" /\ ~HasPrimary(g, n))
                => g.node[n].primary = NoTransition

(* PRIMARY_CYCLE: a set of trunk nodes closed under the primary target.    *)
HasPrimaryCycle(g) ==
    \E S \in (SUBSET TrunkNodes(g)) \ {{}} : \A n \in S : PrimaryTarget(g, n) \in S

(* NODE_NOT_REACHABLE: every set that holds the DRAFT node and is closed   *)
(* under transitions holds all nodes.                                      *)
Reachability(g) ==
    \A S \in SUBSET (NodeIds(g) \cup {g.transition[t].target : t \in TransitionIds(g)}) :
        /\ OfType(g, "DRAFT") \subseteq S
        /\ \A t \in TransitionIds(g) :
              g.transition[t].source \in S => g.transition[t].target \in S
        => NodeIds(g) \subseteq S

(* RETURN_TO_TERMINAL, RETURN_NOT_BACKWARD, RETURN_IS_PRIMARY.             *)
ReturnRules(g) ==
    \A t \in TransitionIds(g) : g.transition[t].effect = "RETURN" =>
        LET s == g.transition[t].source
            d == g.transition[t].target IN
        /\ d \in NodeIds(g) => g.node[d].type # "TERMINAL"
        /\ (s \in NodeIds(g) /\ d \in NodeIds(g)) => g.node[d].order < g.node[s].order
        /\ s \in NodeIds(g) => g.node[s].primary # t

(* TERMINATE_IS_PRIMARY, TERMINATE_TO_NON_TERMINAL.                        *)
TerminateRules(g) ==
    \A t \in TransitionIds(g) : g.transition[t].effect = "TERMINATE" =>
        LET s == g.transition[t].source
            d == g.transition[t].target IN
        /\ s \in NodeIds(g) => g.node[s].primary # t
        /\ d \in NodeIds(g) => g.node[d].type = "TERMINAL"

(* TERMINAL_HAS_OUTGOING.                                                  *)
TerminalOutgoing(g) ==
    \A t \in TransitionIds(g), n \in NodeIds(g) :
        g.transition[t].source = n => g.node[n].type # "TERMINAL"

(* What the rules other than the walk along the trunk accept: the walk     *)
(* (validate_trunk_reaches_terminal) is a loop of its own in GraphWalks.tla. *)
ValidGraph(g) ==
    /\ NodeRules(g)
    /\ AssigneeRules(g)
    /\ ReferenceRules(g)
    /\ PrimaryRules(g)
    /\ ~HasPrimaryCycle(g)
    /\ Reachability(g)
    /\ ReturnRules(g)
    /\ TerminateRules(g)
    /\ TerminalOutgoing(g)
================================================================================
