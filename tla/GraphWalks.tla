------------------------------ MODULE GraphWalks -------------------------------
(***************************************************************************)
(* The three loops of the graph validator, step by step: the search for    *)
(* cycles of the primary trunk, the walk along the trunk, the search for   *)
(* unreachable nodes.  DefinitionGraph says what their verdict should be.  *)
(* The other rules only scan nodes and transitions; they collect errors    *)
(* and return nothing early, so the loops meet every graph: also one whose *)
(* nodes and transitions were read before and after a replacement, and     *)
(* name nodes that are not there.                                          *)
(***************************************************************************)
EXTENDS DefinitionGraph, SequencesExt

CONSTANT Graphs   \* the graphs to validate

ASSUME GraphsAssumption == \A g \in Graphs : IsFiniteSet(NodeIds(g))

VARIABLES graph,     \* the argument of validate_graph
          pc,        \* "cycles", "following", "trunk", "reach" or "done"
          current,   \* the node a loop is at
          path,      \* validate_primary_acyclic: the nodes followed from this start
          visited,   \* and those of the earlier starts
          reachable, \* compute_directed_reachable: the nodes found
          stack,     \* and those to expand (any order: the result must not depend on it)
          errors     \* the errors pushed so far: <<code, nodes>>

walkVars == <<graph, pc, current, path, visited, reachable, stack, errors>>

Error(code, nodes) == errors' = Append(errors, <<code, nodes>>)

--------------------------------------------------------------------------------
(* validate_primary_acyclic: the starts come in the order of a HashMap     *)

StartPath ==
    /\ pc = "cycles" /\ pc' = "following"
    /\ path' = <<>>
    /\ current' \in NodeIds(graph) \ visited
    /\ UNCHANGED <<graph, visited, reachable, stack, errors>>

EndPath(nodes) ==
    /\ pc' = "cycles"
    /\ visited' = visited \cup nodes
    /\ UNCHANGED <<graph, current, path, reachable, stack>>

CycleFromStart(at) == ToSet(path)   \* mutant: the tail leading to the cycle is reported too
CycleFound(at) == ToSet(SubSeq(path, at, Len(path)))

CloseCycle ==
    /\ pc = "following"
    /\ \E at \in DOMAIN path :
          path[at] = current /\ Error("PRIMARY_CYCLE", CycleFound(at))
    /\ EndPath(ToSet(path))

JoinEarlierPath ==
    /\ pc = "following" /\ current \notin ToSet(path) /\ current \in visited
    /\ EndPath(ToSet(path))
    /\ UNCHANGED errors

Fresh == current \notin ToSet(path) \cup visited

FollowPrimary ==
    /\ pc = "following" /\ Fresh /\ current \in TrunkNodes(graph)
    /\ path' = Append(path, current)
    /\ current' = PrimaryTarget(graph, current)
    /\ UNCHANGED <<graph, pc, visited, reachable, stack, errors>>

LeaveTrunk ==
    /\ pc = "following" /\ Fresh /\ current \notin TrunkNodes(graph)
    /\ EndPath(ToSet(path) \cup {current})
    /\ UNCHANGED errors

--------------------------------------------------------------------------------
(* validate_trunk_reaches_terminal, from the first DRAFT node; without one *)
(* it does nothing, and neither does validate_directed_reachability.       *)

StartTrunk ==
    /\ pc = "cycles" /\ NodeIds(graph) \subseteq visited
    /\ IF OfType(graph, "DRAFT") = {} THEN pc' = "done" /\ UNCHANGED <<current, stack>>
       ELSE /\ pc' = "trunk"
            /\ current' \in OfType(graph, "DRAFT")
            /\ stack' = {current'}
    /\ UNCHANGED <<graph, path, visited, reachable, errors>>

TerminalOnly ==   \* mutant: next == current does not stop the walk
    current \in NodeIds(graph) => graph.node[current].type = "TERMINAL"
TrunkEnds ==
    \/ current \in NodeIds(graph) => graph.node[current].type = "TERMINAL"
    \/ current \in TrunkNodes(graph) /\ PrimaryTarget(graph, current) = current

WalkTrunk ==
    /\ pc = "trunk" /\ ~TrunkEnds /\ current \in TrunkNodes(graph)
    /\ current' = PrimaryTarget(graph, current)
    /\ UNCHANGED <<graph, pc, path, visited, reachable, stack, errors>>

BreakUnreported == UNCHANGED errors   \* mutant: a trunk that breaks off is not reported
TrunkBreaksOff == Error("PRIMARY_TRUNK_NO_TERMINAL", OfType(graph, "DRAFT"))

EndTrunk ==
    /\ pc = "trunk" /\ pc' = "reach"
    /\ IF TrunkEnds THEN UNCHANGED errors
       ELSE current \notin TrunkNodes(graph) /\ TrunkBreaksOff
    /\ UNCHANGED <<graph, current, path, visited, reachable, stack>>

--------------------------------------------------------------------------------
(* validate_directed_reachability                                          *)

Neighbours(n) ==
    {graph.transition[t].target :
        t \in {u \in TransitionIds(graph) : graph.transition[u].source = n}}
PrimaryNeighbours(n) ==   \* mutant: only the primary transitions are followed
    IF n \in TrunkNodes(graph) THEN {PrimaryTarget(graph, n)} ELSE {}

Expanded(n) == Neighbours(n)

Expand ==
    /\ pc = "reach"
    /\ \E n \in stack :
          /\ reachable' = reachable \cup {n}
          /\ stack' = (stack \cup Expanded(n)) \ reachable'
    /\ UNCHANGED <<graph, pc, current, path, visited, errors>>

EndReach ==
    /\ pc = "reach" /\ stack = {} /\ pc' = "done"
    /\ IF NodeIds(graph) \subseteq reachable THEN UNCHANGED errors
       ELSE Error("NODE_NOT_REACHABLE", NodeIds(graph) \ reachable)
    /\ UNCHANGED <<graph, current, path, visited, reachable, stack>>

--------------------------------------------------------------------------------
WalkInit ==
    /\ graph \in Graphs
    /\ pc = "cycles" /\ current = NoTransition
    /\ path = <<>> /\ visited = {}
    /\ reachable = {} /\ stack = {} /\ errors = <<>>

WalkNext ==
    \/ StartPath \/ CloseCycle \/ JoinEarlierPath \/ FollowPrimary \/ LeaveTrunk
    \/ StartTrunk \/ WalkTrunk \/ EndTrunk
    \/ Expand \/ EndReach

WalkSpec == WalkInit /\ [][WalkNext]_walkVars /\ WF_walkVars(WalkNext)

--------------------------------------------------------------------------------
Reported(code) == {errors[k][2] : k \in {k \in DOMAIN errors : errors[k][1] = code}}

Closed(g, S) == S # {} /\ \A n \in S : PrimaryTarget(g, n) \in S

PrimaryCycles(g) ==
    {S \in SUBSET TrunkNodes(g) :
        Closed(g, S) /\ \A T \in SUBSET S : Closed(g, T) => T = S}

(* A trunk that goes round a cycle of two nodes or more.                   *)
Trapped(g, d) ==
    \E S \in SUBSET TrunkNodes(g) :
        d \in S /\ \A n \in S : PrimaryTarget(g, n) \in S \ {n}

(* In whatever order the HashMap gives the starts, every cycle of primary  *)
(* transitions is reported, once, with exactly its nodes.                  *)
EachCycleReportedOnce ==
    pc \in {"trunk", "reach", "done"} =>
        /\ Reported("PRIMARY_CYCLE") = PrimaryCycles(graph)
        /\ Cardinality({k \in DOMAIN errors : errors[k][1] = "PRIMARY_CYCLE"})
              = Cardinality(PrimaryCycles(graph))

(* No TRANSITION_TARGET_MISSING.                                           *)
TargetsExist(g) == \A t \in TransitionIds(g) : g.transition[t].target \in NodeIds(g)

(* The walk lets a self-loop and a missing node pass, and the cycle search *)
(* a broken trunk: together with the scan for missing nodes they accept    *)
(* only a trunk that reaches a TERMINAL node.                              *)
AcceptedTrunkReachesTerminal ==
    /\ pc = "done" /\ Cardinality(OfType(graph, "DRAFT")) = 1 /\ TargetsExist(graph)
    /\ Reported("PRIMARY_CYCLE") \cup Reported("PRIMARY_TRUNK_NO_TERMINAL") = {}
    => \A S \in SUBSET NodeIds(graph) :
          /\ OfType(graph, "DRAFT") \subseteq S
          /\ \A n \in S \cap TrunkNodes(graph) : PrimaryTarget(graph, n) \in S
          => OfType(graph, "TERMINAL") \cap S # {}

(* The search finds the graph connected exactly when no set of nodes with  *)
(* the DRAFT in it is closed under transitions and leaves a node out.      *)
ReachabilityAgrees ==
    (pc = "done" /\ Cardinality(OfType(graph, "DRAFT")) = 1)
        => ((Reported("NODE_NOT_REACHABLE") = {}) <=> Reachability(graph))

(* The validator answers for every graph but those whose trunk goes round  *)
(* two nodes or more.                                                      *)
AnswersUnlessTrapped ==
    (\A d \in OfType(graph, "DRAFT") : ~Trapped(graph, d)) ~> (pc = "done")

(* A primary cycle is answered with PRIMARY_CYCLE: graph_tests.rs,         *)
(* primary_trunk_has_cycle, says so of the cycle draft -> x -> draft.      *)
CycleIsAnswered ==
    HasPrimaryCycle(graph) ~> (pc = "done" /\ Reported("PRIMARY_CYCLE") # {})
================================================================================
