---------------------------- MODULE GraphWalkProofs ----------------------------
(***************************************************************************)
(* What the three loops of the graph validator report, for any graph and   *)
(* any order of the HashMap and of the stack.  What a loop computes is     *)
(* never described by induction along its way.  The invariants speak of    *)
(* the sets of nodes that are closed under the step of the loop: such a    *)
(* set that holds an earlier node holds every later one.                   *)
(***************************************************************************)
EXTENDS GraphWalks, FiniteSetTheorems, WellFoundedInduction, TLAPS

Codes  == {"PRIMARY_CYCLE", "PRIMARY_TRUNK_NO_TERMINAL", "NODE_NOT_REACHABLE"}
Places == {"cycles", "following", "trunk", "reach", "done"}
Walked == {"trunk", "reach", "done"}    \* the cycle search is over

WalkTypeOK ==
    /\ graph \in Graphs
    /\ pc \in Places
    /\ path \in Seq(TrunkNodes(graph))
    /\ errors \in Seq(Codes \X SUBSET NodeIds(graph))

CycleErrors == {k \in DOMAIN errors : errors[k][1] = "PRIMARY_CYCLE"}

(* The path follows the primary targets to the current node, through nodes *)
(* that no earlier start met; a closed set that it enters it never leaves. *)
PathOK ==
    pc = "following" =>
        /\ ToSet(path) \cap visited = {}
        /\ \A j \in DOMAIN path :
              PrimaryTarget(graph, path[j]) = IF j = Len(path) THEN current ELSE path[j + 1]
        /\ \A T \in SUBSET TrunkNodes(graph), j \in DOMAIN path :
              Closed(graph, T) /\ path[j] \in T
                  => current \in T /\ \A k \in j..Len(path) : path[k] \in T

(* What is reported are cycles, none of them twice, and among the nodes    *)
(* visited there is no closed set without one of them.                     *)
FoundOK ==
    /\ \A k \in CycleErrors : errors[k][2] \in PrimaryCycles(graph) /\ errors[k][2] \subseteq visited
    /\ \A k, l \in CycleErrors : errors[k][2] = errors[l][2] => k = l
    /\ \A S \in SUBSET TrunkNodes(graph) :
          Closed(graph, S) /\ S \cap visited # {} => \E k \in CycleErrors : errors[k][2] \subseteq S
    /\ pc \in Walked => NodeIds(graph) \subseteq visited

(* Each loop pushes its own errors.                                        *)
CodesOK ==
    \A k \in DOMAIN errors :
        \/ errors[k][1] = "PRIMARY_CYCLE"
        \/ errors[k][1] = "PRIMARY_TRUNK_NO_TERMINAL" /\ pc \in {"reach", "done"}
        \/ errors[k][1] = "NODE_NOT_REACHABLE" /\ pc = "done"

(* The trunk stays in every set that holds the DRAFT node and is closed.   *)
Keeps(S) == /\ OfType(graph, "DRAFT") \subseteq S
            /\ \A n \in S \cap TrunkNodes(graph) : PrimaryTarget(graph, n) \in S

TrunkOK ==
    /\ pc = "trunk" => \A S \in SUBSET NodeIds(graph) : Keeps(S) => current \in S
    /\ pc \in {"reach", "done"} /\ OfType(graph, "DRAFT") # {}
       /\ Reported("PRIMARY_CYCLE") \cup Reported("PRIMARY_TRUNK_NO_TERMINAL") = {}
         => \A S \in SUBSET NodeIds(graph) : Keeps(S) => OfType(graph, "TERMINAL") \cap S # {}

(* The search has found, or has still to expand, a DRAFT node and the      *)
(* neighbours of what it has found, and nothing outside a closed set.      *)
Named == NodeIds(graph) \cup {graph.transition[t].target : t \in TransitionIds(graph)}
Holds(S) == /\ OfType(graph, "DRAFT") \subseteq S
            /\ \A t \in TransitionIds(graph) :
                  graph.transition[t].source \in S => graph.transition[t].target \in S

ReachOK ==
    LET found == reachable \cup stack IN
    /\ pc \notin Walked => found = {}
    /\ found \subseteq Named
    /\ \A n \in reachable : Neighbours(n) \subseteq found
    /\ \A S \in SUBSET Named : Holds(S) => found \subseteq S
    /\ pc \in Walked => OfType(graph, "DRAFT") = {} \/ OfType(graph, "DRAFT") \cap found # {}
    /\ pc = "done" => stack = {}
    /\ pc = "done" /\ OfType(graph, "DRAFT") # {} =>
          (Reported("NODE_NOT_REACHABLE") = {} <=> NodeIds(graph) \subseteq reachable)

(* A trunk that goes round two nodes or more is walked for ever.           *)
AllTrapped == /\ OfType(graph, "DRAFT") # {}
              /\ \A d \in OfType(graph, "DRAFT") : Trapped(graph, d)
TrapOK == AllTrapped => pc \notin {"reach", "done"} /\ (pc = "trunk" => Trapped(graph, current))

--------------------------------------------------------------------------------
(* What the loops have in common                                           *)

(* The nodes of a path, and what following one more node adds.             *)
LEMMA PathNodes ==
    ASSUME NEW S, NEW s \in Seq(S)
    PROVE  /\ DOMAIN s = 1..Len(s) /\ Len(s) \in Nat /\ ToSet(s) \subseteq S
           /\ \A x : x \in ToSet(s) <=> \E j \in 1..Len(s) : s[j] = x
BY DEF ToSet

(* A sequence with one element more.                                       *)
LEMMA LongerPath ==
    ASSUME NEW S, NEW s \in Seq(S), NEW e \in S
    PROVE  /\ Append(s, e) \in Seq(S) /\ Len(Append(s, e)) = Len(s) + 1
           /\ DOMAIN Append(s, e) = 1..(Len(s) + 1)
           /\ \A j \in 1..Len(s) : Append(s, e)[j] = s[j]
           /\ Append(s, e)[Len(s) + 1] = e
           /\ ToSet(Append(s, e)) = ToSet(s) \cup {e}
<1>1. /\ Append(s, e) \in Seq(S) /\ Len(Append(s, e)) = Len(s) + 1
      /\ DOMAIN Append(s, e) = 1..(Len(s) + 1) /\ Len(s) \in Nat
      /\ \A j \in 1..Len(s) : Append(s, e)[j] = s[j]
      /\ Append(s, e)[Len(s) + 1] = e
  OBVIOUS
<1>2. ASSUME NEW x PROVE x \in ToSet(Append(s, e)) <=> x \in ToSet(s) \cup {e}
  <2>1. x \in ToSet(s) <=> \E j \in 1..Len(s) : s[j] = x
    BY PathNodes
  <2>2. x \in ToSet(Append(s, e)) <=> \E j \in 1..(Len(s) + 1) : Append(s, e)[j] = x
    BY <1>1 DEF ToSet
  <2> QED BY <1>1, <2>1, <2>2
<1> QED BY <1>1, <1>2

(* The nodes of the path from one place on.                                *)
LEMMA CycleNodes ==
    ASSUME WalkTypeOK, NEW at \in DOMAIN path
    PROVE  /\ CycleFound(at) = {path[k] : k \in at..Len(path)}
           /\ CycleFound(at) \subseteq ToSet(path) /\ CycleFound(at) # {}
           /\ CycleFound(at) \subseteq TrunkNodes(graph)
<1> DEFINE tail == SubSeq(path, at, Len(path))
<1>1. /\ Len(path) \in Nat /\ DOMAIN path = 1..Len(path) /\ at \in 1..Len(path)
      /\ path \in Seq(TrunkNodes(graph))
  BY DEF WalkTypeOK
<1>2. /\ DOMAIN tail = 1..(Len(path) - at + 1)
      /\ \A i \in 1..(Len(path) - at + 1) : tail[i] = path[at + i - 1]
  BY <1>1
<1>3. ASSUME NEW x PROVE x \in CycleFound(at) <=> \E k \in at..Len(path) : path[k] = x
  <2>1. x \in CycleFound(at) <=> \E i \in 1..(Len(path) - at + 1) : tail[i] = x
    BY <1>2 DEF CycleFound, ToSet
  <2>2. ASSUME NEW i \in 1..(Len(path) - at + 1)
        PROVE  at + i - 1 \in at..Len(path) /\ tail[i] = path[at + i - 1]
    BY <1>1, <1>2
  <2>3. ASSUME NEW k \in at..Len(path)
        PROVE  k - at + 1 \in 1..(Len(path) - at + 1) /\ tail[k - at + 1] = path[k]
    BY <1>1, <1>2
  <2> QED BY <2>1, <2>2, <2>3
<1>4. \A k \in at..Len(path) : k \in 1..Len(path) /\ path[k] \in TrunkNodes(graph)
  BY <1>1
<1>5. path[at] \in CycleFound(at)
  BY <1>1, <1>3
<1> QED BY <1>1, <1>3, <1>4, <1>5 DEF ToSet

(* One more error.                                                         *)
LEMMA OneMoreError ==
    ASSUME WalkTypeOK, NEW code \in Codes, NEW nodes \in SUBSET NodeIds(graph), Error(code, nodes)
    PROVE  /\ errors' \in Seq(Codes \X SUBSET NodeIds(graph))
           /\ Len(errors) \in Nat /\ DOMAIN errors = 1..Len(errors)
           /\ DOMAIN errors' = 1..(Len(errors) + 1)
           /\ \A k \in 1..Len(errors) : errors'[k] = errors[k]
           /\ errors'[Len(errors) + 1] = <<code, nodes>>
BY DEF WalkTypeOK, Error

(* Trunk nodes and the nodes of a type are nodes.                          *)
LEMMA NodesOnly ==
    ASSUME NEW g
    PROVE  TrunkNodes(g) \subseteq NodeIds(g) /\ \A type : OfType(g, type) \subseteq NodeIds(g)
BY DEF TrunkNodes, OfType

(* The error that each closing step pushes is one of its own.              *)
LEMMA ErrorPushed ==
    ASSUME WalkTypeOK
    PROVE  /\ CloseCycle => \E nodes \in SUBSET NodeIds(graph) : Error("PRIMARY_CYCLE", nodes)
           /\ EndTrunk => \/ UNCHANGED errors
                          \/ \E nodes \in SUBSET NodeIds(graph) : Error("PRIMARY_TRUNK_NO_TERMINAL", nodes)
           /\ EndReach => \/ UNCHANGED errors
                          \/ \E nodes \in SUBSET NodeIds(graph) : Error("NODE_NOT_REACHABLE", nodes)
<1>1. ASSUME CloseCycle PROVE \E nodes \in SUBSET NodeIds(graph) : Error("PRIMARY_CYCLE", nodes)
  <2>1. PICK at \in DOMAIN path : Error("PRIMARY_CYCLE", CycleFound(at))
    BY <1>1 DEF CloseCycle
  <2> QED BY <2>1, CycleNodes, NodesOnly
<1> QED BY <1>1, NodesOnly DEF EndTrunk, TrunkBreaksOff, EndReach

(* Types and codes.                                                        *)
LEMMA PushKeepsTypes ==
    ASSUME WalkTypeOK, CodesOK, NEW code \in Codes, NEW nodes \in SUBSET NodeIds(graph),
           Error(code, nodes), UNCHANGED <<graph, path>>, pc' \in Places,
           pc # "done", pc = "reach" => pc' \in {"reach", "done"},
           code = "PRIMARY_TRUNK_NO_TERMINAL" => pc' = "reach",
           code = "NODE_NOT_REACHABLE" => pc' = "done"
    PROVE  WalkTypeOK' /\ CodesOK'
<1>1. /\ errors' \in Seq(Codes \X SUBSET NodeIds(graph))
      /\ Len(errors) \in Nat /\ DOMAIN errors = 1..Len(errors)
      /\ DOMAIN errors' = 1..(Len(errors) + 1)
      /\ \A k \in 1..Len(errors) : errors'[k] = errors[k]
      /\ errors'[Len(errors) + 1] = <<code, nodes>>
  BY OneMoreError
<1>2. WalkTypeOK'
  BY <1>1 DEF WalkTypeOK
<1>3. ASSUME NEW k \in DOMAIN errors'
      PROVE  \/ errors'[k][1] = "PRIMARY_CYCLE"
             \/ errors'[k][1] = "PRIMARY_TRUNK_NO_TERMINAL" /\ pc' \in {"reach", "done"}
             \/ errors'[k][1] = "NODE_NOT_REACHABLE" /\ pc' = "done"
  <2>1. CASE k \in 1..Len(errors)
    BY <1>1, <2>1 DEF CodesOK
  <2>2. CASE k = Len(errors) + 1
    <3>1. errors'[k][1] = code
      BY <1>1, <2>2
    <3> QED BY <3>1 DEF Codes
  <2> QED BY <1>1, <2>1, <2>2
<1> QED BY <1>2, <1>3 DEF CodesOK

(* Every step keeps the types and the codes of the errors.                 *)
LEMMA TypesKept ==
    ASSUME WalkTypeOK, CodesOK, [WalkNext]_walkVars
    PROVE  WalkTypeOK' /\ CodesOK'
<1> USE DEF Places
<1>1. CASE StartPath
  BY <1>1 DEF StartPath, WalkTypeOK, CodesOK
<1>2. CASE CloseCycle
  <2>1. PICK nodes \in SUBSET NodeIds(graph) : Error("PRIMARY_CYCLE", nodes)
    BY <1>2, ErrorPushed
  <2>2. /\ pc = "following" /\ pc' = "cycles" /\ UNCHANGED <<graph, path>>
    BY <1>2 DEF CloseCycle, EndPath
  <2> QED BY <2>1, <2>2, PushKeepsTypes DEF Codes
<1>3. CASE JoinEarlierPath \/ LeaveTrunk
  BY <1>3 DEF JoinEarlierPath, LeaveTrunk, EndPath, WalkTypeOK, CodesOK
<1>4. CASE FollowPrimary
  BY <1>4, LongerPath DEF FollowPrimary, WalkTypeOK, CodesOK
<1>5. CASE StartTrunk \/ WalkTrunk \/ Expand \/ UNCHANGED walkVars
  BY <1>5 DEF StartTrunk, WalkTrunk, Expand, walkVars, WalkTypeOK, CodesOK
<1>6. CASE EndTrunk
  <2>1. pc = "trunk" /\ pc' = "reach" /\ UNCHANGED <<graph, path>>
    BY <1>6 DEF EndTrunk
  <2>2. CASE UNCHANGED errors
    BY <2>1, <2>2 DEF WalkTypeOK, CodesOK
  <2>3. ASSUME NEW nodes \in SUBSET NodeIds(graph), Error("PRIMARY_TRUNK_NO_TERMINAL", nodes)
        PROVE  WalkTypeOK' /\ CodesOK'
    BY <2>1, <2>3, PushKeepsTypes DEF Codes
  <2> QED BY <1>6, <2>2, <2>3, ErrorPushed
<1>7. CASE EndReach
  <2>1. pc = "reach" /\ pc' = "done" /\ UNCHANGED <<graph, path>>
    BY <1>7 DEF EndReach
  <2>2. CASE UNCHANGED errors
    BY <2>1, <2>2 DEF WalkTypeOK, CodesOK
  <2>3. ASSUME NEW nodes \in SUBSET NodeIds(graph), Error("NODE_NOT_REACHABLE", nodes)
        PROVE  WalkTypeOK' /\ CodesOK'
    BY <2>1, <2>3, PushKeepsTypes DEF Codes
  <2> QED BY <1>7, <2>2, <2>3, ErrorPushed
<1> QED BY <1>1, <1>2, <1>3, <1>4, <1>5, <1>6, <1>7 DEF WalkNext
--------------------------------------------------------------------------------
(* The search for cycles                                                   *)

(* What a pushed error does to the cycles reported so far.                 *)
LEMMA PushedCycle ==
    ASSUME WalkTypeOK, NEW code \in Codes, NEW nodes \in SUBSET NodeIds(graph), Error(code, nodes)
    PROVE  /\ \A k \in CycleErrors : errors'[k] = errors[k] /\ k # Len(errors) + 1
           /\ CycleErrors' = IF code = "PRIMARY_CYCLE" THEN CycleErrors \cup {Len(errors) + 1}
                             ELSE CycleErrors
           /\ errors'[Len(errors) + 1][2] = nodes
<1>1. /\ Len(errors) \in Nat /\ DOMAIN errors = 1..Len(errors)
      /\ DOMAIN errors' = 1..(Len(errors) + 1)
      /\ \A k \in 1..Len(errors) : errors'[k] = errors[k]
      /\ errors'[Len(errors) + 1] = <<code, nodes>>
  BY OneMoreError
<1>2. errors'[Len(errors) + 1][1] = code /\ errors'[Len(errors) + 1][2] = nodes
  BY <1>1
<1>3. DOMAIN errors' = DOMAIN errors \cup {Len(errors) + 1} /\ Len(errors) + 1 \notin DOMAIN errors
  BY <1>1
<1>4. \A k \in CycleErrors : k \in DOMAIN errors
  BY DEF CycleErrors
<1>5. CycleErrors' = IF code = "PRIMARY_CYCLE" THEN CycleErrors \cup {Len(errors) + 1} ELSE CycleErrors
  BY <1>1, <1>2, <1>3 DEF CycleErrors
<1> QED BY <1>1, <1>2, <1>3, <1>4, <1>5

(* A path that comes back to one of its nodes has gone round a cycle: the  *)
(* nodes from there on are closed, and a closed set among them holds one,  *)
(* hence the current node, hence all.                                      *)
LEMMA CycleIsMinimal ==
    ASSUME WalkTypeOK, PathOK, pc = "following", NEW at \in DOMAIN path, path[at] = current
    PROVE  CycleFound(at) \in PrimaryCycles(graph)
<1> DEFINE cycle == CycleFound(at)
<1>1. /\ cycle = {path[k] : k \in at..Len(path)} /\ cycle # {}
      /\ cycle \subseteq TrunkNodes(graph)
  BY CycleNodes
<1>2. DOMAIN path = 1..Len(path) /\ Len(path) \in Nat /\ at \in 1..Len(path)
  BY DEF WalkTypeOK
<1> HIDE DEF cycle
<1>3. ASSUME NEW k \in at..Len(path) PROVE PrimaryTarget(graph, path[k]) \in cycle
  <2>0. k \in DOMAIN path
    BY <1>2
  <2>1. PrimaryTarget(graph, path[k]) = IF k = Len(path) THEN current ELSE path[k + 1]
    BY <2>0 DEF PathOK
  <2>2. CASE k = Len(path)
    <3>1. at \in at..Len(path)
      BY <1>2
    <3> QED BY <1>1, <2>1, <2>2, <3>1
  <2>3. CASE k # Len(path)
    <3>1. k + 1 \in at..Len(path)
      <4>1. at \in Nat /\ Len(path) \in Nat
        BY <1>2
      <4>2. \A b, l \in Nat : \A m \in b..l : m # l => m + 1 \in b..l
        OBVIOUS
      <4> QED BY <2>3, <4>1, <4>2
    <3> QED BY <1>1, <2>1, <2>3, <3>1
  <2> QED BY <2>2, <2>3
<1>4. Closed(graph, cycle)
  BY <1>1, <1>3 DEF Closed
<1>5. ASSUME NEW T \in SUBSET cycle, Closed(graph, T) PROVE T = cycle
  <2>1. PICK j \in at..Len(path) : path[j] \in T
    BY <1>1, <1>5 DEF Closed
  <2>2. T \in SUBSET TrunkNodes(graph) /\ j \in DOMAIN path
    BY <1>1, <1>2
  <2>3. path[at] \in T
    BY <1>5, <2>1, <2>2 DEF PathOK
  <2>4. \A k \in at..Len(path) : path[k] \in T
    BY <1>5, <2>2, <2>3 DEF PathOK
  <2> QED BY <1>1, <2>4
<1> QED BY <1>1, <1>4, <1>5 DEF PrimaryCycles, cycle

(* A start whose path ends: the nodes it met become visited.               *)
LEMMA PathEnds ==
    ASSUME WalkTypeOK, PathOK, FoundOK, pc = "following", pc' = "cycles", graph' = graph,
           NEW nodes, visited' = visited \cup nodes,
           CycleErrors' = CycleErrors, \A k \in CycleErrors : errors'[k] = errors[k],
           \A S \in SUBSET TrunkNodes(graph) :
              Closed(graph, S) /\ S \cap nodes # {} => S \cap visited # {}
    PROVE  FoundOK'
<1>1. ASSUME NEW k \in CycleErrors'
      PROVE  errors'[k][2] \in PrimaryCycles(graph)' /\ errors'[k][2] \subseteq visited'
  BY DEF FoundOK
<1>2. ASSUME NEW k \in CycleErrors', NEW l \in CycleErrors', errors'[k][2] = errors'[l][2]
      PROVE  k = l
  BY <1>2 DEF FoundOK
<1>3. ASSUME NEW S \in SUBSET TrunkNodes(graph)', Closed(graph, S)', S \cap visited' # {}
      PROVE  \E k \in CycleErrors' : errors'[k][2] \subseteq S
  BY <1>3 DEF FoundOK
<1> QED BY <1>1, <1>2, <1>3 DEF FoundOK, Walked

(* A cycle that is closed: it is new, since its nodes were not visited.    *)
LEMMA CycleReported ==
    ASSUME WalkTypeOK, PathOK, FoundOK, CloseCycle
    PROVE  FoundOK'
<1>1. PICK at \in DOMAIN path : path[at] = current /\ Error("PRIMARY_CYCLE", CycleFound(at))
  BY DEF CloseCycle
<1>2. /\ pc = "following" /\ pc' = "cycles" /\ graph' = graph
      /\ visited' = visited \cup ToSet(path)
  BY DEF CloseCycle, EndPath
<1> DEFINE cycle == CycleFound(at)
           new == Len(errors) + 1
<1>3. /\ cycle \in PrimaryCycles(graph) /\ cycle \subseteq ToSet(path) /\ cycle # {}
      /\ cycle \in SUBSET NodeIds(graph)
      /\ cycle = {path[k] : k \in at..Len(path)}
  BY <1>1, <1>2, CycleIsMinimal, CycleNodes, NodesOnly
<1>4. /\ CycleErrors' = CycleErrors \cup {new} /\ errors'[new][2] = cycle
      /\ \A k \in CycleErrors : errors'[k] = errors[k] /\ k # new
  BY <1>1, <1>3, PushedCycle DEF Codes
<1>5. ToSet(path) \cap visited = {}
  BY <1>2 DEF PathOK
<1> HIDE DEF cycle, new
<1>6. ASSUME NEW k \in CycleErrors'
      PROVE  errors'[k][2] \in PrimaryCycles(graph)' /\ errors'[k][2] \subseteq visited'
  BY <1>2, <1>3, <1>4 DEF FoundOK
<1>7. ASSUME NEW k \in CycleErrors PROVE errors'[k][2] # cycle
  BY <1>3, <1>4, <1>5 DEF FoundOK
<1>8. ASSUME NEW k \in CycleErrors', NEW l \in CycleErrors', errors'[k][2] = errors'[l][2]
      PROVE  k = l
  BY <1>4, <1>7, <1>8 DEF FoundOK
<1>9. ASSUME NEW S \in SUBSET TrunkNodes(graph)', Closed(graph, S)', S \cap visited' # {}
      PROVE  \E k \in CycleErrors' : errors'[k][2] \subseteq S
  <2>1. S \in SUBSET TrunkNodes(graph) /\ Closed(graph, S)
    BY <1>2, <1>9
  <2>2. CASE S \cap visited # {}
    BY <1>4, <2>1, <2>2 DEF FoundOK
  <2>3. CASE S \cap ToSet(path) # {}
    <3>1. PICK j \in DOMAIN path : path[j] \in S
      BY <2>3 DEF ToSet
    <3>2. path[at] \in S
      BY <1>1, <1>2, <2>1, <3>1 DEF PathOK
    <3>3. \A k \in at..Len(path) : path[k] \in S
      BY <1>2, <2>1, <3>2 DEF PathOK
    <3>4. cycle \subseteq S
      BY <1>3, <3>3
    <3> QED BY <1>4, <3>4
  <2> QED BY <1>2, <1>9, <2>2, <2>3
<1> QED BY <1>2, <1>6, <1>8, <1>9 DEF FoundOK, Walked

(* Following one more primary transition.                                  *)
LEMMA PathFollowed ==
    ASSUME WalkTypeOK, PathOK, FollowPrimary
    PROVE  PathOK'
<1> DEFINE n == Len(path)
<1>1. /\ pc = "following" /\ current \notin ToSet(path) \cup visited
      /\ current \in TrunkNodes(graph)
      /\ path' = Append(path, current) /\ current' = PrimaryTarget(graph, current)
      /\ UNCHANGED <<graph, pc, visited>>
  BY DEF FollowPrimary, Fresh
<1>2. /\ path' \in Seq(TrunkNodes(graph)) /\ Len(path') = n + 1 /\ DOMAIN path' = 1..(n + 1)
      /\ \A j \in 1..n : path'[j] = path[j]
      /\ path'[n + 1] = current /\ ToSet(path') = ToSet(path) \cup {current}
      /\ DOMAIN path = 1..n /\ n \in Nat
  BY <1>1, LongerPath DEF WalkTypeOK
<1> HIDE DEF n
<1>3. ToSet(path') \cap visited' = {}
  BY <1>1, <1>2 DEF PathOK
<1>4. ASSUME NEW j \in DOMAIN path'
      PROVE  PrimaryTarget(graph, path'[j]) = IF j = Len(path') THEN current' ELSE path'[j + 1]
  <2>1. CASE j = n + 1
    BY <1>1, <1>2, <2>1
  <2>2. CASE j \in 1..n
    <3>1. PrimaryTarget(graph, path[j]) = IF j = n THEN current ELSE path[j + 1]
      BY <1>1, <1>2, <2>2 DEF PathOK, n
    <3>2. j # n => j + 1 \in 1..n
      BY <1>2, <2>2
    <3>3. j # n + 1
      BY <1>2, <2>2
    <3>4. CASE j = n
      BY <1>2, <2>2, <3>1, <3>3, <3>4
    <3>5. CASE j # n
      BY <1>2, <2>2, <3>1, <3>2, <3>3, <3>5
    <3> QED BY <3>4, <3>5
  <2> QED BY <1>2, <2>1, <2>2
<1>5. ASSUME NEW T \in SUBSET TrunkNodes(graph), NEW j \in DOMAIN path', Closed(graph, T), path'[j] \in T
      PROVE  current' \in T /\ \A k \in j..Len(path') : path'[k] \in T
  <2>1. current \in T /\ \A k \in j..Len(path') : path'[k] \in T
    <3>1. CASE j = n + 1
      BY <1>2, <1>5, <3>1
    <3>2. CASE j \in 1..n
      <4>1. current \in T /\ \A k \in j..n : path[k] \in T
        BY <1>1, <1>2, <1>5, <3>2 DEF PathOK, n
      <4>2. ASSUME NEW k \in j..(n + 1) PROVE (k \in 1..n /\ k \in j..n) \/ k = n + 1
        BY <1>2, <3>2
      <4> QED BY <1>2, <4>1, <4>2
    <3> QED BY <1>2, <3>1, <3>2
  <2>2. current' \in T
    BY <1>1, <1>5, <2>1 DEF Closed
  <2> QED BY <2>1, <2>2
<1> QED BY <1>1, <1>3, <1>4, <1>5 DEF PathOK

(* The other steps leave what is reported as it is.                        *)
LEMMA CyclesKept ==
    ASSUME WalkTypeOK, CodesOK, PathOK, FoundOK, [WalkNext]_walkVars
    PROVE  PathOK' /\ FoundOK'
<1>1. CASE StartPath
  <2>1. /\ path' = <<>> /\ pc' = "following" /\ UNCHANGED <<graph, visited, errors>>
    BY <1>1 DEF StartPath
  <2>2. DOMAIN path' = {} /\ ToSet(path') = {}
    BY <2>1 DEF ToSet
  <2>3. PathOK'
    BY <2>2 DEF PathOK
  <2> QED BY <2>1, <2>3 DEF FoundOK, CycleErrors, Walked
<1>2. CASE CloseCycle
  <2>1. pc' = "cycles"
    BY <1>2 DEF CloseCycle, EndPath
  <2> QED BY <1>2, <2>1, CycleReported DEF PathOK
<1>3. CASE JoinEarlierPath
  <2>1. /\ pc = "following" /\ pc' = "cycles" /\ current \in visited
        /\ visited' = visited \cup ToSet(path) /\ UNCHANGED <<graph, errors>>
    BY <1>3 DEF JoinEarlierPath, EndPath
  <2>2. ASSUME NEW S \in SUBSET TrunkNodes(graph), Closed(graph, S), S \cap ToSet(path) # {}
        PROVE  S \cap visited # {}
    <3>1. PICK j \in DOMAIN path : path[j] \in S
      BY <2>2 DEF ToSet
    <3>2. current \in S
      BY <2>1, <2>2, <3>1 DEF PathOK
    <3> QED BY <2>1, <3>2
  <2>3. CycleErrors' = CycleErrors
    BY <2>1 DEF CycleErrors
  <2>4. FoundOK'
    BY <2>1, <2>2, <2>3, PathEnds
  <2> QED BY <2>1, <2>4 DEF PathOK
<1>4. CASE LeaveTrunk
  <2> DEFINE nodes == ToSet(path) \cup {current}
  <2>1. /\ pc = "following" /\ pc' = "cycles" /\ current \notin TrunkNodes(graph)
        /\ visited' = visited \cup nodes /\ UNCHANGED <<graph, errors>>
    BY <1>4 DEF LeaveTrunk, EndPath
  <2>2. ASSUME NEW S \in SUBSET TrunkNodes(graph), Closed(graph, S), S \cap nodes # {}
        PROVE  S \cap visited # {}
    <3>1. PICK j \in DOMAIN path : path[j] \in S
      BY <2>1, <2>2 DEF ToSet
    <3>2. current \in S
      BY <2>1, <2>2, <3>1 DEF PathOK
    <3> QED BY <2>1, <3>2
  <2>3. CycleErrors' = CycleErrors
    BY <2>1 DEF CycleErrors
  <2> HIDE DEF nodes
  <2>4. FoundOK'
    BY <2>1, <2>2, <2>3, PathEnds
  <2> QED BY <2>1, <2>4 DEF PathOK
<1>5. CASE FollowPrimary
  <2>1. UNCHANGED <<graph, pc, visited, errors>> /\ pc = "following"
    BY <1>5 DEF FollowPrimary
  <2>2. FoundOK'
    BY <2>1 DEF FoundOK, CycleErrors, Walked
  <2> QED BY <1>5, <2>2, PathFollowed
<1>6. CASE StartTrunk \/ WalkTrunk \/ EndTrunk \/ Expand \/ EndReach \/ UNCHANGED walkVars
  <2>1. /\ UNCHANGED <<graph, visited, path>>
        /\ \/ pc' # "following" /\ (pc' \in Walked => NodeIds(graph) \subseteq visited)
           \/ UNCHANGED <<pc, current>>
    BY <1>6 DEF StartTrunk, WalkTrunk, EndTrunk, Expand, EndReach, walkVars, FoundOK, Walked
  <2>2. CycleErrors' = CycleErrors /\ \A k \in CycleErrors : errors'[k] = errors[k]
    <3>1. CASE UNCHANGED errors
      BY <3>1 DEF CycleErrors
    <3>2. ASSUME NEW code \in Codes \ {"PRIMARY_CYCLE"}, NEW nodes \in SUBSET NodeIds(graph),
                 Error(code, nodes)
          PROVE  CycleErrors' = CycleErrors /\ \A k \in CycleErrors : errors'[k] = errors[k]
      BY <3>2, PushedCycle
    <3>3. CASE StartTrunk \/ WalkTrunk \/ Expand \/ UNCHANGED walkVars
      BY <3>1, <3>3 DEF StartTrunk, WalkTrunk, Expand, walkVars
    <3>4. CASE EndTrunk \/ EndReach
      BY <3>1, <3>2, <3>4, ErrorPushed DEF Codes
    <3> QED BY <1>6, <3>3, <3>4
  <2>3. FoundOK'
    BY <2>1, <2>2 DEF FoundOK
  <2> QED BY <2>1, <2>3 DEF PathOK
<1> QED BY <1>1, <1>2, <1>3, <1>4, <1>5, <1>6 DEF WalkNext

(* When the search is over, what is reported are the cycles.               *)
LEMMA CyclesComplete ==
    ASSUME FoundOK, pc \in Walked
    PROVE  Reported("PRIMARY_CYCLE") = PrimaryCycles(graph)
<1>1. Reported("PRIMARY_CYCLE") = {errors[k][2] : k \in CycleErrors}
  BY DEF Reported, CycleErrors
<1>2. ASSUME NEW S \in PrimaryCycles(graph) PROVE \E k \in CycleErrors : errors[k][2] = S
  <2>1. /\ S \in SUBSET TrunkNodes(graph) /\ Closed(graph, S)
        /\ \A T \in SUBSET S : Closed(graph, T) => T = S
    BY DEF PrimaryCycles
  <2>2. S \cap visited # {}
    BY <2>1, NodesOnly DEF FoundOK, Closed
  <2>3. PICK k \in CycleErrors : errors[k][2] \subseteq S
    BY <2>1, <2>2 DEF FoundOK
  <2>4. Closed(graph, errors[k][2])
    BY DEF FoundOK, PrimaryCycles
  <2> QED BY <2>1, <2>3, <2>4
<1>3. \A k \in CycleErrors : errors[k][2] \in PrimaryCycles(graph)
  BY DEF FoundOK
<1>4. ASSUME NEW S
      PROVE  S \in Reported("PRIMARY_CYCLE") <=> \E k \in CycleErrors : errors[k][2] = S
  BY <1>1
<1> QED BY <1>2, <1>3, <1>4

--------------------------------------------------------------------------------
(* The walk along the trunk                                                *)

(* What is reported only grows, by what is pushed.                         *)
LEMMA PushedReport ==
    ASSUME WalkTypeOK, NEW code \in Codes, NEW nodes \in SUBSET NodeIds(graph), Error(code, nodes)
    PROVE  /\ \A c : Reported(c) \subseteq Reported(c)'
           /\ \A c : c # code => Reported(c)' = Reported(c)
           /\ nodes \in Reported(code)'
<1>1. /\ Len(errors) \in Nat /\ DOMAIN errors = 1..Len(errors)
      /\ DOMAIN errors' = 1..(Len(errors) + 1)
      /\ \A k \in 1..Len(errors) : errors'[k] = errors[k]
      /\ errors'[Len(errors) + 1] = <<code, nodes>>
  BY OneMoreError
<1> DEFINE new == Len(errors) + 1
<1>2. /\ DOMAIN errors' = DOMAIN errors \cup {new} /\ new \notin DOMAIN errors
      /\ \A k \in DOMAIN errors : errors'[k] = errors[k]
      /\ errors'[new][1] = code /\ errors'[new][2] = nodes
  BY <1>1
<1> HIDE DEF new
<1>3. ASSUME NEW c, NEW e
      PROVE  e \in Reported(c)' <=> e \in Reported(c) \/ (c = code /\ e = nodes)
  <2>1. e \in Reported(c) <=> \E k \in DOMAIN errors : errors[k][1] = c /\ errors[k][2] = e
    BY DEF Reported
  <2>2. e \in Reported(c)' <=> \E k \in DOMAIN errors' : errors'[k][1] = c /\ errors'[k][2] = e
    BY DEF Reported
  <2> QED BY <1>2, <2>1, <2>2
<1> QED BY <1>3

(* A self-loop of the trunk is a cycle of one node.                        *)
LEMMA SelfLoopIsCycle ==
    ASSUME NEW g, NEW n \in TrunkNodes(g), PrimaryTarget(g, n) = n
    PROVE  {n} \in PrimaryCycles(g)
BY DEF PrimaryCycles, Closed

(* Where the walk ends without an error there is a TERMINAL node, if there *)
(* is no cycle.                                                            *)
LEMMA TrunkKept ==
    ASSUME WalkTypeOK, FoundOK, TrunkOK, [WalkNext]_walkVars
    PROVE  TrunkOK'
<1>1. CASE StartPath \/ CloseCycle \/ JoinEarlierPath \/ LeaveTrunk \/ FollowPrimary
  BY <1>1 DEF StartPath, CloseCycle, JoinEarlierPath, LeaveTrunk, FollowPrimary, EndPath, TrunkOK
<1>2. CASE StartTrunk
  <2>1. CASE OfType(graph, "DRAFT") = {}
    BY <1>2, <2>1 DEF StartTrunk, TrunkOK
  <2>2. CASE OfType(graph, "DRAFT") # {}
    BY <1>2, <2>2 DEF StartTrunk, TrunkOK, Keeps
  <2> QED BY <2>1, <2>2
<1>3. CASE WalkTrunk
  BY <1>3 DEF WalkTrunk, TrunkOK, Keeps
<1>4. CASE EndTrunk
  <2>1. pc = "trunk" /\ pc' = "reach" /\ UNCHANGED <<graph, current>>
    BY <1>4 DEF EndTrunk
  <2>2. ASSUME Reported("PRIMARY_CYCLE")' \cup Reported("PRIMARY_TRUNK_NO_TERMINAL")' = {},
               NEW S \in SUBSET NodeIds(graph), Keeps(S)
        PROVE  OfType(graph, "TERMINAL") \cap S # {}
    <3>1. current \in S /\ current \in NodeIds(graph)
      BY <2>1, <2>2 DEF TrunkOK
    <3>2. TrunkEnds /\ UNCHANGED errors
      <4>1. ASSUME TrunkBreaksOff PROVE FALSE
        <5>1. OfType(graph, "DRAFT") \in Reported("PRIMARY_TRUNK_NO_TERMINAL")'
          BY <4>1, PushedReport, NodesOnly DEF TrunkBreaksOff, Codes
        <5> QED BY <2>2, <5>1
      <4> QED BY <1>4, <4>1 DEF EndTrunk
    <3>3. Reported("PRIMARY_CYCLE") = {}
      BY <2>2, <3>2 DEF Reported
    <3>4. PrimaryCycles(graph) = {}
      BY <2>1, <3>3, CyclesComplete DEF Walked
    <3>5. ~(current \in TrunkNodes(graph) /\ PrimaryTarget(graph, current) = current)
      BY <3>4, SelfLoopIsCycle
    <3> QED BY <3>1, <3>2, <3>5 DEF TrunkEnds, OfType
  <2> QED BY <2>1, <2>2 DEF TrunkOK, Keeps
<1>5. CASE Expand \/ UNCHANGED walkVars
  <2>1. UNCHANGED <<graph, pc, current, errors>>
    BY <1>5 DEF Expand, walkVars
  <2> QED BY <2>1 DEF TrunkOK, Keeps, Reported
<1>6. CASE EndReach
  <2>1. pc = "reach" /\ pc' = "done" /\ UNCHANGED <<graph, current>>
    BY <1>6 DEF EndReach
  <2>2. \A c : Reported(c) \subseteq Reported(c)'
    <3>1. CASE UNCHANGED errors
      BY <3>1 DEF Reported
    <3>2. ASSUME NEW nodes \in SUBSET NodeIds(graph), Error("NODE_NOT_REACHABLE", nodes)
          PROVE  \A c : Reported(c) \subseteq Reported(c)'
      BY <3>2, PushedReport DEF Codes
    <3> QED BY <1>6, <3>1, <3>2, ErrorPushed
  <2> QED BY <2>1, <2>2 DEF TrunkOK, Keeps
<1> QED BY <1>1, <1>2, <1>3, <1>4, <1>5, <1>6 DEF WalkNext

(* A trunk that goes round two nodes or more stays on them: the walk never *)
(* comes to where it ends.                                                 *)
LEMMA TrappedGoesOn ==
    ASSUME NEW g, NEW n, Trapped(g, n)
    PROVE  /\ n \in TrunkNodes(g) /\ n \in NodeIds(g) /\ g.node[n].type # "TERMINAL"
           /\ PrimaryTarget(g, n) # n /\ Trapped(g, PrimaryTarget(g, n))
BY DEF Trapped, TrunkNodes

(* Every step keeps what the search for a trapped trunk relies on.         *)
LEMMA TrapKept ==
    ASSUME TrapOK, [WalkNext]_walkVars
    PROVE  TrapOK'
<1> SUFFICES ASSUME AllTrapped' PROVE pc' \notin {"reach", "done"} /\ (pc' = "trunk" => Trapped(graph, current)')
  BY DEF TrapOK
<1>1. graph' = graph /\ AllTrapped
  BY DEF WalkNext, walkVars, StartPath, CloseCycle, JoinEarlierPath, LeaveTrunk, FollowPrimary,
         EndPath, StartTrunk, WalkTrunk, EndTrunk, Expand, EndReach, AllTrapped
<1>2. pc \notin {"reach", "done"} /\ (pc = "trunk" => Trapped(graph, current))
  BY <1>1 DEF TrapOK
<1>3. CASE StartPath \/ CloseCycle \/ JoinEarlierPath \/ LeaveTrunk \/ FollowPrimary
  BY <1>3 DEF StartPath, CloseCycle, JoinEarlierPath, LeaveTrunk, FollowPrimary, EndPath
<1>4. CASE StartTrunk
  BY <1>1, <1>4 DEF StartTrunk, AllTrapped
<1>5. CASE WalkTrunk
  BY <1>1, <1>2, <1>5, TrappedGoesOn DEF WalkTrunk
<1>6. CASE EndTrunk
  BY <1>2, <1>6, TrappedGoesOn DEF EndTrunk, TrunkEnds
<1>7. CASE Expand \/ EndReach \/ UNCHANGED walkVars
  BY <1>1, <1>2, <1>7 DEF Expand, EndReach, walkVars
<1> QED BY <1>3, <1>4, <1>5, <1>6, <1>7 DEF WalkNext

--------------------------------------------------------------------------------
(* The search for unreachable nodes                                        *)

(* A step of the search gives up nothing it had found, and adds only what  *)
(* a transition leads to.                                                  *)
LEMMA FoundMore ==
    ASSUME ReachOK, Expand
    PROVE  ReachOK'
<1>1. PICK n \in stack : /\ reachable' = reachable \cup {n}
                         /\ stack' = (stack \cup Neighbours(n)) \ reachable'
  BY DEF Expand, Expanded
<1>2. pc = "reach" /\ UNCHANGED <<graph, pc, errors>>
  BY DEF Expand
<1> DEFINE found == reachable \cup stack
<1>3. found' = found \cup Neighbours(n) /\ n \in found
  BY <1>1
<1>4. Neighbours(n) \subseteq Named
  BY DEF Neighbours, Named
<1>5. \A m : Neighbours(m)' = Neighbours(m)
  BY <1>2 DEF Neighbours
<1>6. /\ found \subseteq Named
      /\ \A m \in reachable : Neighbours(m) \subseteq found
      /\ \A S \in SUBSET Named : Holds(S) => found \subseteq S
      /\ OfType(graph, "DRAFT") = {} \/ OfType(graph, "DRAFT") \cap found # {}
  BY <1>2 DEF ReachOK, Walked
<1>7. \A m \in reachable' : Neighbours(m) \subseteq found'
  BY <1>1, <1>3, <1>6
<1>8. ASSUME NEW S \in SUBSET Named, Holds(S) PROVE found' \subseteq S
  <2>1. n \in S
    BY <1>3, <1>6, <1>8
  <2>2. Neighbours(n) \subseteq S
    BY <1>8, <2>1 DEF Holds, Neighbours
  <2> QED BY <1>3, <1>6, <1>8, <2>2
<1>9. Named' = Named /\ \A S : Holds(S)' <=> Holds(S)
  BY <1>2 DEF Named, Holds
<1> HIDE DEF found
<1>10. /\ found' \subseteq Named'
       /\ \A m \in reachable' : Neighbours(m)' \subseteq found'
       /\ \A S \in SUBSET Named' : Holds(S)' => found' \subseteq S
       /\ OfType(graph', "DRAFT") = {} \/ OfType(graph', "DRAFT") \cap found' # {}
       /\ pc' = "reach"
  BY <1>2, <1>3, <1>4, <1>5, <1>6, <1>7, <1>8, <1>9
<1> QED BY <1>10 DEF ReachOK, Walked, found

(* Every step keeps what the searches of the reachable nodes rely on.      *)
LEMMA ReachKept ==
    ASSUME WalkTypeOK, CodesOK, ReachOK, [WalkNext]_walkVars
    PROVE  ReachOK'
<1>1. CASE StartPath \/ CloseCycle \/ JoinEarlierPath \/ LeaveTrunk \/ FollowPrimary
  <2>1. pc \notin Walked /\ pc' \notin Walked /\ UNCHANGED <<graph, reachable, stack>>
    BY <1>1 DEF StartPath, CloseCycle, JoinEarlierPath, LeaveTrunk, FollowPrimary, EndPath, Walked
  <2> QED BY <2>1 DEF ReachOK, Named, Holds, Neighbours, Walked
<1>2. CASE StartTrunk
  <2>1. reachable = {} /\ stack = {} /\ reachable' = {} /\ graph' = graph /\ errors' = errors
    BY <1>2 DEF StartTrunk, ReachOK, Walked
  <2>2. CASE OfType(graph, "DRAFT") = {}
    BY <1>2, <2>1, <2>2 DEF StartTrunk, ReachOK, Walked
  <2>3. CASE OfType(graph, "DRAFT") # {}
    <3>1. /\ pc' = "trunk" /\ current' \in OfType(graph, "DRAFT") /\ stack' = {current'}
      BY <1>2, <2>3 DEF StartTrunk
    <3>2. current' \in Named /\ \A S : Holds(S) => current' \in S
      BY <3>1, NodesOnly DEF Named, Holds
    <3> QED BY <2>1, <2>3, <3>1, <3>2 DEF ReachOK, Walked, Named, Holds
  <2> QED BY <2>2, <2>3
<1>3. CASE WalkTrunk \/ EndTrunk
  <2>1. pc = "trunk" /\ pc' \in {"trunk", "reach"} /\ UNCHANGED <<graph, reachable, stack>>
    BY <1>3 DEF WalkTrunk, EndTrunk
  <2> QED BY <2>1 DEF ReachOK, Named, Holds, Neighbours, Walked
<1>4. CASE Expand
  BY <1>4, FoundMore
<1>5. CASE EndReach
  <2>1. pc = "reach" /\ pc' = "done" /\ stack = {} /\ UNCHANGED <<graph, reachable, stack>>
    BY <1>5 DEF EndReach
  <2>2. Reported("NODE_NOT_REACHABLE") = {}
    BY <2>1 DEF CodesOK, Reported
  <2>3. Reported("NODE_NOT_REACHABLE")' = {} <=> NodeIds(graph) \subseteq reachable
    <3>1. CASE NodeIds(graph) \subseteq reachable
      <4>1. errors' = errors
        BY <1>5, <3>1 DEF EndReach
      <4> QED BY <2>2, <3>1, <4>1 DEF Reported
    <3>2. CASE ~(NodeIds(graph) \subseteq reachable)
      <4>1. Error("NODE_NOT_REACHABLE", NodeIds(graph) \ reachable)
        BY <1>5, <3>2 DEF EndReach
      <4>2. NodeIds(graph) \ reachable \in Reported("NODE_NOT_REACHABLE")'
        BY <4>1, PushedReport DEF Codes
      <4> QED BY <3>2, <4>2
    <3> QED BY <3>1, <3>2
  <2>4. ReachOK' <=>
          /\ \A n \in reachable : Neighbours(n) \subseteq reachable \cup stack
          /\ reachable \cup stack \subseteq Named
          /\ \A S \in SUBSET Named : Holds(S) => reachable \cup stack \subseteq S
          /\ OfType(graph, "DRAFT") = {} \/ OfType(graph, "DRAFT") \cap (reachable \cup stack) # {}
    BY <2>1, <2>3 DEF ReachOK, Named, Holds, Neighbours, Walked
  <2> QED BY <2>1, <2>4 DEF ReachOK, Walked
<1>6. CASE UNCHANGED walkVars
  <2>1. UNCHANGED <<graph, pc, reachable, stack>> /\ UNCHANGED errors
    BY <1>6 DEF walkVars
  <2>2. /\ Named' = Named /\ \A S : Holds(S)' <=> Holds(S)
        /\ \A n : Neighbours(n)' = Neighbours(n)
    BY <2>1 DEF Named, Holds, Neighbours
  <2>3. \A c : Reported(c)' = Reported(c)
    BY <2>1 DEF Reported
  <2> QED BY <2>1, <2>2, <2>3 DEF ReachOK
<1> QED BY <1>1, <1>2, <1>3, <1>4, <1>5, <1>6 DEF WalkNext

--------------------------------------------------------------------------------
(* The invariant                                                           *)

WalkInv == WalkTypeOK /\ CodesOK /\ PathOK /\ FoundOK /\ TrunkOK /\ ReachOK /\ TrapOK

(* Before the first search nothing has been visited.                       *)
LEMMA WalkInvInit == WalkInit => WalkInv
<1> SUFFICES ASSUME WalkInit PROVE WalkInv
  OBVIOUS
<1>1. /\ graph \in Graphs /\ pc = "cycles" /\ path = <<>> /\ errors = <<>>
      /\ visited = {} /\ reachable = {} /\ stack = {}
  BY DEF WalkInit
<1>2. WalkTypeOK
  BY <1>1 DEF WalkTypeOK, Places
<1>3. CycleErrors = {} /\ DOMAIN errors = {}
  BY <1>1 DEF CycleErrors
<1>4. CodesOK /\ PathOK /\ FoundOK
  BY <1>1, <1>3 DEF CodesOK, PathOK, FoundOK, Walked
<1>5. TrunkOK /\ ReachOK /\ TrapOK
  BY <1>1 DEF TrunkOK, ReachOK, TrapOK, Walked
<1> QED BY <1>2, <1>4, <1>5 DEF WalkInv

(* The invariant of the three searches.                                    *)
LEMMA WalkInvariance == WalkSpec => []WalkInv
<1>1. WalkInv /\ [WalkNext]_walkVars => WalkInv'
  BY TypesKept, CyclesKept, TrunkKept, ReachKept, TrapKept DEF WalkInv
<1> QED BY <1>1, WalkInvInit, PTL DEF WalkSpec

--------------------------------------------------------------------------------
(* What the validator's verdict is worth                                   *)

(* Each primary cycle of any graph is reported, once: the errors and the   *)
(* cycles are in bijection.                                                *)
THEOREM CyclesReportedOnce == WalkSpec => []EachCycleReportedOnce
<1>1. ASSUME WalkInv, pc \in Walked
      PROVE  /\ Reported("PRIMARY_CYCLE") = PrimaryCycles(graph)
             /\ Cardinality(CycleErrors) = Cardinality(PrimaryCycles(graph))
  <2>1. Reported("PRIMARY_CYCLE") = PrimaryCycles(graph)
    BY <1>1, CyclesComplete DEF WalkInv
  <2>2. Reported("PRIMARY_CYCLE") = {errors[k][2] : k \in CycleErrors}
    BY DEF Reported, CycleErrors
  <2> DEFINE nodesOf == [k \in CycleErrors |-> errors[k][2]]
  <2>3. nodesOf \in Bijection(CycleErrors, PrimaryCycles(graph))
    <3>1. nodesOf \in [CycleErrors -> PrimaryCycles(graph)]
      BY <2>1, <2>2
    <3>2. \A k, l \in CycleErrors : nodesOf[k] = nodesOf[l] => k = l
      BY <1>1 DEF WalkInv, FoundOK
    <3>3. \A S \in PrimaryCycles(graph) : \E k \in CycleErrors : nodesOf[k] = S
      BY <2>1, <2>2
    <3> QED BY <3>1, <3>2, <3>3 DEF Bijection, Injection, Surjection, IsInjective
  <2>4. IsFiniteSet(CycleErrors)
    <3>1. DOMAIN errors = 1..Len(errors) /\ Len(errors) \in Nat
      BY <1>1 DEF WalkInv, WalkTypeOK
    <3>2. IsFiniteSet(DOMAIN errors)
      BY <3>1, FS_Interval
    <3> QED BY <3>2, FS_Subset DEF CycleErrors
  <2> HIDE DEF nodesOf
  <2>5. ExistsBijection(CycleErrors, PrimaryCycles(graph))
    BY <2>3 DEF ExistsBijection
  <2> QED BY <2>1, <2>4, <2>5, FS_Bijection
<1>2. WalkInv => EachCycleReportedOnce
  BY <1>1 DEF EachCycleReportedOnce, CycleErrors, Walked
<1> QED BY <1>2, WalkInvariance, PTL

(* A graph the two loops and the scan for missing nodes accept has a trunk *)
(* that reaches a TERMINAL node.                                           *)
THEOREM AcceptedTrunksEnd == WalkSpec => []AcceptedTrunkReachesTerminal
<1>1. ASSUME WalkInv PROVE AcceptedTrunkReachesTerminal
  <2>1. Cardinality(OfType(graph, "DRAFT")) = 1 => OfType(graph, "DRAFT") # {}
    BY FS_EmptySet
  <2> QED BY <1>1, <2>1 DEF AcceptedTrunkReachesTerminal, WalkInv, TrunkOK, Keeps
<1> QED BY <1>1, WalkInvariance, PTL

(* The search for unreachable nodes decides the declarative rule.          *)
THEOREM ReachabilityDecided == WalkSpec => []ReachabilityAgrees
<1>1. ASSUME WalkInv, pc = "done", Cardinality(OfType(graph, "DRAFT")) = 1
      PROVE  (Reported("NODE_NOT_REACHABLE") = {}) <=> Reachability(graph)
  <2>1. IsFiniteSet(OfType(graph, "DRAFT"))
    BY <1>1, GraphsAssumption, NodesOnly, FS_Subset DEF WalkInv, WalkTypeOK
  <2>2. PICK d : OfType(graph, "DRAFT") = {d}
    BY <1>1, <2>1, FS_Singleton
  <2>3. /\ stack = {} /\ reachable \subseteq Named /\ d \in reachable
        /\ \A n \in reachable : Neighbours(n) \subseteq reachable
        /\ \A S \in SUBSET Named : Holds(S) => reachable \subseteq S
        /\ (Reported("NODE_NOT_REACHABLE") = {}) <=> NodeIds(graph) \subseteq reachable
    BY <1>1, <2>2 DEF WalkInv, ReachOK, Walked
  <2>4. Holds(reachable)
    BY <2>2, <2>3 DEF Holds, Neighbours
  <2>5. Reachability(graph) <=> \A S \in SUBSET Named : Holds(S) => NodeIds(graph) \subseteq S
    BY DEF Reachability, Named, Holds
  <2> QED BY <2>3, <2>4, <2>5
<1>2. WalkInv => ReachabilityAgrees
  BY <1>1 DEF ReachabilityAgrees
<1> QED BY <1>2, WalkInvariance, PTL

(* PRIMARY_CYCLE is reported exactly of the graphs that break the          *)
(* declarative rule, by which the commands' definitions are assumed valid. *)
THEOREM CycleDecided ==
    WalkSpec => [](pc \in Walked => (HasPrimaryCycle(graph) <=> Reported("PRIMARY_CYCLE") # {}))
<1>1. ASSUME WalkInv, pc \in Walked
      PROVE  HasPrimaryCycle(graph) <=> Reported("PRIMARY_CYCLE") # {}
  <2>1. Reported("PRIMARY_CYCLE") = PrimaryCycles(graph)
    BY <1>1, CyclesComplete DEF WalkInv
  <2>2. ASSUME NEW S \in PrimaryCycles(graph) PROVE HasPrimaryCycle(graph)
    BY DEF PrimaryCycles, Closed, HasPrimaryCycle
  <2>3. ASSUME NEW S \in (SUBSET TrunkNodes(graph)) \ {{}},
               \A n \in S : PrimaryTarget(graph, n) \in S
        PROVE  PrimaryCycles(graph) # {}
    <3>1. Closed(graph, S) /\ S \cap visited # {}
      BY <1>1, <2>3, NodesOnly DEF Closed, WalkInv, FoundOK
    <3>2. PICK k \in CycleErrors : errors[k][2] \subseteq S
      BY <1>1, <3>1 DEF WalkInv, FoundOK
    <3> QED BY <1>1 DEF WalkInv, FoundOK
  <2> QED BY <2>1, <2>2, <2>3 DEF HasPrimaryCycle
<1>2. WalkInv => (pc \in Walked => (HasPrimaryCycle(graph) <=> Reported("PRIMARY_CYCLE") # {}))
  BY <1>1
<1> QED BY <1>2, WalkInvariance, PTL

(* If the trunk of every DRAFT node goes round two nodes or more, the      *)
(* validator never answers, in whatever order it looks at the nodes.       *)
THEOREM TrappedIsNeverAnswered == WalkSpec => [](AllTrapped => pc \notin {"reach", "done"})
BY WalkInvariance, PTL DEF WalkInv, TrapOK

(* A closed set of nodes has a least one, among its finitely many subsets. *)
LEMMA LeastClosed ==
    ASSUME NEW g, IsFiniteSet(NodeIds(g)), NEW S \in SUBSET NodeIds(g), Closed(g, S)
    PROVE  \E T \in SUBSET S : Closed(g, T) /\ \A U \in SUBSET T : Closed(g, U) => U = T
<1> DEFINE all == {T \in SUBSET S : Closed(g, T)}
<1>1. all \subseteq FiniteSubsetsOf(S) /\ S \in all
  BY FS_Subset DEF FiniteSubsetsOf
<1>2. IsWellFoundedOn(StrictSubsetOrdering(S), FiniteSubsetsOf(S))
  BY FS_StrictSubsetOrderingWellFounded
<1> HIDE DEF all
<1>3. PICK T \in all : \A U \in all : <<U, T>> \notin StrictSubsetOrdering(S)
  BY <1>1, <1>2, WFMin
<1>4. ASSUME NEW U \in SUBSET T, Closed(g, U) PROVE U = T
  BY <1>3, <1>4 DEF StrictSubsetOrdering, all
<1> QED BY <1>3, <1>4 DEF all

(* In a finite graph whose primary transitions all go up in the order      *)
(* there is no primary cycle: of its nodes, those above one of them would  *)
(* be closed too.                                                          *)
THEOREM RisingTrunkHasNoCycle ==
    ASSUME NEW g, IsFiniteSet(NodeIds(g)), \A n \in NodeIds(g) : g.node[n].order \in Int,
           ReferenceRules(g), PrimaryRules(g)
    PROVE  ~HasPrimaryCycle(g)
<1> SUFFICES ASSUME HasPrimaryCycle(g) PROVE FALSE
  OBVIOUS
<1>1. PICK S \in SUBSET TrunkNodes(g) : Closed(g, S)
  BY DEF HasPrimaryCycle, Closed
<1>2. PICK T \in SUBSET S : Closed(g, T) /\ \A U \in SUBSET T : Closed(g, U) => U = T
  BY <1>1, LeastClosed, NodesOnly
<1>3. PICK n \in T : TRUE
  BY <1>2 DEF Closed
<1>4. ASSUME NEW m \in T
      PROVE  /\ PrimaryTarget(g, m) \in T
             /\ g.node[m].order \in Int /\ g.node[PrimaryTarget(g, m)].order \in Int
             /\ g.node[PrimaryTarget(g, m)].order > g.node[m].order
  <2>1. m \in NodeIds(g) /\ HasPrimary(g, m) /\ PrimaryTarget(g, m) \in T
    BY <1>2 DEF TrunkNodes, Closed
  <2>2. PrimaryTarget(g, m) \in NodeIds(g)
    BY <2>1 DEF ReferenceRules, HasPrimary, PrimaryTarget
  <2> QED BY <2>1, <2>2 DEF PrimaryRules, PrimaryTarget
<1> DEFINE above == {m \in T : g.node[m].order > g.node[n].order}
<1>5. Closed(g, above)
  <2>1. PrimaryTarget(g, n) \in above
    BY <1>4
  <2>2. ASSUME NEW m \in above PROVE PrimaryTarget(g, m) \in above
    BY <1>4
  <2> QED BY <2>1, <2>2 DEF Closed
<1>6. n \notin above
  BY <1>4
<1> QED BY <1>2, <1>3, <1>5, <1>6
================================================================================
