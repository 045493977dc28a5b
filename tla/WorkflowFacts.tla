----------------------------- MODULE WorkflowFacts -----------------------------
(***************************************************************************)
(* The tables of the workflow kernel, and the recovery code's reading of   *)
(* them.  A row's id is its position in the instance's table: contexts[i], *)
(* visits[i], submissions[i] and events[i] only ever grow (the triggers of *)
(* migrations 0006-0008 refuse UPDATE and DELETE on all four), and 0 is    *)
(* the null id.  projection[i] holds the mutable columns of the row of     *)
(* workflow_instances, identity[i] the immutable ones.                     *)
(***************************************************************************)
EXTENDS DefinitionGraph, Sequences

CONSTANTS Principals,      \* principal ids
          Services,        \* those of type SERVICE; the others are HUMAN or AGENT
          Domains,         \* domain ids
          Versions,        \* workflow_definition_versions
          Nodes,           \* workflow_node_definitions of all the versions
          Transitions,     \* workflow_transition_definitions
          NodeDef,         \* [Nodes -> [version, type, order, assignee, fixed, primary]]
          TransitionDef,   \* [Transitions -> [version, source, target, effect, schema]]
          VersionDomain,   \* [Versions -> Domains], through workflow_definitions
          Instances,       \* the instance ids that may be created
          NoInstance       \* an instance id with no row

VARIABLES enabled,         \* principals with enabled = TRUE
          bindings,        \* enabled rows <<domain, principal, role>> of domain_role_bindings
          versionStatus,   \* [Versions -> status]
          identity,        \* [Instances -> [domain, version, creator] or NoInstance]
          projection,      \* [Instances -> [context, visit, version]]
          contexts,        \* workflow_context_revisions
          visits,          \* workflow_node_visits
          submissions,     \* workflow_submissions
          events           \* workflow_events

facts == <<contexts, visits, submissions, events>>
vars  == <<enabled, bindings, versionStatus, identity, projection, facts>>

Statuses   == {"DRAFT", "PUBLISHED", "DEPRECATED", "REVOKED"}
Roles      == {"DOMAIN_OWNER", "WORKFLOW_ADMIN", "WORKFLOW_MIGRATION", "MEMBER"}
EventTypes == {"CREATED", "IMPORTED", "REVISED", "TRANSITION", "COMBINED", "OVERRIDE"}

(* The graph of a version, as the validator of DefinitionGraph sees it.    *)
GraphOf(v) ==
    [node |-> [n \in {m \in Nodes : NodeDef[m].version = v} |-> NodeDef[n]],
     transition |-> [t \in {u \in Transitions : TransitionDef[u].version = v} |-> TransitionDef[t]]]

NodeRow == [version : Versions, type : NodeTypes, order : Int, assignee : AssigneeRefs,
            fixed : Principals \cup {Nobody}, primary : Transitions \cup {NoTransition}]
TransitionRow == [version : Versions, source : Nodes, target : Nodes, effect : Effects,
                  schema : BOOLEAN]

(* What the foreign keys of the schema guarantee of the definition tables, *)
(* and that the validator accepted every version an instance can use.      *)
ASSUME DefinitionAssumption ==
    /\ NodeDef \in [Nodes -> NodeRow]
    /\ TransitionDef \in [Transitions -> TransitionRow]
    /\ VersionDomain \in [Versions -> Domains]
    /\ Services \subseteq Principals
    /\ \A v \in Versions : ValidGraph(GraphOf(v))
ASSUME NullAssumption ==
    /\ NoInstance \notin [domain : Domains, version : Versions, creator : Principals]
    /\ Nobody \notin Principals \cup Domains
    /\ NoTransition \notin Transitions

--------------------------------------------------------------------------------
Exists(i)        == identity[i] # NoInstance
VisitedNode(i, k) == visits[i][k].node
CurrentVisit(i)  == visits[i][projection[i].visit]
CurrentNode(i)   == CurrentVisit(i).node
NoProjection     == [context |-> 0, visit |-> 0, version |-> 0]

--------------------------------------------------------------------------------
(* Recovery: event_replay.rs applies the events in order to a replay state *)
(* (current context, current visit, version).  Every apply_* leaves the    *)
(* event's own context and target visit as the current ones, so the state  *)
(* in which event k is applied is read off event k - 1.                    *)
ReplayedBefore(i, k) ==
    IF k = 1 THEN NoProjection
    ELSE [context |-> events[i][k - 1].context,
          visit   |-> events[i][k - 1].target,
          version |-> k - 1]

Replayed(i) == ReplayedBefore(i, Len(events[i]) + 1)

IntroducesContext(e)    == e.type \in {"CREATED", "IMPORTED", "REVISED", "COMBINED"}
IntroducesVisit(e)      == e.type # "REVISED"
IntroducesSubmission(e) == e.submission # 0

(* introduce_visit's visit_counts entry after event k: how many visits of  *)
(* the node the events so far have introduced.                             *)
VisitCount(i, k, n) ==
    Cardinality({j \in 1..k : IntroducesVisit(events[i][j])
                              /\ VisitedNode(i, events[i][j].target) = n})

(* validate_contexts, validate_visits, validate_submissions of snapshot.rs *)
ContextFactsValid(i) ==
    /\ contexts[i] # <<>>
    /\ \A c \in DOMAIN contexts[i] :
           contexts[i][c].number = c /\ contexts[i][c].previous = c - 1

VisitFactsValid(i) ==
    /\ visits[i] # <<>>
    /\ \A k \in DOMAIN visits[i] :
          LET v == visits[i][k] IN
          /\ NodeDef[v.node].version = identity[i].version
          /\ v.number >= 1
          /\ NodeDef[v.node].type # "TERMINAL" => v.assignee # Nobody
          /\ v.enteredBy # NoTransition =>
                /\ TransitionDef[v.enteredBy].version = identity[i].version
                /\ TransitionDef[v.enteredBy].target = v.node

SubmissionFactsValid(i) ==
    \A k \in DOMAIN submissions[i] :
        LET s == submissions[i][k] IN
        /\ s.context \in DOMAIN contexts[i]
        /\ TransitionDef[s.transition].version = identity[i].version
        /\ s.source \in DOMAIN visits[i]
        /\ VisitedNode(i, s.source) = TransitionDef[s.transition].source

(* introduce_context, introduce_visit, introduce_submission                *)
IntroducesOnce(i, k) ==
    LET e == events[i][k] IN
    /\ IntroducesContext(e) =>
          \A j \in 1..(k - 1) : IntroducesContext(events[i][j]) => events[i][j].context # e.context
    /\ IntroducesVisit(e) =>
          /\ \A j \in 1..(k - 1) : IntroducesVisit(events[i][j]) => events[i][j].target # e.target
          /\ visits[i][e.target].number = VisitCount(i, k, VisitedNode(i, e.target))
    /\ IntroducesSubmission(e) =>
          \A j \in 1..(k - 1) : events[i][j].submission # e.submission

(* apply_initial, for a created and for an imported instance               *)
InitialReplays(i, k) ==
    LET e == events[i][k]
        c == contexts[i][e.context]
        v == visits[i][e.target] IN
    /\ k = 1
    /\ e.source = 0 /\ e.submission = 0 /\ e.effect = "NONE"
    /\ c.number = 1 /\ c.previous = 0
    /\ v.enteredBy = NoTransition /\ v.number = 1
    /\ e.type = "CREATED" =>
          NodeDef[v.node].type = "DRAFT" /\ v.assignee # Nobody
    /\ e.type = "IMPORTED" =>
          /\ identity[i].creator \notin Services /\ e.actor \in Services
          /\ c.author = identity[i].creator
          /\ (v.assignee = Nobody) <=> (NodeDef[v.node].type = "TERMINAL")

(* the context part of apply_context_revision and of apply_combined        *)
ContextFollows(i, e, before) ==
    /\ before.context \in DOMAIN contexts[i]
    /\ contexts[i][e.context].previous = before.context
    /\ contexts[i][e.context].number = contexts[i][before.context].number + 1

RevisionReplays(i, k) ==
    LET e == events[i][k]
        before == ReplayedBefore(i, k) IN
    /\ e.source = before.visit /\ e.target = before.visit
    /\ e.source \in DOMAIN visits[i]
    /\ NodeDef[VisitedNode(i, e.source)].type = "DRAFT"
    /\ e.submission = 0 /\ e.effect = "NONE"
    /\ ContextFollows(i, e, before)

(* transition_and_visits, shared by apply_transition and apply_combined    *)
MoveReplays(i, k) ==
    LET e == events[i][k] IN
    /\ e.source \in DOMAIN visits[i]
    /\ e.source = ReplayedBefore(i, k).visit
    /\ e.transition \in Transitions
    /\ TransitionDef[e.transition].version = identity[i].version
    /\ TransitionDef[e.transition].source = VisitedNode(i, e.source)
    /\ TransitionDef[e.transition].target = VisitedNode(i, e.target)
    /\ TransitionDef[e.transition].effect = e.effect
    /\ visits[i][e.target].enteredBy = e.transition

SubmissionMatches(i, e) ==
    /\ e.submission \in DOMAIN submissions[i]
    /\ LET s == submissions[i][e.submission] IN
       /\ s.source = e.source
       /\ s.context = e.context
       /\ s.transition = e.transition

TransitionReplays(i, k) ==
    LET e == events[i][k] IN
    /\ e.context = ReplayedBefore(i, k).context
    /\ MoveReplays(i, k)
    /\ e.submission # 0 => SubmissionMatches(i, e)

CombinedReplays(i, k) ==
    LET e == events[i][k] IN
    /\ e.effect = "ADVANCE"
    /\ ContextFollows(i, e, ReplayedBefore(i, k))
    /\ MoveReplays(i, k)
    /\ SubmissionMatches(i, e)

(* apply_admin: e.before stands for beforeSnapshotDigest                   *)
OverrideReplays(i, k) ==
    LET e == events[i][k]
        before == ReplayedBefore(i, k)
        terminal == NodeDef[VisitedNode(i, e.target)].type = "TERMINAL" IN
    /\ e.effect = IF terminal THEN "TERMINATE" ELSE "ADVANCE"
    /\ e.before = before
    /\ e.source = before.visit /\ e.source \in DOMAIN visits[i]
    /\ e.context = before.context
    /\ e.submission = 0
    /\ visits[i][e.target].enteredBy = NoTransition

(* apply                                                                   *)
EventReplays(i, k) ==
    LET e == events[i][k] IN
    /\ e.sequence = k /\ e.old = k - 1
    /\ e.context \in DOMAIN contexts[i]
    /\ e.target \in DOMAIN visits[i]
    /\ \/ e.type \in {"CREATED", "IMPORTED"} /\ InitialReplays(i, k)
       \/ e.type = "REVISED"                 /\ RevisionReplays(i, k)
       \/ e.type = "TRANSITION"              /\ TransitionReplays(i, k)
       \/ e.type = "COMBINED"                /\ CombinedReplays(i, k)
       \/ e.type = "OVERRIDE"                /\ OverrideReplays(i, k)
    /\ IntroducesOnce(i, k)

(* finish: no fact is left that no event introduced                        *)
EveryFactIntroduced(i) ==
    /\ \A c \in DOMAIN contexts[i] : \E k \in DOMAIN events[i] :
           IntroducesContext(events[i][k]) /\ events[i][k].context = c
    /\ \A v \in DOMAIN visits[i] : \E k \in DOMAIN events[i] :
           IntroducesVisit(events[i][k]) /\ events[i][k].target = v
    /\ \A s \in DOMAIN submissions[i] : \E k \in DOMAIN events[i] :
           events[i][k].submission = s

(* reconstruct_projection succeeds                                         *)
ReplayAccepts(i) ==
    /\ ContextFactsValid(i)
    /\ VisitFactsValid(i)
    /\ SubmissionFactsValid(i)
    /\ events[i] # <<>>
    /\ \A k \in DOMAIN events[i] : EventReplays(i, k)
    /\ EveryFactIntroduced(i)
================================================================================
