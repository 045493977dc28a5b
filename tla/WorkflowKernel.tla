---------------------------- MODULE WorkflowKernel -----------------------------
(***************************************************************************)
(* The commands of the kernel, each as the one database transaction that   *)
(* its handler runs once it owns the command receipt (how a receipt is     *)
(* won, replayed or refused is CommandReceipt.tla).  <C>Verdict is the     *)
(* handler's chain of checks, in the order of its early returns: "OK", or  *)
(* the refusal.  Most refusals are stored with the receipt, a few rolled   *)
(* back (a revision's INSTANCE_NOT_FOUND and CURRENT_NODE_NOT_DRAFT, every *)
(* StorageError).  Neither writes a workflow fact, so only the accepted    *)
(* commands are actions.  The row locks the handlers take (instance FOR    *)
(* UPDATE, definition version FOR UPDATE) are what lets a transaction be   *)
(* one step here.                                                          *)
(***************************************************************************)
EXTENDS WorkflowFacts

CONSTANTS MaxVersion,     \* bound on workflow_state_version (an i32 in the code)
          SeedBindings,   \* the role bindings there at the start
          Switchable,     \* principals and domains whose enabled flag may change
          Grantable,      \* role bindings that may be granted or withdrawn
          Driftable       \* instances whose projection row may fall back to an older value

ASSUME BoundAssumption ==
    /\ MaxVersion \in Nat
    /\ Driftable \subseteq Instances
    /\ SeedBindings \subseteq Domains \X Principals \X Roles
    /\ Grantable \subseteq Domains \X Principals \X Roles
    /\ Switchable \subseteq Principals \cup Domains

--------------------------------------------------------------------------------
(* Helpers the handlers share                                              *)

HasRole(p, d, role) == <<d, p, role>> \in bindings
Owners(d)           == {p \in Principals : HasRole(p, d, "DOMAIN_OWNER")}

(* resolve_assignee: the principals a visit of node n may be assigned to,  *)
(* one at most; none means AssigneeResolutionFailed.  The creator is not   *)
(* checked for being enabled.                                              *)
Assignees(n, creator, d) ==
    IF NodeDef[n].type = "TERMINAL" THEN {Nobody}
    ELSE CASE NodeDef[n].assignee = "WORKFLOW_CREATOR" -> {creator}
           [] NodeDef[n].assignee = "DOMAIN_OWNER"     -> Owners(d) \cap enabled
           [] NodeDef[n].assignee = "FIXED_PRINCIPAL"  -> {NodeDef[n].fixed} \cap enabled
           [] OTHER                                    -> {}

(* COALESCE(MAX(visit_number), 0) + 1 over the visits of one node          *)
VisitNumbers(i, n) ==
    {visits[i][k].number : k \in {k \in DOMAIN visits[i] : VisitedNode(i, k) = n}}
NumberedPerInstance(i, n) == Len(visits[i]) + 1   \* mutant: one count for all the nodes
NextVisitNumber(i, n) ==
    1 + (CHOOSE m \in VisitNumbers(i, n) \cup {0} : \A x \in VisitNumbers(i, n) : x <= m)

Writable(v) == versionStatus[v] \in {"PUBLISHED", "DEPRECATED"}

(* The UNIQUE constraints of migration 0003: an INSERT that breaks one is  *)
(* a StorageError and rolls the whole transaction back.                    *)
SequenceUnchecked(i)  == TRUE       \* mutant: no UNIQUE (instance, event_sequence)
SequenceFree(i)       == \A k \in DOMAIN events[i] : events[i][k].sequence # projection[i].version + 1
RevisionFree(i, num)  == \A c \in DOMAIN contexts[i] : contexts[i][c].number # num
SourceFree(i)         == \A s \in DOMAIN submissions[i] : submissions[i][s].source # projection[i].visit

AddContext(i, num, previous, author) ==
    contexts' = [contexts EXCEPT ![i] =
        Append(@, [number |-> num, previous |-> previous, author |-> author])]
AddVisit(i, n, num, assignee, t) ==
    visits' = [visits EXCEPT ![i] =
        Append(@, [node |-> n, number |-> num, assignee |-> assignee, enteredBy |-> t])]
(* A request's submission; with no references, as a combined command's is. *)
NoSubmission == [payload |-> "NONE", root |-> 0, related |-> 0]

SubmitFromTarget(i, context, author, t, sub) ==   \* mutant: bound to the visit being opened
    submissions' = [submissions EXCEPT ![i] =
        Append(@, [source |-> Len(visits[i]) + 1, context |-> context, author |-> author,
                   transition |-> t, root |-> sub.root, related |-> sub.related])]
AddSubmission(i, context, author, t, sub) ==
    submissions' = [submissions EXCEPT ![i] =
        Append(@, [source |-> projection[i].visit, context |-> context, author |-> author,
                   transition |-> t, root |-> sub.root, related |-> sub.related])]

(* An event row with the columns every handler fills the same way: the     *)
(* sequence is the new state version.                                      *)
EventRow(i, type, actor) ==
    [type |-> type, sequence |-> projection[i].version + 1, old |-> projection[i].version,
     source |-> projection[i].visit, target |-> Len(visits[i]) + 1,
     context |-> projection[i].context, submission |-> 0,
     transition |-> NoTransition, effect |-> "NONE", actor |-> actor,
     before |-> NoProjection]
AddEvent(i, e) == events' = [events EXCEPT ![i] = Append(@, e)]

(* Mutants: the row keeps its old visit; the row names the visit after the new one. *)
MoveVersionOnly(i) == projection' = [projection EXCEPT ![i].version = @ + 1]
MoveTooFar(i) == projection' = [projection EXCEPT ![i].visit = Len(visits[i]) + 2, ![i].version = @ + 1]
Move(i) == projection' = [projection EXCEPT ![i].visit = Len(visits[i]) + 1, ![i].version = @ + 1]

BelowBound(i) == projection[i].version < MaxVersion

--------------------------------------------------------------------------------
(* CreateWorkflowInstance                                                  *)

CreateVerdict(p, d, v, context) ==
    IF context = "OVERSIZE"                        THEN "SIZE_LIMIT_EXCEEDED"
    ELSE IF VersionDomain[v] # d                   THEN "CROSS_DOMAIN_VIOLATION"
    ELSE IF versionStatus[v] # "PUBLISHED"         THEN "VERSION_NOT_PUBLISHED"
    ELSE IF d \notin enabled                       THEN "DOMAIN_DISABLED"
    ELSE IF p \notin enabled                       THEN "PRINCIPAL_DISABLED"
    ELSE IF \A role \in Roles : ~HasRole(p, d, role) THEN "DOMAIN_MEMBERSHIP_REQUIRED"
    ELSE IF context = "NONCONFORMING"              THEN "CONTEXT_VALIDATION_FAILED"
    ELSE "OK"

Open(i, type, p, creator, d, v, n, assignee) ==
    /\ identity'   = [identity EXCEPT ![i] = [domain |-> d, version |-> v, creator |-> creator]]
    /\ projection' = [projection EXCEPT ![i] = [context |-> 1, visit |-> 1, version |-> 1]]
    /\ AddContext(i, 1, 0, creator)
    /\ AddVisit(i, n, 1, assignee, NoTransition)
    /\ AddEvent(i, [EventRow(i, type, p) EXCEPT !.context = 1])
    /\ UNCHANGED <<enabled, bindings, versionStatus, submissions>>

CreateWorkflowInstance(p, d, v, i) ==
    /\ ~Exists(i) /\ BelowBound(i)
    /\ CreateVerdict(p, d, v, "VALID") = "OK"
    /\ \E n \in OfType(GraphOf(v), "DRAFT") : \E a \in Assignees(n, p, d) :
           Open(i, "CREATED", p, p, d, v, n, a)

--------------------------------------------------------------------------------
(* ImportLegacyWorkflowInstance: a SERVICE holding the domain's only       *)
(* WORKFLOW_MIGRATION binding opens an instance at any node of a published *)
(* version.  legacy is the creator the snapshot names, or Nobody.          *)

EnabledOwners(d) ==
    IF Cardinality(Owners(d)) = 1 THEN (Owners(d) \cap enabled) \ Services ELSE {}

ImportCreators(legacy, d) ==
    IF legacy \in enabled \ Services THEN {legacy} ELSE EnabledOwners(d)

ImportAssignees(n, creator, d) ==
    IF NodeDef[n].type = "TERMINAL" THEN {Nobody}
    ELSE enabled \cap CASE NodeDef[n].assignee = "WORKFLOW_CREATOR" -> {creator}
                        [] NodeDef[n].assignee = "DOMAIN_OWNER"     -> EnabledOwners(d)
                        [] NodeDef[n].assignee = "FIXED_PRINCIPAL"  -> {NodeDef[n].fixed}
                        [] OTHER                                    -> {}

ImportVerdict(s, d, v, n) ==
    IF d \notin enabled                            THEN "DOMAIN_DISABLED"
    ELSE IF s \notin enabled                       THEN "PRINCIPAL_DISABLED"
    ELSE IF s \notin Services                      THEN "PRINCIPAL_TYPE_NOT_ALLOWED"
    ELSE IF {p \in Principals : HasRole(p, d, "WORKFLOW_MIGRATION")} # {s}
                                                   THEN "MIGRATION_BINDING_INVALID"
    ELSE IF VersionDomain[v] # d                   THEN "PERMISSION_DENIED"
    ELSE IF versionStatus[v] # "PUBLISHED"         THEN "VERSION_NOT_PUBLISHED"
    ELSE IF NodeDef[n].version # v                 THEN "IMPORTED_NODE_NOT_FOUND"
    ELSE "OK"

ImportLegacyWorkflowInstance(s, d, v, n, legacy, i) ==
    /\ ~Exists(i) /\ BelowBound(i)
    /\ ImportVerdict(s, d, v, n) = "OK"
    /\ \E creator \in ImportCreators(legacy, d) : \E a \in ImportAssignees(n, creator, d) :
           Open(i, "IMPORTED", s, creator, d, v, n, a)

--------------------------------------------------------------------------------
(* ReviseWorkflowContext                                                   *)

ReviseAnywhere(p, i, version, context) ==   \* mutant: validate_current_visit is not called
    IF /\ p \in enabled /\ Exists(i) /\ identity[i].creator = p
       /\ projection[i].version = version
       /\ Writable(identity[i].version)
       /\ context = "VALID"
    THEN "OK" ELSE "REFUSED"

ReviseVerdict(p, i, version, context) ==
    IF p \notin enabled                            THEN "PRINCIPAL_DISABLED"
    ELSE IF context = "OVERSIZE"                   THEN "SIZE_LIMIT_EXCEEDED"
    ELSE IF ~Exists(i)                             THEN "INSTANCE_NOT_FOUND"
    ELSE IF identity[i].creator # p                THEN "PRINCIPAL_NOT_FOUND"
    ELSE IF projection[i].version # version        THEN "WORKFLOW_STATE_VERSION_CONFLICT"
    ELSE IF ~Writable(identity[i].version)         THEN "DEFINITION_VERSION_REVOKED"
    ELSE IF NodeDef[CurrentNode(i)].type # "DRAFT" THEN "CURRENT_NODE_NOT_DRAFT"
    ELSE IF context = "NONCONFORMING"              THEN "CONTEXT_VALIDATION_FAILED"
    ELSE "OK"

ReviseWorkflowContext(p, i, version) ==
    LET num == contexts[i][projection[i].context].number + 1 IN
    /\ BelowBound(i) /\ ReviseVerdict(p, i, version, "VALID") = "OK"
    /\ RevisionFree(i, num) /\ SequenceFree(i)
    /\ AddContext(i, num, projection[i].context, p)
    /\ projection' = [projection EXCEPT ![i].context = Len(contexts[i]) + 1, ![i].version = @ + 1]
    /\ AddEvent(i, [EventRow(i, "REVISED", p) EXCEPT !.target = projection[i].visit,
                                                     !.context = Len(contexts[i]) + 1])
    /\ UNCHANGED <<enabled, bindings, versionStatus, identity, visits, submissions>>

--------------------------------------------------------------------------------
(* ExecuteWorkflowTransition.  A request's submission is                   *)
(* [payload, root, related]: payload is "NONE", or what the size and       *)
(* schema checks make of it; root and related are the ids that a RETURN    *)
(* submission names as rootCauseNodeVisitId and in relatedSubmissionIds    *)
(* (0: not given).                                                         *)

ApplicableAnyAdvance(i, t) ==   \* mutant: an ADVANCE need not be the primary transition
    /\ TransitionDef[t].version = identity[i].version
    /\ TransitionDef[t].source = CurrentNode(i)

(* read_transition, the source check, and the effect and target checks     *)
Applicable(i, t) ==
    LET tr     == TransitionDef[t]
        source == NodeDef[CurrentNode(i)]
        target == NodeDef[tr.target] IN
    /\ tr.version = identity[i].version
    /\ tr.source = CurrentNode(i)
    /\ (tr.effect = "ADVANCE") <=> (t = source.primary)
    /\ tr.effect = "RETURN"    => target.type # "TERMINAL" /\ target.order < source.order
    /\ tr.effect = "TERMINATE" => target.type = "TERMINAL"

ReferencesExist(i, sub) == sub.root # 0   \* mutant: the queries do not name the instance

(* validate_return_references                                              *)
ReferencesValid(i, sub) ==
    /\ sub.root \in DOMAIN visits[i]
    /\ sub.related \in DOMAIN submissions[i] \cup {0}

SubmissionVerdict(i, t, sub) ==
    LET tr == TransitionDef[t] IN
    IF sub.payload = "NONE" THEN IF tr.schema THEN "SUBMISSION_REQUIRED" ELSE "OK"
    ELSE IF sub.payload = "OVERSIZE"                        THEN "SIZE_LIMIT_EXCEEDED"
    ELSE IF tr.schema /\ sub.payload = "NONCONFORMING"      THEN "SUBMISSION_VALIDATION_FAILED"
    ELSE IF tr.effect = "RETURN" /\ ~ReferencesValid(i, sub) THEN "INVALID_RETURN_REFERENCES"
    ELSE "OK"

AnyoneMoves(p, i, t, version, sub) ==   \* mutant: the assignee is not compared
    IF /\ Exists(i) /\ projection[i].version = version
       /\ p \in enabled
       /\ Writable(identity[i].version)
       /\ Applicable(i, t) /\ SubmissionVerdict(i, t, sub) = "OK"
       /\ Assignees(TransitionDef[t].target, identity[i].creator, identity[i].domain) # {}
    THEN "OK" ELSE "REFUSED"

TransitionVerdict(p, i, t, version, sub) ==
    IF ~Exists(i)                                     THEN "INSTANCE_NOT_FOUND"
    ELSE IF projection[i].version # version           THEN "WORKFLOW_STATE_VERSION_CONFLICT"
    ELSE IF NodeDef[CurrentNode(i)].type = "TERMINAL" THEN "SOURCE_NODE_TERMINAL"
    ELSE IF p \notin enabled                          THEN "PRINCIPAL_DISABLED"
    ELSE IF CurrentVisit(i).assignee # p              THEN "PRINCIPAL_NOT_ASSIGNEE"
    ELSE IF ~Writable(identity[i].version)            THEN "DEFINITION_VERSION_REVOKED"
    ELSE IF ~Applicable(i, t)                         THEN "TRANSITION_NOT_APPLICABLE"
    ELSE IF SubmissionVerdict(i, t, sub) # "OK"       THEN SubmissionVerdict(i, t, sub)
    ELSE IF Assignees(TransitionDef[t].target, identity[i].creator, identity[i].domain) = {}
                                                      THEN "ASSIGNEE_RESOLUTION_FAILED"
    ELSE "OK"

ExecuteWorkflowTransition(p, i, t, version, sub) ==
    LET target    == TransitionDef[t].target
        submitted == sub.payload # "NONE" IN
    /\ BelowBound(i) /\ TransitionVerdict(p, i, t, version, sub) = "OK"
    /\ SequenceFree(i)
    /\ IF submitted
         THEN SourceFree(i) /\ AddSubmission(i, projection[i].context, p, t, sub)
         ELSE UNCHANGED submissions
    /\ \E a \in Assignees(target, identity[i].creator, identity[i].domain) :
           AddVisit(i, target, NextVisitNumber(i, target), a, t)
    /\ Move(i)
    /\ AddEvent(i, [EventRow(i, "TRANSITION", p) EXCEPT
                        !.transition = t, !.effect = TransitionDef[t].effect,
                        !.submission = IF submitted THEN Len(submissions[i]) + 1 ELSE 0])
    /\ UNCHANGED <<enabled, bindings, versionStatus, identity, contexts>>

--------------------------------------------------------------------------------
(* ReviseContextAndTransition: a new context and the primary ADVANCE out   *)
(* of the DRAFT, with a submission bound to the new context.               *)

CombinedOnRevoked(p, i, t, version, context, submission) ==   \* mutant: no status check
    IF /\ Exists(i) /\ projection[i].version = version
       /\ identity[i].creator = p /\ CurrentVisit(i).assignee = p /\ p \in enabled
       /\ NodeDef[CurrentNode(i)].type = "DRAFT" /\ NodeDef[CurrentNode(i)].primary = t
       /\ {context, submission} = {"VALID"}
       /\ Assignees(TransitionDef[t].target, identity[i].creator, identity[i].domain) # {}
    THEN "OK" ELSE "REFUSED"

CombinedVerdict(p, i, t, version, context, submission) ==
    IF ~Exists(i)                                    THEN "INSTANCE_NOT_FOUND"
    ELSE IF ~Writable(identity[i].version)           THEN "DEFINITION_VERSION_REVOKED"
    ELSE IF projection[i].version # version          THEN "WORKFLOW_STATE_VERSION_CONFLICT"
    ELSE IF identity[i].creator # p                  THEN "PRINCIPAL_NOT_CREATOR"
    ELSE IF CurrentVisit(i).assignee # p             THEN "PRINCIPAL_NOT_ASSIGNEE"
    ELSE IF NodeDef[CurrentNode(i)].type # "DRAFT"   THEN "CURRENT_NODE_NOT_DRAFT"
    ELSE IF p \notin enabled                         THEN "PRINCIPAL_DISABLED"
    ELSE IF \/ TransitionDef[t].version # identity[i].version
            \/ TransitionDef[t].source # CurrentNode(i)
            \/ TransitionDef[t].effect # "ADVANCE"
            \/ NodeDef[CurrentNode(i)].primary # t   THEN "TRANSITION_NOT_APPLICABLE"
    ELSE IF "OVERSIZE" \in {context, submission}     THEN "SIZE_LIMIT_EXCEEDED"
    ELSE IF context = "NONCONFORMING"                THEN "CONTEXT_VALIDATION_FAILED"
    ELSE IF TransitionDef[t].schema /\ submission = "NONCONFORMING"
                                                     THEN "SUBMISSION_VALIDATION_FAILED"
    ELSE IF Assignees(TransitionDef[t].target, identity[i].creator, identity[i].domain) = {}
                                                     THEN "ASSIGNEE_RESOLUTION_FAILED"
    ELSE "OK"

ReviseContextAndTransition(p, i, t, version) ==
    LET target  == TransitionDef[t].target
        num     == contexts[i][projection[i].context].number + 1
        context == Len(contexts[i]) + 1 IN
    /\ BelowBound(i) /\ CombinedVerdict(p, i, t, version, "VALID", "VALID") = "OK"
    /\ RevisionFree(i, num) /\ SourceFree(i) /\ SequenceFree(i)
    /\ AddContext(i, num, projection[i].context, p)
    /\ AddSubmission(i, context, p, t, NoSubmission)
    /\ \E a \in Assignees(target, identity[i].creator, identity[i].domain) :
           AddVisit(i, target, NextVisitNumber(i, target), a, t)
    /\ projection' = [projection EXCEPT ![i] = [context |-> context, visit |-> Len(visits[i]) + 1,
                                                version |-> @.version + 1]]
    /\ AddEvent(i, [EventRow(i, "COMBINED", p) EXCEPT
                        !.context = context, !.transition = t, !.effect = "ADVANCE",
                        !.submission = Len(submissions[i]) + 1])
    /\ UNCHANGED <<enabled, bindings, versionStatus, identity>>

--------------------------------------------------------------------------------
(* Recovery commands of a domain's WORKFLOW_ADMIN                          *)

(* validate_actor, then validate_workflow_admin                            *)
AdminVerdict(p, d) ==
    IF p \notin enabled                         THEN "PRINCIPAL_DISABLED"
    ELSE IF p \in Services                      THEN "PRINCIPAL_TYPE_NOT_ALLOWED"
    ELSE IF ~HasRole(p, d, "WORKFLOW_ADMIN")    THEN "PERMISSION_DENIED"
    ELSE "OK"

(* resolve_non_terminal_assignee also requires the creator to be enabled   *)
OverrideAssignees(i, n) ==
    Assignees(n, identity[i].creator, identity[i].domain) \cap (enabled \cup {Nobody})

OverrideVerdict(p, i, operation, n, version) ==
    IF ~Exists(i)                                     THEN "PERMISSION_DENIED"
    ELSE IF AdminVerdict(p, identity[i].domain) # "OK"
                                                      THEN AdminVerdict(p, identity[i].domain)
    ELSE IF versionStatus[identity[i].version] = "DRAFT" THEN "INVALID_TARGET"
    ELSE IF ~ReplayAccepts(i) \/ Replayed(i) # projection[i]
                                                      THEN "INVALID_IMMUTABLE_FACTS"
    ELSE IF projection[i].version # version           THEN "WORKFLOW_STATE_VERSION_CONFLICT"
    ELSE IF NodeDef[n].version # identity[i].version  THEN "INVALID_TARGET"
    ELSE IF (operation = "TERMINATE_INSTANCE") # (NodeDef[n].type = "TERMINAL")
                                                      THEN "INVALID_TARGET"
    ELSE IF OverrideAssignees(i, n) = {}              THEN "ASSIGNEE_RESOLUTION_FAILED"
    ELSE "OK"

AdminEmergencyOverride(p, i, operation, n, version) ==
    /\ BelowBound(i) /\ OverrideVerdict(p, i, operation, n, version) = "OK"
    /\ SequenceFree(i)
    /\ \E a \in OverrideAssignees(i, n) : AddVisit(i, n, NextVisitNumber(i, n), a, NoTransition)
    /\ Move(i)
    /\ AddEvent(i, [EventRow(i, "OVERRIDE", p) EXCEPT
                        !.effect = IF operation = "MOVE_TO_NODE" THEN "ADVANCE" ELSE "TERMINATE",
                        !.before = projection[i]])
    /\ UNCHANGED <<enabled, bindings, versionStatus, identity, contexts, submissions>>

RebuildVerdict(p, i) ==
    IF ~Exists(i)                                      THEN "PERMISSION_DENIED"
    ELSE IF AdminVerdict(p, identity[i].domain) # "OK" THEN AdminVerdict(p, identity[i].domain)
    ELSE IF ~ReplayAccepts(i)                          THEN "INVALID_IMMUTABLE_FACTS"
    ELSE "OK"

RebuildProjection(p, i) ==
    /\ RebuildVerdict(p, i) = "OK"
    /\ projection' = [projection EXCEPT ![i] = Replayed(i)]
    /\ UNCHANGED <<enabled, bindings, versionStatus, identity, facts>>

--------------------------------------------------------------------------------
(* Lifecycle of a definition version: the atomic_* transactions.  The      *)
(* graph, its digest and the race with edits are DefinitionLifecycle.tla.  *)

OwnerMayChange(p, v) ==
    VersionDomain[v] \in enabled /\ HasRole(p, VersionDomain[v], "DOMAIN_OWNER")

SetStatus(p, v, from, to) ==
    /\ versionStatus[v] \in from
    /\ OwnerMayChange(p, v)
    /\ versionStatus' = [versionStatus EXCEPT ![v] = to]
    /\ UNCHANGED <<enabled, bindings, identity, projection, facts>>

PublishVersion(p, v)   == SetStatus(p, v, {"DRAFT"}, "PUBLISHED")
DeprecateVersion(p, v) == SetStatus(p, v, {"PUBLISHED"}, "DEPRECATED")
RevokeVersion(p, v)    == SetStatus(p, v, {"PUBLISHED", "DEPRECATED"}, "REVOKED")

--------------------------------------------------------------------------------
(* What changes outside the kernel: principals and domains are disabled    *)
(* and enabled, roles are granted and withdrawn (at most one enabled       *)
(* DOMAIN_OWNER per domain, migration 0001), and a projection row may be   *)
(* set back to a value it had before, the damage RebuildProjection is for. *)

Switch(x) ==
    /\ enabled' = IF x \in enabled THEN enabled \ {x} ELSE enabled \cup {x}
    /\ UNCHANGED <<bindings, versionStatus, identity, projection, facts>>

ChangeRole(d, p, role) ==
    /\ IF HasRole(p, d, role) THEN bindings' = bindings \ {<<d, p, role>>}
       ELSE /\ role = "DOMAIN_OWNER" => Owners(d) = {}
            /\ bindings' = bindings \cup {<<d, p, role>>}
    /\ UNCHANGED <<enabled, versionStatus, identity, projection, facts>>

Drift(i) ==
    /\ Exists(i)
    /\ \E k \in 1..Len(events[i]) : projection' = [projection EXCEPT ![i] = ReplayedBefore(i, k + 1)]
    /\ UNCHANGED <<enabled, bindings, versionStatus, identity, facts>>

--------------------------------------------------------------------------------
Init ==
    /\ enabled = Principals \cup Domains
    /\ bindings = SeedBindings
    /\ versionStatus = [v \in Versions |-> "DRAFT"]
    /\ identity = [i \in Instances |-> NoInstance]
    /\ projection = [i \in Instances |-> NoProjection]
    /\ contexts = [i \in Instances |-> <<>>]
    /\ visits = [i \in Instances |-> <<>>]
    /\ submissions = [i \in Instances |-> <<>>]
    /\ events = [i \in Instances |-> <<>>]

(* Only a request that names the current state version can be accepted.    *)
(* References are read of a RETURN only; the last root, and the last       *)
(* related, is an id that is not one of the instance's.                    *)
Submissions(i, t) ==
    LET returns == TransitionDef[t].effect = "RETURN" IN
    {NoSubmission} \cup
    [payload : {"VALID"}, root : IF returns THEN 0..(Len(visits[i]) + 1) ELSE {0},
     related : IF returns THEN 0..(Len(submissions[i]) + 1) ELSE {0}]

OrdinaryCommand(p, i) ==
    \/ \E d \in Domains, v \in Versions : CreateWorkflowInstance(p, d, v, i)
    \/ ReviseWorkflowContext(p, i, projection[i].version)
    \/ \E t \in Transitions :
          \/ \E sub \in Submissions(i, t) :
                ExecuteWorkflowTransition(p, i, t, projection[i].version, sub)
          \/ ReviseContextAndTransition(p, i, t, projection[i].version)

AdminCommand(p, i) ==
    \/ \E d \in Domains, v \in Versions, n \in Nodes, legacy \in Principals \cup {Nobody} :
          ImportLegacyWorkflowInstance(p, d, v, n, legacy, i)
    \/ \E operation \in {"MOVE_TO_NODE", "TERMINATE_INSTANCE"}, n \in Nodes :
          AdminEmergencyOverride(p, i, operation, n, projection[i].version)
    \/ RebuildProjection(p, i)

Lifecycle(p, v) == PublishVersion(p, v) \/ DeprecateVersion(p, v) \/ RevokeVersion(p, v)

Environment ==
    \/ \E x \in Switchable : Switch(x)
    \/ \E b \in Grantable : ChangeRole(b[1], b[2], b[3])
    \/ \E i \in Driftable : Drift(i)

Next ==
    \/ \E p \in Principals, i \in Instances : OrdinaryCommand(p, i) \/ AdminCommand(p, i)
    \/ \E p \in Principals, v \in Versions : Lifecycle(p, v)
    \/ Environment

Spec == Init /\ [][Next]_vars
================================================================================
