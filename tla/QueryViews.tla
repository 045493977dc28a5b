------------------------------- MODULE QueryViews -------------------------------
(***************************************************************************)
(* What the query handlers compute from the rows they read: who sees an    *)
(* instance and how much of it, when its rows are refused as inconsistent, *)
(* and the rows of each answer.  A module of reads only; Query.tla says    *)
(* in which state each of them is made.                                    *)
(***************************************************************************)
EXTENDS WorkflowFacts

CONSTANT PageLimit      \* rows of a page, 50 by default in the code

--------------------------------------------------------------------------------
(* load_base: the instance's row joined with what it points at.            *)
BaseRow(i) ==
    [identity   |-> identity[i],
     status     |-> versionStatus[identity[i].version],
     projection |-> projection[i],
     node       |-> CurrentNode(i),
     visit      |-> CurrentVisit(i)]

(* classify_visibility, the first that applies                             *)
ByVisitOnly(p, i) == CurrentVisit(i).assignee = p   \* mutant: visits of the past do not count
Participated(p, i) ==
    \/ identity[i].creator = p
    \/ \E k \in DOMAIN visits[i] :
          /\ visits[i][k].assignee = p
          /\ NodeDef[visits[i][k].node].version = identity[i].version
    \/ \E s \in DOMAIN submissions[i] : submissions[i][s].author = p

Sight(p, i) ==
    IF <<identity[i].domain, p, "DOMAIN_OWNER">> \in bindings THEN "OWNER"
    ELSE IF /\ CurrentVisit(i).assignee = p
            /\ NodeDef[CurrentNode(i)].type # "TERMINAL"      THEN "ASSIGNEE"
    ELSE IF /\ identity[i].creator = p
            /\ NodeDef[CurrentNode(i)].type = "DRAFT"         THEN "CREATOR"
    ELSE IF Participated(p, i)                                THEN "RESTRICTED"
    ELSE "NONE"

Full(sight) == sight \in {"OWNER", "ASSIGNEE", "CREATOR"}

(* validate_base: the pointers hit rows of the instance, and the events    *)
(* are numbered from 1 to the state version without a gap.                 *)
CountIgnored(i) == TRUE   \* mutant: the events are not compared with the state version
EventsCounted(i) ==
    LET sequences == {events[i][k].sequence : k \in DOMAIN events[i]} IN
    /\ projection[i].version = Len(events[i])
    /\ sequences \subseteq 1..projection[i].version
    /\ {1, projection[i].version} \subseteq sequences

BaseConsistent(i) ==
    /\ VersionDomain[identity[i].version] = identity[i].domain
    /\ projection[i].context \in DOMAIN contexts[i]
    /\ projection[i].visit \in DOMAIN visits[i]
    /\ NodeDef[CurrentNode(i)].version = identity[i].version
    /\ projection[i].version >= 1
    /\ EventsCounted(i)
    /\ \A k \in DOMAIN events[i] :
          LET e == events[i][k] IN
          /\ {e.source, e.target} \subseteq DOMAIN visits[i] \cup {0}
          /\ e.context \in DOMAIN contexts[i] \cup {0}
          /\ e.submission \in DOMAIN submissions[i] \cup {0}

(* validate_all_facts; the current context is the last of the chain        *)
FactsConsistent(i) ==
    /\ ContextFactsValid(i)
    /\ contexts[i][projection[i].context].number = Len(contexts[i])
    /\ \A k \in DOMAIN visits[i] : NodeDef[VisitedNode(i, k)].version = identity[i].version
    /\ SubmissionFactsValid(i)

Consistent(i) == BaseConsistent(i) /\ FactsConsistent(i)

--------------------------------------------------------------------------------
(* load_outgoing: whether a transition can be offered to p                 *)
EnabledTarget(row, t) ==
    LET n == NodeDef[TransitionDef[t].target] IN
    \/ n.type = "TERMINAL"
    \/ n.assignee = "WORKFLOW_CREATOR" /\ row.identity.creator \in enabled
    \/ n.assignee = "DOMAIN_OWNER"
       /\ \E p \in enabled : <<row.identity.domain, p, "DOMAIN_OWNER">> \in bindings
    \/ n.assignee = "FIXED_PRINCIPAL" /\ n.fixed \in enabled

AnyAdvance(row, t) == FALSE   \* mutant: an ADVANCE off the trunk is offered too
NotPrimary(row, t) == TransitionDef[t].effect = "ADVANCE" /\ t # NodeDef[row.node].primary

BlockedReason(row, p, t) ==
    IF NodeDef[row.node].type = "TERMINAL"  THEN "CURRENT_NODE_TERMINAL"
    ELSE IF row.status = "REVOKED"          THEN "DEFINITION_VERSION_REVOKED"
    ELSE IF row.status = "DRAFT"            THEN "DEFINITION_VERSION_DRAFT"
    ELSE IF NotPrimary(row, t)              THEN "ADVANCE_NOT_PRIMARY"
    ELSE IF row.visit.assignee # p          THEN "ACTOR_NOT_CURRENT_ASSIGNEE"
    ELSE IF ~EnabledTarget(row, t)          THEN "TARGET_ASSIGNEE_UNAVAILABLE"
    ELSE "NONE"

Outgoing(n)              == {t \in Transitions : TransitionDef[t].source = n}
FullDetail(row, p)       == [row      |-> row,
                             outgoing |-> [t \in Outgoing(row.node) |-> BlockedReason(row, p, t)]]
ParticipantDetail(row)   == [node |-> row.node, version |-> row.projection.version,
                             status |-> row.status]

(* list_creator_owned_drafts: what its creator can do with a draft.  The   *)
(* code asks whether the primary ADVANCE is executable, where the query    *)
(* contract has any outgoing transition (PrimaryUnassignable).             *)
ContextEditable(row)     == row.status \in {"PUBLISHED", "DEPRECATED"}
CombinedExecutable(row, p) ==
    /\ ContextEditable(row)
    /\ row.visit.assignee = p
    /\ \E t \in Outgoing(row.node) :
          /\ TransitionDef[t].effect = "ADVANCE" /\ t = NodeDef[row.node].primary
          /\ BlockedReason(row, p, t) = "NONE"

--------------------------------------------------------------------------------
(* fetch_submissions and list_workflow_timeline: one's own, the RETURNs    *)
(* that refer to one's own, and the outcome.                               *)
Own(p, i, s) == s # 0 /\ submissions[i][s].author = p

OwnOnly(p, i, s) == FALSE   \* mutant: a RETURN that refers to one's own is left out
RefersToOwn(p, i, s) ==
    /\ s # 0
    /\ TransitionDef[submissions[i][s].transition].effect = "RETURN"
    /\ Own(p, i, submissions[i][s].related)

VisibleSubmissions(p, i, full) ==
    {s \in DOMAIN submissions[i] : full \/ Own(p, i, s) \/ RefersToOwn(p, i, s)}

Outcome(i, e) ==
    e.effect = "TERMINATE" \/ (e.target # 0 /\ NodeDef[VisitedNode(i, e.target)].type = "TERMINAL")

VisibleEvents(p, i, full) ==
    {k \in DOMAIN events[i] :
        LET e == events[i][k] IN
        \/ full
        \/ Own(p, i, e.submission)
        \/ /\ e.effect = "RETURN" /\ e.submission # 0
           /\ Own(p, i, submissions[i][e.submission].related)
        \/ Outcome(i, e)}

(* event_data, where an override keeps its reason                          *)
Hidden(i, k, full) == ~full /\ events[i][k].type = "OVERRIDE"

VisibleVisits(p, i, full) == {k \in DOMAIN visits[i] : full \/ visits[i][k].assignee = p}

(* A page holds the first PageLimit rows after the cursor; limit + 1 are   *)
(* read to know whether there is a next one.                               *)
PageAfter(cursor, rows) ==
    LET later == {k \in rows : k > cursor}
        items == {k \in later : Cardinality({j \in later : j < k}) < PageLimit} IN
    [items |-> items,
     next  |-> IF items = later THEN 0 ELSE CHOOSE k \in items : \A j \in items : j <= k]

--------------------------------------------------------------------------------
(* A query is [kind, actor, instance, after]; an answer a record whose     *)
(* result says what kind of answer it is.                                  *)
InstanceKinds == {"DETAIL", "TIMELINE", "CONTEXTS", "VISITS", "SUBMISSIONS"}
Worklists     == {"ASSIGNED", "DRAFTS"}
Query == [kind : InstanceKinds \cup Worklists, actor : Principals, instance : Instances,
          after : Nat]

Refused(why, audited) == [result |-> why, audited |-> audited]

ActorDisabled(q) == q.actor \notin enabled

(* authorized_snapshot: the refusal it ends with, or NONE                  *)
Refusal(q) ==
    LET i == q.instance IN
    IF ~Exists(i)                        THEN Refused("NOT_VISIBLE", FALSE)
    ELSE IF Sight(q.actor, i) = "NONE"   THEN Refused("NOT_VISIBLE", TRUE)
    ELSE IF ~Consistent(i)               THEN Refused("INTERNAL_CONSISTENCY", FALSE)
    ELSE Refused("NONE", FALSE)

(* What it hands to the statements after it.                               *)
Authorized(q) == [row |-> BaseRow(q.instance), sight |-> Sight(q.actor, q.instance)]

Rows(q, base) ==
    LET i == q.instance
        p == q.actor
        full == Full(base.sight) IN
    CASE q.kind = "DETAIL" ->
            IF full THEN [result |-> "FULL", detail |-> FullDetail(base.row, p)]
                    ELSE [result |-> "PARTICIPANT", summary |-> ParticipantDetail(base.row)]
      [] q.kind = "TIMELINE" ->
            LET page == PageAfter(q.after, VisibleEvents(p, i, full)) IN
            [result |-> "TIMELINE", page |-> page,
             hidden |-> {k \in page.items : Hidden(i, k, full)}]
      [] q.kind = "CONTEXTS" ->
            IF full THEN [result |-> "CONTEXTS", page |-> PageAfter(q.after, DOMAIN contexts[i])]
                    ELSE Refused("RESTRICTED_HISTORY", TRUE)
      [] q.kind = "VISITS" ->
            [result |-> "VISITS", ids |-> VisibleVisits(p, i, full), instructions |-> full]
      [] q.kind = "SUBMISSIONS" ->
            [result |-> "SUBMISSIONS", ids |-> VisibleSubmissions(p, i, full)]

(* The worklists take their candidates first, and one that is inconsistent *)
(* fails them all.                                                         *)
Candidates(q) ==
    {i \in Instances :
        /\ Exists(i)
        /\ q.kind = "ASSIGNED" => /\ CurrentVisit(i).assignee = q.actor
                                  /\ NodeDef[CurrentNode(i)].type # "TERMINAL"
        /\ q.kind = "DRAFTS"   => /\ identity[i].creator = q.actor
                                  /\ NodeDef[CurrentNode(i)].type = "DRAFT"}

(* Of the submissions and RETURNs of an assigned item the code shows the   *)
(* latest 50 and says if there are more; here they are all shown.          *)
ReturnEvents(i) == {k \in DOMAIN events[i] : events[i][k].effect = "RETURN"}

WorkItem(q, i) ==
    LET row == BaseRow(i) IN
    IF q.kind = "ASSIGNED"
    THEN [detail |-> FullDetail(row, q.actor), submissions |-> DOMAIN submissions[i],
          returns |-> ReturnEvents(i)]
    ELSE [detail |-> FullDetail(row, q.actor), editable |-> ContextEditable(row),
          combined |-> CombinedExecutable(row, q.actor)]

WorkItems(q, candidates) ==
    IF \E i \in candidates : ~Consistent(i) \/ i \notin Candidates(q)
    THEN Refused("INTERNAL_CONSISTENCY", FALSE)
    ELSE [result |-> q.kind, work |-> [i \in candidates |-> WorkItem(q, i)]]

(* The answer, when every statement reads the one state.                   *)
Answer(q) ==
    IF ActorDisabled(q)               THEN Refused("PRINCIPAL_DISABLED", TRUE)
    ELSE IF q.kind \in Worklists      THEN WorkItems(q, Candidates(q))
    ELSE IF Refusal(q).result # "NONE" THEN Refusal(q)
    ELSE Rows(q, Authorized(q))
================================================================================
