------------------------------ MODULE QueryProofs -------------------------------
(***************************************************************************)
(* A query implements the atomic one, for every definition, every set of   *)
(* queries and whatever commands commit in between; and what it computes   *)
(* agrees with what the commands do and the recovery code replays.         *)
(***************************************************************************)
EXTENDS QueryProperties, WorkflowKernelProofs

(* No answer is mistaken for the lack of one.                              *)
LEMMA AnswersAreAnswers ==
    ASSUME NEW s, NEW q \in Queries
    PROVE  View(s)!Answer(q) # NoAnswer
<1>1. CASE View(s)!ActorDisabled(q)
  BY <1>1 DEF View!Answer, View!Refused, NoAnswer
<1>2. CASE ~View(s)!ActorDisabled(q) /\ q.kind \in View(s)!Worklists
  BY <1>2 DEF View!Answer, View!Refused, View!WorkItems, View!Worklists, NoAnswer
<1>3. CASE /\ ~View(s)!ActorDisabled(q) /\ q.kind \notin View(s)!Worklists
           /\ View(s)!Refusal(q).result # "NONE"
  BY <1>3 DEF View!Answer, NoAnswer
<1>4. CASE /\ ~View(s)!ActorDisabled(q) /\ q.kind \notin View(s)!Worklists
           /\ View(s)!Refusal(q).result = "NONE"
  <2>1. View(s)!Answer(q) = View(s)!Rows(q, View(s)!Authorized(q))
    BY <1>4 DEF View!Answer
  <2>2. q.kind \in {"DETAIL", "TIMELINE", "CONTEXTS", "VISITS", "SUBMISSIONS"}
    BY <1>4, QueryAssumption DEF View!Worklists
  <2> QED
    BY <2>1, <2>2 DEF View!Rows, View!Refused, NoAnswer
<1> QED
  BY <1>1, <1>2, <1>3, <1>4

(* Where the reader is: what it has read so far is of its snapshot, and    *)
(* what is left to read gives the answer of that snapshot.                 *)
ReaderInv ==
    /\ step \in {"idle", "actor", "base", "rows", "told"}
    /\ step = "idle" => query = NoQuery
    /\ step # "idle" => query \in Queries
    /\ step \in {"base", "rows"} => ~View(snapshot)!ActorDisabled(query)
    /\ step = "rows" =>
          IF query.kind \in View(snapshot)!Worklists
            THEN base = View(snapshot)!Candidates(query)
            ELSE /\ View(snapshot)!Refusal(query).result = "NONE"
                 /\ base = View(snapshot)!Authorized(query)
    /\ step = "told" => answer # NoAnswer

(* No query has read anything at the start.                                *)
LEMMA ReaderInit == QueryInit => ReaderInv
  BY DEF QueryInit, ReaderInv

(* A query moves on from the snapshot it began with, whatever is committed. *)
LEMMA ReaderStep == ReaderInv /\ [QueryNext]_allVars => ReaderInv'
<1> SUFFICES ASSUME ReaderInv, [QueryNext]_allVars
             PROVE  ReaderInv'
  OBVIOUS
<1>1. ASSUME NEW q \in Queries, Ask(q)  PROVE ReaderInv'
  BY <1>1 DEF Ask, ReaderInv
<1>2. CASE ReadActor
  <2>1. View(tables)!ActorDisabled(query) => View(tables)!Refused("PRINCIPAL_DISABLED", TRUE) # NoAnswer
    BY DEF View!Refused, NoAnswer
  <2> QED
    BY <1>2, <2>1 DEF ReadActor, Tell, ReaderInv
<1>3. CASE ReadBase
  BY <1>3 DEF ReadBase, ReadFrom, Tell, Continue, ReaderInv, NoAnswer
<1>4. CASE ReadRows
  BY <1>4, AnswersAreAnswers DEF ReadRows, ReadFrom, Tell, ReaderInv, View!Answer
<1>5. CASE Forget
  BY <1>5 DEF Forget, ReaderInv
<1>6. CASE UNCHANGED reader
  BY <1>6 DEF reader, ReaderInv
<1> QED
  BY <1>1, <1>2, <1>3, <1>4, <1>5, <1>6 DEF QueryNext, QueryStep, Commit, allVars

--------------------------------------------------------------------------------
(* The queries start where the abstract ones do.                           *)
LEMMA AtomicInit == QueryInit => Atomic!Init
  BY DEF QueryInit, Atomic!Init, Promised

(* Every read is a step of the abstract query, or none.                    *)
LEMMA AtomicStep ==
    ASSUME ReaderInv, [QueryNext]_allVars
    PROVE  [Atomic!Next]_<<query, Promised>>
<1>1. ASSUME NEW q \in Queries, Ask(q)  PROVE Atomic!Next
  <2>1. Atomic!Ask(q)
    BY <1>1 DEF Ask, ReaderInv, Promised, Atomic!Ask
  <2> QED
    BY <2>1 DEF Atomic!Next
<1>2. CASE ReadActor
  <2>1. query \in Queries /\ query # NoQuery /\ Promised = NoAnswer
    BY <1>2, QueryAssumption DEF ReadActor, ReaderInv, Promised
  <2>2. Promised' = View(tables)!Answer(query) /\ query' = query
    <3>1. CASE View(tables)!ActorDisabled(query)
      BY <1>2, <3>1 DEF ReadActor, Tell, Promised, View!Answer
    <3>2. CASE ~View(tables)!ActorDisabled(query)
      BY <1>2, <3>2 DEF ReadActor, Promised
    <3> QED
      BY <3>1, <3>2
  <2>3. Atomic!Answer
    BY <2>1, <2>2 DEF Atomic!Answer
  <2> QED
    BY <2>3 DEF Atomic!Next
<1>3. CASE ReadBase
  <2>1. CASE query.kind \notin View(snapshot)!Worklists /\ View(snapshot)!Refusal(query).result # "NONE"
    BY <1>3, <2>1 DEF ReadBase, ReadFrom, Tell, ReaderInv, Promised, View!Answer
  <2>2. CASE ~(query.kind \notin View(snapshot)!Worklists /\ View(snapshot)!Refusal(query).result # "NONE")
    BY <1>3, <2>2 DEF ReadBase, ReadFrom, Continue, Promised
  <2> QED
    BY <2>1, <2>2
<1>4. CASE ReadRows
  BY <1>4 DEF ReadRows, ReadFrom, Tell, ReaderInv, Promised, View!Answer
<1>5. CASE Forget
  <2>1. Atomic!Forget
    BY <1>5 DEF Forget, ReaderInv, Promised, Atomic!Forget
  <2> QED
    BY <2>1 DEF Atomic!Next
<1>6. CASE UNCHANGED reader
  BY <1>6 DEF reader, Promised
<1> QED
  BY <1>1, <1>2, <1>3, <1>4, <1>5, <1>6 DEF QueryNext, QueryStep, Commit, allVars

(* A query of several statements, beside any commands, implements the      *)
(* query that is answered in one step: ImplementsAtomicQuery.              *)
THEOREM QueryIsAtomic == QuerySpec => ImplementsAtomicQuery
<1>1. QuerySpec => []ReaderInv
  BY ReaderInit, ReaderStep, PTL DEF QuerySpec
<1> QED
  BY <1>1, AtomicInit, AtomicStep, PTL DEF QuerySpec, ImplementsAtomicQuery, Atomic!Spec

--------------------------------------------------------------------------------
(* Beside queries, the tables change by commands only.                     *)
LEMMA TablesOfKernel == QuerySpec => []HInv
<1>1. QueryInit => HInv
  BY HInvInit DEF QueryInit
<1>2. HInv /\ [QueryNext]_allVars => HInv'
  <2> SUFFICES ASSUME HInv, [QueryNext]_allVars PROVE HInv'
    OBVIOUS
  <2>1. [Next]_vars
    BY DEF QueryNext, QueryStep, Commit, allVars
  <2> QED BY <2>1, HInvStep
<1> QED BY <1>1, <1>2, PTL DEF QuerySpec

(* What HInv says of an instance's rows, in the words of the views.        *)
LEMMA RowsOfInstance ==
    ASSUME HInv, NEW i \in Instances, Exists(i)
    PROVE  /\ RecordOK(i) /\ ProjectionOK(i)
           /\ ContextFactsValid(i) /\ VisitFactsValid(i) /\ SubmissionFactsValid(i)
           /\ \A k \in DOMAIN events[i] : EventReplays(i, k) /\ EventOK(i, k)
           /\ Len(events[i]) \in Nat /\ Len(events[i]) >= 1
           /\ DOMAIN events[i] = 1..Len(events[i])
           /\ projection[i].context \in DOMAIN contexts[i]
           /\ projection[i].visit \in DOMAIN visits[i]
<1>1. RecordOK(i) /\ ProjectionOK(i) /\ events[i] # <<>>
  BY DEF HInv, HistoryOK, Inv, RowsIffCreated
<1>2. /\ Len(events[i]) \in Nat /\ DOMAIN events[i] = 1..Len(events[i])
      /\ projection[i].context \in DOMAIN contexts[i]
      /\ projection[i].visit \in DOMAIN visits[i]
  BY EventsThere, ReadTypes DEF HInv
<1>3. Len(events[i]) >= 1
  BY <1>1, <1>2 DEF ProjectionOK
<1> QED BY <1>1, <1>2, <1>3 DEF RecordOK, ReplayAccepts, HInv, Inv, EventsOK

(* The queries' count of the events is as good as a replay of them.        *)
LEMMA CountIsReplay ==
    ASSUME HInv, NEW i \in Instances, Exists(i)
    PROVE  Now!Consistent(i) <=> projection[i] = Replayed(i)
<1> DEFINE N == Len(events[i])
<1> USE RowsOfInstance
<1>1. N \in Nat /\ N >= 1 /\ DOMAIN events[i] = 1..N
  OBVIOUS
<1>2. \A k \in 1..N : events[i][k].sequence = k
  BY DEF EventReplays
<1>3. ASSUME Now!Consistent(i) PROVE projection[i] = Replayed(i)
  <2>1. projection[i].version = N
    BY <1>3 DEF Now!Consistent, Now!BaseConsistent, Now!EventsCounted
  <2> QED BY <2>1 DEF ProjectionOK
<1>4. ASSUME projection[i] = Replayed(i) PROVE Now!Consistent(i)
  <2>1. projection[i].version = N /\ projection[i].context = Len(contexts[i])
    <3>1. Replayed(i).version = N
      BY <1>1 DEF Replayed, ReplayedBefore
    <3> QED BY <1>4, <3>1 DEF RecordOK
  <2>2. Now!EventsCounted(i)
    BY <1>1, <1>2, <2>1 DEF Now!EventsCounted
  <2>3. ASSUME NEW k \in DOMAIN events[i]
        PROVE  /\ {events[i][k].source, events[i][k].target} \subseteq DOMAIN visits[i] \cup {0}
               /\ events[i][k].context \in DOMAIN contexts[i] \cup {0}
               /\ events[i][k].submission \in DOMAIN submissions[i] \cup {0}
    <3>1. events[i][k].submission \in DOMAIN submissions[i] \cup {0}
      BY SubmissionsThere
    <3>2. events[i][k].source \in DOMAIN visits[i] \cup {0}
      <4>1. events[i][k].type \in {"CREATED", "IMPORTED"} => events[i][k].source = 0
        BY DEF EventReplays, InitialReplays
      <4>2. events[i][k].type \notin {"CREATED", "IMPORTED"} =>
               events[i][k].source \in DOMAIN visits[i]
        BY DEF EventReplays, RevisionReplays, TransitionReplays, CombinedReplays,
               OverrideReplays, MoveReplays
      <4> QED BY <4>1, <4>2
    <3> QED BY <3>1, <3>2 DEF EventOK
  <2>4. NodeDef[CurrentNode(i)].version = identity[i].version
    BY DEF VisitFactsValid, CurrentNode, CurrentVisit
  <2>5. Now!BaseConsistent(i)
    BY <1>1, <2>1, <2>2, <2>3, <2>4
    DEF Now!BaseConsistent, Now!CurrentNode, Now!CurrentVisit, CurrentNode, CurrentVisit, RecordOK
  <2>6. contexts[i][projection[i].context].number = Len(contexts[i])
    BY <2>1 DEF ContextFactsValid
  <2>7. Now!FactsConsistent(i)
    BY <2>6 DEF Now!FactsConsistent, Now!ContextFactsValid, ContextFactsValid,
                Now!SubmissionFactsValid, SubmissionFactsValid, VisitFactsValid,
                Now!VisitedNode, VisitedNode
  <2> QED BY <2>5, <2>7 DEF Now!Consistent
<1> QED BY <1>3, <1>4

(* The queries raise no false alarm, and miss no damage: they refuse just  *)
(* the instances that a rebuild would change.                              *)
THEOREM AlarmsAreTrue == QuerySpec => []NoFalseAlarm
<1>1. HInv => NoFalseAlarm
  BY CountIsReplay DEF NoFalseAlarm
<1> QED BY <1>1, TablesOfKernel, PTL

--------------------------------------------------------------------------------
(* Every step leaves the rows of an instance, and adds to them.            *)
LEMMA RowsStay ==
    ASSUME HInv, [Next]_vars, NEW i \in Instances, Exists(i)
    PROVE  Extended(i)
<1>1. StepForm /\ Inv
  BY StepForms DEF HInv
<1>2. SameRecord(i) => Extended(i)
  BY DEF SameRecord, Extended, Prefix
<1>3. CASE CommandStep(i)
  BY <1>1, <1>3, CommandAdds, AddedRows
<1>4. ASSUME NEW j \in Instances \ {i}, CommandStep(j) PROVE SameRecord(i)
  BY <1>1, <1>4, CommandAdds
<1>5. ASSUME NEW j \in Instances, NEW k \in DOMAIN events[j], ReplayStep(j, k) PROVE SameRecord(i)
  BY <1>5 DEF ReplayStep, SameRecord, facts
<1>6. CASE OutsideStep
  BY <1>2, <1>6 DEF OutsideStep, SameRecord, facts
<1> QED BY <1>1, <1>2, <1>3, <1>4, <1>5, <1>6 DEF StepForm

(* Taking part leaves a row behind that is never taken away, so that those *)
(* who could see an instance by their part in it always can.               *)
THEOREM SightIsKept == QuerySpec => ParticipantsKeepSight
<1> DEFINE Kept == \A i \in Instances : \A p \in Principals :
                     (Exists(i) /\ Now!Sight(p, i) \in {"ASSIGNEE", "CREATOR", "RESTRICTED"})
                         => Now!Sight(p, i)' # "NONE"
<1>1. ASSUME HInv, [Next]_vars, NEW i \in Instances, NEW p \in Principals, Exists(i),
             Now!Sight(p, i) \in {"ASSIGNEE", "CREATOR", "RESTRICTED"}
      PROVE  Now!Sight(p, i)' # "NONE"
  <2>1. Now!Participated(p, i)
    <3>1. /\ projection[i].visit \in DOMAIN visits[i]
          /\ NodeDef[visits[i][projection[i].visit].node].version = identity[i].version
      BY <1>1, RowsOfInstance DEF VisitFactsValid
    <3>2. Now!CurrentVisit(i).assignee = p => Now!Participated(p, i)
      BY <3>1 DEF Now!Participated, Now!CurrentVisit
    <3>3. identity[i].creator = p => Now!Participated(p, i)
      BY DEF Now!Participated
    <3> QED BY <1>1, <3>2, <3>3 DEF Now!Sight
  <2>2. Extended(i)
    BY <1>1, RowsStay
  <2>3. Now!Participated(p, i)'
    BY <2>1, <2>2 DEF Now!Participated, Extended, Prefix
  <2> QED BY <2>3 DEF Now!Sight
<1>2. HInv /\ [Next]_vars => Kept
  BY <1>1
<1>3. HInv /\ [QueryNext]_allVars => [Kept]_vars
  <2>1. [QueryNext]_allVars => [Next]_vars
    BY DEF QueryNext, QueryStep, Commit, allVars
  <2> QED BY <1>2, <2>1
<1> QED BY <1>3, TablesOfKernel, PTL DEF QuerySpec, ParticipantsKeepSight

(* A submission is of exactly the event that names it, with its transition. *)
LEMMA SubmissionOfEvent ==
    ASSUME HInv, NEW i \in Instances, NEW k \in DOMAIN events[i], events[i][k].submission # 0
    PROVE  /\ events[i][k].submission \in DOMAIN submissions[i]
           /\ TransitionDef[submissions[i][events[i][k].submission].transition].effect
                 = events[i][k].effect
<1>1. Exists(i)
  BY DEF HInv, Inv, RowsIffCreated
<1>2. EventReplays(i, k)
  BY <1>1, RowsOfInstance
<1> QED BY <1>2 DEF EventReplays, InitialReplays, RevisionReplays, TransitionReplays,
                    CombinedReplays, OverrideReplays, MoveReplays, SubmissionMatches

(* A restricted view shows the submissions of the events it shows.         *)
THEOREM ListsAgree == QuerySpec => []HistoryAndTimelineAgree
<1>1. ASSUME HInv, NEW i \in Instances, NEW p \in Principals, Exists(i)
      PROVE  LET shown == Now!VisibleEvents(p, i, FALSE)
                 with(ks) == {events[i][k].submission : k \in ks} \ {0} IN
             /\ Now!VisibleSubmissions(p, i, FALSE) \subseteq with(shown)
             /\ with({k \in shown : ~Now!Outcome(i, events[i][k])})
                   \subseteq Now!VisibleSubmissions(p, i, FALSE)
  <2> DEFINE shown == Now!VisibleEvents(p, i, FALSE)
  <2>1. ASSUME NEW s \in Now!VisibleSubmissions(p, i, FALSE)
        PROVE  s # 0 /\ \E k \in shown : events[i][k].submission = s
    <3>1. s \in DOMAIN submissions[i] /\ (Now!Own(p, i, s) \/ Now!RefersToOwn(p, i, s))
      BY DEF Now!VisibleSubmissions
    <3>2. PICK k \in DOMAIN events[i] : events[i][k].submission = s
      BY <1>1, <3>1, RowsOfInstance DEF RecordOK, SubmissionOK
    <3>3. s # 0
      BY <3>1 DEF Now!Own, Now!RefersToOwn
    <3>4. TransitionDef[submissions[i][s].transition].effect = events[i][k].effect
      BY <1>1, <3>2, <3>3, SubmissionOfEvent
    <3>5. k \in shown
      BY <3>1, <3>2, <3>3, <3>4 DEF Now!VisibleEvents, Now!RefersToOwn
    <3> QED BY <3>2, <3>3, <3>5
  <2>2. ASSUME NEW k \in shown, ~Now!Outcome(i, events[i][k]), events[i][k].submission # 0
        PROVE  events[i][k].submission \in Now!VisibleSubmissions(p, i, FALSE)
    <3>1. /\ k \in DOMAIN events[i]
          /\ \/ Now!Own(p, i, events[i][k].submission)
             \/ /\ events[i][k].effect = "RETURN"
                /\ Now!Own(p, i, submissions[i][events[i][k].submission].related)
      BY <2>2 DEF Now!VisibleEvents
    <3>2. /\ events[i][k].submission \in DOMAIN submissions[i]
          /\ TransitionDef[submissions[i][events[i][k].submission].transition].effect
                = events[i][k].effect
      BY <1>1, <2>2, <3>1, SubmissionOfEvent
    <3> QED BY <2>2, <3>1, <3>2 DEF Now!VisibleSubmissions, Now!RefersToOwn
  <2> QED BY <2>1, <2>2
<1>2. HInv => HistoryAndTimelineAgree
  BY <1>1 DEF HistoryAndTimelineAgree
<1> QED BY <1>2, TablesOfKernel, PTL

--------------------------------------------------------------------------------
(* What an accepted graph guarantees of the transitions that are offered.  *)
LEMMA ArrowRules ==
    ASSUME NEW t \in Transitions
    PROVE  LET tr == TransitionDef[t] IN
           /\ tr \in TransitionRow
           /\ NodeDef[tr.source].version = tr.version
           /\ NodeDef[tr.source].primary = t => tr.effect = "ADVANCE"
           /\ tr.effect = "RETURN" => /\ NodeDef[tr.target].type # "TERMINAL"
                                      /\ NodeDef[tr.target].order < NodeDef[tr.source].order
           /\ tr.effect = "TERMINATE" => NodeDef[tr.target].type = "TERMINAL"
           /\ NodeDef[tr.target].type = "TERMINAL" => NodeDef[tr.target].assignee = "NONE"
           /\ NodeDef[tr.target] \in NodeRow
<1> DEFINE v == TransitionDef[t].version
           s == TransitionDef[t].source
           d == TransitionDef[t].target
           g == GraphOf(v)
<1>1. TransitionDef[t] \in TransitionRow /\ v \in Versions
  BY DefinitionAssumption DEF TransitionRow
<1>2. ReferenceRules(g) /\ PrimaryRules(g) /\ ReturnRules(g) /\ AssigneeRules(g)
  BY <1>1, DefinitionAssumption DEF ValidGraph
<1>3. t \in TransitionIds(g) /\ g.transition[t] = TransitionDef[t]
  BY DEF TransitionIds, GraphOf
<1>4. /\ NodeIds(g) = {n \in Nodes : NodeDef[n].version = v}
      /\ \A n \in NodeIds(g) : g.node[n] = NodeDef[n]
  BY DEF NodeIds, GraphOf
<1> HIDE DEF g
<1>5. s \in NodeIds(g) /\ d \in NodeIds(g)
  BY <1>2, <1>3 DEF ReferenceRules
<1>6. NodeDef[s].primary = t => TransitionDef[t].effect = "ADVANCE"
  BY SMTT(30), <1>2, <1>3, <1>4, <1>5 DEF PrimaryRules, HasPrimary
<1>7. TransitionDef[t].effect = "RETURN" => /\ NodeDef[d].type # "TERMINAL"
                                            /\ NodeDef[d].order < NodeDef[s].order
  BY <1>2, <1>3, <1>4, <1>5 DEF ReturnRules
<1>8. NodeDef[d].type = "TERMINAL" => NodeDef[d].assignee = "NONE"
  BY <1>2, <1>4, <1>5 DEF AssigneeRules
<1>9. NodeDef[d] \in NodeRow
  BY <1>4, <1>5, DefinitionAssumption
<1> QED BY <1>1, <1>6, <1>7, <1>8, <1>9, ArrowInVersion

(* A target that is offered is one that the command can assign, or whose   *)
(* assignee is a creator that is away.                                     *)
LEMMA TargetsAgree ==
    ASSUME HInv, NEW i \in Instances, Exists(i), NEW t \in Transitions
    PROVE  Now!EnabledTarget(Now!BaseRow(i), t)
             <=> /\ Assignees(TransitionDef[t].target, identity[i].creator, identity[i].domain) # {}
                 /\ ~CreatorIsAway(i, t)
<1> DEFINE n == NodeDef[TransitionDef[t].target]
           d == identity[i].domain
           can == Assignees(TransitionDef[t].target, identity[i].creator, d)
<1>1. n.assignee \in AssigneeRefs /\ (n.type = "TERMINAL" => n.assignee = "NONE")
  BY ArrowRules DEF NodeRow
<1>2. bindings \subseteq Domains \X Principals \X Roles
  BY DEF HInv, Inv, TypeOK
<1>3. Owners(d) = {p \in Principals : <<d, p, "DOMAIN_OWNER">> \in bindings}
  BY DEF Owners, HasRole
<1>4. (\E p \in enabled : <<d, p, "DOMAIN_OWNER">> \in bindings) <=> Owners(d) \cap enabled # {}
  BY <1>2, <1>3
<1>5. Now!BaseRow(i).identity = identity[i]
  BY DEF Now!BaseRow
<1>6. Now!EnabledTarget(Now!BaseRow(i), t) <=>
         \/ n.type = "TERMINAL"
         \/ n.assignee = "WORKFLOW_CREATOR" /\ identity[i].creator \in enabled
         \/ n.assignee = "DOMAIN_OWNER" /\ Owners(d) \cap enabled # {}
         \/ n.assignee = "FIXED_PRINCIPAL" /\ n.fixed \in enabled
  BY <1>4, <1>5 DEF Now!EnabledTarget
<1>7. CreatorIsAway(i, t) <=> n.assignee = "WORKFLOW_CREATOR" /\ identity[i].creator \notin enabled
  BY DEF CreatorIsAway
<1>8. CASE n.type = "TERMINAL"
  <2>1. can = {Nobody}
    BY <1>8 DEF Assignees
  <2> HIDE DEF can
  <2> QED BY <1>1, <1>6, <1>7, <1>8, <2>1 DEF can
<1>9. CASE n.type # "TERMINAL" /\ n.assignee = "WORKFLOW_CREATOR"
  <2>1. can = {identity[i].creator}
    BY <1>9 DEF Assignees
  <2> QED BY <1>6, <1>7, <1>9, <2>1
<1>10. CASE n.type # "TERMINAL" /\ n.assignee = "DOMAIN_OWNER"
  <2>1. can = Owners(d) \cap enabled
    BY <1>10 DEF Assignees
  <2> QED BY <1>6, <1>7, <1>10, <2>1
<1>11. CASE n.type # "TERMINAL" /\ n.assignee = "FIXED_PRINCIPAL"
  <2>1. can = {n.fixed} \cap enabled
    BY <1>11 DEF Assignees
  <2> QED BY <1>6, <1>7, <1>11, <2>1
<1>12. CASE n.type # "TERMINAL" /\ n.assignee = "NONE"
  <2>1. can = {}
    BY <1>12 DEF Assignees
  <2> QED BY <1>6, <1>7, <1>12, <2>1
<1> QED BY <1>1, <1>8, <1>9, <1>10, <1>11, <1>12 DEF AssigneeRefs

(* When the command accepts some submission for t.                         *)
LEMMA AcceptedWhen ==
    ASSUME HInv, NEW i \in Instances, Exists(i), NEW p \in Principals \cap enabled,
           NEW t \in Transitions
    PROVE  Accepted(p, i, t) <=>
              /\ NodeDef[CurrentNode(i)].type # "TERMINAL"
              /\ CurrentVisit(i).assignee = p
              /\ versionStatus[identity[i].version] \in {"PUBLISHED", "DEPRECATED"}
              /\ TransitionDef[t].source = CurrentNode(i)
              /\ TransitionDef[t].effect = "ADVANCE" => t = NodeDef[CurrentNode(i)].primary
              /\ Assignees(TransitionDef[t].target, identity[i].creator, identity[i].domain) # {}
<1> DEFINE tr == TransitionDef[t]
<1>1. /\ NodeDef[CurrentNode(i)].version = identity[i].version
      /\ 1 \in DOMAIN visits[i]
  <2>1. projection[i].visit \in DOMAIN visits[i] /\ VisitFactsValid(i)
    BY RowsOfInstance
  <2>2. DOMAIN visits[i] = 1..Len(visits[i]) /\ Len(visits[i]) \in Nat
    BY EventsThere DEF HInv
  <2> QED BY <2>1, <2>2 DEF VisitFactsValid, CurrentNode, CurrentVisit
<1>2. Applicable(i, t) <=> /\ tr.source = CurrentNode(i)
                           /\ tr.effect = "ADVANCE" => t = NodeDef[CurrentNode(i)].primary
  <2>1. tr.effect = "RETURN" => /\ NodeDef[tr.target].type # "TERMINAL"
                                /\ NodeDef[tr.target].order < NodeDef[tr.source].order
    BY ArrowRules
  <2>2. /\ NodeDef[tr.source].version = tr.version
        /\ NodeDef[tr.source].primary = t => tr.effect = "ADVANCE"
        /\ tr.effect = "TERMINATE" => NodeDef[tr.target].type = "TERMINAL"
    BY ArrowRules
  <2> HIDE DEF tr
  <2> QED BY <1>1, <2>1, <2>2 DEF Applicable, tr
<1>3. \E sub \in Submissions(i, t) : SubmissionVerdict(i, t, sub) = "OK"
  <2> DEFINE sub == [payload |-> "VALID", root |-> IF tr.effect = "RETURN" THEN 1 ELSE 0,
                     related |-> 0]
  <2>1. sub \in Submissions(i, t)
    <3>1. Len(visits[i]) + 1 >= 1 /\ Len(visits[i]) \in Nat /\ Len(submissions[i]) \in Nat
      BY EventsThere DEF HInv
    <3>2. /\ 1 \in 0..(Len(visits[i]) + 1) /\ 0 \in 0..(Len(submissions[i]) + 1)
      BY <3>1
    <3> QED BY <3>2 DEF Submissions
  <2>2. SubmissionVerdict(i, t, sub) = "OK"
    BY <1>1 DEF SubmissionVerdict, ReferencesValid
  <2> QED BY <2>1, <2>2
<1>4. Writable(identity[i].version) <=>
         versionStatus[identity[i].version] \in {"PUBLISHED", "DEPRECATED"}
  BY DEF Writable
<1>5. ASSUME NEW sub
      PROVE  (TransitionVerdict(p, i, t, projection[i].version, sub) = "OK") <=>
                /\ NodeDef[CurrentNode(i)].type # "TERMINAL" /\ CurrentVisit(i).assignee = p
                /\ Writable(identity[i].version) /\ Applicable(i, t)
                /\ SubmissionVerdict(i, t, sub) = "OK"
                /\ Assignees(tr.target, identity[i].creator, identity[i].domain) # {}
  BY DEF TransitionVerdict
<1> HIDE DEF tr
<1>6. Accepted(p, i, t) <=>
         /\ NodeDef[CurrentNode(i)].type # "TERMINAL" /\ CurrentVisit(i).assignee = p
         /\ Writable(identity[i].version) /\ Applicable(i, t)
         /\ Assignees(tr.target, identity[i].creator, identity[i].domain) # {}
  BY <1>3, <1>5 DEF Accepted
<1> QED BY <1>2, <1>4, <1>6 DEF tr

(* When the query offers it.                                               *)
LEMMA OfferedWhen ==
    ASSUME HInv, NEW i \in Instances, Exists(i), NEW p \in Principals, NEW t \in Transitions
    PROVE  (Now!BlockedReason(Now!BaseRow(i), p, t) = "NONE") <=>
              /\ NodeDef[CurrentNode(i)].type # "TERMINAL"
              /\ CurrentVisit(i).assignee = p
              /\ versionStatus[identity[i].version] \in {"PUBLISHED", "DEPRECATED"}
              /\ TransitionDef[t].effect = "ADVANCE" => t = NodeDef[CurrentNode(i)].primary
              /\ Assignees(TransitionDef[t].target, identity[i].creator, identity[i].domain) # {}
              /\ ~CreatorIsAway(i, t)
<1> DEFINE row == Now!BaseRow(i)
<1>1. /\ row.node = CurrentNode(i) /\ row.visit = CurrentVisit(i)
      /\ row.status = versionStatus[identity[i].version]
  BY DEF Now!BaseRow, Now!CurrentNode, Now!CurrentVisit, CurrentNode, CurrentVisit
<1>2. row.status \in {"DRAFT", "PUBLISHED", "DEPRECATED", "REVOKED"}
  <2>1. identity[i].version \in Versions /\ versionStatus \in [Versions -> Statuses]
    BY ReadTypes DEF HInv, Inv, TypeOK
  <2> QED BY <1>1, <2>1 DEF Statuses
<1>3. Now!EnabledTarget(row, t) <=>
         /\ Assignees(TransitionDef[t].target, identity[i].creator, identity[i].domain) # {}
         /\ ~CreatorIsAway(i, t)
  BY TargetsAgree
<1> HIDE DEF row
<1>4. (Now!BlockedReason(row, p, t) = "NONE") <=>
         /\ NodeDef[row.node].type # "TERMINAL" /\ row.status \notin {"REVOKED", "DRAFT"}
         /\ ~Now!NotPrimary(row, t) /\ row.visit.assignee = p /\ Now!EnabledTarget(row, t)
  BY DEF Now!BlockedReason
<1>5. Now!NotPrimary(row, t) <=>
         TransitionDef[t].effect = "ADVANCE" /\ t # NodeDef[row.node].primary
  BY DEF Now!NotPrimary
<1>6. (Now!BlockedReason(row, p, t) = "NONE") <=>
              /\ NodeDef[CurrentNode(i)].type # "TERMINAL"
              /\ CurrentVisit(i).assignee = p
              /\ versionStatus[identity[i].version] \in {"PUBLISHED", "DEPRECATED"}
              /\ TransitionDef[t].effect = "ADVANCE" => t = NodeDef[CurrentNode(i)].primary
              /\ Assignees(TransitionDef[t].target, identity[i].creator, identity[i].domain) # {}
              /\ ~CreatorIsAway(i, t)
  BY <1>1, <1>2, <1>3, <1>4, <1>5
<1> QED BY <1>6 DEF row

(* A node that is not TERMINAL has its primary ADVANCE.                    *)
LEMMA PrimaryThere ==
    ASSUME NEW n \in Nodes, NodeDef[n].type # "TERMINAL"
    PROVE  LET t == NodeDef[n].primary IN
           /\ t \in Transitions
           /\ TransitionDef[t].source = n /\ TransitionDef[t].effect = "ADVANCE"
<1> DEFINE v == NodeDef[n].version
           g == GraphOf(v)
<1>1. v \in Versions
  BY DefinitionAssumption DEF NodeRow
<1>2. PrimaryRules(g)
  BY <1>1, DefinitionAssumption DEF ValidGraph
<1>3. n \in NodeIds(g) /\ g.node[n] = NodeDef[n]
  BY DEF NodeIds, GraphOf
<1>4. /\ TransitionIds(g) \subseteq Transitions
      /\ \A t \in TransitionIds(g) : g.transition[t] = TransitionDef[t]
  BY DEF TransitionIds, GraphOf
<1> HIDE DEF g
<1> QED BY <1>2, <1>3, <1>4 DEF PrimaryRules, HasPrimary

LEMMA CurrentNodeThere ==
    ASSUME HInv, NEW i \in Instances, Exists(i)
    PROVE  CurrentNode(i) \in Nodes
<1>1. visits[i] \in Seq(VisitRow) /\ projection[i].visit \in DOMAIN visits[i]
  BY ReadTypes DEF HInv
<1>2. CurrentVisit(i) \in VisitRow
  BY <1>1 DEF CurrentVisit
<1> QED BY <1>2 DEF VisitRow, CurrentNode

(* What a reader is offered is what the commands accept, in any graph the  *)
(* validator accepts and whoever is disabled or replaced meanwhile.        *)
THEOREM OffersHold == QuerySpec => []OffersAreHonest
<1>1. ASSUME HInv, NEW i \in Instances, NEW p \in Principals \cap enabled, Exists(i)
      PROVE  OffersAreExact(p, i)
  <2>1. Now!BaseRow(i).node = CurrentNode(i)
    BY DEF Now!BaseRow, Now!CurrentNode, Now!CurrentVisit, CurrentNode, CurrentVisit
  <2>2. ASSUME NEW t \in Transitions
        PROVE  IF t \in Now!Outgoing(CurrentNode(i))
               THEN (Now!BlockedReason(Now!BaseRow(i), p, t) = "NONE")
                       <=> Accepted(p, i, t) /\ ~CreatorIsAway(i, t)
               ELSE ~Accepted(p, i, t)
    <3>1. t \in Now!Outgoing(CurrentNode(i)) <=> TransitionDef[t].source = CurrentNode(i)
      BY DEF Now!Outgoing
    <3> QED BY <1>1, <3>1, AcceptedWhen, OfferedWhen
  <2>3. Now!Outgoing(CurrentNode(i)) \subseteq Transitions
    BY DEF Now!Outgoing
  <2> QED BY <2>1, <2>2, <2>3 DEF OffersAreExact
<1>2. ASSUME HInv, NEW i \in Instances, NEW p \in Principals \cap enabled, Exists(i),
             identity[i].creator = p, NodeDef[CurrentNode(i)].type = "DRAFT"
      PROVE  DraftOfferIsExact(p, i)
  <2> DEFINE row == Now!BaseRow(i)
             Combined(t) == CombinedVerdict(p, i, t, projection[i].version, "VALID", "VALID")
  <2>1. /\ row.node = CurrentNode(i) /\ row.visit = CurrentVisit(i)
        /\ row.status = versionStatus[identity[i].version]
    BY DEF Now!BaseRow, Now!CurrentNode, Now!CurrentVisit, CurrentNode, CurrentVisit
  <2>2. NodeDef[CurrentNode(i)].version = identity[i].version
    <3>1. projection[i].visit \in DOMAIN visits[i] /\ VisitFactsValid(i)
      BY <1>2, RowsOfInstance
    <3> QED BY <3>1 DEF VisitFactsValid, CurrentNode, CurrentVisit
  <2>3. ASSUME NEW t \in Transitions
        PROVE  (Combined(t) = "OK") <=>
                  /\ Writable(identity[i].version) /\ CurrentVisit(i).assignee = p
                  /\ TransitionDef[t].source = CurrentNode(i)
                  /\ TransitionDef[t].effect = "ADVANCE"
                  /\ NodeDef[CurrentNode(i)].primary = t
                  /\ Assignees(TransitionDef[t].target, identity[i].creator, identity[i].domain) # {}
    <3>1. NodeDef[TransitionDef[t].source].version = TransitionDef[t].version
      BY ArrowRules
    <3> QED BY <1>2, <2>2, <3>1 DEF CombinedVerdict
  <2>4. ASSUME NEW t \in Transitions
        PROVE  (Combined(t) = "OK" /\ ~CreatorIsAway(i, t)) <=>
                  /\ Writable(identity[i].version) /\ CurrentVisit(i).assignee = p
                  /\ TransitionDef[t].source = CurrentNode(i)
                  /\ TransitionDef[t].effect = "ADVANCE"
                  /\ NodeDef[CurrentNode(i)].primary = t
                  /\ Now!BlockedReason(row, p, t) = "NONE"
    BY <1>2, <2>3, OfferedWhen DEF Writable
  <2>5. Now!CombinedExecutable(row, p) <=>
           \E t \in Transitions :
               /\ Writable(identity[i].version) /\ CurrentVisit(i).assignee = p
               /\ TransitionDef[t].source = CurrentNode(i)
               /\ TransitionDef[t].effect = "ADVANCE"
               /\ NodeDef[CurrentNode(i)].primary = t
               /\ Now!BlockedReason(row, p, t) = "NONE"
    <3> HIDE DEF row
    <3> QED BY <2>1 DEF Now!CombinedExecutable, Now!ContextEditable, Now!Outgoing, Writable
  <2> HIDE DEF row
  <2>6. Now!CombinedExecutable(row, p) <=>
           \E t \in Transitions : Combined(t) = "OK" /\ ~CreatorIsAway(i, t)
    BY <2>4, <2>5
  <2> QED BY <2>6 DEF DraftOfferIsExact, row
<1>3. ASSUME HInv, NEW i \in Instances, NEW p \in Principals \cap enabled, Exists(i),
             identity[i].creator = p, NodeDef[CurrentNode(i)].type = "DRAFT"
      PROVE  DraftOfferAsDocumented(p, i)
  <2> DEFINE row == Now!BaseRow(i)
             first == NodeDef[CurrentNode(i)].primary
             Reason(t) == Now!BlockedReason(row, p, t)
  <2>1. /\ row.node = CurrentNode(i) /\ row.visit = CurrentVisit(i)
        /\ row.status = versionStatus[identity[i].version]
    BY DEF Now!BaseRow, Now!CurrentNode, Now!CurrentVisit, CurrentNode, CurrentVisit
  <2>2. /\ first \in Transitions /\ TransitionDef[first].source = CurrentNode(i)
        /\ TransitionDef[first].effect = "ADVANCE"
    BY <1>3, CurrentNodeThere, PrimaryThere
  <2>3. ~CreatorIsAway(i, first)
    BY <1>3 DEF CreatorIsAway
  <2>4. ASSUME Now!ContextEditable(row), row.visit.assignee = p
        PROVE  (Reason(first) = "NONE") <=> ~PrimaryUnassignable(i)
    <3>1. /\ CurrentVisit(i).assignee = p
          /\ versionStatus[identity[i].version] \in {"PUBLISHED", "DEPRECATED"}
      BY <2>1, <2>4 DEF Now!ContextEditable
    <3> QED BY <1>3, <2>2, <2>3, <3>1, OfferedWhen DEF PrimaryUnassignable
  <2>5. first \in Now!Outgoing(row.node)
    BY <2>1, <2>2 DEF Now!Outgoing
  <2> HIDE DEF row
  <2>6. Now!CombinedExecutable(row, p) <=>
           Now!ContextEditable(row) /\ row.visit.assignee = p /\ Reason(first) = "NONE"
    BY <2>1, <2>2, <2>5 DEF Now!CombinedExecutable
  <2>7. DocumentedOffer(row, p) <=>
           /\ Now!ContextEditable(row) /\ row.visit.assignee = p
           /\ \E t \in Now!Outgoing(row.node) : Reason(t) = "NONE"
    BY DEF DocumentedOffer
  <2> HIDE DEF Reason
  <2> QED BY <2>4, <2>5, <2>6, <2>7 DEF DraftOfferAsDocumented, row
<1>4. HInv => OffersAreHonest
  BY <1>1, <1>2, <1>3 DEF OffersAreHonest, OwnDraft
<1> QED BY <1>4, TablesOfKernel, PTL
================================================================================
