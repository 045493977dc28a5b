------------------------- MODULE WorkflowKernelProofs --------------------------
(***************************************************************************)
(* Proofs about the kernel's commands, for any definition graphs,          *)
(* principals, bindings and instances.  Each command is shown once to add  *)
(* an event and its rows in one form (StepForm); the rest is about that    *)
(* form.  Inv adds to the type invariant what keeps it: the visits of a    *)
(* node are numbered without gaps, and an event only refers to rows that   *)
(* were there.  HInv adds the history: the recovery code replays it, to    *)
(* the row as it was last written.                                         *)
(***************************************************************************)
EXTENDS KernelProperties, FiniteSetTheorems, TLAPS

(* An instance that was not created has no rows; one that was has events.  *)
RowsIffCreated ==
    \A i \in Instances :
        IF Exists(i) THEN events[i] # <<>>
        ELSE /\ contexts[i] = <<>> /\ visits[i] = <<>>
             /\ submissions[i] = <<>> /\ events[i] = <<>>
             /\ projection[i] = NoProjection

(* The visits of a node are numbered 1, 2, .. without gaps.                *)
VisitsNumbered ==
    \A i \in Instances, n \in Nodes : \E c \in Nat : VisitNumbers(i, n) = 1..c

(* What an event says stays true as rows are added after it.               *)
EventOK(i, k) ==
    LET e == events[i][k] IN
    /\ e.context \in DOMAIN contexts[i]
    /\ e.target \in DOMAIN visits[i]
    /\ k > 1 => e.source \in DOMAIN visits[i]
    /\ e.type \in {"TRANSITION", "COMBINED"} =>
          /\ e.source \in DOMAIN visits[i]
          /\ visits[i][e.source].assignee = e.actor
          /\ NodeDef[VisitedNode(i, e.source)].type # "TERMINAL"
    /\ (k > 1 /\ IntroducesContext(e)) =>
          /\ e.actor = identity[i].creator
          /\ NodeDef[VisitedNode(i, e.source)].type = "DRAFT"

EventsOK == \A i \in Instances : \A k \in DOMAIN events[i] : EventOK(i, k)

Inv == TypeOK /\ RowsIffCreated /\ VisitsNumbered /\ EventsOK

--------------------------------------------------------------------------------
(* The initial state has no rows at all.                                   *)
LEMMA InvInit == Init => Inv
<1> SUFFICES ASSUME Init PROVE Inv
  OBVIOUS
<1>1. TypeOK
  BY BoundAssumption, SMTT(30)
  DEF Init, TypeOK, Statuses, NoProjection, ProjectionRow, Exists
<1>2. RowsIffCreated /\ EventsOK
  BY DEF Init, RowsIffCreated, EventsOK, Exists
<1>3. \A i \in Instances, n \in Nodes : VisitNumbers(i, n) = 1..0
  BY DEF Init, VisitNumbers
<1> QED BY <1>1, <1>2, <1>3 DEF Inv, VisitsNumbered

(* resolve_assignee yields a principal, or nobody for a TERMINAL node.     *)
LEMMA AssigneeType ==
    ASSUME TypeOK, NEW n \in Nodes, NEW creator \in Principals, NEW d \in Domains
    PROVE  Assignees(n, creator, d) \subseteq Principals \cup {Nobody}
<1>1. NodeDef[n].assignee \in AssigneeRefs /\ NodeDef[n].fixed \in Principals \cup {Nobody}
  BY DefinitionAssumption DEF NodeRow
<1> QED BY <1>1 DEF Assignees, AssigneeRefs, Owners

(* It yields nobody for a TERMINAL node only.                              *)
LEMMA AssigneeOfNode ==
    ASSUME TypeOK, NEW n \in Nodes, NEW creator \in Principals, NEW d \in Domains,
           NEW a \in Assignees(n, creator, d)
    PROVE  (a = Nobody) <=> (NodeDef[n].type = "TERMINAL")
<1>1. Nobody \notin enabled /\ creator # Nobody
  BY NullAssumption DEF TypeOK
<1>2. NodeDef[n].assignee \in AssigneeRefs
  BY DefinitionAssumption DEF NodeRow
<1> QED BY <1>1, <1>2 DEF Assignees, AssigneeRefs

(* The next visit number of a node is one more than it has visits.         *)
LEMMA NextNumber ==
    ASSUME Inv, NEW i \in Instances, NEW n \in Nodes
    PROVE  \E c \in Nat : VisitNumbers(i, n) = 1..c /\ NextVisitNumber(i, n) = c + 1
<1>1. PICK c \in Nat : VisitNumbers(i, n) = 1..c
  BY DEF Inv, VisitsNumbered
<1> DEFINE Top(m) == m \in VisitNumbers(i, n) \cup {0} /\ \A x \in VisitNumbers(i, n) : x <= m
<1>2. Top(c) /\ \A m : Top(m) => m = c
  BY <1>1
<1>3. Top(CHOOSE m : Top(m))
  <2> HIDE DEF Top
  <2> QED BY <1>2
<1>4. (CHOOSE m \in VisitNumbers(i, n) \cup {0} : \A x \in VisitNumbers(i, n) : x <= m)
          = (CHOOSE m : Top(m))
  OBVIOUS
<1> QED BY <1>1, <1>2, <1>3, <1>4 DEF NextVisitNumber
--------------------------------------------------------------------------------
(* A number is one of a node's when some visit of the node carries it.     *)
LEMMA NumbersOfVisits ==
    ASSUME NEW i, NEW n
    PROVE  /\ \A x : x \in VisitNumbers(i, n) <=>
                \E k \in DOMAIN visits[i] : visits[i][k].node = n /\ visits[i][k].number = x
           /\ \A x : x \in VisitNumbers(i, n)' <=>
                \E k \in DOMAIN visits'[i] : visits'[i][k].node = n /\ visits'[i][k].number = x
  BY DEF VisitNumbers, VisitedNode

(* What every command has in common: it appends to the tables of one       *)
(* instance, an event among the rows, and leaves the other instances.      *)
Appends(i, id, proj, cs, vs, ss, e) ==
    /\ identity' = [identity EXCEPT ![i] = id]
    /\ projection' = [projection EXCEPT ![i] = proj]
    /\ contexts' = [contexts EXCEPT ![i] = cs]
    /\ visits' = [visits EXCEPT ![i] = vs]
    /\ submissions' = [submissions EXCEPT ![i] = ss]
    /\ events' = [events EXCEPT ![i] = Append(events[i], e)]
    /\ UNCHANGED <<enabled, bindings, versionStatus>>

(* The new rows have their columns' types and refer to rows that exist.    *)
RowsFit(i, id, proj, cs, vs, ss, e) ==
    /\ id \in [domain : Domains, version : Versions, creator : Principals]
    /\ Exists(i) => id = identity[i]
    /\ proj \in ProjectionRow /\ cs \in Seq(ContextRow) /\ vs \in Seq(VisitRow)
    /\ ss \in Seq(SubmissionRow) /\ e \in EventRows
    /\ Len(cs) >= Len(contexts[i])
    /\ \/ vs = visits[i]
       \/ \E row \in VisitRow : /\ vs = Append(visits[i], row)
                                /\ row.number = NextVisitNumber(i, row.node)
    /\ proj.context \in DOMAIN cs /\ proj.visit \in DOMAIN vs
    /\ e.context \in DOMAIN cs /\ e.target \in DOMAIN vs
    /\ Exists(i) => e.source \in DOMAIN visits[i]

(* The event keeps to the rules of EventOK, in the state it is added to.   *)
EventFits(i, id, e) ==
    /\ e.type \in {"TRANSITION", "COMBINED"} =>
          /\ Exists(i)
          /\ visits[i][e.source].assignee = e.actor
          /\ NodeDef[VisitedNode(i, e.source)].type # "TERMINAL"
    /\ (Exists(i) /\ IntroducesContext(e)) =>
          /\ e.actor = id.creator
          /\ NodeDef[VisitedNode(i, e.source)].type = "DRAFT"

(* One row more of each kind at most, in the form in which the recovery    *)
(* code will look for it.                                                  *)
Moves(e) == e.type \in {"TRANSITION", "COMBINED"}

NewContext(i, id, cs, e) ==
    \/ cs = contexts[i] /\ ~IntroducesContext(e) /\ e.context = projection[i].context
    \/ \E row \in ContextRow :
          /\ cs = Append(contexts[i], row)
          /\ IntroducesContext(e) /\ e.context = Len(contexts[i]) + 1
          /\ row.previous = projection[i].context
          /\ row.number = IF Exists(i) THEN contexts[i][projection[i].context].number + 1 ELSE 1
          /\ row.author = IF Exists(i) THEN e.actor ELSE id.creator

EventForm(i, id, e, node) ==
    /\ (e.type \in {"CREATED", "IMPORTED"}) <=> ~Exists(i)
    /\ e.type = "CREATED" => NodeDef[node].type = "DRAFT"
    /\ e.type = "IMPORTED" => id.creator \notin Services /\ e.actor \in Services
    /\ e.type \in {"CREATED", "IMPORTED", "REVISED"} => e.effect = "NONE"
    /\ ~Moves(e) => e.submission = 0
    /\ Moves(e) => /\ e.transition \in Transitions
                   /\ TransitionDef[e.transition].version = id.version
                   /\ TransitionDef[e.transition].source = CurrentNode(i)
                   /\ TransitionDef[e.transition].target = node
                   /\ TransitionDef[e.transition].effect = e.effect
                   /\ e.effect = "ADVANCE" => NodeDef[CurrentNode(i)].primary = e.transition
    /\ e.type = "COMBINED" => e.effect = "ADVANCE" /\ e.submission # 0
    /\ e.type = "OVERRIDE" =>
          /\ e.effect = IF NodeDef[node].type = "TERMINAL" THEN "TERMINATE" ELSE "ADVANCE"
          /\ e.before = projection[i]

NewVisit(i, id, vs, e) ==
    \/ /\ vs = visits[i] /\ e.type = "REVISED" /\ e.target = projection[i].visit
       /\ EventForm(i, id, e, CurrentNode(i))
    \/ \E row \in VisitRow :
          /\ vs = Append(visits[i], row)
          /\ IntroducesVisit(e) /\ e.target = Len(visits[i]) + 1
          /\ EventForm(i, id, e, row.node)
          /\ NodeDef[row.node].version = id.version
          /\ row.number = NextVisitNumber(i, row.node)
          /\ (row.assignee = Nobody) <=> (NodeDef[row.node].type = "TERMINAL")
          /\ row.enteredBy = IF Moves(e) THEN e.transition ELSE NoTransition

NewSubmission(i, ss, e) ==
    \/ ss = submissions[i] /\ e.submission = 0
    \/ \E row \in SubmissionRow :
          /\ ss = Append(submissions[i], row)
          /\ Moves(e) /\ e.submission = Len(submissions[i]) + 1
          /\ SourceFree(i) /\ row.source = projection[i].visit
          /\ row.context = e.context /\ row.transition = e.transition /\ row.author = e.actor
          /\ e.effect = "RETURN" => /\ row.root \in DOMAIN visits[i]
                                    /\ row.related \in DOMAIN submissions[i] \cup {0}

NewRows(i, id, proj, cs, vs, ss, e) ==
    /\ proj = [context |-> e.context, visit |-> e.target, version |-> projection[i].version + 1]
    /\ e.sequence = projection[i].version + 1 /\ e.old = projection[i].version
    /\ e.source = projection[i].visit
    /\ SequenceFree(i)
    /\ ~Exists(i) => VersionDomain[id.version] = id.domain
    /\ NewContext(i, id, cs, e) /\ NewVisit(i, id, vs, e) /\ NewSubmission(i, ss, e)

(* Every accepted command is such a step, which the lemmas below show once *)
(* for each; everything else is proved of CommandStep.                     *)
CommandStep(i) ==
    \E id, proj, cs, vs, ss, e :
        /\ Appends(i, id, proj, cs, vs, ss, e)
        /\ RowsFit(i, id, proj, cs, vs, ss, e)
        /\ EventFits(i, id, e)
        /\ NewRows(i, id, proj, cs, vs, ss, e)

(* Any other step sets a projection row to a replayed one, which is a      *)
(* rebuild or the damage it repairs, or leaves the instances alone.        *)
ReplayStep(i, k) ==
    /\ projection' = [projection EXCEPT ![i] = ReplayedBefore(i, k + 1)]
    /\ UNCHANGED <<enabled, bindings, versionStatus, identity, facts>>

OutsideStep ==
    /\ UNCHANGED <<identity, projection, facts>>
    /\ enabled' \subseteq Principals \cup Domains
    /\ bindings' \subseteq Domains \X Principals \X Roles
    /\ versionStatus' \in [Versions -> Statuses]

StepForm ==
    \/ \E i \in Instances : CommandStep(i)
    \/ \E i \in Instances : \E k \in DOMAIN events[i] : ReplayStep(i, k)
    \/ OutsideStep

(* A command whose rows fit keeps the invariant.                           *)
LEMMA AppendKeepsInv ==
    ASSUME Inv, NEW i \in Instances, NEW id, NEW proj, NEW cs, NEW vs, NEW ss, NEW e,
           Appends(i, id, proj, cs, vs, ss, e), RowsFit(i, id, proj, cs, vs, ss, e),
           EventFits(i, id, e)
    PROVE  Inv'
<1>1. /\ identity'[i] = id /\ contexts'[i] = cs /\ visits'[i] = vs /\ submissions'[i] = ss
      /\ events'[i] = Append(events[i], e) /\ projection'[i] = proj
      /\ \A j \in Instances \ {i} :
             /\ identity'[j] = identity[j] /\ contexts'[j] = contexts[j]
             /\ visits'[j] = visits[j] /\ submissions'[j] = submissions[j]
             /\ events'[j] = events[j] /\ projection'[j] = projection[j]
  BY DEF Inv, TypeOK, Appends
<1>2. /\ visits[i] \in Seq(VisitRow) /\ contexts[i] \in Seq(ContextRow)
      /\ events[i] \in Seq(EventRows)
  BY DEF Inv, TypeOK
<1>a. e \in EventRows /\ vs \in Seq(VisitRow) /\ cs \in Seq(ContextRow)
  BY DEF RowsFit
<1>b. DOMAIN contexts[i] \subseteq DOMAIN cs
  BY <1>2, <1>a DEF RowsFit
<1>c. DOMAIN visits[i] \subseteq DOMAIN vs /\ \A k \in DOMAIN visits[i] : vs[k] = visits[i][k]
  <2>1. CASE vs = visits[i]
    BY <2>1
  <2>2. ASSUME NEW row \in VisitRow, vs = Append(visits[i], row)
        PROVE  DOMAIN visits[i] \subseteq DOMAIN vs /\ \A k \in DOMAIN visits[i] : vs[k] = visits[i][k]
    BY <1>2, <2>2
  <2> QED BY <2>1, <2>2 DEF RowsFit
<1>3. TypeOK'
  <2>1. /\ identity' \in [Instances -> [domain : Domains, version : Versions, creator : Principals]
                                       \cup {NoInstance}]
        /\ projection' \in [Instances -> ProjectionRow]
    BY DEF Inv, TypeOK, Appends, RowsFit
  <2>2. contexts' \in [Instances -> Seq(ContextRow)] /\ visits' \in [Instances -> Seq(VisitRow)]
    BY <1>a DEF Inv, TypeOK, Appends
  <2>3. submissions' \in [Instances -> Seq(SubmissionRow)]
    BY DEF Inv, TypeOK, Appends, RowsFit
  <2>4. events' \in [Instances -> Seq(EventRows)]
    <3>1. Append(events[i], e) \in Seq(EventRows)
      BY <1>2, <1>a
    <3> QED BY <3>1 DEF Inv, TypeOK, Appends
  <2>5. \A j \in Instances : Exists(j)' => /\ projection'[j].context \in DOMAIN contexts'[j]
                                           /\ projection'[j].visit \in DOMAIN visits'[j]
    BY <1>1 DEF Inv, TypeOK, Exists, RowsFit
  <2>6. /\ enabled' \subseteq Principals \cup Domains
        /\ bindings' \subseteq Domains \X Principals \X Roles
        /\ versionStatus' \in [Versions -> Statuses]
    BY DEF Inv, TypeOK, Appends
  <2> QED BY <2>1, <2>2, <2>3, <2>4, <2>5, <2>6 DEF TypeOK
<1>4. RowsIffCreated'
  <2>1. Exists(i)'
    <3>1. id # NoInstance
      BY NullAssumption DEF RowsFit
    <3> QED BY <1>1, <3>1 DEF Exists
  <2>a. events'[i] # <<>>
    <3>1. Len(Append(events[i], e)) = Len(events[i]) + 1 /\ Len(events[i]) \in Nat
      BY <1>2, <1>a
    <3>2. Len(Append(events[i], e)) > 0
      BY <3>1
    <3> QED BY <1>1, <3>2
  <2>2. ASSUME NEW j \in Instances \ {i}
        PROVE  IF Exists(j)' THEN events'[j] # <<>>
               ELSE /\ contexts'[j] = <<>> /\ visits'[j] = <<>>
                    /\ submissions'[j] = <<>> /\ events'[j] = <<>>
                    /\ projection'[j] = NoProjection
    <3>1. Exists(j)' <=> Exists(j)
      BY <1>1 DEF Exists
    <3> QED BY <1>1, <3>1 DEF Inv, RowsIffCreated
  <2> QED BY <2>1, <2>a, <2>2 DEF RowsIffCreated
<1>5. VisitsNumbered'
  <2>1. ASSUME NEW j \in Instances, NEW n \in Nodes, VisitNumbers(j, n)' = VisitNumbers(j, n)
        PROVE  \E c \in Nat : VisitNumbers(j, n)' = 1..c
    BY <2>1 DEF Inv, VisitsNumbered
  <2>2. ASSUME NEW j \in Instances, visits'[j] = visits[j], NEW n \in Nodes
        PROVE  VisitNumbers(j, n)' = VisitNumbers(j, n)
    BY <2>2 DEF VisitNumbers, VisitedNode
  <2>3. CASE vs = visits[i]
    BY <1>1, <2>1, <2>2, <2>3 DEF VisitsNumbered
  <2>4. ASSUME NEW row \in VisitRow, vs = Append(visits[i], row),
               row.number = NextVisitNumber(i, row.node)
        PROVE  VisitsNumbered'
    <3> DEFINE last == Len(visits[i]) + 1
    <3>1. /\ DOMAIN vs = DOMAIN visits[i] \cup {last} /\ vs[last] = row
          /\ last \notin DOMAIN visits[i]
      BY <1>2, <2>4
    <3> HIDE DEF last
    <3>2. ASSUME NEW n
          PROVE  \A x : x \in VisitNumbers(i, n)' <=>
                          x \in VisitNumbers(i, n) \/ (n = row.node /\ x = row.number)
      <4> SUFFICES ASSUME NEW x
                   PROVE  x \in VisitNumbers(i, n)' <=>
                          x \in VisitNumbers(i, n) \/ (n = row.node /\ x = row.number)
        OBVIOUS
      <4>1. x \in VisitNumbers(i, n) <=>
                \E k \in DOMAIN visits[i] : visits[i][k].node = n /\ visits[i][k].number = x
        BY NumbersOfVisits
      <4>2. x \in VisitNumbers(i, n)' <=>
                \E k \in DOMAIN visits'[i] : visits'[i][k].node = n /\ visits'[i][k].number = x
        BY NumbersOfVisits
      <4> QED BY <1>1, <1>c, <3>1, <4>1, <4>2
    <3>3. row.node \in Nodes
      BY DEF VisitRow
    <3>4. \E c \in Nat : VisitNumbers(i, row.node)' = 1..c
      <4>1. PICK c \in Nat : VisitNumbers(i, row.node) = 1..c /\ row.number = c + 1
        BY <2>4, <3>3, NextNumber
      <4>2. \A x : x \in VisitNumbers(i, row.node)' <=> x \in 1..(c + 1)
        <5> SUFFICES ASSUME NEW x
                     PROVE  x \in VisitNumbers(i, row.node)' <=> x \in 1..(c + 1)
          OBVIOUS
        <5>1. x \in VisitNumbers(i, row.node)' <=> x \in 1..c \/ x = c + 1
          BY <3>2, <4>1
        <5> QED BY <5>1
      <4>3. VisitNumbers(i, row.node)' = 1..(c + 1)
        BY <4>2
      <4> QED BY <4>3
    <3>5. ASSUME NEW n \in Nodes \ {row.node} PROVE VisitNumbers(i, n)' = VisitNumbers(i, n)
      <4>1. \A x : x \in VisitNumbers(i, n)' <=> x \in VisitNumbers(i, n)
        BY <3>2
      <4> QED BY <4>1
    <3>6. \A n \in Nodes : \E c \in Nat : VisitNumbers(i, n)' = 1..c
      BY <2>1, <3>4, <3>5
    <3>7. \A j \in Instances \ {i}, n \in Nodes : \E c \in Nat : VisitNumbers(j, n)' = 1..c
      BY <1>1, <2>1, <2>2
    <3> QED BY <3>6, <3>7 DEF VisitsNumbered
  <2> QED BY <2>3, <2>4 DEF RowsFit
<1>6. EventsOK'
  <2>1. ASSUME NEW j \in Instances \ {i}, NEW k \in DOMAIN events[j] PROVE EventOK(j, k)'
    BY SMTT(30), <1>1 DEF Inv, EventsOK, EventOK, VisitedNode, IntroducesContext
  <2>2. ASSUME NEW k \in DOMAIN events[i] PROVE EventOK(i, k)'
    <3>1. EventOK(i, k) /\ events'[i][k] = events[i][k]
      BY <1>1, <1>2, <1>a DEF Inv, EventsOK
    <3>2. events[i] # <<>>
      BY <1>2
    <3>3. identity'[i] = identity[i]
      BY <1>1, <3>2 DEF Inv, RowsIffCreated, RowsFit
    <3> DEFINE old == events[i][k]
    <3>4. \A m \in DOMAIN contexts[i] : m \in DOMAIN contexts'[i]
      BY <1>1, <1>b
    <3>5. \A m \in DOMAIN visits[i] : m \in DOMAIN visits'[i] /\ visits'[i][m] = visits[i][m]
      BY <1>1, <1>c
    <3>6. /\ old.context \in DOMAIN contexts[i]
          /\ old.target \in DOMAIN visits[i]
          /\ k > 1 => old.source \in DOMAIN visits[i]
          /\ old.type \in {"TRANSITION", "COMBINED"} =>
                /\ old.source \in DOMAIN visits[i]
                /\ visits[i][old.source].assignee = old.actor
                /\ NodeDef[visits[i][old.source].node].type # "TERMINAL"
          /\ (k > 1 /\ IntroducesContext(old)) =>
                /\ old.actor = identity[i].creator
                /\ NodeDef[visits[i][old.source].node].type = "DRAFT"
      BY <3>1 DEF EventOK, VisitedNode
    <3>7. EventOK(i, k)' <=>
          /\ old.context \in DOMAIN contexts'[i]
          /\ old.target \in DOMAIN visits'[i]
          /\ k > 1 => old.source \in DOMAIN visits'[i]
          /\ old.type \in {"TRANSITION", "COMBINED"} =>
                /\ old.source \in DOMAIN visits'[i]
                /\ visits'[i][old.source].assignee = old.actor
                /\ NodeDef[visits'[i][old.source].node].type # "TERMINAL"
          /\ (k > 1 /\ IntroducesContext(old)) =>
                /\ old.actor = identity'[i].creator
                /\ NodeDef[visits'[i][old.source].node].type = "DRAFT"
      BY <3>1 DEF EventOK, VisitedNode, IntroducesContext
    <3> HIDE DEF old
    <3> QED BY <3>3, <3>4, <3>5, <3>6, <3>7
  <2>3. ASSUME NEW new, new = Len(events[i]) + 1 PROVE EventOK(i, new)'
    <3>1. events'[i][new] = e
      BY <1>1, <1>2, <1>a, <2>3
    <3>2. new > 1 => Exists(i)
      <4>1. CASE Exists(i)
        BY <4>1
      <4>2. CASE ~Exists(i)
        <5>1. events[i] = <<>>
          BY <4>2 DEF Inv, RowsIffCreated
        <5> QED BY <2>3, <5>1
      <4> QED BY <4>1, <4>2
    <3>4. e.context \in DOMAIN contexts'[i] /\ e.target \in DOMAIN visits'[i]
      BY <1>1 DEF RowsFit
    <3>5. Exists(i) => /\ e.source \in DOMAIN visits'[i]
                       /\ visits'[i][e.source] = visits[i][e.source]
      BY <1>1, <1>c DEF RowsFit
    <3>6. e.type \in {"TRANSITION", "COMBINED"} =>
             /\ e.source \in DOMAIN visits'[i]
             /\ visits'[i][e.source].assignee = e.actor
             /\ NodeDef[visits'[i][e.source].node].type # "TERMINAL"
      BY <3>5 DEF EventFits, VisitedNode
    <3>7. (Exists(i) /\ IntroducesContext(e)) =>
             /\ e.actor = identity'[i].creator
             /\ NodeDef[visits'[i][e.source].node].type = "DRAFT"
      BY <1>1, <3>5 DEF EventFits, VisitedNode
    <3> QED BY <3>1, <3>2, <3>4, <3>5, <3>6, <3>7 DEF EventOK, VisitedNode, IntroducesContext
  <2>4. DOMAIN events'[i] = DOMAIN events[i] \cup {Len(events[i]) + 1}
    BY <1>1, <1>2, <1>a
  <2>5. ASSUME NEW j \in Instances, NEW k \in DOMAIN events'[j] PROVE EventOK(j, k)'
    <3>1. CASE j = i
      BY <2>2, <2>3, <2>4, <3>1
    <3>2. CASE j # i
      BY <1>1, <2>1, <3>2
    <3> QED BY <3>1, <3>2
  <2> QED BY <2>5 DEF EventsOK
<1> QED BY <1>3, <1>4, <1>5, <1>6 DEF Inv
--------------------------------------------------------------------------------
(* The types of what a handler reads of an instance.                       *)
LEMMA ReadTypes ==
    ASSUME Inv, NEW i \in Instances
    PROVE  /\ projection[i] \in ProjectionRow
           /\ contexts[i] \in Seq(ContextRow) /\ visits[i] \in Seq(VisitRow)
           /\ submissions[i] \in Seq(SubmissionRow) /\ events[i] \in Seq(EventRows)
           /\ Exists(i) => /\ identity[i] \in [domain : Domains, version : Versions,
                                               creator : Principals]
                           /\ projection[i].context \in DOMAIN contexts[i]
                           /\ projection[i].visit \in DOMAIN visits[i]
  BY DEF Inv, TypeOK, Exists

(* A projection row is its three columns.                                  *)
LEMMA SameRow ==
    ASSUME NEW q \in ProjectionRow
    PROVE  q = [context |-> q.context, visit |-> q.visit, version |-> q.version]
  BY DEF ProjectionRow

(* A projection row that moves on stays one.                               *)
LEMMA ProjectionMoves ==
    ASSUME NEW r \in ProjectionRow, NEW m \in Nat
    PROVE  /\ r.context \in Nat /\ r.visit \in Nat
           /\ LET q == [r EXCEPT !.context = m, !.version = @ + 1] IN
              /\ q \in ProjectionRow /\ q.context = m /\ q.visit = r.visit
              /\ q = [context |-> m, visit |-> r.visit, version |-> r.version + 1]
           /\ LET q == [r EXCEPT !.visit = m, !.version = @ + 1] IN
              /\ q \in ProjectionRow /\ q.context = r.context /\ q.visit = m
              /\ q = [context |-> r.context, visit |-> m, version |-> r.version + 1]
<1>1. r \in [context : Nat, visit : Nat, version : Nat] /\ r.version + 1 \in Nat
  BY DEF ProjectionRow
<1> DEFINE inContext == [r EXCEPT !.context = m, !.version = @ + 1]
           inVisit   == [r EXCEPT !.visit = m, !.version = @ + 1]
<1>2. /\ inContext \in [context : Nat, visit : Nat, version : Nat]
      /\ inContext.context = m /\ inContext.visit = r.visit
      /\ inContext.version = r.version + 1
  BY <1>1
<1>3. /\ inVisit \in [context : Nat, visit : Nat, version : Nat]
      /\ inVisit.visit = m /\ inVisit.context = r.context
      /\ inVisit.version = r.version + 1
  BY <1>1
<1>4. r.context \in Nat /\ r.visit \in Nat
  BY <1>1
<1> HIDE DEF inContext, inVisit
<1>5. inContext \in ProjectionRow /\ inVisit \in ProjectionRow
  BY <1>2, <1>3 DEF ProjectionRow
<1>6. /\ inContext = [context |-> m, visit |-> r.visit, version |-> r.version + 1]
      /\ inVisit = [context |-> r.context, visit |-> m, version |-> r.version + 1]
  BY <1>2, <1>3, <1>5, SameRow
<1> QED BY <1>2, <1>3, <1>4, <1>5, <1>6 DEF inContext, inVisit

(* The event a handler fills in has its columns' types.                    *)
LEMMA EventRowType ==
    ASSUME Inv, NEW i \in Instances, NEW type \in EventTypes, NEW actor \in Principals
    PROVE  EventRow(i, type, actor) \in EventRows
<1>1. /\ projection[i] \in ProjectionRow /\ Len(visits[i]) \in Nat
      /\ NoProjection \in ProjectionRow
  BY ReadTypes DEF ProjectionRow, NoProjection
<1> QED BY <1>1 DEF EventRow, EventRows, ProjectionRow

(* In an accepted graph a transition stays within its version, a primary   *)
(* transition goes on in the order and a TERMINATE ends.                   *)
LEMMA ArrowInVersion ==
    ASSUME NEW t \in Transitions
    PROVE  /\ TransitionDef[t] \in TransitionRow
           /\ NodeDef[TransitionDef[t].target].version = TransitionDef[t].version
           /\ NodeDef[TransitionDef[t].source].version = TransitionDef[t].version
           /\ NodeDef[TransitionDef[t].source].primary = t =>
                 NodeDef[TransitionDef[t].target].order > NodeDef[TransitionDef[t].source].order
           /\ TransitionDef[t].effect = "TERMINATE" =>
                 NodeDef[TransitionDef[t].target].type = "TERMINAL"
<1> DEFINE v == TransitionDef[t].version
           s == TransitionDef[t].source
           d == TransitionDef[t].target
           g == GraphOf(v)
<1>1. TransitionDef[t] \in TransitionRow /\ v \in Versions
  BY DefinitionAssumption DEF TransitionRow
<1>2. ReferenceRules(g) /\ PrimaryRules(g) /\ TerminateRules(g)
  BY <1>1, DefinitionAssumption DEF ValidGraph
<1>3. t \in TransitionIds(g) /\ g.transition[t] = TransitionDef[t]
  BY DEF TransitionIds, GraphOf
<1>4. /\ NodeIds(g) = {n \in Nodes : NodeDef[n].version = v}
      /\ \A n \in NodeIds(g) : g.node[n] = NodeDef[n]
  BY DEF NodeIds, GraphOf
<1> HIDE DEF g
<1>5. s \in NodeIds(g) /\ d \in NodeIds(g)
  BY <1>2, <1>3 DEF ReferenceRules
<1>6. NodeDef[s].primary = t => NodeDef[d].order > NodeDef[s].order
  BY SMTT(30), <1>2, <1>3, <1>4, <1>5 DEF PrimaryRules, HasPrimary
<1>7. TransitionDef[t].effect = "TERMINATE" => NodeDef[d].type = "TERMINAL"
  BY <1>2, <1>3, <1>4, <1>5 DEF TerminateRules
<1> QED BY <1>1, <1>4, <1>5, <1>6, <1>7

(* A created or imported instance starts with one context, visit and event. *)
LEMMA OpenStep ==
    ASSUME Inv, NEW i \in Instances, ~Exists(i), NEW type \in {"CREATED", "IMPORTED"},
           NEW p \in Principals, NEW creator \in Principals, NEW d \in Domains,
           NEW v \in Versions, NEW n \in Nodes, NEW a \in Principals \cup {Nobody},
           VersionDomain[v] = d, NodeDef[n].version = v, (a = Nobody) <=> (NodeDef[n].type = "TERMINAL"),
           type = "CREATED" => NodeDef[n].type = "DRAFT",
           type = "IMPORTED" => creator \notin Services /\ p \in Services,
           Open(i, type, p, creator, d, v, n, a)
    PROVE  CommandStep(i)
<1> DEFINE id   == [domain |-> d, version |-> v, creator |-> creator]
           proj == [context |-> 1, visit |-> 1, version |-> 1]
           cs   == Append(contexts[i], [number |-> 1, previous |-> 0, author |-> creator])
           row  == [node |-> n, number |-> 1, assignee |-> a, enteredBy |-> NoTransition]
           vs   == Append(visits[i], row)
           e    == [EventRow(i, type, p) EXCEPT !.context = 1]
<1>1. contexts[i] = <<>> /\ visits[i] = <<>>
  BY DEF Inv, RowsIffCreated
<1>2. Appends(i, id, proj, cs, vs, submissions[i], e)
  <2>1. submissions' = [submissions EXCEPT ![i] = submissions[i]]
    BY DEF Open, Inv, TypeOK
  <2> QED BY <2>1 DEF Open, AddContext, AddVisit, AddEvent, Appends
<1>3. row.number = NextVisitNumber(i, n)
  <2>1. PICK c \in Nat : VisitNumbers(i, n) = 1..c /\ NextVisitNumber(i, n) = c + 1
    BY NextNumber
  <2>2. VisitNumbers(i, n) = {}
    BY <1>1 DEF VisitNumbers
  <2>3. 1 \notin 1..c
    BY <2>1, <2>2
  <2> QED BY <2>1, <2>3
<1>4. RowsFit(i, id, proj, cs, vs, submissions[i], e)
  <2>1. /\ cs = <<[number |-> 1, previous |-> 0, author |-> creator]>> /\ vs = <<row>>
        /\ row \in VisitRow
    BY <1>1 DEF VisitRow
  <2>2. cs \in Seq(ContextRow) /\ vs \in Seq(VisitRow) /\ DOMAIN cs = {1} /\ DOMAIN vs = {1}
        /\ Len(cs) >= Len(contexts[i])
    BY <1>1, <2>1 DEF ContextRow
  <2>3. proj \in ProjectionRow
    BY DEF ProjectionRow
  <2>4. e \in EventRows /\ e.context = 1 /\ e.target = 1
    <3>1. EventRow(i, type, p) \in EventRows
      BY EventRowType DEF EventTypes
    <3> QED BY <1>1, <3>1 DEF EventRow, EventRows
  <2>5. submissions[i] \in Seq(SubmissionRow)
    BY ReadTypes
  <2> HIDE DEF cs, vs, e, row
  <2>6. vs = Append(visits[i], row) /\ row.node = n
    BY DEF vs, row
  <2> QED BY <1>3, <2>1, <2>2, <2>3, <2>4, <2>5, <2>6 DEF RowsFit
<1>5. EventFits(i, id, e)
  BY DEF EventFits, EventRow
<1>6. NewRows(i, id, proj, cs, vs, submissions[i], e)
  <2>1. /\ events[i] = <<>> /\ projection[i] = [context |-> 0, visit |-> 0, version |-> 0]
        /\ submissions[i] = <<>>
    BY DEF Inv, RowsIffCreated, NoProjection
  <2>2. projection[i].context = 0 /\ projection[i].visit = 0 /\ projection[i].version = 0
    BY <2>1
  <2>3. /\ e.type = type /\ e.effect = "NONE" /\ e.submission = 0 /\ e.context = 1
        /\ e.sequence = projection[i].version + 1 /\ e.old = projection[i].version
        /\ e.source = projection[i].visit /\ e.target = Len(visits[i]) + 1 /\ e.actor = p
    BY DEF EventRow
  <2>4. Len(visits[i]) = 0 /\ Len(contexts[i]) = 0
    BY <1>1
  <2> HIDE DEF e
  <2>5. proj = [context |-> e.context, visit |-> e.target, version |-> projection[i].version + 1]
    BY <2>2, <2>3, <2>4
  <2>6. SequenceFree(i)
    BY <2>1 DEF SequenceFree
  <2>7. NewContext(i, id, cs, e)
    <3> DEFINE crow == [number |-> 1, previous |-> 0, author |-> creator]
    <3>1. /\ crow \in ContextRow /\ crow.number = 1 /\ crow.previous = 0
          /\ crow.author = creator /\ cs = Append(contexts[i], crow)
      BY DEF ContextRow
    <3>2. id.creator = creator
      OBVIOUS
    <3> HIDE DEF crow, cs, id
    <3> QED BY <2>2, <2>3, <2>4, <3>1, <3>2 DEF NewContext, IntroducesContext
  <2>8. NewVisit(i, id, vs, e)
    <3>1. /\ row \in VisitRow /\ row.node = n /\ row.number = 1 /\ row.assignee = a
          /\ row.enteredBy = NoTransition /\ vs = Append(visits[i], row)
      BY DEF VisitRow
    <3>2. id.creator = creator /\ id.version = v
      OBVIOUS
    <3> HIDE DEF id
    <3>3. EventForm(i, id, e, n)
      BY <2>3, <3>2 DEF EventForm, Moves
    <3>4. 1 = NextVisitNumber(i, n)
      BY <1>3
    <3> HIDE DEF row, vs
    <3> QED BY <2>3, <2>4, <3>1, <3>2, <3>3, <3>4 DEF NewVisit, IntroducesVisit, Moves
  <2>9. NewSubmission(i, submissions[i], e)
    BY <2>3 DEF NewSubmission
  <2>10. VersionDomain[id.version] = id.domain
    OBVIOUS
  <2> HIDE DEF proj, cs, vs, id
  <2> QED BY <2>3, <2>5, <2>6, <2>7, <2>8, <2>9, <2>10 DEF NewRows
<1> HIDE DEF id, proj, cs, vs, e
<1> QED BY <1>2, <1>4, <1>5, <1>6 DEF CommandStep
--------------------------------------------------------------------------------
(* The visit that a move opens continues the numbers of its node.          *)
VisitsWith(i, n, a, t) ==
    Append(visits[i], [node |-> n, number |-> NextVisitNumber(i, n),
                       assignee |-> a, enteredBy |-> t])

(* Such a visit is typed and carries the next number of its node.          *)
LEMMA OpenedVisit ==
    ASSUME Inv, NEW i \in Instances, NEW n \in Nodes, NEW a \in Principals \cup {Nobody},
           NEW t \in Transitions \cup {NoTransition}
    PROVE  /\ VisitsWith(i, n, a, t) \in Seq(VisitRow)
           /\ Len(visits[i]) \in Nat /\ Len(visits[i]) + 1 \in DOMAIN VisitsWith(i, n, a, t)
           /\ \E row \in VisitRow : /\ VisitsWith(i, n, a, t) = Append(visits[i], row)
                                    /\ row.number = NextVisitNumber(i, row.node)
<1> DEFINE row == [node |-> n, number |-> NextVisitNumber(i, n), assignee |-> a, enteredBy |-> t]
<1>1. visits[i] \in Seq(VisitRow)
  BY ReadTypes
<1>2. NextVisitNumber(i, n) \in Nat
  BY NextNumber
<1>3. row \in VisitRow /\ row.number = NextVisitNumber(i, row.node)
  BY <1>2 DEF VisitRow
<1>4. VisitsWith(i, n, a, t) = Append(visits[i], row)
  BY DEF VisitsWith
<1> HIDE DEF row
<1> QED BY <1>1, <1>3, <1>4

(* ReviseWorkflowContext: the creator, on the DRAFT.                       *)
LEMMA ReviseStep ==
    ASSUME Inv, NEW p \in Principals, NEW i \in Instances, NEW version,
           ReviseWorkflowContext(p, i, version)
    PROVE  CommandStep(i)
<1> DEFINE crow == [number |-> contexts[i][projection[i].context].number + 1,
                    previous |-> projection[i].context, author |-> p]
           cs   == Append(contexts[i], crow)
           next == Len(contexts[i]) + 1
           proj == [projection[i] EXCEPT !.context = next, !.version = @ + 1]
           e    == [EventRow(i, "REVISED", p) EXCEPT !.target = projection[i].visit,
                                                     !.context = next]
<1>1. /\ Exists(i) /\ identity[i].creator = p /\ NodeDef[CurrentNode(i)].type = "DRAFT"
  BY DEF ReviseWorkflowContext, ReviseVerdict
<1>2. Appends(i, identity[i], proj, cs, visits[i], submissions[i], e)
  <2>1. /\ identity = [identity EXCEPT ![i] = identity[i]]
        /\ visits = [visits EXCEPT ![i] = visits[i]]
        /\ submissions = [submissions EXCEPT ![i] = submissions[i]]
    BY DEF Inv, TypeOK
  <2>2. projection' = [projection EXCEPT ![i] = proj]
    BY DEF ReviseWorkflowContext
  <2>3. contexts' = [contexts EXCEPT ![i] = cs] /\ events' = [events EXCEPT ![i] = Append(events[i], e)]
    BY DEF ReviseWorkflowContext, AddContext, AddEvent
  <2> QED BY <2>1, <2>2, <2>3 DEF ReviseWorkflowContext, Appends
<1>3. RowsFit(i, identity[i], proj, cs, visits[i], submissions[i], e)
  <2>1. /\ projection[i] \in ProjectionRow /\ contexts[i] \in Seq(ContextRow)
        /\ projection[i].context \in Nat /\ projection[i].visit \in Nat
        /\ projection[i].context \in DOMAIN contexts[i] /\ projection[i].visit \in DOMAIN visits[i]
    BY <1>1, ReadTypes DEF ProjectionRow
  <2>2. crow \in ContextRow
    <3>1. contexts[i][projection[i].context] \in ContextRow
      BY <2>1
    <3>2. contexts[i][projection[i].context].number + 1 \in Nat
      BY <3>1 DEF ContextRow
    <3> QED BY <2>1, <3>2 DEF ContextRow
  <2>3. cs \in Seq(ContextRow) /\ Len(cs) >= Len(contexts[i]) /\ next \in DOMAIN cs /\ next \in Nat
    <3> HIDE DEF crow
    <3> QED BY <2>1, <2>2
  <2>4. proj \in ProjectionRow /\ proj.context = next /\ proj.visit = projection[i].visit
    <3> HIDE DEF next
    <3> QED BY <2>1, <2>3, ProjectionMoves
  <2>5. /\ e \in EventRows /\ e.context = next
        /\ e.target = projection[i].visit /\ e.source = projection[i].visit
    <3>1. EventRow(i, "REVISED", p) \in EventRows
      BY EventRowType DEF EventTypes
    <3> QED BY <2>1, <2>3, <3>1 DEF EventRow, EventRows, ProjectionRow
  <2> HIDE DEF cs, proj, e, next
  <2> QED BY <1>1, <2>1, <2>3, <2>4, <2>5, ReadTypes DEF RowsFit
<1>4. EventFits(i, identity[i], e)
  BY <1>1 DEF EventFits, EventRow, CurrentNode, CurrentVisit, VisitedNode
<1>5. NewRows(i, identity[i], proj, cs, visits[i], submissions[i], e)
  <2>1. /\ projection[i] \in ProjectionRow /\ contexts[i] \in Seq(ContextRow)
        /\ projection[i].context \in DOMAIN contexts[i]
    BY <1>1, ReadTypes
  <2>2. crow \in ContextRow
    <3>1. contexts[i][projection[i].context] \in ContextRow /\ projection[i].context \in Nat
      BY <2>1
    <3>2. contexts[i][projection[i].context].number + 1 \in Nat
      BY <3>1 DEF ContextRow
    <3> QED BY <3>1, <3>2 DEF ContextRow
  <2>3. next \in Nat
    BY <2>1
  <2>4. /\ e.type = "REVISED" /\ e.effect = "NONE" /\ e.submission = 0 /\ e.context = next
        /\ e.sequence = projection[i].version + 1 /\ e.old = projection[i].version
        /\ e.source = projection[i].visit /\ e.target = projection[i].visit /\ e.actor = p
    BY DEF EventRow
  <2>5. proj = [context |-> e.context, visit |-> e.target, version |-> projection[i].version + 1]
    <3> HIDE DEF next, e
    <3>1. proj = [context |-> next, visit |-> projection[i].visit, version |-> projection[i].version + 1]
      BY ZenonT(60), <2>1, <2>3, ProjectionMoves
    <3> QED BY <2>4, <3>1
  <2>6. SequenceFree(i)
    BY DEF ReviseWorkflowContext
  <2>7. NewContext(i, identity[i], cs, e)
    <3>1. /\ crow.previous = projection[i].context /\ crow.author = p
          /\ crow.number = contexts[i][projection[i].context].number + 1
      OBVIOUS
    <3> HIDE DEF crow, e
    <3> QED BY <1>1, <2>2, <2>4, <3>1 DEF NewContext, IntroducesContext
  <2> HIDE DEF e
  <2>8. NewVisit(i, identity[i], visits[i], e)
    BY <1>1, <2>4 DEF NewVisit, EventForm, Moves
  <2>9. NewSubmission(i, submissions[i], e)
    BY <2>4 DEF NewSubmission
  <2> HIDE DEF proj, cs
  <2> QED BY <1>1, <2>4, <2>5, <2>6, <2>7, <2>8, <2>9 DEF NewRows
<1> HIDE DEF proj, cs, e
<1> QED BY <1>2, <1>3, <1>4, <1>5 DEF CommandStep

(* ExecuteWorkflowTransition: the assignee, from a node that is not TERMINAL. *)
LEMMA TransitionStep ==
    ASSUME Inv, NEW p \in Principals, NEW i \in Instances, NEW t \in Transitions,
           NEW version, NEW sub, sub.root \in Nat, sub.related \in Nat,
           ExecuteWorkflowTransition(p, i, t, version, sub)
    PROVE  CommandStep(i)
<1> DEFINE target == TransitionDef[t].target
           srow == [source |-> projection[i].visit, context |-> projection[i].context,
                    author |-> p, transition |-> t, root |-> sub.root, related |-> sub.related]
           ss == IF sub.payload # "NONE" THEN Append(submissions[i], srow) ELSE submissions[i]
           proj == [projection[i] EXCEPT !.visit = Len(visits[i]) + 1, !.version = @ + 1]
           subid == IF sub.payload # "NONE" THEN Len(submissions[i]) + 1 ELSE 0
           e == [EventRow(i, "TRANSITION", p) EXCEPT
                     !.transition = t, !.effect = TransitionDef[t].effect, !.submission = subid]
<1>1. /\ Exists(i) /\ NodeDef[CurrentNode(i)].type # "TERMINAL" /\ CurrentVisit(i).assignee = p
  BY DEF ExecuteWorkflowTransition, TransitionVerdict
<1>2. /\ projection[i] \in ProjectionRow /\ submissions[i] \in Seq(SubmissionRow)
      /\ identity[i].creator \in Principals /\ identity[i].domain \in Domains
      /\ identity[i] \in [domain : Domains, version : Versions, creator : Principals]
      /\ projection[i].context \in DOMAIN contexts[i] /\ projection[i].visit \in DOMAIN visits[i]
  BY <1>1, ReadTypes
<1>3. target \in Nodes /\ TransitionDef[t].effect \in Effects
  BY DefinitionAssumption DEF TransitionRow
<1>4. PICK a \in Assignees(target, identity[i].creator, identity[i].domain) :
          AddVisit(i, target, NextVisitNumber(i, target), a, t)
  BY DEF ExecuteWorkflowTransition
<1>5. a \in Principals \cup {Nobody}
  BY <1>2, <1>3, <1>4, AssigneeType DEF Inv
<1> DEFINE vs == VisitsWith(i, target, a, t)
<1>6. Appends(i, identity[i], proj, contexts[i], vs, ss, e)
  <2>1. /\ identity = [identity EXCEPT ![i] = identity[i]]
        /\ contexts = [contexts EXCEPT ![i] = contexts[i]]
        /\ submissions = [submissions EXCEPT ![i] = submissions[i]]
    BY DEF Inv, TypeOK
  <2>2. projection' = [projection EXCEPT ![i] = proj]
    BY DEF ExecuteWorkflowTransition, Move
  <2>3. submissions' = [submissions EXCEPT ![i] = ss]
    BY <2>1 DEF ExecuteWorkflowTransition, AddSubmission
  <2>4. visits' = [visits EXCEPT ![i] = vs] /\ events' = [events EXCEPT ![i] = Append(events[i], e)]
    BY <1>4 DEF ExecuteWorkflowTransition, AddVisit, AddEvent, VisitsWith
  <2> QED BY <2>1, <2>2, <2>3, <2>4 DEF ExecuteWorkflowTransition, Appends
<1>7. RowsFit(i, identity[i], proj, contexts[i], vs, ss, e)
  <2>1. /\ vs \in Seq(VisitRow) /\ Len(visits[i]) \in Nat /\ Len(visits[i]) + 1 \in DOMAIN vs
        /\ \E row \in VisitRow : /\ vs = Append(visits[i], row)
                                 /\ row.number = NextVisitNumber(i, row.node)
    <3> HIDE DEF target
    <3> QED BY ZenonT(60), <1>3, <1>5, OpenedVisit
  <2>2. srow \in SubmissionRow
    BY <1>2 DEF SubmissionRow, ProjectionRow
  <2>3. ss \in Seq(SubmissionRow)
    <3> HIDE DEF srow
    <3> QED BY <1>2, <2>2
  <2>4. /\ proj \in ProjectionRow /\ proj.context = projection[i].context
        /\ proj.visit = Len(visits[i]) + 1
    <3> DEFINE next == Len(visits[i]) + 1
    <3>1. next \in Nat
      BY <2>1
    <3> HIDE DEF next
    <3>2. /\ [projection[i] EXCEPT !.visit = next, !.version = @ + 1] \in ProjectionRow
          /\ [projection[i] EXCEPT !.visit = next, !.version = @ + 1].context = projection[i].context
          /\ [projection[i] EXCEPT !.visit = next, !.version = @ + 1].visit = next
      BY ZenonT(60), <1>2, <3>1, ProjectionMoves
    <3> QED BY <3>2 DEF next
  <2>5. /\ e \in EventRows /\ e.context = projection[i].context
        /\ e.target = Len(visits[i]) + 1 /\ e.source = projection[i].visit
    <3>1. EventRow(i, "TRANSITION", p) \in EventRows
      BY EventRowType DEF EventTypes
    <3>2. subid \in Nat
      BY <1>2
    <3>3. EventRow(i, "TRANSITION", p).context = projection[i].context
          /\ EventRow(i, "TRANSITION", p).target = Len(visits[i]) + 1
          /\ EventRow(i, "TRANSITION", p).source = projection[i].visit
      BY DEF EventRow
    <3> HIDE DEF subid, target
    <3> QED BY <1>3, <3>1, <3>2, <3>3 DEF EventRows
  <2> HIDE DEF vs, ss, proj, e
  <2> QED BY <1>1, <1>2, <2>1, <2>3, <2>4, <2>5, ReadTypes DEF RowsFit
<1>8. EventFits(i, identity[i], e)
  BY <1>1 DEF EventFits, EventRow, CurrentNode, CurrentVisit, VisitedNode, IntroducesContext
<1>9. NewRows(i, identity[i], proj, contexts[i], vs, ss, e)
  <2>1. /\ Applicable(i, t) /\ SubmissionVerdict(i, t, sub) = "OK" /\ SequenceFree(i)
        /\ sub.payload # "NONE" => SourceFree(i)
    BY DEF ExecuteWorkflowTransition, TransitionVerdict
  <2>2. Len(visits[i]) + 1 \in Nat /\ subid \in Nat
    BY <1>2, ReadTypes
  <2>3. /\ e.type = "TRANSITION" /\ e.effect = TransitionDef[t].effect /\ e.transition = t
        /\ e.submission = subid /\ e.actor = p /\ e.context = projection[i].context
        /\ e.sequence = projection[i].version + 1 /\ e.old = projection[i].version
        /\ e.source = projection[i].visit /\ e.target = Len(visits[i]) + 1
    <3> HIDE DEF subid
    <3> QED BY DEF EventRow
  <2>4. proj = [context |-> e.context, visit |-> e.target, version |-> projection[i].version + 1]
    <3> DEFINE there == Len(visits[i]) + 1
    <3> HIDE DEF e, there
    <3>1. [projection[i] EXCEPT !.visit = there, !.version = @ + 1]
             = [context |-> projection[i].context, visit |-> there,
                version |-> projection[i].version + 1]
      BY <1>2, <2>2, ProjectionMoves DEF there
    <3> QED BY <2>3, <3>1 DEF there
  <2> HIDE DEF e
  <2>5. NewContext(i, identity[i], contexts[i], e)
    BY <2>3 DEF NewContext, IntroducesContext
  <2>6. NewVisit(i, identity[i], vs, e)
    <3> DEFINE row == [node |-> target, number |-> NextVisitNumber(i, target),
                       assignee |-> a, enteredBy |-> t]
    <3>1. row \in VisitRow
      <4>1. NextVisitNumber(i, target) \in Nat
        BY <1>3, NextNumber
      <4> QED BY <1>3, <1>5, <4>1 DEF VisitRow
    <3>2. vs = Append(visits[i], row)
      BY DEF VisitsWith
    <3>3. EventForm(i, identity[i], e, target)
      BY <1>1, <2>1, <2>3 DEF EventForm, Applicable, Moves
    <3>4. NodeDef[target].version = identity[i].version
      BY <1>1, <2>1, ArrowInVersion DEF Applicable
    <3>5. (a = Nobody) <=> (NodeDef[target].type = "TERMINAL")
      BY <1>2, <1>3, <1>4, AssigneeOfNode DEF Inv
    <3>6. /\ row.node = target /\ row.number = NextVisitNumber(i, target)
          /\ row.assignee = a /\ row.enteredBy = t
      OBVIOUS
    <3> HIDE DEF row, vs, target
    <3> QED BY <2>3, <3>1, <3>2, <3>3, <3>4, <3>5, <3>6 DEF NewVisit, IntroducesVisit, Moves
  <2>7. NewSubmission(i, ss, e)
    <3>1. CASE sub.payload = "NONE"
      BY <2>3, <3>1 DEF NewSubmission
    <3>2. CASE sub.payload # "NONE"
      <4>1. srow \in SubmissionRow
        BY <1>2 DEF SubmissionRow, ProjectionRow
      <4>2. e.effect = "RETURN" => ReferencesValid(i, sub)
        BY <2>1, <2>3, <3>2 DEF SubmissionVerdict
      <4>3. /\ srow.source = projection[i].visit /\ srow.context = e.context
            /\ srow.transition = t /\ srow.author = p
            /\ srow.root = sub.root /\ srow.related = sub.related
        BY <2>3
      <4>4. ss = Append(submissions[i], srow) /\ subid = Len(submissions[i]) + 1
        BY <3>2
      <4> HIDE DEF srow, ss, subid
      <4> QED BY <2>1, <2>3, <3>2, <4>1, <4>2, <4>3, <4>4
              DEF NewSubmission, ReferencesValid, Moves
    <3> QED BY <3>1, <3>2
  <2> HIDE DEF proj, vs, ss
  <2> QED BY <1>1, <2>1, <2>3, <2>4, <2>5, <2>6, <2>7 DEF NewRows
<1> HIDE DEF proj, vs, ss, e
<1> QED BY <1>6, <1>7, <1>8, <1>9 DEF CommandStep

(* ReviseContextAndTransition: the creator and assignee, from the DRAFT.   *)
LEMMA CombinedStep ==
    ASSUME Inv, NEW p \in Principals, NEW i \in Instances, NEW t \in Transitions,
           NEW version, ReviseContextAndTransition(p, i, t, version)
    PROVE  CommandStep(i)
<1> DEFINE target == TransitionDef[t].target
           next == Len(contexts[i]) + 1
           crow == [number |-> contexts[i][projection[i].context].number + 1,
                    previous |-> projection[i].context, author |-> p]
           cs   == Append(contexts[i], crow)
           srow == [source |-> projection[i].visit, context |-> next,
                    author |-> p, transition |-> t, root |-> 0, related |-> 0]
           ss   == Append(submissions[i], srow)
           proj == [context |-> next, visit |-> Len(visits[i]) + 1,
                    version |-> projection[i].version + 1]
           e == [EventRow(i, "COMBINED", p) EXCEPT
                     !.context = next, !.transition = t, !.effect = "ADVANCE",
                     !.submission = Len(submissions[i]) + 1]
<1>1. /\ Exists(i) /\ NodeDef[CurrentNode(i)].type = "DRAFT" /\ CurrentVisit(i).assignee = p
      /\ identity[i].creator = p
  BY DEF ReviseContextAndTransition, CombinedVerdict
<1>2. /\ projection[i] \in ProjectionRow /\ submissions[i] \in Seq(SubmissionRow)
      /\ contexts[i] \in Seq(ContextRow) /\ projection[i].context \in Nat
      /\ projection[i].visit \in Nat /\ projection[i].version + 1 \in Nat
      /\ identity[i].creator \in Principals /\ identity[i].domain \in Domains
      /\ identity[i] \in [domain : Domains, version : Versions, creator : Principals]
      /\ projection[i].context \in DOMAIN contexts[i] /\ projection[i].visit \in DOMAIN visits[i]
  BY <1>1, ReadTypes DEF ProjectionRow
<1>3. target \in Nodes
  BY DefinitionAssumption DEF TransitionRow
<1>4. PICK a \in Assignees(target, identity[i].creator, identity[i].domain) :
          AddVisit(i, target, NextVisitNumber(i, target), a, t)
  BY DEF ReviseContextAndTransition
<1>5. a \in Principals \cup {Nobody}
  BY <1>2, <1>3, <1>4, AssigneeType DEF Inv
<1> DEFINE vs == VisitsWith(i, target, a, t)
<1>6. Appends(i, identity[i], proj, cs, vs, ss, e)
  <2>1. identity = [identity EXCEPT ![i] = identity[i]]
    BY DEF Inv, TypeOK
  <2>2. projection' = [projection EXCEPT ![i] = proj]
    BY DEF ReviseContextAndTransition
  <2>3. contexts' = [contexts EXCEPT ![i] = cs] /\ submissions' = [submissions EXCEPT ![i] = ss]
    BY DEF ReviseContextAndTransition, AddContext, AddSubmission, NoSubmission
  <2>4. visits' = [visits EXCEPT ![i] = vs]
    BY <1>4 DEF AddVisit, VisitsWith
  <2>5. events' = [events EXCEPT ![i] = Append(events[i], e)]
    BY DEF ReviseContextAndTransition, AddEvent
  <2> QED BY <2>1, <2>2, <2>3, <2>4, <2>5 DEF ReviseContextAndTransition, Appends
<1>7. RowsFit(i, identity[i], proj, cs, vs, ss, e)
  <2>1. /\ vs \in Seq(VisitRow) /\ Len(visits[i]) \in Nat /\ Len(visits[i]) + 1 \in DOMAIN vs
        /\ \E row \in VisitRow : /\ vs = Append(visits[i], row)
                                 /\ row.number = NextVisitNumber(i, row.node)
    <3> HIDE DEF target
    <3> QED BY ZenonT(60), <1>3, <1>5, OpenedVisit
  <2>2. crow \in ContextRow
    <3>1. contexts[i][projection[i].context] \in ContextRow
      BY <1>2
    <3>2. contexts[i][projection[i].context].number + 1 \in Nat
      BY <3>1 DEF ContextRow
    <3> QED BY <1>2, <3>2 DEF ContextRow
  <2>3. cs \in Seq(ContextRow) /\ Len(cs) >= Len(contexts[i]) /\ next \in DOMAIN cs /\ next \in Nat
    <3> HIDE DEF crow
    <3> QED BY <1>2, <2>2
  <2>4. ss \in Seq(SubmissionRow)
    <3>1. srow \in SubmissionRow
      <4> HIDE DEF next
      <4> QED BY <1>2, <2>3 DEF SubmissionRow
    <3> HIDE DEF srow
    <3> QED BY <1>2, <3>1
  <2>5. proj \in ProjectionRow /\ proj.context = next /\ proj.visit = Len(visits[i]) + 1
    BY <1>2, <2>1, <2>3 DEF ProjectionRow
  <2>6. /\ e \in EventRows /\ e.context = next
        /\ e.target = Len(visits[i]) + 1 /\ e.source = projection[i].visit
    <3> DEFINE subid == Len(submissions[i]) + 1
    <3>1. EventRow(i, "COMBINED", p) \in EventRows
      BY EventRowType DEF EventTypes
    <3>2. subid \in Nat
      BY <1>2
    <3>3. /\ EventRow(i, "COMBINED", p).target = Len(visits[i]) + 1
          /\ EventRow(i, "COMBINED", p).source = projection[i].visit
      BY DEF EventRow
    <3> HIDE DEF subid, next
    <3>4. [EventRow(i, "COMBINED", p) EXCEPT !.context = next, !.transition = t,
               !.effect = "ADVANCE", !.submission = subid] \in EventRows
      BY <2>3, <3>1, <3>2 DEF EventRows, Effects
    <3>5. e = [EventRow(i, "COMBINED", p) EXCEPT !.context = next, !.transition = t,
                   !.effect = "ADVANCE", !.submission = subid]
      BY DEF subid
    <3> HIDE DEF e
    <3> QED BY <3>1, <3>3, <3>4, <3>5 DEF EventRows
  <2> HIDE DEF vs, ss, cs, proj, e, next
  <2> QED BY <1>1, <1>2, <2>1, <2>3, <2>4, <2>5, <2>6 DEF RowsFit
<1>8. EventFits(i, identity[i], e)
  BY <1>1 DEF EventFits, EventRow, CurrentNode, CurrentVisit, VisitedNode, IntroducesContext
<1>9. NewRows(i, identity[i], proj, cs, vs, ss, e)
  <2>1. /\ TransitionDef[t].version = identity[i].version
        /\ TransitionDef[t].source = CurrentNode(i) /\ TransitionDef[t].effect = "ADVANCE"
        /\ NodeDef[CurrentNode(i)].primary = t
        /\ SequenceFree(i) /\ SourceFree(i)
    BY DEF ReviseContextAndTransition, CombinedVerdict
  <2>2. /\ crow \in ContextRow /\ srow \in SubmissionRow
        /\ next \in Nat /\ Len(submissions[i]) + 1 \in Nat \ {0}
    <3>1. contexts[i][projection[i].context] \in ContextRow /\ next \in Nat
      BY <1>2
    <3>2. contexts[i][projection[i].context].number + 1 \in Nat
      BY <3>1 DEF ContextRow
    <3>3. crow \in ContextRow
      BY <1>2, <3>2 DEF ContextRow
    <3>4. srow \in SubmissionRow
      <4> HIDE DEF next
      <4> QED BY <1>2, <3>1 DEF SubmissionRow
    <3>5. Len(submissions[i]) + 1 \in Nat \ {0}
      BY <1>2
    <3> QED BY <3>1, <3>3, <3>4, <3>5
  <2>3. /\ e.type = "COMBINED" /\ e.effect = "ADVANCE" /\ e.transition = t
        /\ e.submission = Len(submissions[i]) + 1 /\ e.actor = p /\ e.context = next
        /\ e.sequence = projection[i].version + 1 /\ e.old = projection[i].version
        /\ e.source = projection[i].visit /\ e.target = Len(visits[i]) + 1
    <3> DEFINE subid == Len(submissions[i]) + 1
    <3> HIDE DEF subid, next
    <3>1. LET f == [EventRow(i, "COMBINED", p) EXCEPT !.context = next, !.transition = t,
                        !.effect = "ADVANCE", !.submission = subid] IN
          /\ f.type = "COMBINED" /\ f.effect = "ADVANCE" /\ f.transition = t
          /\ f.submission = subid /\ f.actor = p /\ f.context = next
          /\ f.sequence = projection[i].version + 1 /\ f.old = projection[i].version
          /\ f.source = projection[i].visit /\ f.target = Len(visits[i]) + 1
      BY DEF EventRow
    <3> QED BY <3>1 DEF subid
  <2> HIDE DEF e
  <2>4. proj = [context |-> e.context, visit |-> e.target, version |-> projection[i].version + 1]
    BY <2>3
  <2>5. NewContext(i, identity[i], cs, e)
    <3>1. /\ crow.previous = projection[i].context /\ crow.author = p
          /\ crow.number = contexts[i][projection[i].context].number + 1
      OBVIOUS
    <3> HIDE DEF crow
    <3> QED BY <1>1, <2>2, <2>3, <3>1 DEF NewContext, IntroducesContext
  <2>6. NewVisit(i, identity[i], vs, e)
    <3> DEFINE row == [node |-> target, number |-> NextVisitNumber(i, target),
                       assignee |-> a, enteredBy |-> t]
    <3>1. row \in VisitRow
      <4>1. NextVisitNumber(i, target) \in Nat
        BY <1>3, NextNumber
      <4> QED BY <1>3, <1>5, <4>1 DEF VisitRow
    <3>2. vs = Append(visits[i], row)
      BY DEF VisitsWith
    <3>3. EventForm(i, identity[i], e, target)
      <4> HIDE DEF next
      <4> QED BY <1>1, <2>1, <2>2, <2>3 DEF EventForm, Moves
    <3>4. NodeDef[target].version = identity[i].version
      BY <1>1, <2>1, ArrowInVersion
    <3>5. (a = Nobody) <=> (NodeDef[target].type = "TERMINAL")
      BY <1>2, <1>3, <1>4, AssigneeOfNode DEF Inv
    <3>6. /\ row.node = target /\ row.number = NextVisitNumber(i, target)
          /\ row.assignee = a /\ row.enteredBy = t
      OBVIOUS
    <3> HIDE DEF row, vs, target
    <3> QED BY <2>3, <3>1, <3>2, <3>3, <3>4, <3>5, <3>6 DEF NewVisit, IntroducesVisit, Moves
  <2>7. NewSubmission(i, ss, e)
    <3>1. /\ srow.source = projection[i].visit /\ srow.context = e.context
          /\ srow.transition = t /\ srow.author = p
      BY <2>3
    <3> HIDE DEF srow
    <3> QED BY <2>1, <2>2, <2>3, <3>1 DEF NewSubmission, Moves
  <2> HIDE DEF proj, cs, vs, ss
  <2> QED BY <1>1, <2>1, <2>3, <2>4, <2>5, <2>6, <2>7 DEF NewRows
<1> HIDE DEF proj, cs, vs, ss, e
<1> QED BY <1>6, <1>7, <1>8, <1>9 DEF CommandStep

(* AdminEmergencyOverride: no context and no submission.                   *)
LEMMA OverrideStep ==
    ASSUME Inv, NEW p \in Principals, NEW i \in Instances, NEW n \in Nodes,
           NEW operation \in {"MOVE_TO_NODE", "TERMINATE_INSTANCE"}, NEW version,
           AdminEmergencyOverride(p, i, operation, n, version)
    PROVE  CommandStep(i)
<1> DEFINE proj == [projection[i] EXCEPT !.visit = Len(visits[i]) + 1, !.version = @ + 1]
           effect == IF operation = "MOVE_TO_NODE" THEN "ADVANCE" ELSE "TERMINATE"
           e == [EventRow(i, "OVERRIDE", p) EXCEPT !.effect = effect, !.before = projection[i]]
<1>1. Exists(i)
  BY DEF AdminEmergencyOverride, OverrideVerdict
<1>2. /\ projection[i] \in ProjectionRow /\ submissions[i] \in Seq(SubmissionRow)
      /\ contexts[i] \in Seq(ContextRow)
      /\ identity[i].creator \in Principals /\ identity[i].domain \in Domains
      /\ identity[i] \in [domain : Domains, version : Versions, creator : Principals]
      /\ projection[i].context \in DOMAIN contexts[i] /\ projection[i].visit \in DOMAIN visits[i]
  BY <1>1, ReadTypes
<1>4. PICK a \in OverrideAssignees(i, n) :
          AddVisit(i, n, NextVisitNumber(i, n), a, NoTransition)
  BY DEF AdminEmergencyOverride
<1>5. a \in Principals \cup {Nobody}
  BY <1>2, <1>4, AssigneeType DEF Inv, OverrideAssignees
<1> DEFINE vs == VisitsWith(i, n, a, NoTransition)
<1>6. Appends(i, identity[i], proj, contexts[i], vs, submissions[i], e)
  <2>1. /\ identity = [identity EXCEPT ![i] = identity[i]]
        /\ contexts = [contexts EXCEPT ![i] = contexts[i]]
        /\ submissions = [submissions EXCEPT ![i] = submissions[i]]
    BY DEF Inv, TypeOK
  <2>2. projection' = [projection EXCEPT ![i] = proj]
    BY DEF AdminEmergencyOverride, Move
  <2>3. visits' = [visits EXCEPT ![i] = vs]
    BY <1>4 DEF AddVisit, VisitsWith
  <2>4. events' = [events EXCEPT ![i] = Append(events[i], e)]
    BY DEF AdminEmergencyOverride, AddEvent
  <2> QED BY <2>1, <2>2, <2>3, <2>4 DEF AdminEmergencyOverride, Appends
<1>7. RowsFit(i, identity[i], proj, contexts[i], vs, submissions[i], e)
  <2>1. /\ vs \in Seq(VisitRow) /\ Len(visits[i]) \in Nat /\ Len(visits[i]) + 1 \in DOMAIN vs
        /\ \E row \in VisitRow : /\ vs = Append(visits[i], row)
                                 /\ row.number = NextVisitNumber(i, row.node)
    BY <1>5, OpenedVisit
  <2>4. /\ proj \in ProjectionRow /\ proj.context = projection[i].context
        /\ proj.visit = Len(visits[i]) + 1
    <3> DEFINE next == Len(visits[i]) + 1
    <3>1. next \in Nat
      BY <2>1
    <3> HIDE DEF next
    <3>2. /\ [projection[i] EXCEPT !.visit = next, !.version = @ + 1] \in ProjectionRow
          /\ [projection[i] EXCEPT !.visit = next, !.version = @ + 1].context = projection[i].context
          /\ [projection[i] EXCEPT !.visit = next, !.version = @ + 1].visit = next
      BY <1>2, <3>1, ProjectionMoves
    <3> QED BY <3>2 DEF next
  <2>5. /\ e \in EventRows /\ e.context = projection[i].context
        /\ e.target = Len(visits[i]) + 1 /\ e.source = projection[i].visit
    <3>1. EventRow(i, "OVERRIDE", p) \in EventRows
      BY EventRowType DEF EventTypes
    <3>2. effect \in Effects
      BY DEF Effects
    <3>3. /\ EventRow(i, "OVERRIDE", p).context = projection[i].context
          /\ EventRow(i, "OVERRIDE", p).target = Len(visits[i]) + 1
          /\ EventRow(i, "OVERRIDE", p).source = projection[i].visit
      BY DEF EventRow
    <3> HIDE DEF effect
    <3> QED BY <1>2, <3>1, <3>2, <3>3 DEF EventRows
  <2> HIDE DEF vs, proj, e
  <2> QED BY <1>1, <1>2, <2>1, <2>4, <2>5 DEF RowsFit
<1>8. EventFits(i, identity[i], e)
  BY <1>1 DEF EventFits, EventRow, IntroducesContext
<1>9. NewRows(i, identity[i], proj, contexts[i], vs, submissions[i], e)
  <2>1. /\ NodeDef[n].version = identity[i].version /\ SequenceFree(i)
        /\ (operation = "TERMINATE_INSTANCE") <=> (NodeDef[n].type = "TERMINAL")
    BY DEF AdminEmergencyOverride, OverrideVerdict
  <2>2. Len(visits[i]) + 1 \in Nat
    BY ReadTypes
  <2>3. /\ e.type = "OVERRIDE" /\ e.effect = effect /\ e.before = projection[i]
        /\ e.submission = 0 /\ e.context = projection[i].context
        /\ e.sequence = projection[i].version + 1 /\ e.old = projection[i].version
        /\ e.source = projection[i].visit /\ e.target = Len(visits[i]) + 1
    <3> HIDE DEF effect
    <3> QED BY DEF EventRow
  <2>4. proj = [context |-> e.context, visit |-> e.target, version |-> projection[i].version + 1]
    <3> DEFINE there == Len(visits[i]) + 1
    <3> HIDE DEF e, there
    <3>1. [projection[i] EXCEPT !.visit = there, !.version = @ + 1]
             = [context |-> projection[i].context, visit |-> there,
                version |-> projection[i].version + 1]
      BY <1>2, <2>2, ProjectionMoves DEF there
    <3> QED BY <2>3, <3>1 DEF there
  <2> HIDE DEF e
  <2>5. NewContext(i, identity[i], contexts[i], e)
    BY <2>3 DEF NewContext, IntroducesContext
  <2>6. NewVisit(i, identity[i], vs, e)
    <3> DEFINE row == [node |-> n, number |-> NextVisitNumber(i, n),
                       assignee |-> a, enteredBy |-> NoTransition]
    <3>1. row \in VisitRow
      <4>1. NextVisitNumber(i, n) \in Nat
        BY NextNumber
      <4> QED BY <1>5, <4>1 DEF VisitRow
    <3>2. vs = Append(visits[i], row)
      BY DEF VisitsWith
    <3>3. EventForm(i, identity[i], e, n)
      BY <1>1, <2>1, <2>3 DEF EventForm, Moves
    <3>4. (a = Nobody) <=> (NodeDef[n].type = "TERMINAL")
      BY <1>2, <1>4, AssigneeOfNode DEF Inv, OverrideAssignees
    <3>5. /\ row.node = n /\ row.number = NextVisitNumber(i, n)
          /\ row.assignee = a /\ row.enteredBy = NoTransition
      OBVIOUS
    <3> HIDE DEF row, vs
    <3> QED BY <2>1, <2>3, <3>1, <3>2, <3>3, <3>4, <3>5 DEF NewVisit, IntroducesVisit, Moves
  <2>7. NewSubmission(i, submissions[i], e)
    BY <2>3 DEF NewSubmission
  <2> HIDE DEF proj, vs
  <2> QED BY <1>1, <2>1, <2>3, <2>4, <2>5, <2>6, <2>7 DEF NewRows
<1> HIDE DEF proj, vs, e
<1> QED BY <1>6, <1>7, <1>8, <1>9 DEF CommandStep
--------------------------------------------------------------------------------
(* Any prefix of an instance's events replays to a projection row whose    *)
(* context and visit exist.                                                *)
LEMMA ReplayedFits ==
    ASSUME Inv, NEW i \in Instances, NEW k \in DOMAIN events[i]
    PROVE  /\ ReplayedBefore(i, k + 1) \in ProjectionRow
           /\ ReplayedBefore(i, k + 1).context \in DOMAIN contexts[i]
           /\ ReplayedBefore(i, k + 1).visit \in DOMAIN visits[i]
<1>1. /\ events[i] \in Seq(EventRows) /\ contexts[i] \in Seq(ContextRow)
      /\ visits[i] \in Seq(VisitRow)
  BY ReadTypes
<1>2. k \in Nat /\ k + 1 # 1 /\ (k + 1) - 1 = k
  BY <1>1
<1>3. ReplayedBefore(i, k + 1) = [context |-> events[i][k].context, visit |-> events[i][k].target,
                                  version |-> (k + 1) - 1]
  BY <1>2 DEF ReplayedBefore
<1>4. events[i][k].context \in DOMAIN contexts[i] /\ events[i][k].target \in DOMAIN visits[i]
  BY DEF Inv, EventsOK, EventOK
<1>5. events[i][k].context \in Nat /\ events[i][k].target \in Nat
  BY <1>1, <1>4
<1> QED BY <1>2, <1>3, <1>4, <1>5 DEF ProjectionRow

(* A step that only sets a created instance's projection row to a replayed *)
(* one keeps the invariant: RebuildProjection, and the damage it repairs.  *)
LEMMA ReplayKeepsInv ==
    ASSUME Inv, NEW i \in Instances, NEW k \in DOMAIN events[i], ReplayStep(i, k)
    PROVE  Inv'
<1> USE DEF ReplayStep
<1> DEFINE row == ReplayedBefore(i, k + 1)
<1>1. /\ row \in ProjectionRow /\ row.context \in DOMAIN contexts[i]
      /\ row.visit \in DOMAIN visits[i]
  BY ReplayedFits
<1>2. projection' = [projection EXCEPT ![i] = row]
  OBVIOUS
<1> HIDE DEF row
<1>3. TypeOK'
  <2>1. projection' \in [Instances -> ProjectionRow]
    BY <1>1, <1>2 DEF Inv, TypeOK
  <2>2. ASSUME NEW j \in Instances, Exists(j)
        PROVE  projection'[j].context \in DOMAIN contexts[j] /\ projection'[j].visit \in DOMAIN visits[j]
    <3>1. CASE j = i
      BY <1>1, <1>2, <3>1 DEF Inv, TypeOK
    <3>2. CASE j # i
      BY <1>2, <2>2, <3>2 DEF Inv, TypeOK
    <3> QED BY <3>1, <3>2
  <2> QED BY <2>1, <2>2 DEF Inv, TypeOK, Exists, facts
<1>4. EventsOK'
  BY SMTT(30) DEF Inv, EventsOK, EventOK, VisitedNode, facts
<1>6. RowsIffCreated'
  <2>1. \A j \in Instances : events[j] = <<>> => projection'[j] = projection[j]
    BY <1>2 DEF Inv, TypeOK
  <2> QED BY <2>1 DEF Inv, RowsIffCreated, Exists, facts
<1>5. VisitsNumbered'
  <2>1. visits' = visits
    BY DEF facts
  <2>2. \A j \in Instances, n \in Nodes : VisitNumbers(j, n)' = VisitNumbers(j, n)
    BY <2>1 DEF VisitNumbers, VisitedNode
  <2> QED BY <2>2 DEF Inv, VisitsNumbered
<1> QED BY <1>3, <1>4, <1>5, <1>6 DEF Inv

(* RebuildProjection sets the row to the replay of all the events.         *)
LEMMA RebuildStep ==
    ASSUME Inv, NEW p \in Principals, NEW i \in Instances, RebuildProjection(p, i)
    PROVE  \E k \in DOMAIN events[i] : ReplayStep(i, k)
<1>1. Exists(i)
  BY DEF RebuildProjection, RebuildVerdict
<1>2. events[i] \in Seq(EventRows) /\ events[i] # <<>>
  BY <1>1, ReadTypes DEF Inv, RowsIffCreated
<1>3. Len(events[i]) \in DOMAIN events[i]
  BY <1>2
<1> QED BY <1>3 DEF RebuildProjection, Replayed, ReplayStep

(* What changes outside an instance's rows keeps the invariant.            *)
LEMMA OutsideKeepsInv ==
    ASSUME Inv, OutsideStep
    PROVE  Inv'
<1> USE DEF OutsideStep
<1>1. TypeOK'
  BY DEF Inv, TypeOK, Exists, facts
<1>2. RowsIffCreated' /\ EventsOK'
  BY SMTT(30) DEF Inv, RowsIffCreated, EventsOK, EventOK, Exists, VisitedNode, facts
<1>3. VisitsNumbered'
  BY DEF Inv, VisitsNumbered, VisitNumbers, VisitedNode, facts
<1> QED BY <1>1, <1>2, <1>3 DEF Inv

(* Every step has one of the three forms.                                  *)
LEMMA StepForms == Inv /\ [Next]_vars => StepForm
<1> SUFFICES ASSUME Inv, [Next]_vars PROVE StepForm
  OBVIOUS
<1>1. TypeOK
  BY DEF Inv
<1>2. ASSUME NEW p \in Principals, NEW i \in Instances, NEW d \in Domains, NEW v \in Versions,
             CreateWorkflowInstance(p, d, v, i)
      PROVE  StepForm
  <2>1. PICK n \in OfType(GraphOf(v), "DRAFT") : \E a \in Assignees(n, p, d) :
            Open(i, "CREATED", p, p, d, v, n, a)
    BY <1>2 DEF CreateWorkflowInstance
  <2>2. n \in Nodes
    BY DEF OfType, NodeIds, GraphOf
  <2>3. PICK a \in Assignees(n, p, d) : Open(i, "CREATED", p, p, d, v, n, a)
    BY <2>1
  <2>4. a \in Principals \cup {Nobody}
    BY <1>1, <2>2, AssigneeType
  <2>5. ~Exists(i)
    BY <1>2 DEF CreateWorkflowInstance
  <2>6. NodeDef[n].version = v /\ NodeDef[n].type = "DRAFT"
    BY DEF OfType, NodeIds, GraphOf
  <2>7. (a = Nobody) <=> (NodeDef[n].type = "TERMINAL")
    BY <1>1, <2>2, AssigneeOfNode
  <2>8. VersionDomain[v] = d
    BY <1>2 DEF CreateWorkflowInstance, CreateVerdict
  <2> QED BY <2>2, <2>3, <2>4, <2>5, <2>6, <2>7, <2>8, OpenStep DEF StepForm
<1>3. ASSUME NEW s \in Principals, NEW i \in Instances, NEW d \in Domains, NEW v \in Versions,
             NEW n \in Nodes, NEW legacy \in Principals \cup {Nobody},
             ImportLegacyWorkflowInstance(s, d, v, n, legacy, i)
      PROVE  StepForm
  <2>1. PICK creator \in ImportCreators(legacy, d) : \E a \in ImportAssignees(n, creator, d) :
            Open(i, "IMPORTED", s, creator, d, v, n, a)
    BY <1>3 DEF ImportLegacyWorkflowInstance
  <2>2. EnabledOwners(d) \subseteq Principals
    BY DEF EnabledOwners, Owners
  <2>3. creator \in Principals
    <3>1. CASE legacy \in enabled \ Services
      <4>1. creator = legacy /\ legacy # Nobody
        BY <1>1, <2>1, <3>1, NullAssumption DEF ImportCreators, TypeOK
      <4> QED BY <4>1
    <3>2. CASE legacy \notin enabled \ Services
      BY <2>1, <2>2, <3>2 DEF ImportCreators
    <3> QED BY <3>1, <3>2
  <2>a. PICK a \in ImportAssignees(n, creator, d) : Open(i, "IMPORTED", s, creator, d, v, n, a)
    BY <2>1
  <2>4. a \in Principals \cup {Nobody}
    <3>1. NodeDef[n].assignee \in AssigneeRefs /\ NodeDef[n].fixed \in Principals \cup {Nobody}
      BY DefinitionAssumption DEF NodeRow
    <3> QED BY <2>a, <2>2, <2>3, <3>1 DEF ImportAssignees, AssigneeRefs
  <2>5. /\ ~Exists(i) /\ NodeDef[n].version = v /\ s \in Services /\ VersionDomain[v] = d
    BY <1>3 DEF ImportLegacyWorkflowInstance, ImportVerdict
  <2>6. creator \notin Services
    BY <2>1 DEF ImportCreators, EnabledOwners
  <2>7. (a = Nobody) <=> (NodeDef[n].type = "TERMINAL")
    <3>1. Nobody \notin enabled
      BY <1>1, NullAssumption DEF TypeOK
    <3> QED BY <2>a, <3>1 DEF ImportAssignees
  <2> QED BY <2>a, <2>3, <2>4, <2>5, <2>6, <2>7, OpenStep DEF StepForm
<1>4. ASSUME NEW p \in Principals, NEW i \in Instances, OrdinaryCommand(p, i) PROVE StepForm
  <2>1. ASSUME NEW t \in Transitions, NEW sub \in Submissions(i, t),
               ExecuteWorkflowTransition(p, i, t, projection[i].version, sub)
        PROVE  StepForm
    <3>1. Len(visits[i]) + 1 \in Nat /\ Len(submissions[i]) + 1 \in Nat
      BY ReadTypes
    <3>2. sub.root \in Nat /\ sub.related \in Nat
      BY <3>1 DEF Submissions, NoSubmission
    <3> QED BY <2>1, <3>2, TransitionStep DEF StepForm
  <2> QED BY <1>2, <1>4, <2>1, ReviseStep, CombinedStep DEF OrdinaryCommand, StepForm
<1>5. ASSUME NEW p \in Principals, NEW i \in Instances, AdminCommand(p, i) PROVE StepForm
  BY <1>3, <1>5, OverrideStep, RebuildStep DEF AdminCommand, StepForm
<1>6. ASSUME NEW p \in Principals, NEW v \in Versions, Lifecycle(p, v) PROVE StepForm
  <2>1. ASSUME NEW source, NEW status \in Statuses, SetStatus(p, v, source, status)
        PROVE  StepForm
    <3>1. /\ UNCHANGED <<enabled, bindings, identity, projection, facts>>
          /\ versionStatus' \in [Versions -> Statuses]
      BY <1>1, <2>1 DEF SetStatus, TypeOK
    <3>2. /\ enabled' \subseteq Principals \cup Domains
          /\ bindings' \subseteq Domains \X Principals \X Roles
      BY <1>1, <3>1 DEF TypeOK
    <3> QED BY <3>1, <3>2 DEF OutsideStep, StepForm
  <2> QED BY <1>6, <2>1 DEF Lifecycle, PublishVersion, DeprecateVersion, RevokeVersion, Statuses
<1>7. ASSUME NEW x \in Switchable, Switch(x) PROVE StepForm
  <2>1. /\ UNCHANGED <<identity, projection, facts>>
        /\ enabled' \subseteq Principals \cup Domains
    BY <1>1, <1>7, BoundAssumption DEF Switch, TypeOK
  <2>2. /\ bindings' \subseteq Domains \X Principals \X Roles
        /\ versionStatus' \in [Versions -> Statuses]
    BY <1>1, <1>7 DEF Switch, TypeOK
  <2> QED BY <2>1, <2>2 DEF OutsideStep, StepForm
<1>8. ASSUME NEW b \in Grantable, ChangeRole(b[1], b[2], b[3]) PROVE StepForm
  <2>1. <<b[1], b[2], b[3]>> \in Domains \X Principals \X Roles
    BY BoundAssumption
  <2>2. /\ UNCHANGED <<enabled, versionStatus, identity, projection, facts>>
        /\ bindings' \subseteq bindings \cup {<<b[1], b[2], b[3]>>}
    BY <1>8 DEF ChangeRole
  <2>3. /\ enabled' \subseteq Principals \cup Domains
        /\ bindings' \subseteq Domains \X Principals \X Roles
        /\ versionStatus' \in [Versions -> Statuses]
    BY <1>1, <2>1, <2>2 DEF TypeOK
  <2> QED BY <2>2, <2>3 DEF OutsideStep, StepForm
<1>9. ASSUME NEW i \in Driftable, Drift(i) PROVE StepForm
  <2>1. PICK k \in 1..Len(events[i]) :
            projection' = [projection EXCEPT ![i] = ReplayedBefore(i, k + 1)]
    BY <1>9 DEF Drift
  <2>2. i \in Instances
    BY BoundAssumption
  <2>3. k \in DOMAIN events[i]
    BY <2>2, ReadTypes
  <2> QED BY <1>9, <2>1, <2>2, <2>3 DEF Drift, ReplayStep, StepForm
<1>10. CASE UNCHANGED vars
  <2>1. /\ UNCHANGED <<identity, projection, facts>>
        /\ enabled' \subseteq Principals \cup Domains
        /\ bindings' \subseteq Domains \X Principals \X Roles
        /\ versionStatus' \in [Versions -> Statuses]
    BY <1>1, <1>10 DEF vars, TypeOK
  <2> QED BY <2>1 DEF OutsideStep, StepForm
<1> QED BY <1>4, <1>5, <1>6, <1>7, <1>8, <1>9, <1>10 DEF Next, Environment

(* Every step keeps the invariant.                                         *)
LEMMA InvStep == Inv /\ [Next]_vars => Inv'
<1> SUFFICES ASSUME Inv, [Next]_vars PROVE Inv'
  OBVIOUS
<1>1. ASSUME NEW i \in Instances, CommandStep(i) PROVE Inv'
  BY <1>1, AppendKeepsInv DEF CommandStep
<1> QED BY <1>1, StepForms, ReplayKeepsInv, OutsideKeepsInv DEF StepForm

--------------------------------------------------------------------------------
(* What the recovery code will find.  The row is the replay of the events, *)
(* unless it fell back, which its version shows; the last event has the    *)
(* last context; the visits of a node are as many as the events opened;    *)
(* and what the properties say of submissions, references and the way an   *)
(* instance goes is put so that the next event can only add to it.         *)
ProjectionOK(i) ==
    /\ projection[i].version \in 1..Len(events[i])
    /\ projection[i].version = Len(events[i]) => projection[i] = Replayed(i)

VisitsCounted(i) ==
    \A n \in Nodes : VisitNumbers(i, n) = 1..VisitCount(i, Len(events[i]), n)

SubmissionOK(i, s) ==
    LET row == submissions[i][s] IN
    /\ row.source \in DOMAIN visits[i]
    /\ row.author = visits[i][row.source].assignee
    /\ \E k \in DOMAIN events[i] : /\ events[i][k].submission = s
                                   /\ events[i][k].source = row.source
                                   /\ events[i][k].context = row.context
    /\ \A r \in DOMAIN submissions[i] : r # s => submissions[i][r].source # row.source

ReferencesOK(i, k) ==
    LET e == events[i][k] IN
    (e.effect = "RETURN" /\ e.submission # 0)
        => /\ e.submission \in DOMAIN submissions[i]
           /\ submissions[i][e.submission].root \in 1..(e.target - 1)
           /\ submissions[i][e.submission].related \in 0..(e.submission - 1)

Onward(i, j, k) ==
    LET earlier == VisitedNode(i, events[i][j].target)
        later   == VisitedNode(i, events[i][k].target) IN
    Stretch(i, j, k) =>
        /\ NodeDef[earlier].type # "TERMINAL"
        /\ events[i][k].effect # "TERMINATE" => NodeDef[earlier].order <= NodeDef[later].order
        /\ IntroducesVisit(events[i][k]) => earlier # later

ContextAuthored(i, k) ==
    LET e == events[i][k] IN
    (k > 1 /\ IntroducesContext(e)) => contexts[i][e.context].author = e.actor

RecordOK(i) ==
    /\ VersionDomain[identity[i].version] = identity[i].domain
    /\ Replayed(i).context = Len(contexts[i])
    /\ ReplayAccepts(i)
    /\ VisitsCounted(i)
    /\ \A s \in DOMAIN submissions[i] : SubmissionOK(i, s)
    /\ \A k \in DOMAIN events[i] : ReferencesOK(i, k) /\ ContextAuthored(i, k)
    /\ \A j, k \in DOMAIN events[i] : Onward(i, j, k)

HistoryOK == \A i \in Instances : Exists(i) => ProjectionOK(i) /\ RecordOK(i)

HInv == Inv /\ HistoryOK

(* Initially no instance exists.                                           *)
LEMMA HInvInit == Init => HInv
  BY InvInit DEF HInv, HistoryOK, Init, Exists

(* A command runs only on a row that has not fallen back: the sequence it  *)
(* would give its event is otherwise taken.                                *)
LEMMA Undrifted ==
    ASSUME HInv, NEW i \in Instances, SequenceFree(i)
    PROVE  /\ projection[i] = Replayed(i) /\ projection[i].version = Len(events[i])
           /\ projection[i].context = Len(contexts[i])
           /\ Exists(i) <=> Len(events[i]) > 0
           /\ Len(events[i]) \in Nat
<1>1. events[i] \in Seq(EventRows) /\ Len(events[i]) \in Nat
  BY ReadTypes DEF HInv
<1>2. CASE Exists(i)
  <2>1. ProjectionOK(i) /\ RecordOK(i) /\ events[i] # <<>>
    BY <1>2 DEF HInv, HistoryOK, Inv, RowsIffCreated
  <2>2. \A k \in DOMAIN events[i] : events[i][k].sequence = k
    BY <2>1 DEF RecordOK, ReplayAccepts, EventReplays
  <2>3. projection[i].version \in 1..Len(events[i])
    BY <2>1 DEF ProjectionOK
  <2>4. projection[i].version + 1 \notin DOMAIN events[i]
    BY <2>2, <1>1 DEF SequenceFree
  <2>5. projection[i].version = Len(events[i])
    BY <1>1, <2>3, <2>4
  <2>6. Len(events[i]) > 0
    BY <1>1, <2>3
  <2> QED BY <1>1, <1>2, <2>1, <2>5, <2>6 DEF ProjectionOK, RecordOK
<1>3. CASE ~Exists(i)
  <2>1. events[i] = <<>> /\ contexts[i] = <<>> /\ projection[i] = NoProjection
    BY <1>3 DEF HInv, Inv, RowsIffCreated
  <2>2. Replayed(i) = NoProjection
    BY <2>1 DEF Replayed, ReplayedBefore
  <2>3. NoProjection.version = 0 /\ NoProjection.context = 0
    BY DEF NoProjection
  <2> QED BY <1>3, <2>1, <2>2, <2>3
<1> QED BY <1>2, <1>3

--------------------------------------------------------------------------------
(* The rows an instance had are there and unchanged after a step.          *)
Prefix(s, t) == \A k \in DOMAIN s : k \in DOMAIN t /\ t[k] = s[k]
Extended(i) ==
    /\ identity'[i] = identity[i]
    /\ Prefix(contexts[i], contexts'[i]) /\ Prefix(visits[i], visits'[i])
    /\ Prefix(submissions[i], submissions'[i]) /\ Prefix(events[i], events'[i])

(* The events of an instance lie in 1..Len and refer to rows there are.    *)
LEMMA EventsThere ==
    ASSUME Inv, NEW i \in Instances
    PROVE  /\ DOMAIN events[i] = 1..Len(events[i]) /\ Len(events[i]) \in Nat
           /\ DOMAIN visits[i] = 1..Len(visits[i]) /\ Len(visits[i]) \in Nat
           /\ DOMAIN contexts[i] = 1..Len(contexts[i]) /\ Len(contexts[i]) \in Nat
           /\ DOMAIN submissions[i] = 1..Len(submissions[i]) /\ Len(submissions[i]) \in Nat
           /\ \A k \in DOMAIN events[i] : /\ events[i][k] \in EventRows
                                          /\ events[i][k].context \in DOMAIN contexts[i]
                                          /\ events[i][k].target \in DOMAIN visits[i]
           /\ \A k \in DOMAIN visits[i] : visits[i][k] \in VisitRow
<1>1. /\ events[i] \in Seq(EventRows) /\ visits[i] \in Seq(VisitRow)
      /\ contexts[i] \in Seq(ContextRow) /\ submissions[i] \in Seq(SubmissionRow)
  BY ReadTypes
<1>2. \A k \in DOMAIN events[i] : EventOK(i, k)
  BY DEF Inv, EventsOK
<1> QED BY <1>1, <1>2 DEF EventOK

(* So what the recovery code counts up to an old event stays.              *)
LEMMA CountStays ==
    ASSUME Inv, NEW i \in Instances, NEW k \in 0..Len(events[i]), NEW n,
           Prefix(visits[i], visits'[i]), Prefix(events[i], events'[i])
    PROVE  VisitCount(i, k, n)' = VisitCount(i, k, n)
<1>1. \A j \in 1..k : j \in DOMAIN events[i]
  BY EventsThere
<1>2. \A j \in 1..k : events'[i][j] = events[i][j]
  BY <1>1 DEF Prefix
<1>3. \A j \in 1..k : visits'[i][events[i][j].target] = visits[i][events[i][j].target]
  BY <1>1, EventsThere DEF Prefix
<1>4. {j \in 1..k : IntroducesVisit(events'[i][j]) /\ visits'[i][events'[i][j].target].node = n}
        = {j \in 1..k : IntroducesVisit(events[i][j]) /\ visits[i][events[i][j].target].node = n}
  BY <1>2, <1>3
<1> QED BY <1>4 DEF VisitCount, VisitedNode, IntroducesVisit

(* And an event that replayed replays.                                     *)
LEMMA EventStays ==
    ASSUME Inv, NEW i \in Instances, Extended(i), NEW k \in DOMAIN events[i], EventReplays(i, k)
    PROVE  EventReplays(i, k)'
<1> DEFINE e == events[i][k]
<1>1. /\ k \in 1..Len(events[i]) /\ events'[i][k] = e
      /\ e.context \in DOMAIN contexts[i] /\ e.target \in DOMAIN visits[i]
      /\ e.context \in DOMAIN contexts'[i] /\ e.target \in DOMAIN visits'[i]
      /\ contexts'[i][e.context] = contexts[i][e.context]
      /\ visits'[i][e.target] = visits[i][e.target]
  BY EventsThere DEF Extended, Prefix
<1>2. \A l \in 1..k : l \in DOMAIN events[i] /\ events'[i][l] = events[i][l]
  BY <1>1, EventsThere DEF Extended, Prefix
<1>3. ReplayedBefore(i, k)' = ReplayedBefore(i, k)
  <2>1. k # 1 => k - 1 \in 1..k
    BY <1>1
  <2> QED BY <1>2, <2>1 DEF ReplayedBefore, NoProjection
<1>4. IntroducesOnce(i, k)'
  <2>1. IntroducesOnce(i, k) /\ \A l \in 1..(k - 1) : events'[i][l] = events[i][l]
    BY <1>1, <1>2 DEF EventReplays
  <2>2. \A n : VisitCount(i, k, n)' = VisitCount(i, k, n)
    BY <1>1, CountStays DEF Extended
  <2> HIDE DEF e
  <2>3. VisitedNode(i, e.target)' = VisitedNode(i, e.target)
    BY <1>1 DEF VisitedNode, e
  <2> QED BY <1>1, <2>1, <2>2, <2>3
          DEF IntroducesOnce, IntroducesContext, IntroducesVisit, IntroducesSubmission, VisitedNode, e
<1>5. ContextFollows(i, e, ReplayedBefore(i, k)) => ContextFollows(i, e, ReplayedBefore(i, k))'
  BY <1>1, <1>3 DEF ContextFollows, Extended, Prefix
<1>6. e.source \in DOMAIN visits[i] =>
         e.source \in DOMAIN visits'[i] /\ visits'[i][e.source] = visits[i][e.source]
  BY DEF Extended, Prefix
<1>7. e.submission \in DOMAIN submissions[i] =>
         /\ e.submission \in DOMAIN submissions'[i]
         /\ submissions'[i][e.submission] = submissions[i][e.submission]
  BY DEF Extended, Prefix
<1>8. SubmissionMatches(i, e) => SubmissionMatches(i, e)'
  BY <1>1, <1>7 DEF SubmissionMatches
<1>9. identity'[i] = identity[i]
  BY DEF Extended
<1>10. MoveReplays(i, k) => MoveReplays(i, k)'
  BY <1>1, <1>3, <1>6, <1>9 DEF MoveReplays, VisitedNode
<1>11. InitialReplays(i, k) => InitialReplays(i, k)'
  BY <1>1, <1>9 DEF InitialReplays
<1>12. RevisionReplays(i, k) => RevisionReplays(i, k)'
  BY <1>1, <1>3, <1>5, <1>6 DEF RevisionReplays, VisitedNode
<1>13. TransitionReplays(i, k) => TransitionReplays(i, k)'
  BY <1>1, <1>3, <1>8, <1>10 DEF TransitionReplays
<1>14. CombinedReplays(i, k) => CombinedReplays(i, k)'
  BY <1>1, <1>3, <1>5, <1>8, <1>10 DEF CombinedReplays
<1>15. OverrideReplays(i, k) => OverrideReplays(i, k)'
  BY <1>1, <1>3, <1>6 DEF OverrideReplays, VisitedNode
<1> QED BY <1>1, <1>4, <1>11, <1>12, <1>13, <1>14, <1>15 DEF EventReplays

--------------------------------------------------------------------------------
(* A command adds event e to instance i, and leaves the others as they are. *)
Added(i, e) ==
    /\ RowsFit(i, identity'[i], projection'[i], contexts'[i], visits'[i], submissions'[i], e)
    /\ EventFits(i, identity'[i], e)
    /\ NewRows(i, identity'[i], projection'[i], contexts'[i], visits'[i], submissions'[i], e)
    /\ events'[i] = Append(events[i], e)

SameRecord(i) ==
    /\ identity'[i] = identity[i] /\ contexts'[i] = contexts[i] /\ visits'[i] = visits[i]
    /\ submissions'[i] = submissions[i] /\ events'[i] = events[i]

(* The rows that a command names are the ones it leaves.                   *)
LEMMA CommandAdds ==
    ASSUME Inv, NEW i \in Instances, CommandStep(i)
    PROVE  /\ \E e : Added(i, e)
           /\ \A j \in Instances \ {i} : SameRecord(j) /\ projection'[j] = projection[j]
<1>1. PICK id, proj, cs, vs, ss, e : /\ Appends(i, id, proj, cs, vs, ss, e)
                                     /\ RowsFit(i, id, proj, cs, vs, ss, e)
                                     /\ EventFits(i, id, e)
                                     /\ NewRows(i, id, proj, cs, vs, ss, e)
  BY DEF CommandStep
<1>2. /\ identity'[i] = id /\ contexts'[i] = cs /\ visits'[i] = vs /\ submissions'[i] = ss
      /\ events'[i] = Append(events[i], e) /\ projection'[i] = proj
      /\ \A j \in Instances \ {i} : SameRecord(j) /\ projection'[j] = projection[j]
  BY <1>1 DEF Inv, TypeOK, Appends, SameRecord
<1>3. Added(i, e)
  BY <1>1, <1>2 DEF Added
<1> QED BY <1>2, <1>3

(* The tables afterwards: what was there, and the new rows.                *)
LEMMA AddedRows ==
    ASSUME HInv, NEW i \in Instances, NEW e, Added(i, e)
    PROVE  /\ e \in EventRows /\ Len(events'[i]) = Len(events[i]) + 1
           /\ DOMAIN events'[i] = DOMAIN events[i] \cup {Len(events[i]) + 1}
           /\ events'[i][Len(events[i]) + 1] = e
           /\ Prefix(events[i], events'[i]) /\ Prefix(visits[i], visits'[i])
           /\ Prefix(contexts[i], contexts'[i]) /\ Prefix(submissions[i], submissions'[i])
           /\ Exists(i) => Extended(i)
           /\ Exists(i)'
<1>1. /\ events[i] \in Seq(EventRows) /\ visits[i] \in Seq(VisitRow)
      /\ contexts[i] \in Seq(ContextRow) /\ submissions[i] \in Seq(SubmissionRow)
  BY ReadTypes DEF HInv
<1>2. e \in EventRows /\ events'[i] = Append(events[i], e)
  BY DEF Added, RowsFit
<1>3. /\ Len(events'[i]) = Len(events[i]) + 1
      /\ DOMAIN events'[i] = DOMAIN events[i] \cup {Len(events[i]) + 1}
      /\ events'[i][Len(events[i]) + 1] = e
      /\ Prefix(events[i], events'[i])
  BY <1>1, <1>2 DEF Prefix
<1>4. Prefix(visits[i], visits'[i])
  <2>1. ASSUME NEW row \in VisitRow, visits'[i] = Append(visits[i], row)
        PROVE  Prefix(visits[i], visits'[i])
    BY <1>1, <2>1 DEF Prefix
  <2>2. visits'[i] = visits[i] => Prefix(visits[i], visits'[i])
    BY DEF Prefix
  <2> QED BY <2>1, <2>2 DEF Added, RowsFit
<1>5. Prefix(contexts[i], contexts'[i])
  <2>1. ASSUME NEW row \in ContextRow, contexts'[i] = Append(contexts[i], row)
        PROVE  Prefix(contexts[i], contexts'[i])
    BY <1>1, <2>1 DEF Prefix
  <2>2. contexts'[i] = contexts[i] => Prefix(contexts[i], contexts'[i])
    BY DEF Prefix
  <2> QED BY <2>1, <2>2 DEF Added, NewRows, NewContext
<1>6. Prefix(submissions[i], submissions'[i])
  <2>1. ASSUME NEW row \in SubmissionRow, submissions'[i] = Append(submissions[i], row)
        PROVE  Prefix(submissions[i], submissions'[i])
    BY <1>1, <2>1 DEF Prefix
  <2>2. submissions'[i] = submissions[i] => Prefix(submissions[i], submissions'[i])
    BY DEF Prefix
  <2> QED BY <2>1, <2>2 DEF Added, NewRows, NewSubmission
<1>7. Exists(i) => identity'[i] = identity[i]
  BY DEF Added, RowsFit
<1>8. Exists(i)'
  BY NullAssumption DEF Added, RowsFit, Exists
<1> QED BY <1>2, <1>3, <1>4, <1>5, <1>6, <1>7, <1>8 DEF Extended

(* What the new event follows on is the projection row.                    *)
LEMMA AddedBefore ==
    ASSUME HInv, NEW i \in Instances, NEW e, Added(i, e)
    PROVE  /\ \A k : k = Len(events[i]) + 1 => ReplayedBefore(i, k)' = projection[i]
           /\ projection[i].version = Len(events[i]) /\ projection[i].context = Len(contexts[i])
           /\ Exists(i) <=> Len(events[i]) > 0
           /\ Len(events[i]) \in Nat
           /\ ProjectionOK(i)'
           /\ Replayed(i)'.context = e.context /\ Replayed(i)'.visit = e.target
           /\ e.source = projection[i].visit
<1> DEFINE n == Len(events[i])
<1>1. SequenceFree(i) /\ e.source = projection[i].visit
  BY DEF Added, NewRows
<1>2. /\ projection[i] = Replayed(i) /\ projection[i].version = n
      /\ projection[i].context = Len(contexts[i]) /\ n \in Nat
      /\ Exists(i) <=> n > 0
  BY <1>1, Undrifted
<1>3. /\ Len(events'[i]) = n + 1 /\ events'[i][n + 1] = e
      /\ \A k \in 1..n : events'[i][k] = events[i][k]
  BY AddedRows, EventsThere DEF HInv, Prefix
<1>4. ASSUME NEW k, k = n + 1 PROVE ReplayedBefore(i, k)' = projection[i]
  <2>1. k # 1 => events'[i][k - 1] = events[i][k - 1]
    BY <1>2, <1>3, <1>4
  <2> QED BY <1>2, <1>4, <2>1 DEF Replayed, ReplayedBefore, NoProjection
<1>5. Replayed(i)' = [context |-> e.context, visit |-> e.target, version |-> n + 1]
  BY <1>2, <1>3 DEF Replayed, ReplayedBefore
<1>6. projection'[i] = [context |-> e.context, visit |-> e.target, version |-> n + 1]
  BY <1>2 DEF Added, NewRows
<1>7. ProjectionOK(i)'
  BY <1>2, <1>3, <1>5, <1>6 DEF ProjectionOK
<1> QED BY <1>1, <1>2, <1>4, <1>5, <1>7

(* The context chain goes on.                                              *)
LEMMA AddedContexts ==
    ASSUME HInv, NEW i \in Instances, NEW e, Added(i, e)
    PROVE  /\ ContextFactsValid(i)' /\ e.context = Len(contexts'[i])
           /\ e.context \in DOMAIN contexts'[i]
           /\ IntroducesContext(e) =>
                 /\ e.context = Len(contexts[i]) + 1
                 /\ DOMAIN contexts'[i] = DOMAIN contexts[i] \cup {e.context}
                 /\ contexts'[i][e.context].number = e.context
                 /\ contexts'[i][e.context].previous = e.context - 1
                 /\ contexts'[i][e.context].author
                        = IF Exists(i) THEN e.actor ELSE identity'[i].creator
           /\ ~IntroducesContext(e) =>
                 contexts'[i] = contexts[i] /\ e.context = projection[i].context
<1> DEFINE m == Len(contexts[i])
<1>1. /\ contexts[i] \in Seq(ContextRow) /\ m \in Nat /\ DOMAIN contexts[i] = 1..m
  BY ReadTypes, EventsThere DEF HInv
<1>2. projection[i].context = m
  BY AddedBefore
<1>3. IF Exists(i) THEN ContextFactsValid(i) ELSE contexts[i] = <<>>
  BY DEF HInv, HistoryOK, RecordOK, ReplayAccepts, Inv, RowsIffCreated
<1>4. e.context \in DOMAIN contexts'[i]
  BY DEF Added, RowsFit
<1>5. CASE contexts'[i] = contexts[i] /\ ~IntroducesContext(e) /\ e.context = projection[i].context
  <2>1. contexts[i] # <<>>
    BY <1>1, <1>4, <1>5
  <2> QED BY <1>2, <1>3, <1>4, <1>5, <2>1 DEF ContextFactsValid
<1>6. ASSUME NEW row \in ContextRow, contexts'[i] = Append(contexts[i], row),
             IntroducesContext(e), e.context = m + 1, row.previous = projection[i].context,
             row.number = IF Exists(i) THEN contexts[i][projection[i].context].number + 1 ELSE 1,
             row.author = IF Exists(i) THEN e.actor ELSE identity'[i].creator
      PROVE  /\ ContextFactsValid(i)' /\ e.context = Len(contexts'[i])
             /\ DOMAIN contexts'[i] = DOMAIN contexts[i] \cup {e.context}
             /\ contexts'[i][e.context] = row /\ row.number = e.context
             /\ row.previous = e.context - 1
  <2>1. /\ DOMAIN contexts'[i] = DOMAIN contexts[i] \cup {m + 1} /\ contexts'[i][m + 1] = row
        /\ Len(contexts'[i]) = m + 1 /\ contexts'[i] # <<>>
        /\ \A c \in DOMAIN contexts[i] : contexts'[i][c] = contexts[i][c]
    BY <1>1, <1>6
  <2>2. row.number = m + 1
    <3>1. CASE Exists(i)
      <4>1. m \in DOMAIN contexts[i]
        BY <1>1, <1>3, <3>1 DEF ContextFactsValid
      <4> QED BY <1>2, <1>3, <1>6, <3>1, <4>1 DEF ContextFactsValid
    <3>2. CASE ~Exists(i)
      BY <1>3, <1>6, <3>2
    <3> QED BY <3>1, <3>2
  <2>3. row.previous = m /\ (m + 1) - 1 = m
    BY <1>1, <1>2, <1>6
  <2>4. \A c \in DOMAIN contexts[i] : contexts[i][c].number = c /\ contexts[i][c].previous = c - 1
    BY <1>1, <1>3 DEF ContextFactsValid
  <2>5. ContextFactsValid(i)'
    BY <2>1, <2>2, <2>3, <2>4 DEF ContextFactsValid
  <2> QED BY <1>6, <2>1, <2>2, <2>3, <2>5
<1>7. NewContext(i, identity'[i], contexts'[i], e)
  BY DEF Added, NewRows
<1> QED BY <1>4, <1>5, <1>6, <1>7, <1>2, <1>1 DEF NewContext

(* The first m events are finitely many.                                   *)
LEMMA FirstFinite == \A m \in Nat : IsFiniteSet(1..m)
  BY FS_Interval

(* The new event adds one to the count of its node when it opens a visit.  *)
LEMMA CountGrows ==
    ASSUME HInv, NEW i \in Instances, NEW e, Added(i, e), NEW k, k = Len(events[i]) + 1, NEW n
    PROVE  /\ VisitCount(i, Len(events[i]), n) \in Nat
           /\ IF IntroducesVisit(e) /\ visits'[i][e.target].node = n
                THEN VisitCount(i, k, n)' = VisitCount(i, Len(events[i]), n) + 1
                ELSE VisitCount(i, k, n)' = VisitCount(i, Len(events[i]), n)
<1> DEFINE N == Len(events[i])
           Old == {j \in 1..N : IntroducesVisit(events[i][j]) /\ VisitedNode(i, events[i][j].target) = n}
           Here == {j \in 1..k : IntroducesVisit(events'[i][j])
                                 /\ visits'[i][events'[i][j].target].node = n}
<1>1. /\ N \in Nat /\ events'[i][k] = e
      /\ \A j \in 1..N : events'[i][j] = events[i][j]
      /\ \A j \in 1..N : visits'[i][events[i][j].target] = visits[i][events[i][j].target]
  BY AddedRows, EventsThere DEF HInv, Prefix
<1>2. IsFiniteSet(Old) /\ Cardinality(Old) \in Nat
  <2>1. IsFiniteSet(1..N)
    BY <1>1, FirstFinite
  <2>2. IsFiniteSet(Old)
    BY <2>1, FS_Subset
  <2> QED BY <2>2, FS_CardinalityType
<1>3. k \notin Old /\ 1..k = (1..N) \cup {k}
  BY <1>1
<1>4. Here = IF IntroducesVisit(e) /\ visits'[i][e.target].node = n THEN Old \cup {k} ELSE Old
  BY <1>1, <1>3 DEF VisitedNode
<1>5. Cardinality(Old \cup {k}) = Cardinality(Old) + 1
  BY <1>2, <1>3, FS_AddElement
<1>6. VisitCount(i, k, n)' = Cardinality(Here) /\ VisitCount(i, N, n) = Cardinality(Old)
  BY DEF VisitCount, VisitedNode, IntroducesVisit
<1> HIDE DEF Here, Old
<1> QED BY <1>2, <1>4, <1>5, <1>6

(* A visit the event opens is numbered by that count.                      *)
LEMMA AddedVisits ==
    ASSUME HInv, NEW i \in Instances, NEW e, Added(i, e), NEW k, k = Len(events[i]) + 1
    PROVE  /\ VisitFactsValid(i)' /\ VisitsCounted(i)'
           /\ e.target \in DOMAIN visits'[i]
           /\ EventForm(i, identity'[i], e, visits'[i][e.target].node)
           /\ ~IntroducesVisit(e) => visits'[i] = visits[i] /\ e.target = projection[i].visit
           /\ IntroducesVisit(e) =>
                 /\ e.target = Len(visits[i]) + 1
                 /\ DOMAIN visits'[i] = DOMAIN visits[i] \cup {e.target}
                 /\ \A n : n = visits'[i][e.target].node =>
                              visits'[i][e.target].number = VisitCount(i, k, n)'
                 /\ (visits'[i][e.target].assignee = Nobody)
                       <=> (NodeDef[visits'[i][e.target].node].type = "TERMINAL")
                 /\ visits'[i][e.target].enteredBy = IF Moves(e) THEN e.transition ELSE NoTransition
<1> DEFINE N == Len(events[i])
           last == Len(visits[i]) + 1
<1>1. /\ visits[i] \in Seq(VisitRow) /\ N \in Nat /\ last \in Nat
      /\ DOMAIN visits[i] = 1..Len(visits[i]) /\ Len(events'[i]) = k
  BY ReadTypes, EventsThere, AddedRows DEF HInv
<1>0. \A n : /\ VisitCount(i, N, n) \in Nat
             /\ IF IntroducesVisit(e) /\ visits'[i][e.target].node = n
                  THEN VisitCount(i, k, n)' = VisitCount(i, N, n) + 1
                  ELSE VisitCount(i, k, n)' = VisitCount(i, N, n)
  BY CountGrows
<1>2. /\ \A n \in Nodes : VisitNumbers(i, n) = 1..VisitCount(i, N, n)
      /\ visits[i] # <<>> => VisitFactsValid(i) /\ identity'[i] = identity[i]
  <2>1. CASE Exists(i)
    BY <2>1, AddedRows DEF HInv, HistoryOK, RecordOK, ReplayAccepts, VisitsCounted, Extended
  <2>2. CASE ~Exists(i)
    <3>1. visits[i] = <<>> /\ events[i] = <<>>
      BY <2>2 DEF HInv, Inv, RowsIffCreated
    <3>2. \A n : VisitNumbers(i, n) = {}
      BY <3>1 DEF VisitNumbers
    <3>3. \A n : VisitCount(i, N, n) = 0
      <4>1. \A n : {j \in 1..N : IntroducesVisit(events[i][j])
                                 /\ VisitedNode(i, events[i][j].target) = n} = {}
        BY <3>1
      <4> QED BY <4>1, FS_EmptySet DEF VisitCount
    <3>4. 1..0 = {}
      OBVIOUS
    <3> HIDE DEF N
    <3> QED BY <3>1, <3>2, <3>3, <3>4
  <2> QED BY <2>1, <2>2
<1>3. CASE /\ visits'[i] = visits[i] /\ e.type = "REVISED" /\ e.target = projection[i].visit
           /\ EventForm(i, identity'[i], e, CurrentNode(i))
  <2>1. ~IntroducesVisit(e)
    BY <1>3 DEF IntroducesVisit
  <2>2. e.target \in DOMAIN visits[i]
    BY <1>3 DEF Added, RowsFit
  <2>3. VisitFactsValid(i)'
    <3>1. visits[i] # <<>>
      BY <2>2
    <3> QED BY <1>2, <1>3, <3>1 DEF VisitFactsValid
  <2>4. VisitsCounted(i)'
    <3>1. ASSUME NEW n \in Nodes PROVE VisitNumbers(i, n)' = 1..VisitCount(i, k, n)'
      <4>1. VisitNumbers(i, n)' = VisitNumbers(i, n)
        BY <1>3 DEF VisitNumbers, VisitedNode
      <4>2. VisitCount(i, k, n)' = VisitCount(i, N, n)
        BY <1>0, <2>1
      <4> QED BY <1>2, <4>1, <4>2
    <3> QED BY <1>1, <3>1 DEF VisitsCounted
  <2> QED BY <1>3, <2>1, <2>2, <2>3, <2>4 DEF CurrentNode, CurrentVisit
<1>4. ASSUME NEW row \in VisitRow, visits'[i] = Append(visits[i], row),
             IntroducesVisit(e), e.target = last, EventForm(i, identity'[i], e, row.node),
             NodeDef[row.node].version = identity'[i].version,
             row.number = NextVisitNumber(i, row.node),
             (row.assignee = Nobody) <=> (NodeDef[row.node].type = "TERMINAL"),
             row.enteredBy = IF Moves(e) THEN e.transition ELSE NoTransition
      PROVE  /\ VisitFactsValid(i)' /\ VisitsCounted(i)'
             /\ DOMAIN visits'[i] = DOMAIN visits[i] \cup {last}
             /\ visits'[i][last] = row
             /\ \A n : n = row.node => row.number = VisitCount(i, k, n)'
  <2>1. /\ DOMAIN visits'[i] = DOMAIN visits[i] \cup {last} /\ visits'[i][last] = row
        /\ last \notin DOMAIN visits[i] /\ visits'[i] # <<>>
        /\ \A v \in DOMAIN visits[i] : visits'[i][v] = visits[i][v]
    BY <1>1, <1>4
  <2>2. row.node \in Nodes
    BY DEF VisitRow
  <2>3. row.number = VisitCount(i, N, row.node) + 1
    <3>1. PICK c \in Nat : /\ VisitNumbers(i, row.node) = 1..c
                           /\ NextVisitNumber(i, row.node) = c + 1
      BY <2>2, NextNumber DEF HInv
    <3>2. VisitCount(i, N, row.node) \in Nat /\ 1..c = 1..VisitCount(i, N, row.node)
      BY <1>0, <1>2, <2>2, <3>1
    <3>3. c = VisitCount(i, N, row.node)
      <4>1. c \in 1..c <=> c \in 1..VisitCount(i, N, row.node)
        BY <3>2
      <4>2. VisitCount(i, N, row.node) \in 1..c <=>
               VisitCount(i, N, row.node) \in 1..VisitCount(i, N, row.node)
        BY <3>2
      <4> QED BY <3>2, <4>1, <4>2
    <3> QED BY <1>4, <3>1, <3>3
  <2>4. \A n : IF n = row.node THEN VisitCount(i, k, n)' = VisitCount(i, N, n) + 1
               ELSE VisitCount(i, k, n)' = VisitCount(i, N, n)
    BY <1>0, <1>4, <2>1
  <2>5. VisitsCounted(i)'
    <3>1. ASSUME NEW n \in Nodes PROVE VisitNumbers(i, n)' = 1..VisitCount(i, k, n)'
      <4>1. \A x : x \in VisitNumbers(i, n)' <=>
                      x \in VisitNumbers(i, n) \/ (n = row.node /\ x = row.number)
        <5> SUFFICES ASSUME NEW x
                     PROVE  x \in VisitNumbers(i, n)' <=>
                            x \in VisitNumbers(i, n) \/ (n = row.node /\ x = row.number)
          OBVIOUS
        <5>1. x \in VisitNumbers(i, n) <=>
                  \E v \in DOMAIN visits[i] : visits[i][v].node = n /\ visits[i][v].number = x
          BY NumbersOfVisits
        <5>2. x \in VisitNumbers(i, n)' <=>
                  \E v \in DOMAIN visits'[i] : visits'[i][v].node = n /\ visits'[i][v].number = x
          BY NumbersOfVisits
        <5> QED BY <2>1, <5>1, <5>2
      <4>2. VisitCount(i, N, n) \in Nat
        BY <1>0
      <4>3. \A x : x \in VisitNumbers(i, n)' <=> x \in 1..VisitCount(i, k, n)'
        <5>1. \A x : x \in VisitNumbers(i, n)' <=>
                 x \in 1..VisitCount(i, N, n) \/ (n = row.node /\ x = VisitCount(i, N, n) + 1)
          BY <1>2, <2>3, <4>1
        <5>2. IF n = row.node THEN VisitCount(i, k, n)' = VisitCount(i, N, n) + 1
              ELSE VisitCount(i, k, n)' = VisitCount(i, N, n)
          BY <2>4
        <5> QED BY <4>2, <5>1, <5>2
      <4> QED BY <4>3
    <3> QED BY <1>1, <3>1 DEF VisitsCounted
  <2>6. VisitFactsValid(i)'
    <3>1. row.number >= 1
      BY <1>0, <2>3
    <3>2. row.enteredBy # NoTransition =>
             /\ TransitionDef[row.enteredBy].version = identity'[i].version
             /\ TransitionDef[row.enteredBy].target = row.node
      BY <1>4 DEF EventForm
    <3>3. ASSUME NEW v \in DOMAIN visits[i]
          PROVE  /\ NodeDef[visits[i][v].node].version = identity'[i].version
                 /\ visits[i][v].number >= 1
                 /\ NodeDef[visits[i][v].node].type # "TERMINAL" => visits[i][v].assignee # Nobody
                 /\ visits[i][v].enteredBy # NoTransition =>
                       /\ TransitionDef[visits[i][v].enteredBy].version = identity'[i].version
                       /\ TransitionDef[visits[i][v].enteredBy].target = visits[i][v].node
      <4>1. visits[i] # <<>>
        OBVIOUS
      <4> QED BY <1>2, <4>1 DEF VisitFactsValid
    <3> QED BY SMTT(30), <1>4, <2>1, <3>1, <3>2, <3>3 DEF VisitFactsValid
  <2> QED BY <2>1, <2>3, <2>4, <2>5, <2>6
<1>5. NewVisit(i, identity'[i], visits'[i], e)
  BY DEF Added, NewRows
<1>6. e.target \in DOMAIN visits'[i]
  BY DEF Added, RowsFit
<1>7. CASE e.type = "REVISED"
  <2>1. ~IntroducesVisit(e)
    BY <1>7 DEF IntroducesVisit
  <2> QED BY <1>3, <1>5, <2>1 DEF NewVisit
<1>8. CASE e.type # "REVISED"
  <2>1. PICK row \in VisitRow :
            /\ visits'[i] = Append(visits[i], row)
            /\ IntroducesVisit(e) /\ e.target = last
            /\ EventForm(i, identity'[i], e, row.node)
            /\ NodeDef[row.node].version = identity'[i].version
            /\ row.number = NextVisitNumber(i, row.node)
            /\ (row.assignee = Nobody) <=> (NodeDef[row.node].type = "TERMINAL")
            /\ row.enteredBy = IF Moves(e) THEN e.transition ELSE NoTransition
    BY <1>5, <1>8 DEF NewVisit
  <2>2. /\ VisitFactsValid(i)' /\ VisitsCounted(i)'
        /\ DOMAIN visits'[i] = DOMAIN visits[i] \cup {last}
        /\ visits'[i][last] = row
        /\ \A n : n = row.node => row.number = VisitCount(i, k, n)'
    BY <1>4, <2>1
  <2> HIDE DEF last
  <2> QED BY <1>6, <2>1, <2>2 DEF last
<1> QED BY <1>7, <1>8

(* A submission the event makes is the only one of its visit.              *)
LEMMA AddedSubmissions ==
    ASSUME HInv, NEW i \in Instances, NEW e, Added(i, e)
    PROVE  /\ SubmissionFactsValid(i)'
           /\ \A s \in DOMAIN submissions'[i] : SubmissionOK(i, s)'
           /\ e.submission = 0 => submissions'[i] = submissions[i]
           /\ e.submission # 0 =>
                 /\ Moves(e) /\ e.submission = Len(submissions[i]) + 1
                 /\ DOMAIN submissions'[i] = DOMAIN submissions[i] \cup {e.submission}
                 /\ submissions'[i][e.submission].source = e.source
                 /\ submissions'[i][e.submission].context = e.context
                 /\ submissions'[i][e.submission].transition = e.transition
                 /\ e.effect = "RETURN" =>
                       /\ submissions'[i][e.submission].root \in DOMAIN visits[i]
                       /\ submissions'[i][e.submission].related \in DOMAIN submissions[i] \cup {0}
<1> DEFINE N == Len(events[i])
           last == Len(submissions[i]) + 1
<1>1. /\ submissions[i] \in Seq(SubmissionRow) /\ N \in Nat /\ last \in Nat /\ last # 0
      /\ DOMAIN submissions[i] = 1..Len(submissions[i]) /\ N + 1 \in DOMAIN events'[i]
      /\ events'[i][N + 1] = e
      /\ Prefix(events[i], events'[i]) /\ Prefix(visits[i], visits'[i])
      /\ Prefix(contexts[i], contexts'[i])
  BY ReadTypes, EventsThere, AddedRows DEF HInv
<1>2. IF Exists(i) THEN /\ SubmissionFactsValid(i) /\ identity'[i] = identity[i]
                        /\ \A s \in DOMAIN submissions[i] : SubmissionOK(i, s)
      ELSE submissions[i] = <<>>
  BY AddedRows DEF HInv, HistoryOK, RecordOK, ReplayAccepts, Extended, Inv, RowsIffCreated
<1>3. e.source = projection[i].visit /\ e.context \in DOMAIN contexts'[i]
  BY AddedBefore, AddedContexts
<1>4. ASSUME NEW s \in DOMAIN submissions[i]
      PROVE  /\ submissions[i][s].context \in DOMAIN contexts'[i]
             /\ TransitionDef[submissions[i][s].transition].version = identity'[i].version
             /\ submissions[i][s].source \in DOMAIN visits'[i]
             /\ visits'[i][submissions[i][s].source] = visits[i][submissions[i][s].source]
             /\ visits'[i][submissions[i][s].source].node
                   = TransitionDef[submissions[i][s].transition].source
             /\ submissions[i][s].author = visits'[i][submissions[i][s].source].assignee
             /\ \E k \in DOMAIN events'[i] : /\ events'[i][k].submission = s
                                             /\ events'[i][k].source = submissions[i][s].source
                                             /\ events'[i][k].context = submissions[i][s].context
             /\ \A r \in DOMAIN submissions[i] :
                   r # s => submissions[i][r].source # submissions[i][s].source
  <2>1. SubmissionFactsValid(i) /\ SubmissionOK(i, s) /\ identity'[i] = identity[i]
    BY <1>2
  <2> QED BY <1>1, <2>1 DEF SubmissionFactsValid, SubmissionOK, Prefix, VisitedNode
<1>5. CASE submissions'[i] = submissions[i] /\ e.submission = 0
  <2>1. SubmissionFactsValid(i)'
    BY <1>4, <1>5 DEF SubmissionFactsValid, VisitedNode
  <2>2. \A s \in DOMAIN submissions'[i] : SubmissionOK(i, s)'
    BY <1>4, <1>5 DEF SubmissionOK
  <2> QED BY <1>5, <2>1, <2>2
<1>6. ASSUME NEW row \in SubmissionRow, submissions'[i] = Append(submissions[i], row),
             Moves(e), e.submission = last, SourceFree(i), row.source = projection[i].visit,
             row.context = e.context, row.transition = e.transition, row.author = e.actor
      PROVE  /\ SubmissionFactsValid(i)'
             /\ \A s \in DOMAIN submissions'[i] : SubmissionOK(i, s)'
             /\ DOMAIN submissions'[i] = DOMAIN submissions[i] \cup {last}
             /\ submissions'[i][last] = row
  <2>1. /\ DOMAIN submissions'[i] = DOMAIN submissions[i] \cup {last}
        /\ submissions'[i][last] = row /\ last \notin DOMAIN submissions[i]
        /\ \A s \in DOMAIN submissions[i] : submissions'[i][s] = submissions[i][s]
    BY <1>1, <1>6
  <2>2. /\ Exists(i) /\ visits[i][e.source].assignee = e.actor
    BY <1>6 DEF Added, EventFits, Moves
  <2>3. e.source \in DOMAIN visits[i]
    BY <2>2 DEF Added, RowsFit
  <2>4. e.source \in DOMAIN visits'[i] /\ visits'[i][e.source] = visits[i][e.source]
    BY <1>1, <2>3 DEF Prefix
  <2>5. /\ TransitionDef[e.transition].version = identity'[i].version
        /\ TransitionDef[e.transition].source = visits[i][e.source].node
    BY SMTT(30), <1>3, <1>6, AddedVisits DEF EventForm, CurrentNode, CurrentVisit
  <2>6. \A s \in DOMAIN submissions[i] : submissions[i][s].source # row.source
    BY <1>6 DEF SourceFree
  <2>7. SubmissionFactsValid(i)'
    BY SMTT(30), <1>3, <1>4, <1>6, <2>1, <2>4, <2>5 DEF SubmissionFactsValid, VisitedNode
  <2>8. ASSUME NEW s, s = last PROVE SubmissionOK(i, s)'
    <3>1. submissions'[i][s] = row /\ e.submission = s
      BY <1>6, <2>1, <2>8
    <3>2. row.source = e.source /\ row.author = visits'[i][e.source].assignee
      BY <1>3, <1>6, <2>2, <2>4
    <3>3. \A r \in DOMAIN submissions'[i] : r # s => submissions'[i][r].source # row.source
      BY <2>1, <2>6, <2>8
    <3>4. \E k \in DOMAIN events'[i] : /\ events'[i][k].submission = s
                                       /\ events'[i][k].source = row.source
                                       /\ events'[i][k].context = row.context
      BY <1>1, <1>6, <3>1, <3>2
    <3> QED BY <2>4, <3>1, <3>2, <3>3, <3>4 DEF SubmissionOK
  <2>9. ASSUME NEW s \in DOMAIN submissions[i] PROVE SubmissionOK(i, s)'
    BY <1>4, <2>1, <2>6 DEF SubmissionOK
  <2> QED BY <1>6, <2>1, <2>7, <2>8, <2>9
<1>7. NewSubmission(i, submissions'[i], e)
  BY DEF Added, NewRows
<1> QED BY <1>1, <1>3, <1>5, <1>6, <1>7 DEF NewSubmission

(* A replayed event names a submission that there is, or none.             *)
LEMMA SubmissionsThere ==
    ASSUME HInv, NEW i \in Instances, NEW k \in DOMAIN events[i]
    PROVE  events[i][k].submission \in DOMAIN submissions[i] \cup {0}
<1>1. Exists(i)
  BY DEF HInv, Inv, RowsIffCreated
<1>2. EventReplays(i, k)
  BY <1>1 DEF HInv, HistoryOK, RecordOK, ReplayAccepts
<1> QED BY <1>2 DEF EventReplays, InitialReplays, RevisionReplays, TransitionReplays,
                    CombinedReplays, OverrideReplays, SubmissionMatches

(* The new event introduces nothing that an earlier one did.               *)
LEMMA AddedOnce ==
    ASSUME HInv, NEW i \in Instances, NEW e, Added(i, e), NEW k, k = Len(events[i]) + 1
    PROVE  IntroducesOnce(i, k)'
<1>1. /\ k - 1 = Len(events[i]) /\ events'[i][k] = e
      /\ DOMAIN events[i] = 1..Len(events[i]) /\ Len(events[i]) \in Nat
      /\ \A j \in 1..(k - 1) : j \in DOMAIN events[i] /\ events'[i][j] = events[i][j]
  BY AddedRows, EventsThere DEF HInv, Prefix
<1>2. /\ DOMAIN contexts[i] = 1..Len(contexts[i]) /\ Len(contexts[i]) \in Nat
      /\ DOMAIN visits[i] = 1..Len(visits[i]) /\ Len(visits[i]) \in Nat
      /\ DOMAIN submissions[i] = 1..Len(submissions[i]) /\ Len(submissions[i]) \in Nat
  BY EventsThere DEF HInv
<1>3. \A j \in 1..(k - 1) : /\ events[i][j].context \in DOMAIN contexts[i]
                            /\ events[i][j].target \in DOMAIN visits[i]
                            /\ events[i][j].submission \in DOMAIN submissions[i] \cup {0}
  BY <1>1, EventsThere, SubmissionsThere DEF HInv
<1>4. IntroducesContext(e) => \A j \in 1..(k - 1) : events[i][j].context # e.context
  BY <1>2, <1>3, AddedContexts
<1>5. IntroducesVisit(e) => \A j \in 1..(k - 1) : events[i][j].target # e.target
  BY <1>2, <1>3, AddedVisits
<1>6. e.submission # 0 => \A j \in 1..(k - 1) : events[i][j].submission # e.submission
  BY <1>2, <1>3, AddedSubmissions
<1>7. IntroducesVisit(e) => visits'[i][e.target].number = VisitCount(i, k, VisitedNode(i, e.target))'
  <2>1. ASSUME IntroducesVisit(e), NEW n, n = visits'[i][e.target].node
        PROVE  visits'[i][e.target].number = VisitCount(i, k, n)'
    BY <2>1, AddedVisits
  <2> QED BY <2>1 DEF VisitCount, VisitedNode
<1>8. VisitedNode(i, events[i][k].target)' = VisitedNode(i, e.target)'
  BY <1>1 DEF VisitedNode
<1> QED BY <1>1, <1>4, <1>5, <1>6, <1>7, <1>8
        DEF IntroducesOnce, IntroducesContext, IntroducesVisit, IntroducesSubmission, VisitCount,
            VisitedNode

(* And the recovery code applies it.                                       *)
LEMMA AddedReplays ==
    ASSUME HInv, NEW i \in Instances, NEW e, Added(i, e), NEW k, k = Len(events[i]) + 1
    PROVE  EventReplays(i, k)'
<1> DEFINE before == projection[i]
           node   == visits'[i][e.target].node
<1>1. /\ events'[i][k] = e /\ e \in EventRows
      /\ Prefix(visits[i], visits'[i]) /\ Prefix(contexts[i], contexts'[i])
  BY AddedRows
<1>2. /\ ReplayedBefore(i, k)' = before
      /\ before.version = Len(events[i]) /\ before.context = Len(contexts[i])
      /\ Exists(i) <=> Len(events[i]) > 0
      /\ Len(events[i]) \in Nat /\ e.source = before.visit
  BY AddedBefore
<1>3. e.sequence = k /\ e.old = k - 1
  BY <1>2 DEF Added, NewRows
<1>4. e.context \in DOMAIN contexts'[i] /\ e.target \in DOMAIN visits'[i]
  BY AddedContexts, AddedVisits
<1>5. EventForm(i, identity'[i], e, node)
  BY AddedVisits
<1>6. IntroducesOnce(i, k)'
  BY AddedOnce
<1>7. ASSUME Exists(i)
      PROVE  /\ before.visit \in DOMAIN visits[i] /\ before.visit \in DOMAIN visits'[i]
             /\ visits'[i][before.visit] = visits[i][before.visit]
             /\ CurrentNode(i) = visits'[i][before.visit].node
  <2>1. before.visit \in DOMAIN visits[i]
    BY <1>7, ReadTypes DEF HInv
  <2> QED BY <1>1, <2>1 DEF Prefix, CurrentNode, CurrentVisit
<1>8. ASSUME Exists(i), IntroducesContext(e)
      PROVE  /\ before.context \in DOMAIN contexts'[i]
             /\ contexts'[i][e.context].previous = before.context
             /\ contexts'[i][e.context].number = contexts'[i][before.context].number + 1
  <2>1. before.context \in DOMAIN contexts[i]
    BY <1>8, ReadTypes DEF HInv
  <2>2. before.context \in DOMAIN contexts'[i] /\ before.context \in Nat
    BY <1>1, <1>2, <2>1, EventsThere DEF HInv, Prefix
  <2>3. /\ e.context = before.context + 1
        /\ contexts'[i][e.context].number = e.context
        /\ contexts'[i][e.context].previous = e.context - 1
    BY <1>2, <1>8, AddedContexts
  <2>4. contexts'[i][before.context].number = before.context
    BY <2>2, AddedContexts DEF ContextFactsValid
  <2> QED BY <2>2, <2>3, <2>4
<1>9. ASSUME Moves(e)
      PROVE  /\ Exists(i)
             /\ e.source \in DOMAIN visits'[i]
             /\ e.transition \in Transitions
             /\ TransitionDef[e.transition].version = identity'[i].version
             /\ TransitionDef[e.transition].source = visits'[i][e.source].node
             /\ TransitionDef[e.transition].target = node
             /\ TransitionDef[e.transition].effect = e.effect
             /\ visits'[i][e.target].enteredBy = e.transition
             /\ e.submission # 0 =>
                   /\ e.submission \in DOMAIN submissions'[i]
                   /\ submissions'[i][e.submission].source = e.source
                   /\ submissions'[i][e.submission].context = e.context
                   /\ submissions'[i][e.submission].transition = e.transition
  <2>1. Exists(i) /\ IntroducesVisit(e)
    BY <1>5, <1>9 DEF EventForm, Moves, IntroducesVisit
  <2>2. visits'[i][e.target].enteredBy = e.transition
    BY <1>9, <2>1, AddedVisits
  <2>3. e.submission # 0 =>
           /\ e.submission \in DOMAIN submissions'[i]
           /\ submissions'[i][e.submission].source = e.source
           /\ submissions'[i][e.submission].context = e.context
           /\ submissions'[i][e.submission].transition = e.transition
    BY AddedSubmissions
  <2> QED BY <1>2, <1>5, <1>7, <1>9, <2>1, <2>2, <2>3 DEF EventForm
<1>10. ASSUME e.type \in {"CREATED", "IMPORTED"} PROVE InitialReplays(i, k)'
  <2>1. ~Exists(i) /\ IntroducesVisit(e) /\ IntroducesContext(e) /\ ~Moves(e)
    BY <1>5, <1>10 DEF EventForm, IntroducesVisit, IntroducesContext, Moves
  <2>2. contexts[i] = <<>> /\ visits[i] = <<>> /\ before = NoProjection /\ k = 1
    BY <1>2, <2>1 DEF HInv, Inv, RowsIffCreated
  <2>3. e.source = 0 /\ e.submission = 0 /\ e.effect = "NONE"
    BY <1>2, <1>5, <1>10, <2>1, <2>2 DEF EventForm, NoProjection
  <2>4. /\ contexts'[i][e.context].number = 1 /\ contexts'[i][e.context].previous = 0
        /\ contexts'[i][e.context].author = identity'[i].creator
    <3>1. /\ e.context = Len(contexts[i]) + 1
          /\ contexts'[i][e.context].number = e.context
          /\ contexts'[i][e.context].previous = e.context - 1
          /\ contexts'[i][e.context].author = identity'[i].creator
      BY <2>1, AddedContexts
    <3>2. e.context = 1
      BY <2>2, <3>1
    <3> QED BY <3>1, <3>2
  <2>5. visits'[i][e.target].enteredBy = NoTransition
    BY <2>1, AddedVisits
  <2>6. visits'[i][e.target].number = 1
    <3>1. {j \in 1..Len(events[i]) : IntroducesVisit(events[i][j])
                                     /\ VisitedNode(i, events[i][j].target) = node} = {}
      BY <2>2
    <3>2. VisitCount(i, Len(events[i]), node) = 0
      BY <3>1, FS_EmptySet DEF VisitCount
    <3>3. ASSUME NEW n, n = node PROVE visits'[i][e.target].number = VisitCount(i, k, n)'
      BY <2>1, <3>3, AddedVisits
    <3>4. ASSUME NEW n, n = node
          PROVE  VisitCount(i, k, n)' = VisitCount(i, Len(events[i]), n) + 1
      BY <2>1, <3>4, CountGrows
    <3> HIDE DEF node
    <3>5. visits'[i][e.target].number = 0 + 1
      BY <3>2, <3>3, <3>4
    <3> QED BY <3>5
  <2>7. (visits'[i][e.target].assignee = Nobody) <=> (NodeDef[node].type = "TERMINAL")
    BY <2>1, AddedVisits
  <2>8. /\ e.type = "CREATED" => NodeDef[node].type = "DRAFT"
        /\ e.type = "IMPORTED" => identity'[i].creator \notin Services /\ e.actor \in Services
    BY <1>5 DEF EventForm
  <2> QED BY <1>1, <2>2, <2>3, <2>4, <2>5, <2>6, <2>7, <2>8 DEF InitialReplays
<1>11. ASSUME e.type = "REVISED" PROVE RevisionReplays(i, k)'
  <2>1. Exists(i) /\ ~IntroducesVisit(e) /\ IntroducesContext(e) /\ ~Moves(e)
    BY <1>5, <1>11 DEF EventForm, IntroducesVisit, IntroducesContext, Moves
  <2>2. e.target = before.visit
    BY <2>1, AddedVisits
  <2>3. NodeDef[visits[i][e.source].node].type = "DRAFT"
    BY <2>1 DEF Added, EventFits, VisitedNode
  <2>4. e.submission = 0 /\ e.effect = "NONE"
    BY <1>5, <1>11, <2>1 DEF EventForm
  <2> QED BY <1>1, <1>2, <1>7, <1>8, <2>1, <2>2, <2>3, <2>4
          DEF RevisionReplays, ContextFollows, VisitedNode
<1>12. ASSUME e.type = "TRANSITION" PROVE TransitionReplays(i, k)'
  <2>1. Moves(e) /\ ~IntroducesContext(e)
    BY <1>12 DEF Moves, IntroducesContext
  <2>2. e.context = before.context
    BY <2>1, AddedContexts
  <2> QED BY <1>1, <1>2, <1>9, <2>1, <2>2
          DEF TransitionReplays, MoveReplays, SubmissionMatches, VisitedNode
<1>13. ASSUME e.type = "COMBINED" PROVE CombinedReplays(i, k)'
  <2>1. Moves(e) /\ IntroducesContext(e) /\ e.effect = "ADVANCE" /\ e.submission # 0
    BY <1>5, <1>13 DEF Moves, IntroducesContext, EventForm
  <2> QED BY <1>1, <1>2, <1>8, <1>9, <2>1
          DEF CombinedReplays, ContextFollows, MoveReplays, SubmissionMatches, VisitedNode
<1>14. ASSUME e.type = "OVERRIDE" PROVE OverrideReplays(i, k)'
  <2>1. /\ Exists(i) /\ ~IntroducesContext(e) /\ IntroducesVisit(e) /\ ~Moves(e)
        /\ e.effect = IF NodeDef[node].type = "TERMINAL" THEN "TERMINATE" ELSE "ADVANCE"
        /\ e.before = before /\ e.submission = 0
    BY <1>5, <1>14 DEF Moves, IntroducesContext, IntroducesVisit, EventForm
  <2>2. e.context = before.context /\ visits'[i][e.target].enteredBy = NoTransition
    BY SMTT(30), <2>1, AddedContexts, AddedVisits
  <2> QED BY <1>1, <1>2, <1>7, <2>1, <2>2 DEF OverrideReplays, VisitedNode
<1>15. e.type \in EventTypes
  BY <1>1 DEF EventRows
<1> QED BY <1>1, <1>3, <1>4, <1>6, <1>10, <1>11, <1>12, <1>13, <1>14, <1>15
        DEF EventReplays, EventTypes

(* A TERMINATE that was no override left the instance on a TERMINAL node.  *)
LEMMA TerminateEnds ==
    ASSUME HInv, NEW i \in Instances, NEW k \in DOMAIN events[i],
           events[i][k].effect = "TERMINATE", events[i][k].type # "OVERRIDE"
    PROVE  NodeDef[VisitedNode(i, events[i][k].target)].type = "TERMINAL"
<1>1. Exists(i)
  BY DEF HInv, Inv, RowsIffCreated
<1>2. EventReplays(i, k)
  BY <1>1 DEF HInv, HistoryOK, RecordOK, ReplayAccepts
<1>3. TransitionReplays(i, k)
  BY <1>2 DEF EventReplays, InitialReplays, RevisionReplays, CombinedReplays
<1> QED BY <1>3, ArrowInVersion DEF TransitionReplays, MoveReplays

(* The new event goes on from the earlier ones of its stretch.             *)
LEMMA AddedOnward ==
    ASSUME HInv, NEW i \in Instances, NEW e, Added(i, e), NEW k, k = Len(events[i]) + 1,
           NEW j \in DOMAIN events'[i]
    PROVE  Onward(i, j, k)'
<1> DEFINE N     == Len(events[i])
           there == visits[i][projection[i].visit].node
           node  == visits'[i][e.target].node
<1>1. /\ N \in Nat /\ DOMAIN events[i] = 1..N /\ events'[i][k] = e
      /\ \A l \in 1..N : events'[i][l] = events[i][l]
      /\ \A l \in 1..N : /\ visits'[i][events[i][l].target] = visits[i][events[i][l].target]
                         /\ visits[i][events[i][l].target].node \in Nodes
  <2>1. \A l \in DOMAIN visits[i] : visits[i][l].node \in Nodes
    BY EventsThere DEF HInv, VisitRow
  <2> QED BY <2>1, AddedRows, EventsThere DEF HInv, Prefix
<1> SUFFICES ASSUME Stretch(i, j, k)'
             PROVE  LET earlier == visits'[i][events'[i][j].target].node IN
                    /\ NodeDef[earlier].type # "TERMINAL"
                    /\ e.effect # "TERMINATE" => NodeDef[earlier].order <= NodeDef[node].order
                    /\ IntroducesVisit(e) => earlier # node
  BY <1>1 DEF Onward, VisitedNode, IntroducesVisit
<1>2. /\ j \in 1..N /\ j \in DOMAIN events[i]
      /\ \A l \in j..k : events'[i][l].type # "OVERRIDE" /\ events'[i][l].effect # "RETURN"
  BY <1>1, AddedRows DEF Stretch
<1>3. /\ e.type # "OVERRIDE" /\ e.effect # "RETURN"
      /\ \A l \in j..N : events[i][l].type # "OVERRIDE" /\ events[i][l].effect # "RETURN"
  BY <1>1, <1>2
<1>4. /\ Exists(i) /\ projection[i].visit = events[i][N].target
      /\ e.source = projection[i].visit
  <2>1. Exists(i) /\ e.source = projection[i].visit /\ SequenceFree(i)
    BY SMTT(30), <1>1, <1>2, AddedBefore DEF Added, NewRows
  <2>2. projection[i] = Replayed(i)
    BY <2>1, Undrifted
  <2>3. N + 1 # 1 /\ (N + 1) - 1 = N
    BY <1>1, <1>2
  <2>4. Replayed(i).visit = events[i][N].target
    BY <2>3 DEF Replayed, ReplayedBefore
  <2> QED BY <2>1, <2>2, <2>4
<1> DEFINE earlier == visits[i][events[i][j].target].node
<1>5. earlier = visits'[i][events'[i][j].target].node /\ earlier \in Nodes /\ there \in Nodes
  <2>1. N \in 1..N
    BY <1>1, <1>2
  <2>2. earlier = visits'[i][events'[i][j].target].node /\ earlier \in Nodes
    BY <1>1, <1>2
  <2>3. visits[i][events[i][N].target].node \in Nodes
    BY <1>1, <2>1
  <2> QED BY <1>4, <2>2, <2>3
<1>6. EventForm(i, identity'[i], e, node) /\ e.type \in EventTypes
  BY AddedVisits, AddedRows DEF EventRows
<1>7. Moves(e) \/ e.type = "REVISED"
  BY <1>3, <1>4, <1>6 DEF EventForm, EventTypes, Moves
<1>8. NodeDef[there].type # "TERMINAL"
  <2>1. CASE Moves(e)
    BY <1>4, <2>1 DEF Added, EventFits, Moves, VisitedNode
  <2>2. CASE e.type = "REVISED"
    <3>1. NodeDef[there].type = "DRAFT"
      BY <1>4, <2>2 DEF Added, EventFits, VisitedNode, IntroducesContext
    <3> QED BY <3>1
  <2> QED BY <1>7, <2>1, <2>2
<1>9. \A n \in Nodes : NodeDef[n].order \in Int
  BY DefinitionAssumption DEF NodeRow
<1>10. NodeDef[earlier].type # "TERMINAL" /\ NodeDef[earlier].order <= NodeDef[there].order
  <2>1. CASE j = N
    <3>1. earlier = there
      BY <1>4, <2>1
    <3> HIDE DEF earlier, there
    <3> QED BY <1>5, <1>8, <1>9, <3>1
  <2>2. CASE j # N
    <3>1. j < N /\ N \in DOMAIN events[i]
      BY <1>1, <1>2, <2>2
    <3>2. Stretch(i, j, N)
      BY <1>3, <3>1 DEF Stretch
    <3>3. Onward(i, j, N)
      BY <1>2, <1>4, <3>1 DEF HInv, HistoryOK, RecordOK
    <3>4. events[i][N].effect # "TERMINATE"
      <4>1. events[i][N].type # "OVERRIDE"
        <5>1. N \in j..N
          BY <1>1, <1>2, <3>1
        <5> QED BY <1>3, <5>1
      <4>2. visits[i][events[i][N].target].node = there
        BY <1>4
      <4> HIDE DEF N, there
      <4> QED BY <1>8, <3>1, <4>1, <4>2, TerminateEnds DEF VisitedNode
    <3> QED BY <1>4, <3>2, <3>3, <3>4 DEF Onward, VisitedNode
  <2> QED BY <2>1, <2>2
<1> HIDE DEF earlier, there, node
<1>11. CASE e.type = "REVISED"
  <2>1. ~IntroducesVisit(e)
    BY <1>11 DEF IntroducesVisit
  <2>2. visits'[i] = visits[i] /\ e.target = projection[i].visit
    BY <2>1, AddedVisits
  <2>3. node = there
    BY <2>2 DEF node, there
  <2> QED BY <1>5, <1>10, <2>1, <2>3
<1>12. CASE Moves(e)
  <2>1. /\ e.transition \in Transitions
        /\ TransitionDef[e.transition].source = there
        /\ TransitionDef[e.transition].target = node
        /\ TransitionDef[e.transition].effect = e.effect
        /\ e.effect = "ADVANCE" => NodeDef[there].primary = e.transition
    BY <1>6, <1>12 DEF EventForm, CurrentNode, CurrentVisit, there
  <2>2. e.effect \in {"ADVANCE", "TERMINATE"} /\ node \in Nodes
    BY <1>3, <2>1, DefinitionAssumption DEF TransitionRow, Effects
  <2>3. CASE e.effect = "ADVANCE"
    <3>1. NodeDef[node].order > NodeDef[there].order
      BY <2>1, <2>3, ArrowInVersion
    <3> QED BY SMTT(30), <1>5, <1>9, <1>10, <2>2, <2>3, <3>1
  <2>4. CASE e.effect = "TERMINATE"
    <3>1. NodeDef[node].type = "TERMINAL"
      BY <2>1, <2>4, ArrowInVersion
    <3> QED BY <1>5, <1>10, <2>4, <3>1
  <2> QED BY <2>2, <2>3, <2>4
<1> QED BY <1>7, <1>11, <1>12

(* Nothing is left that no event introduced.                               *)
LEMMA AddedIntroduced ==
    ASSUME HInv, NEW i \in Instances, NEW e, Added(i, e)
    PROVE  EveryFactIntroduced(i)'
<1> DEFINE new == Len(events[i]) + 1
<1>1. /\ DOMAIN events'[i] = DOMAIN events[i] \cup {new} /\ events'[i][new] = e
      /\ \A k \in DOMAIN events[i] : events'[i][k] = events[i][k]
  BY AddedRows DEF Prefix
<1>2. IF Exists(i) THEN EveryFactIntroduced(i)
      ELSE contexts[i] = <<>> /\ visits[i] = <<>> /\ submissions[i] = <<>>
  BY DEF HInv, HistoryOK, RecordOK, ReplayAccepts, Inv, RowsIffCreated
<1> HIDE DEF new
<1>3. ASSUME NEW c \in DOMAIN contexts'[i]
      PROVE  \E k \in DOMAIN events'[i] : IntroducesContext(events'[i][k]) /\ events'[i][k].context = c
  <2>1. CASE c \in DOMAIN contexts[i]
    BY <1>1, <1>2, <2>1 DEF EveryFactIntroduced
  <2>2. CASE c \notin DOMAIN contexts[i]
    <3>1. IntroducesContext(e) /\ c = e.context
      BY <2>2, AddedContexts
    <3> QED BY <1>1, <3>1
  <2> QED BY <2>1, <2>2
<1>4. ASSUME NEW v \in DOMAIN visits'[i]
      PROVE  \E k \in DOMAIN events'[i] : IntroducesVisit(events'[i][k]) /\ events'[i][k].target = v
  <2>1. CASE v \in DOMAIN visits[i]
    BY <1>1, <1>2, <2>1 DEF EveryFactIntroduced
  <2>2. CASE v \notin DOMAIN visits[i]
    <3>1. IntroducesVisit(e) /\ v = e.target
      BY <2>2, AddedVisits
    <3> QED BY <1>1, <3>1
  <2> QED BY <2>1, <2>2
<1>5. ASSUME NEW s \in DOMAIN submissions'[i]
      PROVE  \E k \in DOMAIN events'[i] : events'[i][k].submission = s
  <2>1. CASE s \in DOMAIN submissions[i]
    BY <1>1, <1>2, <2>1 DEF EveryFactIntroduced
  <2>2. CASE s \notin DOMAIN submissions[i]
    <3>1. s = e.submission
      BY <2>2, AddedSubmissions
    <3> QED BY <1>1, <3>1
  <2> QED BY <2>1, <2>2
<1> QED BY <1>3, <1>4, <1>5 DEF EveryFactIntroduced, IntroducesContext, IntroducesVisit

(* A reference of the new event precedes what the event opens.             *)
LEMMA AddedReferences ==
    ASSUME HInv, NEW i \in Instances, NEW e, Added(i, e), NEW k \in DOMAIN events'[i]
    PROVE  ReferencesOK(i, k)'
<1>1. /\ DOMAIN events'[i] = DOMAIN events[i] \cup {Len(events[i]) + 1}
      /\ events'[i][Len(events[i]) + 1] = e
      /\ Prefix(events[i], events'[i]) /\ Prefix(submissions[i], submissions'[i])
  BY AddedRows
<1>2. CASE k \in DOMAIN events[i]
  <2>1. Exists(i)
    BY <1>2 DEF HInv, Inv, RowsIffCreated
  <2>2. ReferencesOK(i, k)
    BY <1>2, <2>1 DEF HInv, HistoryOK, RecordOK
  <2> QED BY <1>1, <1>2, <2>2 DEF ReferencesOK, Prefix
<1>3. CASE events'[i][k] = e
  <2> SUFFICES ASSUME e.effect = "RETURN", e.submission # 0
               PROVE  /\ e.submission \in DOMAIN submissions'[i]
                      /\ submissions'[i][e.submission].root \in 1..(e.target - 1)
                      /\ submissions'[i][e.submission].related \in 0..(e.submission - 1)
    BY <1>3 DEF ReferencesOK
  <2>1. /\ Moves(e) /\ e.submission = Len(submissions[i]) + 1
        /\ e.submission \in DOMAIN submissions'[i]
        /\ submissions'[i][e.submission].root \in DOMAIN visits[i]
        /\ submissions'[i][e.submission].related \in DOMAIN submissions[i] \cup {0}
    BY AddedSubmissions
  <2>2. e.target = Len(visits[i]) + 1
    BY <2>1, AddedVisits DEF Moves, IntroducesVisit
  <2>3. /\ DOMAIN visits[i] = 1..Len(visits[i]) /\ Len(visits[i]) \in Nat
        /\ DOMAIN submissions[i] = 1..Len(submissions[i]) /\ Len(submissions[i]) \in Nat
    BY EventsThere DEF HInv
  <2>4. /\ e.target - 1 = Len(visits[i]) /\ e.submission - 1 = Len(submissions[i])
    BY <2>1, <2>2, <2>3
  <2>5. submissions'[i][e.submission].related \in 0..Len(submissions[i])
    BY <2>1, <2>3
  <2> QED BY <2>1, <2>3, <2>4, <2>5
<1> QED BY <1>1, <1>2, <1>3

(* So the history of the instance keeps its form.                          *)
LEMMA AddedRecord ==
    ASSUME HInv, NEW i \in Instances, NEW e, Added(i, e)
    PROVE  RecordOK(i)'
<1> DEFINE new == Len(events[i]) + 1
<1>1. /\ DOMAIN events'[i] = DOMAIN events[i] \cup {new} /\ events'[i][new] = e
      /\ DOMAIN events[i] = 1..Len(events[i]) /\ Len(events[i]) \in Nat
      /\ Prefix(events[i], events'[i]) /\ Prefix(visits[i], visits'[i])
      /\ Exists(i) => Extended(i)
  BY AddedRows, EventsThere DEF HInv
<1>2. Replayed(i)'.context = Len(contexts'[i])
  BY AddedBefore, AddedContexts
<1>3. ReplayAccepts(i)'
  <2>1. ASSUME NEW k \in DOMAIN events'[i] PROVE EventReplays(i, k)'
    <3>1. CASE k \in DOMAIN events[i]
      <4>1. Exists(i)
        BY <3>1 DEF HInv, Inv, RowsIffCreated
      <4>2. EventReplays(i, k)
        BY <3>1, <4>1 DEF HInv, HistoryOK, RecordOK, ReplayAccepts
      <4> QED BY <1>1, <3>1, <4>1, <4>2, EventStays DEF HInv
    <3>2. CASE k = new
      BY <3>2, AddedReplays
    <3> QED BY <1>1, <3>1, <3>2
  <2>2. events'[i] # <<>>
    BY <1>1
  <2>3. ContextFactsValid(i)' /\ VisitFactsValid(i)' /\ SubmissionFactsValid(i)'
    BY AddedContexts, AddedVisits, AddedSubmissions
  <2> QED BY <2>1, <2>2, <2>3, AddedIntroduced DEF ReplayAccepts
<1>4. ASSUME NEW j \in DOMAIN events'[i], NEW k \in DOMAIN events'[i] PROVE Onward(i, j, k)'
  <2>1. CASE k = new
    BY <2>1, AddedOnward
  <2>2. CASE k \in DOMAIN events[i] /\ j \in DOMAIN events[i]
    <3>1. Exists(i)
      BY <2>2 DEF HInv, Inv, RowsIffCreated
    <3>2. Onward(i, j, k)
      BY <2>2, <3>1 DEF HInv, HistoryOK, RecordOK
    <3>3. \A l \in j..k : events'[i][l] = events[i][l]
      BY <1>1, <2>2 DEF Prefix
    <3>4. \A l \in DOMAIN events[i] : /\ events'[i][l] = events[i][l]
                                      /\ visits'[i][events[i][l].target] = visits[i][events[i][l].target]
      BY <1>1, EventsThere DEF HInv, Prefix
    <3> QED BY <2>2, <3>2, <3>3, <3>4 DEF Onward, Stretch, VisitedNode, IntroducesVisit
  <2>3. CASE k \in DOMAIN events[i] /\ j = new
    <3>1. ~(j < k)
      BY <1>1, <2>3
    <3> QED BY <3>1 DEF Onward, Stretch
  <2> QED BY <1>1, <2>1, <2>2, <2>3
<1>5. VisitsCounted(i)'
  BY AddedVisits
<1>6. \A s \in DOMAIN submissions'[i] : SubmissionOK(i, s)'
  BY AddedSubmissions
<1>7. \A k \in DOMAIN events'[i] : ReferencesOK(i, k)'
  BY AddedReferences
<1>8. VersionDomain[identity'[i].version] = identity'[i].domain
  <2>1. CASE Exists(i)
    BY <1>1, <2>1 DEF HInv, HistoryOK, RecordOK, Extended
  <2>2. CASE ~Exists(i)
    BY <2>2 DEF Added, NewRows
  <2> QED BY <2>1, <2>2
<1>9. \A k \in DOMAIN events'[i] : ContextAuthored(i, k)'
  <2>1. ASSUME NEW k \in DOMAIN events[i] PROVE ContextAuthored(i, k)'
    <3>1. Exists(i)
      BY <2>1 DEF HInv, Inv, RowsIffCreated
    <3>2. /\ events'[i][k] = events[i][k]
          /\ contexts'[i][events[i][k].context] = contexts[i][events[i][k].context]
      BY <1>1, <3>1, EventsThere DEF HInv, Extended, Prefix
    <3> QED BY <3>1, <3>2 DEF HInv, HistoryOK, RecordOK, ContextAuthored, IntroducesContext
  <2>2. ASSUME NEW k, k = new PROVE ContextAuthored(i, k)'
    <3>1. k > 1 => Exists(i)
      BY <1>1, <2>2 DEF HInv, Inv, RowsIffCreated
    <3> QED BY <1>1, <2>2, <3>1, AddedContexts DEF ContextAuthored, IntroducesContext
  <2> QED BY <1>1, <2>1, <2>2
<1> QED BY <1>2, <1>3, <1>4, <1>5, <1>6, <1>7, <1>8, <1>9 DEF RecordOK

--------------------------------------------------------------------------------
(* An instance whose tables stay keeps its record.                         *)
LEMMA RecordStays ==
    ASSUME HInv, NEW i \in Instances, Exists(i), SameRecord(i)
    PROVE  RecordOK(i)' /\ Len(events[i])' = Len(events[i]) /\ Replayed(i)' = Replayed(i)
<1>1. RecordOK(i) /\ Inv
  BY DEF HInv, HistoryOK
<1>2. Extended(i)
  BY DEF SameRecord, Extended, Prefix
<1>3. Len(events[i])' = Len(events[i]) /\ Replayed(i)' = Replayed(i)
  BY DEF SameRecord, Replayed, ReplayedBefore, NoProjection
<1>4. ReplayAccepts(i)'
  <2>1. \A k \in DOMAIN events'[i] : EventReplays(i, k)'
    BY <1>1, <1>2, EventStays DEF SameRecord, RecordOK, ReplayAccepts
  <2>2. ContextFactsValid(i)' /\ VisitFactsValid(i)' /\ SubmissionFactsValid(i)'
    BY SMTT(30), <1>1 DEF SameRecord, RecordOK, ReplayAccepts, ContextFactsValid, VisitFactsValid,
                SubmissionFactsValid, VisitedNode
  <2>3. EveryFactIntroduced(i)' /\ events'[i] # <<>>
    BY <1>1 DEF SameRecord, RecordOK, ReplayAccepts, EveryFactIntroduced, IntroducesContext,
                IntroducesVisit
  <2> QED BY <2>1, <2>2, <2>3 DEF ReplayAccepts
<1>5. VisitsCounted(i)'
  <2> DEFINE N == Len(events[i])
  <2>1. N \in 0..Len(events[i]) /\ Len(events'[i]) = N
    BY <1>3, EventsThere DEF HInv
  <2>2. ASSUME NEW n \in Nodes PROVE VisitNumbers(i, n)' = 1..VisitCount(i, N, n)
    BY <1>1 DEF SameRecord, RecordOK, VisitsCounted, VisitNumbers, VisitedNode
  <2>3. ASSUME NEW n, NEW k, k = N PROVE VisitCount(i, k, n)' = VisitCount(i, k, n)
    BY <1>1, <1>2, <2>1, <2>3, CountStays DEF Extended
  <2>4. ASSUME NEW n \in Nodes, NEW k, k = N PROVE VisitNumbers(i, n)' = 1..VisitCount(i, k, n)'
    BY <2>2, <2>3, <2>4
  <2> QED BY <2>1, <2>4 DEF VisitsCounted
<1>6. \A s \in DOMAIN submissions'[i] : SubmissionOK(i, s)'
  BY <1>1 DEF SameRecord, RecordOK, SubmissionOK
<1>7. \A k \in DOMAIN events'[i] : ReferencesOK(i, k)'
  BY <1>1 DEF SameRecord, RecordOK, ReferencesOK
<1>8. \A j, k \in DOMAIN events'[i] : Onward(i, j, k)'
  BY SMTT(30), <1>1 DEF SameRecord, RecordOK, Onward, Stretch, VisitedNode, IntroducesVisit
<1>9. Replayed(i)'.context = Len(contexts'[i])
  BY <1>1, <1>3 DEF SameRecord, RecordOK
<1>10. VersionDomain[identity'[i].version] = identity'[i].domain
  BY <1>1 DEF SameRecord, RecordOK
<1>11. \A k \in DOMAIN events'[i] : ContextAuthored(i, k)'
  BY <1>1 DEF SameRecord, RecordOK, ContextAuthored, IntroducesContext
<1> QED BY <1>3, <1>4, <1>5, <1>6, <1>7, <1>8, <1>9, <1>10, <1>11 DEF RecordOK

(* Every step keeps the record of every instance.                          *)
LEMMA HInvStep == HInv /\ [Next]_vars => HInv'
<1> SUFFICES ASSUME HInv, [Next]_vars PROVE HInv'
  OBVIOUS
<1>1. Inv /\ Inv' /\ StepForm
  BY InvStep, StepForms DEF HInv
<1>2. ASSUME NEW i \in Instances, Exists(i), SameRecord(i), projection'[i] = projection[i]
      PROVE  ProjectionOK(i)' /\ RecordOK(i)'
  <2>1. ProjectionOK(i)
    BY <1>2 DEF HInv, HistoryOK
  <2> QED BY <1>2, <2>1, RecordStays DEF ProjectionOK
<1>3. ASSUME NEW i \in Instances, CommandStep(i) PROVE HistoryOK'
  <2>1. /\ \E e : Added(i, e)
        /\ \A j \in Instances \ {i} : SameRecord(j) /\ projection'[j] = projection[j]
    BY <1>1, <1>3, CommandAdds
  <2>2. ProjectionOK(i)' /\ RecordOK(i)'
    BY <2>1, AddedBefore, AddedRecord
  <2>3. ASSUME NEW j \in Instances \ {i}, Exists(j)' PROVE ProjectionOK(j)' /\ RecordOK(j)'
    <3>1. Exists(j)
      BY <2>1, <2>3 DEF Exists, SameRecord
    <3> QED BY <1>2, <2>1, <3>1
  <2> QED BY <2>2, <2>3 DEF HistoryOK
<1>4. ASSUME NEW i \in Instances, NEW k \in DOMAIN events[i], ReplayStep(i, k) PROVE HistoryOK'
  <2>1. \A j \in Instances : SameRecord(j) /\ (Exists(j)' => Exists(j))
    BY <1>4 DEF ReplayStep, SameRecord, Exists, facts
  <2>2. \A j \in Instances \ {i} : projection'[j] = projection[j]
    BY <1>1, <1>4 DEF ReplayStep, Inv, TypeOK
  <2>3. ASSUME Exists(i) PROVE ProjectionOK(i)' /\ RecordOK(i)'
    <3>1. /\ RecordOK(i)' /\ Len(events[i])' = Len(events[i]) /\ Replayed(i)' = Replayed(i)
      BY <2>1, <2>3, RecordStays
    <3>2. k \in 1..Len(events[i]) /\ k \in Nat /\ Len(events[i]) \in Nat
      BY <1>1, EventsThere
    <3>3. projection'[i] = ReplayedBefore(i, k + 1)
      BY <1>1, <1>4 DEF ReplayStep, Inv, TypeOK
    <3>4. ReplayedBefore(i, k + 1).version = k
      <4>1. k + 1 # 1 /\ (k + 1) - 1 = k
        BY <3>2
      <4> QED BY <4>1 DEF ReplayedBefore
    <3>5. k = Len(events[i]) => ReplayedBefore(i, k + 1) = Replayed(i)
      BY DEF Replayed
    <3> QED BY <3>1, <3>2, <3>3, <3>4, <3>5 DEF ProjectionOK
  <2>4. ASSUME NEW j \in Instances, Exists(j)' PROVE ProjectionOK(j)' /\ RecordOK(j)'
    BY <1>2, <2>1, <2>2, <2>3, <2>4
  <2> QED BY <2>4 DEF HistoryOK
<1>5. ASSUME OutsideStep PROVE HistoryOK'
  <2>1. \A j \in Instances : /\ SameRecord(j) /\ projection'[j] = projection[j]
                             /\ Exists(j)' => Exists(j)
    BY <1>5 DEF OutsideStep, SameRecord, Exists, facts
  <2> QED BY <1>2, <2>1 DEF HistoryOK
<1>6. HistoryOK'
  BY <1>1, <1>3, <1>4, <1>5 DEF StepForm
<1> QED BY <1>1, <1>6 DEF HInv

--------------------------------------------------------------------------------
(* Every table holds rows of its columns' types, and the projection of an  *)
(* instance points at rows that exist, whatever commands run and however   *)
(* the row drifts.                                                         *)
THEOREM TablesTyped == Spec => []TypeOK
<1>1. Inv => TypeOK
  BY DEF Inv
<1> QED BY <1>1, InvInit, InvStep, PTL DEF Spec

(* Only the assignee of a visit leaves it by an ordinary command, and no   *)
(* ordinary command leaves a TERMINAL visit.                               *)
THEOREM AssigneesMove == Spec => []OnlyAssigneesMove
<1>1. Inv => OnlyAssigneesMove
  BY DEF Inv, EventsOK, EventOK, OnlyAssigneesMove
<1> QED BY <1>1, InvInit, InvStep, PTL DEF Spec

(* After the DRAFT the context is frozen: a later context is the creator's *)
(* and was introduced from a visit of the DRAFT node.                      *)
THEOREM ContextFrozen == Spec => []ContextFrozenAfterDraft
<1>1. Inv => ContextFrozenAfterDraft
  BY DEF Inv, EventsOK, EventOK, ContextFrozenAfterDraft
<1> QED BY <1>1, InvInit, InvStep, PTL DEF Spec

(* Whatever commands ran, whoever gave them and however the row drifted in *)
(* between, the recovery code accepts the history they left.               *)
THEOREM HistoriesReplay == Spec => []HistoryReplays
<1>1. HInv => HistoryReplays
  BY DEF HInv, HistoryOK, RecordOK, HistoryReplays
<1> QED BY <1>1, HInvInit, HInvStep, PTL DEF Spec

(* The projection row is the replay of the history, unless it fell back,   *)
(* and then its version says so.                                           *)
THEOREM ProjectionsReplay == Spec => []ProjectionIsReplay
<1>1. ASSUME HInv, NEW i \in Instances, Exists(i)
      PROVE  projection[i] = Replayed(i) \/ projection[i].version < Len(events[i])
  <2>1. ProjectionOK(i) /\ Len(events[i]) \in Nat
    BY <1>1, EventsThere DEF HInv, HistoryOK
  <2> QED BY <2>1 DEF ProjectionOK
<1>2. HInv => ProjectionIsReplay
  BY <1>1 DEF ProjectionIsReplay
<1> QED BY <1>2, HInvInit, HInvStep, PTL DEF Spec

(* A visit is left with one submission at most, its assignee's, on the     *)
(* context that was current when it was left.                              *)
THEOREM SubmissionsUnique == Spec => []OneSubmissionPerVisit
<1>1. ASSUME HInv, NEW i \in Instances, NEW s \in DOMAIN submissions[i] PROVE SubmissionOK(i, s)
  <2>1. Exists(i)
    BY <1>1 DEF HInv, Inv, RowsIffCreated
  <2> QED BY <1>1, <2>1 DEF HInv, HistoryOK, RecordOK
<1>2. HInv => OneSubmissionPerVisit
  BY <1>1 DEF SubmissionOK, OneSubmissionPerVisit
<1> QED BY <1>2, HInvInit, HInvStep, PTL DEF Spec

(* The root cause and the related submission of a RETURN were there before *)
(* what the RETURN opened.                                                 *)
THEOREM ReferencesComeFirst == Spec => []ReferencesPrecede
<1>1. ASSUME HInv, NEW i \in Instances, NEW k \in DOMAIN events[i] PROVE ReferencesOK(i, k)
  <2>1. Exists(i)
    BY <1>1 DEF HInv, Inv, RowsIffCreated
  <2> QED BY <1>1, <2>1 DEF HInv, HistoryOK, RecordOK
<1>2. HInv => ReferencesPrecede
  BY <1>1 DEF ReferencesOK, ReferencesPrecede
<1> QED BY <1>2, HInvInit, HInvStep, PTL DEF Spec

(* Between two overrides only a RETURN takes an instance back in the order *)
(* of the nodes, in any graph the validator accepts.                       *)
THEOREM GoesOnward == Spec => []OnlyReturnsGoBack
<1>1. ASSUME HInv, NEW i \in Instances, NEW j \in DOMAIN events[i], NEW k \in DOMAIN events[i]
      PROVE  Onward(i, j, k)
  <2>1. Exists(i)
    BY <1>1 DEF HInv, Inv, RowsIffCreated
  <2> QED BY <1>1, <2>1 DEF HInv, HistoryOK, RecordOK
<1>2. HInv => OnlyReturnsGoBack
  BY <1>1 DEF Onward, OnlyReturnsGoBack
<1> QED BY <1>2, HInvInit, HInvStep, PTL DEF Spec

(* No command writes a fact of an instance whose row has fallen back.      *)
THEOREM DriftedRowsWait == Spec => DriftedRowIsFrozen
<1> DEFINE Frozen(i) == (Exists(i) /\ projection[i].version < Len(events[i]))
                           => UNCHANGED <<contexts[i], visits[i], submissions[i], events[i]>>
<1>1. ASSUME HInv, [Next]_vars, NEW i \in Instances PROVE Frozen(i)
  <2>1. StepForm /\ Inv
    BY <1>1, StepForms DEF HInv
  <2>2. ASSUME CommandStep(i) PROVE projection[i].version = Len(events[i]) /\ Len(events[i]) \in Nat
    <3>1. SequenceFree(i)
      BY <2>2 DEF CommandStep, NewRows
    <3> QED BY <1>1, <3>1, Undrifted
  <2>3. ASSUME NEW j \in Instances, j # i, CommandStep(j) PROVE Frozen(i)
    <3>1. SameRecord(i)
      BY <2>1, <2>3, CommandAdds
    <3> QED BY <3>1 DEF SameRecord
  <2>4. ASSUME NEW j \in Instances, NEW k \in DOMAIN events[j], ReplayStep(j, k) PROVE Frozen(i)
    BY <2>4 DEF ReplayStep, facts
  <2>5. ASSUME OutsideStep PROVE Frozen(i)
    BY <2>5 DEF OutsideStep, facts
  <2>6. CASE CommandStep(i)
    BY <2>2, <2>6
  <2> QED BY <2>1, <2>3, <2>4, <2>5, <2>6 DEF StepForm
<1>2. HInv /\ [Next]_vars => [\A i \in Instances : Frozen(i)]_vars
  BY <1>1
<1> QED BY <1>2, HInvInit, HInvStep, PTL DEF Spec, DriftedRowIsFrozen

(* A combined event has an event before it, and what it says of the rows   *)
(* that it wrote.                                                          *)
LEMMA CombinedFacts ==
    ASSUME HInv, NEW i \in Instances, NEW k \in DOMAIN events[i], events[i][k].type = "COMBINED"
    PROVE  LET e == events[i][k] IN
           /\ k \in 1..Len(events[i]) /\ k > 1 /\ e \in EventRows
           /\ e.sequence = k /\ e.old = k - 1
           /\ e.context \in DOMAIN contexts[i] /\ e.target \in DOMAIN visits[i]
           /\ e.submission # 0
           /\ CombinedReplays(i, k) /\ IntroducesOnce(i, k)
           /\ NodeDef[VisitedNode(i, e.source)].type = "DRAFT"
           /\ contexts[i][e.context].author = e.actor
           /\ submissions[i][e.submission].author = e.actor
<1> DEFINE e == events[i][k]
<1>1. /\ DOMAIN events[i] = 1..Len(events[i]) /\ Len(events[i]) \in Nat /\ e \in EventRows
      /\ DOMAIN contexts[i] = 1..Len(contexts[i])
      /\ DOMAIN submissions[i] = 1..Len(submissions[i])
  BY EventsThere DEF HInv
<1>2. RecordOK(i)
  <2>1. Exists(i)
    BY DEF HInv, Inv, RowsIffCreated
  <2> QED BY <2>1 DEF HInv, HistoryOK
<1>3. /\ e.sequence = k /\ e.old = k - 1
      /\ e.context \in DOMAIN contexts[i] /\ e.target \in DOMAIN visits[i]
      /\ CombinedReplays(i, k) /\ IntroducesOnce(i, k)
  BY <1>2 DEF RecordOK, ReplayAccepts, EventReplays
<1>4. k > 1
  <2>1. ReplayedBefore(i, k).context # 0
    BY <1>1, <1>3 DEF CombinedReplays, ContextFollows
  <2>2. k # 1
    BY <2>1 DEF ReplayedBefore, NoProjection
  <2> QED BY <1>1, <2>2
<1>5. SubmissionMatches(i, e) /\ e.submission \in DOMAIN submissions[i]
  BY <1>3 DEF CombinedReplays, SubmissionMatches
<1>6. /\ NodeDef[VisitedNode(i, e.source)].type = "DRAFT"
      /\ visits[i][e.source].assignee = e.actor
  BY <1>4 DEF HInv, Inv, EventsOK, EventOK, IntroducesContext
<1>7. submissions[i][e.submission].author = e.actor
  BY <1>2, <1>5, <1>6 DEF RecordOK, SubmissionOK, SubmissionMatches
<1>8. contexts[i][e.context].author = e.actor
  BY <1>2, <1>4 DEF RecordOK, ContextAuthored, IntroducesContext
<1>9. e.submission # 0
  BY <1>1, <1>5
<1> QED BY <1>1, <1>3, <1>4, <1>6, <1>7, <1>8, <1>9

(* Two rows appended to a sequence are its last two.                       *)
LEMMA TwoAppended ==
    ASSUME NEW S, NEW s \in Seq(S), NEW r, NEW m
    PROVE  /\ Len(s \o <<r, m>>) = Len(s) + 2
           /\ \A j \in 1..Len(s) : (s \o <<r, m>>)[j] = s[j]
           /\ (s \o <<r, m>>)[Len(s) + 1] = r /\ (s \o <<r, m>>)[Len(s) + 2] = m
<1>1. Len(s) \in Nat /\ Len(<<r, m>>) = 2 /\ <<r, m>>[1] = r /\ <<r, m>>[2] = m
  OBVIOUS
<1>2. s \o <<r, m>> = [j \in 1..(Len(s) + 2) |->
                          IF j <= Len(s) THEN s[j] ELSE <<r, m>>[j - Len(s)]]
  BY <1>1
<1>3. Len(s \o <<r, m>>) = Len(s) + 2
  BY <1>1
<1> QED BY <1>1, <1>2, <1>3

(* The history with the event taken apart: what came before, a revision,   *)
(* a submission.                                                           *)
LEMMA ApartEvents ==
    ASSUME HInv, NEW i \in Instances, NEW k \in 1..Len(events[i]), k > 1,
           events[i][k] \in EventRows
    PROVE  LET h == TakenApart(i, k)[i] IN
           /\ Len(h) = k + 1
           /\ \A j \in 1..(k - 1) : h[j] = events[i][j]
           /\ h[k] = Revision(events[i][k]) /\ h[k + 1] = Submission(events[i][k])
<1> DEFINE r == Revision(events[i][k])
           m == Submission(events[i][k])
           old == SubSeq(events[i], 1, k - 1)
<1>1. events[i] \in Seq(EventRows) /\ Len(events[i]) \in Nat
  BY ReadTypes DEF HInv
<1>2. /\ old \in Seq(EventRows) /\ Len(old) = k - 1
      /\ \A j \in 1..(k - 1) : old[j] = events[i][j]
  BY <1>1
<1>3. TakenApart(i, k)[i] = old \o <<r, m>>
  BY DEF TakenApart, HInv, Inv, TypeOK
<1> HIDE DEF r, m, old
<1>4. /\ Len(old \o <<r, m>>) = k + 1
      /\ \A j \in 1..(k - 1) : (old \o <<r, m>>)[j] = old[j]
      /\ (old \o <<r, m>>)[k] = r /\ (old \o <<r, m>>)[k + 1] = m
  <2>1. /\ Len(old \o <<r, m>>) = Len(old) + 2
        /\ \A j \in 1..Len(old) : (old \o <<r, m>>)[j] = old[j]
        /\ (old \o <<r, m>>)[Len(old) + 1] = r /\ (old \o <<r, m>>)[Len(old) + 2] = m
    BY <1>2, TwoAppended
  <2> HIDE DEF old
  <2>2. k \in Nat /\ Len(old) + 2 = k + 1 /\ Len(old) + 1 = k
    BY <1>1, <1>2
  <2> QED BY <1>2, <2>1, <2>2
<1> QED BY <1>2, <1>3, <1>4 DEF r, m

(* So the two events in its place replay, to the same context and visit.   *)
LEMMA CombinedApart ==
    ASSUME HInv, NEW i \in Instances, NEW k \in DOMAIN events[i], events[i][k].type = "COMBINED"
    PROVE  /\ Apart(i, k)!EventReplays(i, k)
           /\ Apart(i, k)!EventReplays(i, k + 1)
           /\ Apart(i, k)!Replayed(i) = [ReplayedBefore(i, k + 1) EXCEPT !.version = @ + 1]
<1> DEFINE e == events[i][k]
           r == Revision(e)
           m == Submission(e)
           h == TakenApart(i, k)[i]
           n == VisitedNode(i, e.target)
<1>1. /\ k \in 1..Len(events[i]) /\ k > 1 /\ k \in Nat /\ e \in EventRows
      /\ e.sequence = k /\ e.old = k - 1
      /\ e.context \in DOMAIN contexts[i] /\ e.target \in DOMAIN visits[i]
      /\ e.submission # 0
      /\ CombinedReplays(i, k) /\ IntroducesOnce(i, k)
      /\ NodeDef[VisitedNode(i, e.source)].type = "DRAFT"
  <2>1. Len(events[i]) \in Nat
    BY EventsThere DEF HInv
  <2> QED BY <2>1, CombinedFacts
<1>2. /\ Len(h) = k + 1 /\ \A j \in 1..(k - 1) : h[j] = events[i][j]
      /\ h[k] = r /\ h[k + 1] = m
  BY <1>1, ApartEvents
<1>3. /\ r.type = "REVISED" /\ r.sequence = k /\ r.old = k - 1 /\ r.source = e.source
      /\ r.target = e.source /\ r.context = e.context /\ r.submission = 0 /\ r.effect = "NONE"
      /\ m.type = "TRANSITION" /\ m.sequence = k + 1 /\ m.old = k /\ m.source = e.source
      /\ m.target = e.target /\ m.context = e.context /\ m.submission = e.submission
      /\ m.effect = e.effect /\ m.transition = e.transition
  BY <1>1 DEF Revision, Submission, EventRows
<1> HIDE DEF r, m, h
<1>4. /\ Apart(i, k)!ReplayedBefore(i, k) = ReplayedBefore(i, k)
      /\ Apart(i, k)!ReplayedBefore(i, k + 1)
            = [context |-> e.context, visit |-> e.source, version |-> k]
      /\ Apart(i, k)!ReplayedBefore(i, k + 2)
            = [context |-> e.context, visit |-> e.target, version |-> k + 1]
  <2>1. /\ k # 1 /\ k + 1 # 1 /\ k + 2 # 1 /\ k - 1 \in 1..(k - 1)
        /\ (k + 1) - 1 = k /\ (k + 2) - 1 = k + 1
    <3>1. k \in Nat /\ k > 1
      BY <1>1
    <3> QED BY <3>1
  <2> QED BY <1>2, <1>3, <2>1 DEF Apart!ReplayedBefore, ReplayedBefore, h
<1>5. /\ e.source = ReplayedBefore(i, k).visit /\ e.source \in DOMAIN visits[i]
      /\ ContextFollows(i, e, ReplayedBefore(i, k))
      /\ MoveReplays(i, k) /\ SubmissionMatches(i, e)
  BY <1>1 DEF CombinedReplays, MoveReplays
<1>6. Apart(i, k)!EventReplays(i, k)
  <2>1. Apart(i, k)!RevisionReplays(i, k)
    BY <1>1, <1>2, <1>3, <1>4, <1>5
    DEF Apart!RevisionReplays, Apart!ContextFollows, Apart!VisitedNode, ContextFollows,
        VisitedNode, h
  <2>2. Apart(i, k)!IntroducesOnce(i, k)
    <3>1. \A j \in 1..(k - 1) : IntroducesContext(h[j]) => h[j].context # r.context
      BY <1>1, <1>2, <1>3 DEF IntroducesOnce, IntroducesContext
    <3> QED BY <1>2, <1>3, <3>1
            DEF Apart!IntroducesOnce, Apart!IntroducesContext, Apart!IntroducesVisit,
                Apart!IntroducesSubmission, IntroducesContext, h
  <2> QED BY <1>1, <1>2, <1>3, <1>5, <2>1, <2>2 DEF Apart!EventReplays, h
<1>7. Apart(i, k)!VisitCount(i, k + 1, n) = VisitCount(i, k, n)
  <2> DEFINE Old  == {j \in 1..(k - 1) : IntroducesVisit(events[i][j])
                                         /\ VisitedNode(i, events[i][j].target) = n}
             Here == {j \in 1..k : IntroducesVisit(events[i][j])
                                   /\ VisitedNode(i, events[i][j].target) = n}
             There == {j \in 1..(k + 1) : IntroducesVisit(h[j])
                                          /\ VisitedNode(i, h[j].target) = n}
  <2>1. IsFiniteSet(Old)
    <3>1. IsFiniteSet(1..(k - 1))
      BY <1>1, FirstFinite
    <3> QED BY <3>1, FS_Subset
  <2>2. /\ 1..k = (1..(k - 1)) \cup {k} /\ 1..(k + 1) = (1..(k - 1)) \cup {k, k + 1}
        /\ k \notin Old /\ k + 1 \notin Old
    BY <1>1
  <2>3. IntroducesVisit(e) /\ ~IntroducesVisit(r) /\ IntroducesVisit(m)
    BY <1>3 DEF IntroducesVisit
  <2>4. Here = Old \cup {k}
    BY <2>2, <2>3
  <2>5. There = Old \cup {k + 1}
    <3>1. VisitedNode(i, m.target) = n
      BY <1>3
    <3> QED BY <1>2, <2>2, <2>3, <3>1
  <2>6. VisitCount(i, k, n) = Cardinality(Here)
    BY DEF VisitCount
  <2>7. Apart(i, k)!VisitCount(i, k + 1, n) = Cardinality(There)
    <3>1. There = {j \in 1..(k + 1) :
                      Apart(i, k)!IntroducesVisit(TakenApart(i, k)[i][j])
                      /\ Apart(i, k)!VisitedNode(i, TakenApart(i, k)[i][j].target) = n}
      BY DEF Apart!IntroducesVisit, Apart!VisitedNode, IntroducesVisit, VisitedNode, h
    <3> HIDE DEF There, n
    <3> QED BY <3>1 DEF Apart!VisitCount, Apart!Cardinality, Cardinality
  <2> HIDE DEF Old, Here, There
  <2>8. \A x : x \notin Old => Cardinality(Old \cup {x}) = Cardinality(Old) + 1
    BY <2>1, FS_AddElement
  <2>9. Cardinality(Here) = Cardinality(There)
    BY <2>2, <2>4, <2>5, <2>8
  <2> QED BY <2>6, <2>7, <2>9
<1>8. Apart(i, k)!EventReplays(i, k + 1)
  <2>1. Apart(i, k)!MoveReplays(i, k + 1)
    BY <1>2, <1>3, <1>4, <1>5
    DEF Apart!MoveReplays, Apart!VisitedNode, MoveReplays, VisitedNode, h
  <2>2. Apart(i, k)!TransitionReplays(i, k + 1)
    BY <1>2, <1>3, <1>4, <1>5, <2>1
    DEF Apart!TransitionReplays, Apart!SubmissionMatches, SubmissionMatches, h
  <2>3. Apart(i, k)!IntroducesOnce(i, k + 1)
    <3>1. \A j \in 1..k : j \in 1..(k - 1) \/ j = k
      BY <1>1
    <3>2. IntroducesVisit(e) /\ IntroducesSubmission(e) /\ ~IntroducesVisit(r)
      BY <1>1, <1>3 DEF IntroducesVisit, IntroducesSubmission
    <3>3. \A j \in 1..k : IntroducesVisit(h[j]) => h[j].target # m.target
      BY <1>1, <1>2, <1>3, <3>1, <3>2 DEF IntroducesOnce
    <3>4. \A j \in 1..k : h[j].submission # m.submission
      BY <1>1, <1>2, <1>3, <3>1, <3>2 DEF IntroducesOnce
    <3>5. visits[i][e.target].number = Apart(i, k)!VisitCount(i, k + 1, n)
      BY <1>1, <1>7, <3>2 DEF IntroducesOnce
    <3>6. (k + 1) - 1 = k /\ ~IntroducesContext(m)
      BY <1>1, <1>3 DEF IntroducesContext
    <3> QED BY <1>2, <1>3, <3>3, <3>4, <3>5, <3>6
            DEF Apart!IntroducesOnce, Apart!IntroducesContext, Apart!IntroducesVisit,
                Apart!IntroducesSubmission, Apart!VisitedNode, IntroducesContext,
                IntroducesVisit, VisitedNode, h
  <2>4. m.context \in DOMAIN contexts[i] /\ m.target \in DOMAIN visits[i] /\ (k + 1) - 1 = k
    BY <1>1, <1>3
  <2> QED BY <1>2, <1>3, <2>2, <2>3, <2>4 DEF Apart!EventReplays, h
<1>9. Apart(i, k)!Replayed(i) = [ReplayedBefore(i, k + 1) EXCEPT !.version = @ + 1]
  <2>1. Apart(i, k)!Replayed(i) = Apart(i, k)!ReplayedBefore(i, Len(h) + 1)
    BY DEF Apart!Replayed, h
  <2>2. Len(h) + 1 = k + 2
    BY <1>1, <1>2
  <2>3. ReplayedBefore(i, k + 1) = [context |-> e.context, visit |-> e.target, version |-> k]
    <3>1. k + 1 # 1 /\ (k + 1) - 1 = k
      BY <1>1
    <3> QED BY <3>1 DEF ReplayedBefore
  <2> QED BY <1>4, <2>1, <2>2, <2>3
<1> QED BY <1>6, <1>8, <1>9

(* The combined command is admitted exactly when the creator could revise  *)
(* and then advance: two chains of checks in another order are one.  And   *)
(* what it writes is what the two would write: with their two events in    *)
(* place of its one, every history still replays, to the same projection,  *)
(* one state version on.                                                   *)
THEOREM CombinedAgrees == Spec => []CombinedIsReviseThenAdvance
<1>1. CombinedVerdictsAgree
  BY DEF CombinedVerdictsAgree, CombinedVerdict, ReviseVerdict, TransitionVerdict, Applicable,
         SubmissionVerdict
<1>2. HInv => CombinedRowsAgree
  BY CombinedFacts, CombinedApart DEF CombinedRowsAgree
<1>3. HInv => CombinedIsReviseThenAdvance
  BY <1>1, <1>2 DEF CombinedIsReviseThenAdvance
<1> QED BY <1>3, HInvInit, HInvStep, PTL DEF Spec
================================================================================
