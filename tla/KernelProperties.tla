--------------------------- MODULE KernelProperties ----------------------------
(***************************************************************************)
(* What the commands of WorkflowKernel promise together.                   *)
(***************************************************************************)
EXTENDS WorkflowKernel

ProjectionRow == [context : Nat, visit : Nat, version : Nat]
ContextRow    == [number : Nat, previous : Nat, author : Principals]
VisitRow      == [node : Nodes, number : Nat, assignee : Principals \cup {Nobody},
                  enteredBy : Transitions \cup {NoTransition}]
SubmissionRow == [source : Nat, context : Nat, author : Principals, transition : Transitions,
                  root : Nat, related : Nat]
EventRows     == [type : EventTypes, sequence : Nat, old : Nat, source : Nat, target : Nat,
                  context : Nat, submission : Nat, transition : Transitions \cup {NoTransition},
                  effect : Effects \cup {"NONE"}, actor : Principals, before : ProjectionRow]

(* Every table holds rows of its columns' types, and the projection of an  *)
(* instance points at rows that exist.                                     *)
TypeOK ==
    /\ enabled \subseteq Principals \cup Domains
    /\ bindings \subseteq Domains \X Principals \X Roles
    /\ versionStatus \in [Versions -> Statuses]
    /\ identity \in [Instances -> [domain : Domains, version : Versions, creator : Principals]
                                  \cup {NoInstance}]
    /\ projection \in [Instances -> ProjectionRow]
    /\ contexts \in [Instances -> Seq(ContextRow)]
    /\ visits \in [Instances -> Seq(VisitRow)]
    /\ submissions \in [Instances -> Seq(SubmissionRow)]
    /\ events \in [Instances -> Seq(EventRows)]
    /\ \A i \in Instances : Exists(i) => /\ projection[i].context \in DOMAIN contexts[i]
                                         /\ projection[i].visit \in DOMAIN visits[i]

--------------------------------------------------------------------------------
(* Whatever commands ran, in whatever order, the recovery code accepts the *)
(* history they left: events contiguous, every fact introduced by exactly  *)
(* one event, context chain unbroken, visits numbered in event order.      *)
HistoryReplays == \A i \in Instances : Exists(i) => ReplayAccepts(i)

(* The projection that commands read and update is the one the immutable   *)
(* history determines, unless the row has fallen back, which its version   *)
(* then shows: a rebuild changes nothing else.                             *)
ProjectionIsReplay ==
    \A i \in Instances : Exists(i) =>
        \/ projection[i] = Replayed(i)
        \/ projection[i].version < Len(events[i])

(* A command that ran on a projection row fallen back to an older value    *)
(* could fork the history.  None can: the history stays replayable, and    *)
(* only a rebuild moves the row again.                                     *)
DriftedRowIsFrozen ==
    [][\A i \in Instances :
          (Exists(i) /\ projection[i].version < Len(events[i]))
              => UNCHANGED <<contexts[i], visits[i], submissions[i], events[i]>>]_vars

(* An ordinary command leaves a visit only by its assignee's hand, and     *)
(* never a TERMINAL one: a finished instance moves only by an override.    *)
OnlyAssigneesMove ==
    \A i \in Instances : \A k \in DOMAIN events[i] :
        LET e == events[i][k] IN
        e.type \in {"TRANSITION", "COMBINED"} =>
            /\ visits[i][e.source].assignee = e.actor
            /\ NodeDef[VisitedNode(i, e.source)].type # "TERMINAL"

(* A context revision belongs to the stage in which it may be edited: it   *)
(* is introduced by the creator, while the current node is the DRAFT.      *)
ContextFrozenAfterDraft ==
    \A i \in Instances : \A k \in DOMAIN events[i] :
        (k > 1 /\ IntroducesContext(events[i][k])) =>
            /\ events[i][k].actor = identity[i].creator
            /\ NodeDef[VisitedNode(i, events[i][k].source)].type = "DRAFT"

(* A visit is left at most once, and its submission says what was current  *)
(* when it was left: the context of the leaving event, authored by the     *)
(* assignee.                                                               *)
OneSubmissionPerVisit ==
    \A i \in Instances :
        /\ \A r, s \in DOMAIN submissions[i] :
               r # s => submissions[i][r].source # submissions[i][s].source
        /\ \A s \in DOMAIN submissions[i] : \E k \in DOMAIN events[i] :
               /\ events[i][k].submission = s
               /\ events[i][k].source = submissions[i][s].source
               /\ events[i][k].context = submissions[i][s].context
               /\ submissions[i][s].author = visits[i][submissions[i][s].source].assignee

(* Between two overrides an instance goes back only by a RETURN: the order *)
(* index of its node rises with every other move but a TERMINATE, whose    *)
(* TERMINAL node may come anywhere in the order, so an instance that no    *)
(* one returns visits each node at most once.                              *)
Stretch(i, j, k) ==
    /\ j < k
    /\ \A l \in j..k : events[i][l].type # "OVERRIDE" /\ events[i][l].effect # "RETURN"

OnlyReturnsGoBack ==
    \A i \in Instances : \A j, k \in DOMAIN events[i] :
        LET earlier == VisitedNode(i, events[i][j].target)
            later   == VisitedNode(i, events[i][k].target) IN
        Stretch(i, j, k) =>
            /\ events[i][k].effect # "TERMINATE" => NodeDef[earlier].order <= NodeDef[later].order
            /\ IntroducesVisit(events[i][k]) => earlier # later

(* A RETURN names as root cause a visit that was there when it was made,   *)
(* never the one it opens or a later one, and as related a submission of   *)
(* the instance that was made before its own.                              *)
ReferencesPrecede ==
    \A i \in Instances : \A k \in DOMAIN events[i] :
        LET e == events[i][k] IN
        (e.effect = "RETURN" /\ e.submission # 0)
            => /\ submissions[i][e.submission].root \in 1..(e.target - 1)
               /\ submissions[i][e.submission].related \in 0..(e.submission - 1)

(* The two chains of checks, made in different orders, are one.            *)
CombinedVerdictsAgree ==
    \A p \in Principals, i \in Instances, t \in Transitions :
        LET version == projection[i].version
            sub == [payload |-> "VALID", root |-> 0, related |-> 0] IN
        (CombinedVerdict(p, i, t, version, "VALID", "VALID") = "OK")
          <=> /\ ReviseVerdict(p, i, version, "VALID") = "OK"
              /\ TransitionVerdict(p, i, t, version, sub) = "OK"
              /\ TransitionDef[t].effect = "ADVANCE"

(* The history up to a combined event, with the events of a revision and   *)
(* of a submission in its place: they point at the rows it wrote.          *)
Revision(e)   == [e EXCEPT !.type = "REVISED", !.target = e.source, !.submission = 0,
                           !.transition = NoTransition, !.effect = "NONE"]
Submission(e) == [e EXCEPT !.type = "TRANSITION", !.sequence = @ + 1, !.old = @ + 1]

TakenApart(i, k) ==
    [events EXCEPT ![i] = SubSeq(@, 1, k - 1) \o <<Revision(@[k]), Submission(@[k])>>]
Apart(i, k) == INSTANCE WorkflowFacts WITH events <- TakenApart(i, k)

CombinedRowsAgree ==
    \A i \in Instances : \A k \in DOMAIN events[i] :
        LET e == events[i][k] IN
        e.type = "COMBINED" =>
            /\ Apart(i, k)!EventReplays(i, k)
            /\ Apart(i, k)!EventReplays(i, k + 1)
            /\ Apart(i, k)!Replayed(i) = [ReplayedBefore(i, k + 1) EXCEPT !.version = @ + 1]
            /\ contexts[i][e.context].author = e.actor
            /\ submissions[i][e.submission].author = e.actor

(* The combined command is admitted exactly when the creator could revise  *)
(* and then take the primary ADVANCE with a submission, and the rows it    *)
(* leaves are those that the two would leave: the recovery code accepts    *)
(* their two events in place of its one, and rebuilds the same projection  *)
(* but for one more state version.                                         *)
CombinedIsReviseThenAdvance == CombinedVerdictsAgree /\ CombinedRowsAgree
================================================================================
