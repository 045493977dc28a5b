---------------------------- MODULE QueryProperties -----------------------------
(***************************************************************************)
(* What a reader of Query can rely on: that an answer is of one moment,    *)
(* that it agrees with the commands, and that nobody loses sight of work   *)
(* he took part in.                                                        *)
(***************************************************************************)
EXTENDS Query

Now == INSTANCE QueryViews

--------------------------------------------------------------------------------
(* The answer is settled when the first statement has fixed the snapshot.  *)
Promised ==
    CASE step \in {"idle", "actor"} -> NoAnswer
      [] step \in {"base", "rows"}  -> View(snapshot)!Answer(query)
      [] step = "told"              -> answer

Atomic == INSTANCE AtomicQuery
    WITH told <- Promised, truth <- [q \in Queries |-> View(tables)!Answer(q)]

(* The statements of a query, and the commands that commit between them,   *)
(* look to the caller as one answer, visibility, consistency and content   *)
(* included, true of one state between question and answer: every          *)
(* statement of the transaction reads the same snapshot.                   *)
ImplementsAtomicQuery == Atomic!Spec

--------------------------------------------------------------------------------
(* The queries refuse an instance as inconsistent exactly when a rebuild   *)
(* would change its row: counting its events is as good as replaying them. *)
NoFalseAlarm ==
    \A i \in Instances : Exists(i) => (Now!Consistent(i) <=> projection[i] = Replayed(i))

Accepted(p, i, t) ==
    \E sub \in Submissions(i, t) : TransitionVerdict(p, i, t, projection[i].version, sub) = "OK"

CreatorIsAway(i, t) ==
    /\ NodeDef[TransitionDef[t].target].assignee = "WORKFLOW_CREATOR"
    /\ identity[i].creator \notin enabled

OffersAreExact(p, i) ==
    LET row == Now!BaseRow(i) IN
    /\ \A t \in Now!Outgoing(row.node) :
          (Now!BlockedReason(row, p, t) = "NONE") <=> Accepted(p, i, t) /\ ~CreatorIsAway(i, t)
    /\ \A t \in Transitions \ Now!Outgoing(row.node) : ~Accepted(p, i, t)

DraftOfferIsExact(p, i) ==
    Now!CombinedExecutable(Now!BaseRow(i), p)
        <=> \E t \in Transitions :
                /\ CombinedVerdict(p, i, t, projection[i].version, "VALID", "VALID") = "OK"
                /\ ~CreatorIsAway(i, t)

OwnDraft(p, i) == identity[i].creator = p /\ NodeDef[CurrentNode(i)].type = "DRAFT"

(* The creator's list by the words of the query contract: the context is   *)
(* editable, the reader is the assignee, and at least one outgoing         *)
(* transition is executable.                                               *)
DocumentedOffer(row, p) ==
    /\ Now!ContextEditable(row)
    /\ row.visit.assignee = p
    /\ \E t \in Now!Outgoing(row.node) : Now!BlockedReason(row, p, t) = "NONE"

PrimaryUnassignable(i) ==
    LET t == TransitionDef[NodeDef[CurrentNode(i)].primary] IN
    Assignees(t.target, identity[i].creator, identity[i].domain) = {}

DraftOfferAsDocumented(p, i) ==
    LET row == Now!BaseRow(i) IN
    Now!CombinedExecutable(row, p) <=> DocumentedOffer(row, p) /\ ~PrimaryUnassignable(i)

(* A transition is offered as executable exactly when the command would    *)
(* accept it with some submission, and a draft as combined-executable in   *)
(* its creator's list exactly when the combined command would accept its   *)
(* primary ADVANCE.  Two exceptions, in which code and documents differ: a *)
(* move to a disabled creator, which the commands allow and the offer does *)
(* not; and a draft whose primary ADVANCE finds no assignee while another  *)
(* of its transitions is executable, a TERMINATE, which the contract calls *)
(* combined-executable and the code does not.                              *)
OffersAreHonest ==
    \A i \in Instances : \A p \in Principals \cap enabled :
        (Exists(i) /\ Now!Consistent(i)) =>
            /\ OffersAreExact(p, i)
            /\ OwnDraft(p, i) => DraftOfferIsExact(p, i) /\ DraftOfferAsDocumented(p, i)

(* In a restricted view the submissions are those of the events it shows,  *)
(* the outcome apart: neither list gives away what the other hides.        *)
HistoryAndTimelineAgree ==
    \A i \in Instances : \A p \in Principals : Exists(i) =>
        LET shown == Now!VisibleEvents(p, i, FALSE)
            with(ks) == {events[i][k].submission : k \in ks} \ {0} IN
        /\ Now!VisibleSubmissions(p, i, FALSE) \subseteq with(shown)
        /\ with({k \in shown : ~Now!Outcome(i, events[i][k])})
              \subseteq Now!VisibleSubmissions(p, i, FALSE)

(* Who once saw an instance as its creator, assignee or participant sees   *)
(* it for good, whatever moves or overrides follow.                        *)
ParticipantsKeepSight ==
    [][\A i \in Instances : \A p \in Principals :
          (Exists(i) /\ Now!Sight(p, i) \in {"ASSIGNEE", "CREATOR", "RESTRICTED"})
              => Now!Sight(p, i)' # "NONE"]_vars
================================================================================
