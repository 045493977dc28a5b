-------------------------- MODULE LifecycleProperties ---------------------------
EXTENDS DefinitionLifecycle

(* Every row and every call has its type.                                  *)
LifecycleTypeOK ==
    /\ rows \in [Versions -> Row]
    /\ edition \in [Versions -> Nat]
    /\ command \in [Calls -> Commands \cup {NoCommand}]
    /\ step \in [Calls -> Steps]
    /\ read \in [Calls -> Read]
    /\ answer \in [Calls -> Answers]
    /\ \A c \in Calls : (command[c] = NoCommand) <=> At(c, "idle")

(* The use cases, whose checks and writes other calls come between, change *)
(* the versions as if each were one step: numbers without gaps although    *)
(* MAX + 1 and the insert are two statements, a graph published only in    *)
(* the state in which it is valid although it was validated before.        *)
ImplementsVersionLog == Spec

(* A draft that has been edited is valid as a whole, the schema it keeps   *)
(* included, although the schema kept is read before the transaction that  *)
(* keeps it and a new draft's is stored unvalidated.                       *)
EditedDraftIsValid ==
    \A v \in Versions : edition[v] > 0 =>
        rows[v].graph \in ValidGraphs /\ rows[v].schema \in ValidSchemas

(* What was ever published is valid and carries the digest of its content. *)
PublishedIsSealed ==
    \A v \in Versions : rows[v].status \in {"PUBLISHED", "DEPRECATED", "REVOKED"} =>
        /\ rows[v].graph \in ValidGraphs /\ rows[v].schema \in ValidSchemas
        /\ rows[v].digest = Digest(rows[v])

(* From its publication a version's content, its node and transition rows  *)
(* and its digest never change, whatever replacement began before.         *)
Frozen(v) ==
    /\ edition'[v] = edition[v]
    /\ [rows'[v] EXCEPT !.status = rows[v].status] = rows[v]
FrozenOncePublished ==
    [][\A v \in Versions : rows[v].status \notin {"ABSENT", "DRAFT"} => Frozen(v)]_vars

(* Of the calls that publish one version at most one is told it did.       *)
OnePublisher ==
    \A c, d \in Calls :
        (/\ answer[c] = "DONE" /\ answer[d] = "DONE"
         /\ command[c].kind = "PUBLISH" /\ command[d].kind = "PUBLISH"
         /\ V(c) = V(d)) => c = d
================================================================================
