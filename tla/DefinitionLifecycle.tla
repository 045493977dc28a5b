-------------------------- MODULE DefinitionLifecycle ---------------------------
(***************************************************************************)
(* The definition service statement by statement.  What a use case reads   *)
(* before its transaction it reads in separate autocommitted statements,   *)
(* and other calls commit between any two of them; the transaction itself  *)
(* holds the version row FOR UPDATE and is one step.  Every replacement of *)
(* a graph deletes the node and transition rows and inserts new ones under *)
(* fresh ids: `edition` counts them, and a transition refers only to nodes *)
(* of its own edition.  One definition; the caller's authority, checked at *)
(* several points, may fail at any of them (GiveUp).  The triggers that    *)
(* keep a published graph immutable are a second line of defence behind    *)
(* these checks and are left out.                                          *)
(***************************************************************************)
EXTENDS VersionLog

CONSTANTS Calls,
          Commands,     \* the requests, see Command
          NoCommand,    \* of a call not made yet
          Keep          \* a context schema left out of a ReplaceDraftGraph

VARIABLES edition,      \* [Versions -> how often its graph was replaced]
          command,      \* [Calls -> Commands or NoCommand]
          step,         \* [Calls -> next statement]
          read,         \* [Calls -> what it has read so far]
          answer        \* [Calls -> outcome]

vars == <<rows, edition, command, step, read, answer>>

Command == [kind : {"CREATE", "REPLACE", "PUBLISH", "DEPRECATE", "REVOKE"},
            version : Versions, graph : Graphs, schema : Schemas \cup {Keep}]

ASSUME CommandAssumption ==
    /\ Commands \subseteq Command /\ NoCommand \notin Commands
    /\ Keep \notin Schemas
    /\ \A c \in Commands : c.kind = "CREATE" => c.schema # Keep

Read == [number : Nat, schema : Schemas, graph : Graphs \cup {EmptyGraph},
         nodes : Nat, transitions : Nat]

Steps   == {"idle", "number", "insert", "check", "replace", "version", "nodes",
            "transitions", "publish", "status", "end"}
FirstStep(kind) == CASE kind = "CREATE" -> "number" [] kind = "REPLACE" -> "check"
                     [] kind = "PUBLISH" -> "version" [] OTHER -> "status"
Answers == {"none", "DONE", "VERSION_NOT_DRAFT", "GRAPH_VALIDATION_FAILED",
            "CONCURRENT_MODIFICATION", "INVALID_LIFECYCLE", "REFUSED"}

V(c)      == command[c].version
At(c, s)  == step[c] = s
Goto(c, s) == step' = [step EXCEPT ![c] = s] /\ UNCHANGED answer
End(c, a) == step' = [step EXCEPT ![c] = "end"] /\ answer' = [answer EXCEPT ![c] = a]
Unread    == UNCHANGED <<command, read>>
Unwritten == UNCHANGED <<rows, edition, command>>

LifecycleInit ==
    /\ Init
    /\ edition = [v \in Versions |-> 0]
    /\ command = [c \in Calls |-> NoCommand]
    /\ step = [c \in Calls |-> "idle"]
    /\ read = [c \in Calls |-> [number |-> 0, schema |-> SomeSchema, graph |-> EmptyGraph,
                                nodes |-> 0, transitions |-> 0]]
    /\ answer = [c \in Calls |-> "none"]

Call(c, cmd) ==
    /\ At(c, "idle")
    /\ command' = [command EXCEPT ![c] = cmd]
    /\ Goto(c, FirstStep(cmd.kind))
    /\ UNCHANGED <<rows, edition, read>>

--------------------------------------------------------------------------------
(* MAX(version_number) + 1, and the insert in a statement of its own under *)
(* a fresh id; the schema of a new draft is stored as it comes.            *)
IsLatest(m) == \A n \in Numbers : n <= m

NextVersionNumber(c) ==
    /\ At(c, "number")
    /\ \E m \in Numbers \cup {0} :
          IsLatest(m) /\ read' = [read EXCEPT ![c].number = m + 1]
    /\ Goto(c, "insert")
    /\ Unwritten

NumberUnchecked(n) == TRUE   \* mutant: no unique index on the version number
NumberFree(n) == n \notin Numbers

CreateDraftVersion(c) ==
    /\ At(c, "insert")
    /\ \/ /\ NumberFree(read[c].number)
          /\ \E v \in Versions \ Existing :
                rows' = [rows EXCEPT ![v] = [number |-> read[c].number, status |-> "DRAFT",
                                             schema |-> command[c].schema,
                                             graph |-> EmptyGraph, digest |-> NoDigest]]
          /\ End(c, "DONE")
       \/ /\ ~NumberFree(read[c].number)
          /\ End(c, "CONCURRENT_MODIFICATION") /\ UNCHANGED rows
    /\ UNCHANGED edition /\ Unread

--------------------------------------------------------------------------------
(* The schema a replacement is validated with: the stored one if it keeps  *)
(* it.                                                                     *)
PatchOnly(c) ==   \* mutant: a schema that is kept is not validated again
    IF command[c].schema = Keep THEN SomeSchema ELSE command[c].schema
Effective(c) ==
    IF command[c].schema = Keep THEN rows[V(c)].schema ELSE command[c].schema

(* replace_draft_graph before its transaction.  What it validates it has   *)
(* read here; the look-ups of domain and owner, which the code makes       *)
(* before validating, stand in LifecycleAuthority before the replacement,  *)
(* so of a request with both faults another refusal is told.               *)
CheckReplacement(c) ==
    /\ At(c, "check")
    /\ \/ rows[V(c)].status # "DRAFT" /\ End(c, "VERSION_NOT_DRAFT")
       \/ /\ rows[V(c)].status = "DRAFT"
          /\ IF command[c].graph \in ValidGraphs /\ Effective(c) \in ValidSchemas
               THEN Goto(c, "replace") ELSE End(c, "GRAPH_VALIDATION_FAILED")
    /\ Unwritten /\ UNCHANGED read

ReplaceUnchecked(v) == TRUE   \* mutant: DRAFT is not verified again under the lock
StillDraft(v) == rows[v].status = "DRAFT"

ReplaceDraftGraph(c) ==
    /\ At(c, "replace")
    /\ IF StillDraft(V(c))
         THEN /\ rows' = [rows EXCEPT ![V(c)].graph = command[c].graph,
                                      ![V(c)].schema = IF command[c].schema = Keep THEN @
                                                       ELSE command[c].schema]
              /\ edition' = [edition EXCEPT ![V(c)] = @ + 1]
              /\ End(c, "DONE")
         ELSE UNCHANGED <<rows, edition>> /\ End(c, "VERSION_NOT_DRAFT")
    /\ Unread

--------------------------------------------------------------------------------
(* publish_version reads the version row, then its nodes, then its         *)
(* transitions, and validates what it has read.                            *)
ReadVersion(c) ==
    /\ At(c, "version")
    /\ IF rows[V(c)].status = "DRAFT"
         THEN /\ read' = [read EXCEPT ![c].number = rows[V(c)].number,
                                      ![c].schema = rows[V(c)].schema]
              /\ Goto(c, "nodes")
         ELSE UNCHANGED read /\ End(c, "VERSION_NOT_DRAFT")
    /\ Unwritten

ReadNodes(c) ==
    /\ At(c, "nodes")
    /\ read' = [read EXCEPT ![c].graph = rows[V(c)].graph, ![c].nodes = edition[V(c)]]
    /\ Goto(c, "transitions")
    /\ Unwritten

(* Transitions of another edition refer to nodes that were not read.       *)
SnapshotValid(r) ==
    r.nodes = r.transitions /\ r.graph \in ValidGraphs /\ r.schema \in ValidSchemas

ReadTransitions(c) ==
    /\ At(c, "transitions")
    /\ read' = [read EXCEPT ![c].transitions = edition[V(c)]]
    /\ IF SnapshotValid(read'[c]) THEN Goto(c, "publish") ELSE End(c, "GRAPH_VALIDATION_FAILED")
    /\ Unwritten

DigestUnchecked(c) == TRUE   \* mutant: the graph is not read again under the lock
DigestMatches(c) == Digest(read[c]) = Digest(rows[V(c)])

PublishUnchecked(v) == rows[v].status # "ABSENT"   \* mutant: DRAFT is not verified again
Publishable(v) == rows[v].status = "DRAFT"

AtomicPublish(c) ==
    /\ At(c, "publish")
    /\ \/ ~Publishable(V(c)) /\ End(c, "VERSION_NOT_DRAFT") /\ UNCHANGED rows
       \/ /\ Publishable(V(c)) /\ ~DigestMatches(c)
          /\ End(c, "CONCURRENT_MODIFICATION") /\ UNCHANGED rows
       \/ /\ Publishable(V(c)) /\ DigestMatches(c)
          /\ rows' = [rows EXCEPT ![V(c)].status = "PUBLISHED", ![V(c)].digest = Digest(read[c])]
          /\ End(c, "DONE")
    /\ UNCHANGED edition /\ Unread

--------------------------------------------------------------------------------
AtomicDeprecate(c) ==
    /\ At(c, "status") /\ command[c].kind = "DEPRECATE"
    /\ IF rows[V(c)].status = "PUBLISHED"
         THEN rows' = [rows EXCEPT ![V(c)].status = "DEPRECATED"] /\ End(c, "DONE")
         ELSE UNCHANGED rows /\ End(c, "INVALID_LIFECYCLE")
    /\ UNCHANGED edition /\ Unread

AtomicRevoke(c) ==
    /\ At(c, "status") /\ command[c].kind = "REVOKE"
    /\ IF rows[V(c)].status \in {"PUBLISHED", "DEPRECATED"}
         THEN rows' = [rows EXCEPT ![V(c)].status = "REVOKED"] /\ End(c, "DONE")
         ELSE UNCHANGED rows /\ End(c, "INVALID_LIFECYCLE")
    /\ UNCHANGED edition /\ Unread

(* A missing or disabled principal or domain, a caller who is not its      *)
(* owner, a fixed principal that is disabled, a failed statement.          *)
GiveUp(c) ==
    /\ step[c] \notin {"idle", "end"}
    /\ End(c, "REFUSED")
    /\ UNCHANGED <<rows, edition, command, read>>

LifecycleNext ==
    \E c \in Calls :
       \/ \E cmd \in Commands : Call(c, cmd)
       \/ NextVersionNumber(c)
       \/ CreateDraftVersion(c)
       \/ CheckReplacement(c)
       \/ ReplaceDraftGraph(c)
       \/ ReadVersion(c)
       \/ ReadNodes(c)
       \/ ReadTransitions(c)
       \/ AtomicPublish(c)
       \/ AtomicDeprecate(c)
       \/ AtomicRevoke(c)
       \/ GiveUp(c)

LifecycleSpec == LifecycleInit /\ [][LifecycleNext]_vars
================================================================================
