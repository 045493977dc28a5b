------------------------------- MODULE VersionLog -------------------------------
(***************************************************************************)
(* What the definition service promises of the versions of one definition: *)
(* they are numbered without gaps or repetitions, a draft is edited only   *)
(* into a valid one, and from the publication, which records the digest of *)
(* the whole content, nothing but the status moves, and only forward.      *)
(***************************************************************************)
EXTENDS Integers, FiniteSets

CONSTANTS Versions,     \* definition_version_id
          Graphs,       \* node and transition lists a client may send
          EmptyGraph,   \* the graph of a draft nobody edited
          ValidGraphs,  \* those the graph validator accepts
          Schemas,      \* context schemas, NULL among them
          ValidSchemas, \* those that compile and refer to nothing external
          NoDigest

ASSUME GraphAssumption  == EmptyGraph \notin ValidGraphs /\ ValidGraphs \subseteq Graphs
ASSUME SchemaAssumption == ValidSchemas \subseteq Schemas /\ ValidSchemas # {}

VARIABLE rows           \* [Versions -> its row], status "ABSENT" before the insert

Digest(row)   == <<row.number, row.schema, row.graph>>
Digests       == (Nat \X Schemas \X (Graphs \cup {EmptyGraph})) \cup {NoDigest}
Statuses      == {"ABSENT", "DRAFT", "PUBLISHED", "DEPRECATED", "REVOKED"}
Row           == [number : Nat, status : Statuses, schema : Schemas,
                  graph : Graphs \cup {EmptyGraph}, digest : Digests]
Existing      == {v \in Versions : rows[v].status # "ABSENT"}
Numbers       == {rows[v].number : v \in Existing}

SomeSchema    == CHOOSE s \in ValidSchemas : TRUE   \* of a row that does not exist yet

Init == rows = [v \in Versions |-> [number |-> 0, status |-> "ABSENT", schema |-> SomeSchema,
                                    graph |-> EmptyGraph, digest |-> NoDigest]]

Create(v, schema) ==
    /\ rows[v].status = "ABSENT"
    /\ rows' = [rows EXCEPT ![v] = [number |-> Cardinality(Existing) + 1, status |-> "DRAFT",
                                    schema |-> schema, graph |-> EmptyGraph,
                                    digest |-> NoDigest]]

Edit(v, graph, schema) ==
    /\ rows[v].status = "DRAFT"
    /\ rows' = [rows EXCEPT ![v].graph = graph, ![v].schema = schema]

Publish(v) ==
    /\ rows[v].status = "DRAFT"
    /\ rows[v].graph \in ValidGraphs /\ rows[v].schema \in ValidSchemas
    /\ rows' = [rows EXCEPT ![v].status = "PUBLISHED", ![v].digest = Digest(rows[v])]

Deprecate(v) ==
    /\ rows[v].status = "PUBLISHED"
    /\ rows' = [rows EXCEPT ![v].status = "DEPRECATED"]

Revoke(v) ==
    /\ rows[v].status \in {"PUBLISHED", "DEPRECATED"}
    /\ rows' = [rows EXCEPT ![v].status = "REVOKED"]

Next == \E v \in Versions :
           \/ \E s \in Schemas : Create(v, s)
           \/ \E g \in ValidGraphs, s \in ValidSchemas : Edit(v, g, s)
           \/ Publish(v)
           \/ Deprecate(v)
           \/ Revoke(v)

Spec == Init /\ [][Next]_rows
================================================================================
