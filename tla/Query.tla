--------------------------------- MODULE Query ----------------------------------
(***************************************************************************)
(* A query beside the commands of the kernel.  Its transaction sets        *)
(* REPEATABLE READ and then issues its statements one after the other;     *)
(* commands commit between any two of them.  The first statement, which    *)
(* reads the actor, fixes the state that all of them read.                 *)
(***************************************************************************)
EXTENDS WorkflowKernel

CONSTANTS Queries,      \* [kind, actor, instance, after], as QueryViews!Query has them
          NoQuery, NoSnapshot, NoBase,
          PageLimit,
          MaxDuring     \* bound on the commits while one query runs

ASSUME QueryAssumption ==
    /\ NoQuery \notin Queries
    /\ \A q \in Queries : q.kind \in {"DETAIL", "TIMELINE", "CONTEXTS", "VISITS", "SUBMISSIONS",
                                     "ASSIGNED", "DRAFTS"}
    /\ PageLimit \in Nat \ {0} /\ MaxDuring \in Nat

VARIABLES query,        \* the query being asked, or NoQuery
          step,         \* its next statement
          snapshot,     \* the state its transaction reads
          base,         \* what authorized_snapshot or the candidates statement read
          answer,       \* what the caller was told
          during        \* commits since the query was asked

reader   == <<query, step, snapshot, base, answer>>
allVars  == <<vars, reader, during>>

tables == [enabled |-> enabled, bindings |-> bindings, versionStatus |-> versionStatus,
           identity |-> identity, projection |-> projection, contexts |-> contexts,
           visits |-> visits, submissions |-> submissions, events |-> events]

View(s) == INSTANCE QueryViews
    WITH enabled <- s.enabled, bindings <- s.bindings, versionStatus <- s.versionStatus,
         identity <- s.identity, projection <- s.projection, contexts <- s.contexts,
         visits <- s.visits, submissions <- s.submissions, events <- s.events

NoAnswer == [result |-> "NONE"]

ReadCommitted == tables   \* mutant: each statement reads what is committed when it runs
ReadFrom      == snapshot

Tell(a) ==
    /\ answer' = a /\ step' = "told"
    /\ snapshot' = NoSnapshot /\ base' = NoBase
    /\ UNCHANGED query
Continue(next, b) ==
    /\ step' = next /\ base' = b
    /\ UNCHANGED <<query, snapshot, answer>>

Ask(q) ==
    /\ step = "idle"
    /\ query' = q /\ step' = "actor"
    /\ UNCHANGED <<snapshot, base, answer>>

(* actor_snapshot                                                          *)
ReadActor ==
    /\ step = "actor"
    /\ IF View(tables)!ActorDisabled(query)
         THEN Tell(View(tables)!Refused("PRINCIPAL_DISABLED", TRUE))
         ELSE /\ snapshot' = tables /\ step' = "base"
              /\ UNCHANGED <<query, base, answer>>

(* authorized_snapshot after the actor; the candidates of a worklist       *)
ReadBase ==
    /\ step = "base"
    /\ IF query.kind \in View(ReadFrom)!Worklists
         THEN Continue("rows", View(ReadFrom)!Candidates(query))
       ELSE IF View(ReadFrom)!Refusal(query).result # "NONE"
         THEN Tell(View(ReadFrom)!Refusal(query))
         ELSE Continue("rows", View(ReadFrom)!Authorized(query))

ReadRows ==
    /\ step = "rows"
    /\ Tell(IF query.kind \in View(ReadFrom)!Worklists
              THEN View(ReadFrom)!WorkItems(query, base)
              ELSE View(ReadFrom)!Rows(query, base))

Forget ==
    /\ step = "told"
    /\ query' = NoQuery /\ step' = "idle" /\ answer' = NoAnswer
    /\ UNCHANGED <<snapshot, base>>

QueryStep ==
    /\ (\E q \in Queries : Ask(q)) \/ ReadActor \/ ReadBase \/ ReadRows \/ Forget
    /\ during' = IF step = "told" THEN 0 ELSE during
    /\ UNCHANGED vars

(* A commit between an answer and its being forgotten would change neither *)
(* and is left out.                                                        *)
Commit ==
    /\ step # "idle" => during < MaxDuring
    /\ step # "told"
    /\ Next
    /\ during' = IF step = "idle" THEN 0 ELSE during + 1
    /\ UNCHANGED reader

QueryInit ==
    /\ Init
    /\ query = NoQuery /\ step = "idle"
    /\ snapshot = NoSnapshot /\ base = NoBase
    /\ answer = NoAnswer /\ during = 0

QueryNext == QueryStep \/ Commit
QuerySpec == QueryInit /\ [][QueryNext]_allVars
================================================================================
