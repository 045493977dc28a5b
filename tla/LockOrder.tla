------------------------------- MODULE LockOrder -------------------------------
(***************************************************************************)
(* The row locks of the write transactions, those of the SELECT .. FOR     *)
(* statements and those PostgreSQL takes on the referenced rows (FOR KEY   *)
(* SHARE) when a row with a foreign key is inserted.  A transaction is     *)
(* reduced to the sequence of its lock requests; it can end, and release   *)
(* every lock, at any point: at its commit, on an early return, or when it *)
(* is rolled back.                                                         *)
(*                                                                         *)
(* One domain.  The node rows are left out: they are locked only by        *)
(* transactions that hold their version row FOR UPDATE, and so are rows    *)
(* nobody locks against a reference (definitions, visits, submissions).    *)
(***************************************************************************)
EXTENDS Integers, Sequences

CONSTANTS Transactions,
          Commands,     \* the commands that may run, see Command
          Principals,
          Keys,         \* (principal_id, idempotency_key)
          Instances,
          Versions,
          Members,      \* the principals bound to the domain, in the order of the bindings
          MembersWith,  \* [Principals -> those and that principal, in id order]
          Idle          \* the command of a session with no transaction open

Kinds   == {"CREATE", "REVISE", "TRANSITION", "COMBINED", "OVERRIDE", "REBUILD",
            "LIFECYCLE", "REPLACE_GRAPH", "SWITCH", "IMPORT"}
Command == [kind : Kinds, actor : Principals, key : Keys, instance : Instances,
            version : Versions, assignee : Principals]

ASSUME CommandAssumption == Commands \subseteq Command /\ Idle \notin Commands
ASSUME MemberAssumption  == /\ Members \in Seq(Principals)
                            /\ MembersWith \in [Principals -> Seq(Principals)]

VARIABLES command,      \* [Transactions -> Commands or Idle]
          at            \* [Transactions -> number of locks it holds]

vars == <<command, at>>

--------------------------------------------------------------------------------
Lock(class, id, mode) == [class |-> class, id |-> id, mode |-> mode]

Receipt(c)       == Lock("receipt", c.key, "UPDATE")
Instance(c)      == Lock("instance", c.instance, "UPDATE")
Version(c)       == Lock("version", c.version, "UPDATE")
Referenced(p)    == Lock("principal", p, "KEY_SHARE")
Shared(p)        == Lock("principal", p, "SHARE")
SharedRole(p)    == Lock("binding", p, "SHARE")
DomainRow(mode)  == Lock("domain", 0, mode)
RowsOf(class, ps) == [n \in DOMAIN ps |-> Lock(class, ps[n], "UPDATE")]

(* The receipt row refers to its principal.                                *)
CreatePlan(c)     == <<Receipt(c), Referenced(c.actor), Version(c), DomainRow("KEY_SHARE"),
                       Referenced(c.assignee)>>
RevisePlan(c)     == <<Receipt(c), Referenced(c.actor), Instance(c), Version(c)>>
TransitionPlan(c) == <<Receipt(c), Referenced(c.actor), Instance(c), Version(c),
                       Referenced(c.assignee)>>

(* The actor's row and role, the owner's role when the target node belongs *)
(* to the domain owner, the assignee.                                      *)
OverrideVersionFirst(c) ==   \* mutant: the version row is locked before the instance
    <<Receipt(c), Referenced(c.actor), Version(c), Instance(c), Shared(c.actor),
      SharedRole(c.actor), SharedRole(c.assignee), Shared(c.assignee)>>
OverridePlan(c) ==
    <<Receipt(c), Referenced(c.actor), Instance(c), Version(c), Shared(c.actor),
      SharedRole(c.actor), SharedRole(c.assignee), Shared(c.assignee)>>
RebuildPlan(c) ==
    <<Receipt(c), Referenced(c.actor), Instance(c), Version(c), Shared(c.actor),
      SharedRole(c.actor)>>

(* Publish, deprecate and revoke record their actor in the version row; a  *)
(* replaced graph may name a fixed principal.                              *)
LifecyclePlan(c)    == <<Version(c), Referenced(c.actor)>>
ReplaceGraphPlan(c) == <<Version(c), Referenced(c.assignee)>>

(* An administrator's UPDATE of a principal, outside this program.         *)
SwitchPlan(c) == <<Lock("principal", c.assignee, "NO_KEY_UPDATE")>>

(* The import locks the domain, every binding of it, every bound principal *)
(* and its own in one order of ids, then the version, and reads the assignee FOR SHARE.  The   *)
(* advisory lock of the external reference is the last before the inserts. *)
ImportPlan(c) ==
    <<Receipt(c), Referenced(c.actor), DomainRow("UPDATE")>>
    \o RowsOf("binding", Members) \o RowsOf("principal", MembersWith[c.actor])
    \o <<Version(c), Shared(c.assignee), Lock("reference", c.key, "UPDATE")>>

Plan(c) ==
    CASE c.kind = "CREATE"                    -> CreatePlan(c)
      [] c.kind = "REVISE"                    -> RevisePlan(c)
      [] c.kind \in {"TRANSITION", "COMBINED"} -> TransitionPlan(c)
      [] c.kind = "OVERRIDE"                  -> OverridePlan(c)
      [] c.kind = "REBUILD"                   -> RebuildPlan(c)
      [] c.kind = "LIFECYCLE"                 -> LifecyclePlan(c)
      [] c.kind = "REPLACE_GRAPH"             -> ReplaceGraphPlan(c)
      [] c.kind = "SWITCH"                    -> SwitchPlan(c)
      [] c.kind = "IMPORT"                    -> ImportPlan(c)

--------------------------------------------------------------------------------
(* PostgreSQL's row-lock conflicts.                                        *)
ConflictsWith(mode) ==
    CASE mode = "KEY_SHARE"     -> {"UPDATE"}
      [] mode = "SHARE"         -> {"NO_KEY_UPDATE", "UPDATE"}
      [] mode = "NO_KEY_UPDATE" -> {"SHARE", "NO_KEY_UPDATE", "UPDATE"}
      [] mode = "UPDATE"        -> {"KEY_SHARE", "SHARE", "NO_KEY_UPDATE", "UPDATE"}

Conflict(l, k) == l.class = k.class /\ l.id = k.id /\ l.mode \in ConflictsWith(k.mode)

Open(t)    == command[t] # Idle
Waiting(t) == Open(t) /\ at[t] < Len(Plan(command[t]))
Wanted(t)  == Plan(command[t])[at[t] + 1]
Held(t)    == IF Open(t) THEN {Plan(command[t])[n] : n \in 1..at[t]} ELSE {}

(* u keeps t from its next lock.                                           *)
Blocks(u, t) == u # t /\ \E l \in Held(u) : Conflict(l, Wanted(t))

Init ==
    /\ command = [t \in Transactions |-> Idle]
    /\ at = [t \in Transactions |-> 0]

Begin(t, c) ==
    /\ ~Open(t)
    /\ command' = [command EXCEPT ![t] = c]
    /\ at' = [at EXCEPT ![t] = 0]

Acquire(t) ==
    /\ Waiting(t)
    /\ \A u \in Transactions : ~Blocks(u, t)
    /\ at' = [at EXCEPT ![t] = @ + 1]
    /\ UNCHANGED command

End(t) ==
    /\ Open(t)
    /\ command' = [command EXCEPT ![t] = Idle]
    /\ at' = [at EXCEPT ![t] = 0]

Next == \E t \in Transactions : (\E c \in Commands : Begin(t, c)) \/ Acquire(t) \/ End(t)

Spec == Init /\ [][Next]_vars

--------------------------------------------------------------------------------
(* Every open transaction is within the plan of its command.               *)
TypeOK ==
    /\ command \in [Transactions -> Commands \cup {Idle}]
    /\ at \in [Transactions -> Nat]
    /\ \A t \in Transactions : Open(t) => at[t] \in 0..Len(Plan(command[t]))

(* The transactions of S wait for one another: none of them can go on      *)
(* unless the database aborts one.                                         *)
WaitForEachOther(S) ==
    S # {} /\ \A t \in S : Waiting(t) /\ \E u \in S : Blocks(u, t)

(* "no deadlock cycle exists": the locks of the commands are acquired in   *)
(* an order no set of concurrent transactions can close into a cycle.      *)
NoDeadlock == \A S \in SUBSET Transactions : ~WaitForEachOther(S)
================================================================================
