---------------------------- MODULE CommandReceipt -----------------------------
(***************************************************************************)
(* The idempotency protocol statement by statement: a call is one handler  *)
(* invocation, its transaction takes the receipt of its key, the instance  *)
(* row and the definition version row, checks, and commits or rolls back.  *)
(* Every step is one SQL statement under READ COMMITTED; the calls         *)
(* interleave between any two of them.  receipts, history, status and      *)
(* enabled are the committed rows; what a transaction has written stays    *)
(* with it until its commit, and is forgotten by a rollback.               *)
(***************************************************************************)
EXTENDS AtomicCommand

CONSTANTS Free,         \* no transaction holds the lock
          Asks          \* [Calls -> the requests that may reach that call]

ASSUME FreeAssumption == Free \notin Calls

VARIABLES phase,        \* [Calls -> position in the plan of the call's command]
          seen,         \* [Calls -> the state version read under the instance lock]
          gate,         \* [Keys -> call whose PROCESSING insert or row lock holds the key]
          instanceLock, \* [Instances -> call holding the row FOR UPDATE]
          versionLock,  \* [Versions -> call holding the row FOR UPDATE]
          shared        \* admin calls holding their actor's rows FOR SHARE

locks == <<gate, instanceLock, versionLock, shared>>
allVars == <<vars, phase, seen, locks>>

(* The statements of each handler, in its own order.                       *)
CombinedVersionFirst ==   \* mutant: the version row is locked before the instance
    <<"receipt", "version", "instance", "expected", "principal", "commit">>
CombinedPlan == <<"receipt", "instance", "version", "expected", "principal", "commit">>
RebuildPlan  == <<"receipt", "instance", "version", "principal", "replay", "commit">>

Plan(kind) ==
    CASE kind = "CREATE"     -> <<"receipt", "version", "principal", "commit">>
      [] kind = "REVISE"     -> <<"precheck", "receipt", "instance", "principal", "expected",
                                  "version", "commit">>
      [] kind = "TRANSITION" -> <<"receipt", "instance", "expected", "principal", "version",
                                  "commit">>
      [] kind = "COMBINED"   -> CombinedPlan
      [] kind = "OVERRIDE"   -> <<"receipt", "instance", "version", "principal", "replay",
                                  "expected", "commit">>
      [] kind = "REBUILD"    -> RebuildPlan

At(c, statement) == Pending(c) /\ Plan(request[c].kind)[phase[c]] = statement
Advance(c)       == phase' = [phase EXCEPT ![c] = @ + 1] /\ UNCHANGED <<answer, been>>

Released(lock, c) == [x \in DOMAIN lock |-> IF lock[x] = c THEN Free ELSE lock[x]]

(* The transaction ends, and with it every lock it holds.                  *)
End(c, a) ==
    /\ Tell(c, a)
    /\ phase' = [phase EXCEPT ![c] = 0]
    /\ gate' = Released(gate, c)
    /\ instanceLock' = Released(instanceLock, c)
    /\ versionLock' = Released(versionLock, c)
    /\ shared' = shared \ {c}

Owns(c) == receipts[request[c].key] = Undecided

--------------------------------------------------------------------------------
(* A deterministic failure completes the receipt and commits.              *)
FailWithoutReceipt(c, result) ==   \* mutant: the failure is rolled back
    End(c, Verdict(request[c], result)) /\ UNCHANGED receipts

StoreFailure(c, result) ==
    /\ \E a \in Heard(Verdict(request[c], result)) : End(c, a)
    /\ receipts' = [receipts EXCEPT ![request[c].key] =
                       [request |-> request[c], answer |-> Verdict(request[c], result)]]

(* The stored answer, or the conflict when the request hashes differ.      *)
ReplayReceipt(c) ==
    LET stored == receipts[request[c].key] IN
    /\ End(c, IF stored.request = request[c] THEN stored.answer
              ELSE Told("IDEMPOTENCY_CONFLICT", 0))
    /\ UNCHANGED receipts

--------------------------------------------------------------------------------
Begin(c, r) ==
    /\ r \in Asks[c]
    /\ Call(c, r)
    /\ phase' = [phase EXCEPT ![c] = 1]
    /\ UNCHANGED <<seen, locks>>

(* ReviseWorkflowContext looks its principal up before its transaction.    *)
PreValidatePrincipal(c) ==
    /\ At(c, "precheck")
    /\ IF request[c].actor \in enabled THEN Advance(c) /\ UNCHANGED locks
       ELSE End(c, Told("DENIED", 0))
    /\ UNCHANGED <<request, receipts, history, status, enabled, seen>>

(* INSERT .. ON CONFLICT DO NOTHING waits for the transaction whose insert *)
(* or row lock holds the key.  Ordinary commands answer a repetition at    *)
(* once; the admin commands keep the row lock and authorize first.         *)
GateIgnored(k) == TRUE   \* mutant: the insert does not wait for an uncommitted one
GateFree(k)    == gate[k] = Free

AcquireReceipt(c) ==
    LET k == request[c].key IN
    /\ At(c, "receipt") /\ GateFree(k)
    /\ IF Owns(c) \/ Admin(request[c])
         THEN /\ Advance(c)
              /\ gate' = [gate EXCEPT ![k] = c]
              /\ UNCHANGED <<receipts, instanceLock, versionLock, shared>>
         ELSE ReplayReceipt(c)
    /\ UNCHANGED <<request, history, status, enabled, seen>>

LockInstance(c) ==
    LET i == request[c].instance IN
    /\ At(c, "instance") /\ instanceLock[i] = Free
    /\ instanceLock' = [instanceLock EXCEPT ![i] = c]
    /\ seen' = [seen EXCEPT ![c] = StateVersion(i)]
    /\ Advance(c)
    /\ UNCHANGED <<request, receipts, history, status, enabled, gate, versionLock, shared>>

(* The status is read FOR UPDATE and stays as read until the commit.       *)
ReadVersion(c) == UNCHANGED versionLock   \* mutant: SELECT without FOR UPDATE
HoldVersion(c) == versionLock' = [versionLock EXCEPT ![request[c].version] = c]

LockVersion(c) ==
    LET v == request[c].version IN
    /\ At(c, "version") /\ versionLock[v] = Free
    /\ IF status[v] \in Accepts(request[c])
         THEN /\ HoldVersion(c) /\ Advance(c)
              /\ UNCHANGED <<receipts, gate, instanceLock, shared>>
         ELSE StoreFailure(c, "VERSION_STATUS")
    /\ UNCHANGED <<request, history, status, enabled, seen>>

(* An admin's rows are read FOR SHARE, the others' without a lock.  A      *)
(* denied admin whose receipt is not its own leaves that receipt alone.    *)
ReadPrincipal(c) == UNCHANGED shared   \* mutant: SELECT without FOR SHARE
HoldPrincipal(c) == shared' = IF Admin(request[c]) THEN shared \cup {c} ELSE shared

CheckPrincipal(c) ==
    LET r == request[c] IN
    /\ At(c, "principal")
    /\ \/ /\ r.actor \in enabled
          /\ Advance(c)
          /\ HoldPrincipal(c)
          /\ UNCHANGED <<receipts, gate, instanceLock, versionLock>>
       \/ r.actor \notin enabled /\ Owns(c) /\ StoreFailure(c, "PRINCIPAL_DISABLED")
       \/ r.actor \notin enabled /\ ~Owns(c) /\ End(c, Told("DENIED", 0)) /\ UNCHANGED receipts
    /\ UNCHANGED <<request, history, status, enabled, seen>>

ReplayAuthorized(c) ==
    /\ At(c, "replay")
    /\ IF Owns(c) THEN Advance(c) /\ UNCHANGED <<receipts, locks>> ELSE ReplayReceipt(c)
    /\ UNCHANGED <<request, history, status, enabled, seen>>

ExpectedOrOlder(c) == request[c].expected <= seen[c]   \* mutant: <= for =
ExpectedMatches(c) == request[c].expected = seen[c]

CheckExpected(c) ==
    /\ At(c, "expected")
    /\ IF ExpectedMatches(c) THEN Advance(c) /\ UNCHANGED <<receipts, locks>>
       ELSE StoreFailure(c, "STATE_VERSION_CONFLICT")
    /\ UNCHANGED <<request, history, status, enabled, seen>>

(* The facts, the projection, the event and the receipt become visible     *)
(* together.  The UPDATE has WHERE workflow_state_version = seen, but for  *)
(* a rebuilding and for a revision, which compares before and then holds.  *)
CommitTransaction(c) ==
    LET r == request[c] IN
    /\ At(c, "commit")
    /\ (Compares(r) /\ r.kind # "REVISE") => StateVersion(r.instance) = seen[c]
    /\ history' = Append(history, r)
    /\ receipts' = [receipts EXCEPT ![r.key] =
                       [request |-> r, answer |-> Verdict(r, "COMMITTED")]]
    /\ \E a \in Heard(Verdict(r, "COMMITTED")) : End(c, a)
    /\ UNCHANGED <<request, status, enabled, seen>>

(* A crash, a timeout or a StorageError before COMMIT, or a failure that   *)
(* is not stored: the transaction is rolled back, its receipt included.    *)
RollBack(c) ==
    /\ Pending(c)
    /\ End(c, Told("STORAGE_ERROR", 0))
    /\ UNCHANGED <<request, receipts, history, status, enabled, seen>>

--------------------------------------------------------------------------------
(* The lifecycle transactions lock the version FOR UPDATE; an UPDATE of a  *)
(* principal or of its role waits for the FOR SHARE locks on it.           *)
ChangeStatus(v, to) ==
    /\ versionLock[v] = Free
    /\ SetStatus(v, to)
    /\ UNCHANGED <<phase, seen, locks>>

SwitchPrincipal(p) ==
    /\ \A c \in shared : request[c].actor # p
    /\ Switch(p)
    /\ UNCHANGED <<phase, seen, locks>>

Statement(c) ==
    \/ PreValidatePrincipal(c)
    \/ AcquireReceipt(c)
    \/ LockInstance(c)
    \/ LockVersion(c)
    \/ CheckPrincipal(c)
    \/ ReplayAuthorized(c)
    \/ CheckExpected(c)
    \/ CommitTransaction(c)

ReceiptInit ==
    /\ Init
    /\ phase = [c \in Calls |-> 0]
    /\ seen = [c \in Calls |-> 0]
    /\ gate = [k \in Keys |-> Free]
    /\ instanceLock = [i \in Instances |-> Free]
    /\ versionLock = [v \in Versions |-> Free]
    /\ shared = {}

ReceiptNext ==
    \/ \E c \in Calls : (\E r \in Requests : Begin(c, r)) \/ Statement(c) \/ RollBack(c)
    \/ \E v \in Versions, to \in {"DEPRECATED", "REVOKED"} : ChangeStatus(v, to)
    \/ \E p \in Principals : SwitchPrincipal(p)

(* The database executes a statement whose locks are free.                 *)
Fairness    == \A c \in Calls : WF_allVars(Statement(c))
ReceiptSpec == ReceiptInit /\ [][ReceiptNext]_allVars /\ Fairness
================================================================================
