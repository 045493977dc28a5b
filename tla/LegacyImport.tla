----------------------------- MODULE LegacyImport ------------------------------
(***************************************************************************)
(* ImportLegacyWorkflowInstance lock by lock.  A call's transaction holds  *)
(* the receipt row of its key, the rows of its domain and the advisory     *)
(* lock of its external reference, taken in this order and all kept to the *)
(* end; other transactions run between any two of its statements.  Since   *)
(* a key belongs to one actor, only the advisory lock keeps two actors     *)
(* apart who import the same record through different domains.             *)
(* The locks PostgreSQL takes for foreign keys are in LockOrder only.      *)
(***************************************************************************)
EXTENDS AtomicImport

CONSTANTS Free,
          Asks,         \* [Calls -> the requests that may reach that call]
          MaxCreated    \* bound on the instances other commands create

ASSUME LockAssumption == Free \notin Calls /\ MaxCreated \in Nat

VARIABLES step,         \* [Calls -> the next statement of the call]
          gate,         \* [Keys -> call holding the receipt row]
          domainLock,   \* [Domains -> call holding the domain's rows FOR UPDATE]
          advisory      \* [Records -> call holding the lock of the reference]

locks   == <<gate, domainLock, advisory>>
allVars == <<vars, step, locks>>

At(c, s)    == Pending(c) /\ step[c] = s
Go(c, s)    == step' = [step EXCEPT ![c] = s] /\ UNCHANGED answer
Owns(c)     == receipts[Key(request[c])] = Undecided
Released(lock, c) == [x \in DOMAIN lock |-> IF lock[x] = c THEN Free ELSE lock[x]]

LocksKept(c) == UNCHANGED locks   \* mutant: locks of the session, not of the transaction
LocksEnd(c)  ==
    /\ gate' = Released(gate, c)
    /\ domainLock' = Released(domainLock, c)
    /\ advisory' = Released(advisory, c)

End(c, a) ==
    /\ answer' = [answer EXCEPT ![c] = a]
    /\ step' = [step EXCEPT ![c] = "ended"]
    /\ LocksEnd(c)

(* commit_failure: a failure of the call that owns the receipt is stored,  *)
(* any other is only told.                                                 *)
Fail(c, result) ==
    IF Owns(c) THEN /\ \E a \in {result, "STORAGE_ERROR"} : End(c, a)
                    /\ receipts' = [receipts EXCEPT ![Key(request[c])] = Decided(c, result)]
    ELSE End(c, result) /\ UNCHANGED receipts

--------------------------------------------------------------------------------
Begin(c, r) ==
    /\ r \in Asks[c]
    /\ Call(c, r)
    /\ step' = [step EXCEPT ![c] = "receipt"]
    /\ UNCHANGED locks

(* receipt::acquire: the insert, or the lock on the row that was there.    *)
AcquireReceipt(c) ==
    LET k == Key(request[c]) IN
    /\ At(c, "receipt") /\ gate[k] = Free
    /\ IF receipts[k] = Foreign THEN End(c, "INTERNAL_CONSISTENCY")
       ELSE /\ gate' = [gate EXCEPT ![k] = c]
            /\ Go(c, "access")
            /\ UNCHANGED <<domainLock, advisory>>
    /\ UNCHANGED <<request, receipts, instances, rows>>

(* validate_access, for a repetition too, and what follows of it.          *)
RowsRead(c) == UNCHANGED domainLock   \* mutant: SELECT without FOR UPDATE
RowsHeld(c) == domainLock' = [domainLock EXCEPT ![request[c].domain] = c]

ValidateAccess(c) ==
    LET r == request[c]
        stored == receipts[Key(r)] IN
    /\ At(c, "access")
    /\ r.body # "MALFORMED" => domainLock[r.domain] = Free
    /\ \/ Access(r) # "OK" /\ Fail(c, Access(r))
       \/ /\ Access(r) = "OK" /\ Owns(c)
          /\ Go(c, "owned") /\ RowsHeld(c)
          /\ UNCHANGED <<receipts, gate, advisory>>
       \/ /\ Access(r) = "OK" /\ ~Owns(c)
          /\ End(c, IF stored.request = r THEN stored.answer ELSE "IDEMPOTENCY_CONFLICT")
          /\ UNCHANGED receipts
    /\ UNCHANGED <<request, instances, rows>>

(* validate_owned                                                          *)
ValidateOwned(c) ==
    /\ At(c, "owned")
    /\ IF Resolves(request[c]) THEN Go(c, "reference") /\ UNCHANGED <<receipts, locks>>
       ELSE Fail(c, "UNRESOLVED")
    /\ UNCHANGED <<request, instances, rows>>

(* validate_external_reference_absent: the lock, then the EXISTS, which as *)
(* a statement of its own sees what was committed under the lock.          *)
NoAdvisoryLock(c) == UNCHANGED advisory   \* mutant: the EXISTS alone
AdvisoryLock(c)   ==
    /\ advisory[request[c].record] = Free
    /\ advisory' = [advisory EXCEPT ![request[c].record] = c]

ReferenceAbsent(c) ==
    LET record == request[c].record IN
    /\ At(c, "reference")
    /\ \/ /\ ~Referenced(record)
          /\ AdvisoryLock(c) /\ Go(c, "write")
          /\ UNCHANGED <<receipts, gate, domainLock>>
       \/ /\ Referenced(record) /\ advisory[record] = Free
          /\ Fail(c, "EXTERNAL_REFERENCE_CONFLICT")
    /\ UNCHANGED <<request, instances, rows>>

(* insert_facts, the completed receipt and COMMIT.                         *)
WithoutReceipt(c) == UNCHANGED receipts   \* mutant: complete after the commit
WithReceipt(c)    == receipts' = [receipts EXCEPT ![Key(request[c])] = Decided(c, "IMPORTED")]

InsertFacts(c) ==
    LET r == request[c] IN
    /\ At(c, "write")
    /\ instances' = Append(instances, [record |-> r.record, importer |-> r.actor])
    /\ WithReceipt(c)
    /\ \E a \in {"IMPORTED", "STORAGE_ERROR"} : End(c, a)
    /\ UNCHANGED <<request, rows>>

(* A crash or a storage error before COMMIT.                               *)
RollBack(c) ==
    /\ Pending(c)
    /\ End(c, "STORAGE_ERROR")
    /\ UNCHANGED <<request, receipts, instances, rows>>

--------------------------------------------------------------------------------
(* An update of a domain, a principal or a version waits for the row; so   *)
(* does a new binding, whose foreign key needs the domain's row.           *)
AdministerRows(d, to) ==
    /\ domainLock[d] = Free
    /\ Administer(d, to)
    /\ UNCHANGED <<step, locks>>

(* A creation locks no reference.                                          *)
CreateReferenced(record) ==
    /\ Len(SelectSeq(instances, LAMBDA i : i.importer = NoActor)) < MaxCreated
    /\ Create(record)
    /\ UNCHANGED <<step, locks>>
ClaimKey(k) ==
    /\ gate[k] = Free
    /\ Claim(k)
    /\ UNCHANGED <<step, locks>>

Statement(c) ==
    \/ AcquireReceipt(c)
    \/ ValidateAccess(c)
    \/ ValidateOwned(c)
    \/ ReferenceAbsent(c)
    \/ InsertFacts(c)

ImportInit ==
    /\ Init
    /\ step = [c \in Calls |-> "idle"]
    /\ gate = [k \in Keys |-> Free]
    /\ domainLock = [d \in Domains |-> Free]
    /\ advisory = [r \in Records |-> Free]

ImportNext ==
    \/ \E c \in Calls : (\E r \in Requests : Begin(c, r)) \/ Statement(c) \/ RollBack(c)
    \/ \E d \in Domains : \E to \in Rows[d] : AdministerRows(d, to)
    \/ \E record \in Records : CreateReferenced(record)
    \/ \E k \in Keys : ClaimKey(k)

(* The database executes a statement whose locks are free.                 *)
Fairness   == \A c \in Calls : WF_allVars(Statement(c))
ImportSpec == ImportInit /\ [][ImportNext]_allVars /\ Fairness
================================================================================
