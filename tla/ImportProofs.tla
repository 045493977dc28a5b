------------------------------ MODULE ImportProofs ------------------------------
(***************************************************************************)
(* ImplementsAtomicImport, OneImportPerRecord and ReceiptsMatchImports for *)
(* every number of calls, actors, domains and records.  The inductive      *)
(* invariant says of each call, statement by statement, which locks it     *)
(* holds and what it has read that those locks keep as it was.             *)
(***************************************************************************)
EXTENDS ImportProperties, SequenceTheorems, TLAPS

TypeOK ==
    /\ request \in [Calls -> Requests \cup {NoRequest}]
    /\ answer \in [Calls -> Results \cup {NoAnswer}]
    /\ receipts \in [Keys -> [request : Requests, answer : Settled] \cup {Undecided, Foreign}]
    /\ instances \in Seq([record : Records, importer : Actors \cup {NoActor}])
    /\ rows \in [Domains -> Row]
    /\ step \in [Calls -> {"idle", "receipt", "access", "owned", "reference", "write", "ended"}]
    /\ gate \in [Keys -> Calls \cup {Free}]
    /\ domainLock \in [Domains -> Calls \cup {Free}]
    /\ advisory \in [Records -> Calls \cup {Free}]

In(c, steps) == Pending(c) /\ step[c] \in steps

Guarded(c) ==
    LET r == request[c] IN
    /\ In(c, {"access", "owned", "reference", "write"}) =>
          gate[Key(r)] = c /\ receipts[Key(r)] # Foreign
    /\ In(c, {"owned", "reference", "write"}) =>
          receipts[Key(r)] = Undecided /\ domainLock[r.domain] = c /\ Access(r) = "OK"
    /\ In(c, {"reference", "write"}) => Resolves(r)
    /\ In(c, {"write"}) => advisory[r.record] = c /\ ~Imported(r.record)

AllGuarded == \A c \in Calls : Guarded(c)
IInv == TypeOK /\ AllGuarded /\ OneImportPerRecord /\ ReceiptsMatchImports

--------------------------------------------------------------------------------
(* What a pending call asks for is an actor, a domain and a record, and    *)
(* its key is of both.                                                     *)
LEMMA RequestFields ==
    ASSUME TypeOK, NEW c \in Calls, Pending(c)
    PROVE  /\ request[c] \in Requests
           /\ request[c].actor \in Actors /\ request[c].domain \in Domains
           /\ request[c].record \in Records /\ request[c].body \in Bodies
           /\ Key(request[c]) \in Keys
           /\ Key(request[c])[1] = request[c].actor /\ Key(request[c])[2] = request[c].record
BY ImportAssumption DEF TypeOK, Pending, Key, Keys, Request

(* The access check answers one of these.                                  *)
LEMMA AccessResults ==
    ASSUME NEW r
    PROVE  Access(r) \in {"INVALID_INPUT", "DOMAIN_DISABLED", "MIGRATION_BINDING_INVALID",
                          "VERSION_NOT_PUBLISHED", "OK"}
BY DEF Access

(* A call is not disturbed by a step that leaves it alone and touches      *)
(* nothing behind its locks.                                               *)
LEMMA Undisturbed ==
    ASSUME TypeOK, NEW d \in Calls, Guarded(d),
           request'[d] = request[d], answer'[d] = answer[d], step'[d] = step[d],
           \A k \in Keys : gate[k] = d => gate'[k] = d /\ receipts'[k] = receipts[k],
           \A x \in Domains : domainLock[x] = d => domainLock'[x] = d /\ rows'[x] = rows[x],
           \A x \in Records : advisory[x] = d => advisory'[x] = d /\ (Imported(x)' => Imported(x))
    PROVE  Guarded(d)'
<1>1. CASE ~Pending(d)
  BY <1>1 DEF Guarded, In, Pending
<1>2. CASE Pending(d)
  BY <1>2, RequestFields DEF Guarded, In, Pending, Access, Resolves
<1> QED BY <1>1, <1>2

(* Releasing frees what the call held and nothing else.                    *)
LEMMA Release ==
    ASSUME NEW S, NEW lock, DOMAIN lock = S, NEW c, NEW x \in S
    PROVE  /\ Released(lock, c)[x] = IF lock[x] = c THEN Free ELSE lock[x]
BY DEF Released

(* The end of a transaction leaves the locks of the others as they are.    *)
LEMMA LocksEndType ==
    ASSUME TypeOK, NEW c \in Calls, LocksEnd(c)
    PROVE  /\ gate' \in [Keys -> Calls \cup {Free}]
           /\ domainLock' \in [Domains -> Calls \cup {Free}]
           /\ advisory' \in [Records -> Calls \cup {Free}]
           /\ \A d \in Calls \ {c} : /\ \A k \in Keys : gate[k] = d => gate'[k] = d
                                     /\ \A x \in Domains : domainLock[x] = d => domainLock'[x] = d
                                     /\ \A x \in Records : advisory[x] = d => advisory'[x] = d
BY DEF TypeOK, LocksEnd, Released

(* What a receipt may say is something a caller may be told.               *)
LEMMA SettledResults == Settled \subseteq Results /\ "STORAGE_ERROR" \in Results
BY DEF Settled, Results
--------------------------------------------------------------------------------
(* What is left to show of a step once the tables have their types: that   *)
(* the other calls are guarded, and that receipts still match instances.   *)
LEMMA EndedIsGuarded ==
    ASSUME NEW c \in Calls, answer'[c] \in Results
    PROVE  Guarded(c)'
BY ImportAssumption DEF Guarded, In, Pending

(* Receipts still match instances when no instance is added and no receipt *)
(* of an import is written.                                                *)
LEMMA MatchKept ==
    ASSUME ReceiptsMatchImports, instances' = instances,
           \A k \in Keys : \/ receipts'[k] = receipts[k]
                           \/ /\ receipts[k] = Undecided
                              /\ \/ receipts'[k] \in {Undecided, Foreign}
                                 \/ receipts'[k].answer # "IMPORTED"
    PROVE  ReceiptsMatchImports'
<1> SUFFICES ASSUME NEW k \in Keys
             PROVE  LET imports == {n \in DOMAIN instances :
                                      <<instances[n].importer, instances[n].record>> = k} IN
                    IF receipts'[k] \notin {Undecided, Foreign} /\ receipts'[k].answer = "IMPORTED"
                    THEN \E n \in imports : imports = {n}
                    ELSE imports = {}
  BY ZenonT(60) DEF ReceiptsMatchImports
<1> DEFINE imports == {n \in DOMAIN instances :
                         <<instances[n].importer, instances[n].record>> = k}
<1>1. IF receipts[k] \notin {Undecided, Foreign} /\ receipts[k].answer = "IMPORTED"
      THEN \E n \in imports : imports = {n}
      ELSE imports = {}
  BY Zenon DEF ReceiptsMatchImports
<1>2. CASE receipts'[k] = receipts[k]
  BY <1>1, <1>2
<1>3. CASE receipts'[k] # receipts[k]
  <2>1. imports = {}
    BY <1>1, <1>3
  <2>2. ~(receipts'[k] \notin {Undecided, Foreign} /\ receipts'[k].answer = "IMPORTED")
    BY <1>3
  <2> QED BY <2>1, <2>2
<1> QED BY <1>2, <1>3

(* What was imported is read of the instances alone.                       *)
LEMMA RecordsKept ==
    ASSUME instances' = instances
    PROVE  /\ \A x : Imported(x)' <=> Imported(x)
           /\ OneImportPerRecord => OneImportPerRecord'
BY DEF Imported, OneImportPerRecord

(* A call that holds its key fails: its receipt is stored if it owns it.   *)
LEMMA FailKeeps ==
    ASSUME IInv, NEW c \in Calls, Pending(c), gate[Key(request[c])] = c,
           NEW result \in Settled \ {"IMPORTED"}, Fail(c, result),
           UNCHANGED <<request, instances, rows>>
    PROVE  IInv'
<1> DEFINE k == Key(request[c])
<1>a. TypeOK /\ AllGuarded /\ OneImportPerRecord /\ ReceiptsMatchImports
  BY DEF IInv
<1>b. request[c] \in Requests /\ k \in Keys
  BY <1>a, RequestFields
<1>1. LocksEnd(c) /\ step' = [step EXCEPT ![c] = "ended"]
  BY DEF Fail, End
<1>2. PICK a \in Results : answer' = [answer EXCEPT ![c] = a]
  BY SettledResults DEF Fail, End
<1>3. \/ receipts' = receipts
      \/ Owns(c) /\ receipts' = [receipts EXCEPT ![k] = Decided(c, result)]
  BY DEF Fail
<1>4. Decided(c, result) \in [request : Requests, answer : Settled]
  BY <1>b DEF Decided
<1>5. TypeOK'
  <2>1. /\ gate' \in [Keys -> Calls \cup {Free}]
        /\ domainLock' \in [Domains -> Calls \cup {Free}]
        /\ advisory' \in [Records -> Calls \cup {Free}]
    BY <1>a, <1>1, LocksEndType
  <2>2. receipts' \in [Keys -> [request : Requests, answer : Settled] \cup {Undecided, Foreign}]
    BY <1>a, <1>b, <1>3, <1>4 DEF TypeOK
  <2> QED BY <1>a, <1>1, <1>2, <2>1, <2>2 DEF TypeOK
<1>6. ASSUME NEW d \in Calls PROVE Guarded(d)'
  <2>1. CASE d = c
    BY <1>a, <1>2, <2>1, EndedIsGuarded DEF TypeOK
  <2>2. CASE d # c
    <3>1. \A y \in Keys : gate[y] = d => receipts'[y] = receipts[y]
      BY <1>a, <1>b, <1>3, <2>2 DEF TypeOK
    <3>2. /\ \A y \in Keys : gate[y] = d => gate'[y] = d
          /\ \A x \in Domains : domainLock[x] = d => domainLock'[x] = d
          /\ \A x \in Records : advisory[x] = d => advisory'[x] = d
      BY <1>a, <1>1, <2>2, LocksEndType
    <3>3. answer'[d] = answer[d] /\ step'[d] = step[d]
      BY <1>a, <1>1, <1>2, <2>2 DEF TypeOK
    <3> QED BY <1>a, <3>1, <3>2, <3>3, Undisturbed, RecordsKept DEF AllGuarded
  <2> QED BY <2>1, <2>2
<1>7. ReceiptsMatchImports'
  <2>1. ASSUME NEW y \in Keys
        PROVE  \/ receipts'[y] = receipts[y]
               \/ receipts[y] = Undecided /\ receipts'[y].answer # "IMPORTED"
    BY <1>a, <1>b, <1>3 DEF TypeOK, Owns, Decided
  <2> QED BY <1>a, <2>1, MatchKept
<1> QED BY <1>a, <1>5, <1>6, <1>7, RecordsKept DEF IInv, AllGuarded
(* A call ends and decides nothing.                                        *)
LEMMA EndKeeps ==
    ASSUME IInv, NEW c \in Calls, NEW a \in Results, End(c, a),
           UNCHANGED <<request, receipts, instances, rows>>
    PROVE  IInv'
<1>a. TypeOK /\ AllGuarded /\ OneImportPerRecord /\ ReceiptsMatchImports
  BY DEF IInv
<1>1. LocksEnd(c) /\ step' = [step EXCEPT ![c] = "ended"] /\ answer' = [answer EXCEPT ![c] = a]
  BY DEF End
<1>2. TypeOK'
  <2>1. /\ gate' \in [Keys -> Calls \cup {Free}]
        /\ domainLock' \in [Domains -> Calls \cup {Free}]
        /\ advisory' \in [Records -> Calls \cup {Free}]
    BY <1>a, <1>1, LocksEndType
  <2> QED BY <1>a, <1>1, <2>1 DEF TypeOK
<1>3. ASSUME NEW d \in Calls PROVE Guarded(d)'
  <2>1. CASE d = c
    BY <1>a, <1>1, <2>1, EndedIsGuarded DEF TypeOK
  <2>2. CASE d # c
    <3>1. /\ \A y \in Keys : gate[y] = d => gate'[y] = d
          /\ \A x \in Domains : domainLock[x] = d => domainLock'[x] = d
          /\ \A x \in Records : advisory[x] = d => advisory'[x] = d
      BY <1>a, <1>1, <2>2, LocksEndType
    <3>2. answer'[d] = answer[d] /\ step'[d] = step[d]
      BY <1>a, <1>1, <2>2 DEF TypeOK
    <3> QED BY <1>a, <3>1, <3>2, Undisturbed, RecordsKept DEF AllGuarded
  <2> QED BY <2>1, <2>2
<1>4. ReceiptsMatchImports'
  BY <1>a, MatchKept
<1> QED BY <1>a, <1>2, <1>3, <1>4, RecordsKept DEF IInv, AllGuarded

(* A call goes on and writes nothing: its own guard is left to show.       *)
LEMMA GoKeeps ==
    ASSUME IInv, NEW c \in Calls,
           NEW s \in {"access", "owned", "reference", "write"}, Go(c, s),
           UNCHANGED <<request, receipts, instances, rows>>,
           gate' = gate \/ \E k \in Keys : gate[k] = Free /\ gate' = [gate EXCEPT ![k] = c],
           domainLock' = domainLock
             \/ \E x \in Domains : domainLock[x] \notin Calls \ {c}
                                  /\ domainLock' = [domainLock EXCEPT ![x] = c],
           advisory' = advisory
             \/ \E x \in Records : advisory[x] = Free /\ advisory' = [advisory EXCEPT ![x] = c],
           Guarded(c)'
    PROVE  IInv'
<1>a. TypeOK /\ AllGuarded /\ OneImportPerRecord /\ ReceiptsMatchImports
  BY DEF IInv
<1>1. TypeOK'
  BY <1>a DEF TypeOK, Go
<1>2. ASSUME NEW d \in Calls PROVE Guarded(d)'
  <2>2. CASE d # c
    <3>1. /\ \A y \in Keys : gate[y] = d => gate'[y] = d
          /\ \A x \in Domains : domainLock[x] = d => domainLock'[x] = d
          /\ \A x \in Records : advisory[x] = d => advisory'[x] = d
      BY <1>a, <2>2, LockAssumption DEF TypeOK
    <3>2. answer'[d] = answer[d] /\ step'[d] = step[d]
      BY <1>a, <2>2 DEF TypeOK, Go
    <3> QED BY <1>a, <3>1, <3>2, Undisturbed, RecordsKept DEF AllGuarded
  <2> QED BY <2>2
<1>3. ReceiptsMatchImports'
  BY <1>a, MatchKept
<1> QED BY <1>a, <1>1, <1>2, <1>3, RecordsKept DEF IInv, AllGuarded

--------------------------------------------------------------------------------
(* A new call holds nothing and relies on nothing.                         *)
LEMMA BeginKeeps ==
    ASSUME IInv, NEW c \in Calls, NEW r \in Requests, Begin(c, r)
    PROVE  IInv'
<1>a. TypeOK /\ AllGuarded /\ OneImportPerRecord /\ ReceiptsMatchImports
  BY DEF IInv
<1>1. TypeOK'
  BY <1>a DEF TypeOK, Begin, Call, locks
<1>2. ASSUME NEW d \in Calls PROVE Guarded(d)'
  <2>1. CASE d = c
    BY <1>a, <2>1 DEF Begin, TypeOK, Guarded, In
  <2>2. CASE d # c
    BY <1>a, <2>2, Undisturbed, RecordsKept DEF Begin, Call, locks, TypeOK, AllGuarded
  <2> QED BY <2>1, <2>2
<1>3. ReceiptsMatchImports'
  BY <1>a, MatchKept DEF Begin, Call
<1> QED BY <1>a, <1>1, <1>2, <1>3, RecordsKept DEF IInv, AllGuarded, Begin, Call

(* The receipt row is taken only when it is free, and is not a foreign one *)
(* when the call goes on.                                                  *)
LEMMA AcquireReceiptKeeps ==
    ASSUME IInv, NEW c \in Calls, AcquireReceipt(c)
    PROVE  IInv'
<1> DEFINE k == Key(request[c])
<1>a. TypeOK /\ Pending(c) /\ k \in Keys
  BY RequestFields DEF IInv, AcquireReceipt, At
<1>1. CASE receipts[k] = Foreign
  BY <1>1, EndKeeps DEF AcquireReceipt, Results
<1>2. CASE receipts[k] # Foreign
  <2>1. Guarded(c)'
    BY <1>a, <1>2 DEF AcquireReceipt, At, Go, Guarded, In, TypeOK
  <2> QED BY <1>a, <1>2, <2>1, GoKeeps DEF AcquireReceipt
<1> QED BY <1>1, <1>2

(* What the access check read of the domain is kept by the lock it read it *)
(* with.                                                                   *)
LEMMA ValidateAccessKeeps ==
    ASSUME IInv, NEW c \in Calls, ValidateAccess(c)
    PROVE  IInv'
<1> DEFINE r == request[c]
           k == Key(r)
<1>a. TypeOK /\ Guarded(c)
  BY DEF IInv, AllGuarded
<1>b. Pending(c) /\ step[c] = "access" /\ UNCHANGED <<request, instances, rows>>
  BY DEF ValidateAccess, At
<1>c. r.domain \in Domains /\ k \in Keys
  BY <1>a, <1>b, RequestFields
<1>d. gate[k] = c /\ receipts[k] # Foreign
  BY <1>a, <1>b DEF Guarded, In
<1>1. CASE Access(r) # "OK" /\ Fail(c, Access(r))
  <2>1. Access(r) \in Settled \ {"IMPORTED"}
    BY <1>1, AccessResults DEF Settled
  <2> QED BY <1>b, <1>d, <1>1, <2>1, FailKeeps
<1>2. CASE Access(r) = "OK" /\ Owns(c) /\ Go(c, "owned") /\ RowsHeld(c)
           /\ UNCHANGED <<receipts, gate, advisory>>
  <2>1. r.body # "MALFORMED"
    BY <1>2 DEF Access
  <2>2. domainLock[r.domain] = Free
    BY <2>1 DEF ValidateAccess
  <2>3. (Access(r) = "OK")'
    BY <1>b, <1>2 DEF Access
  <2>4. Guarded(c)'
    BY <1>a, <1>b, <1>c, <1>d, <1>2, <2>3 DEF Guarded, In, Go, Owns, RowsHeld, TypeOK
  <2> QED BY <1>b, <1>c, <1>2, <2>2, <2>4, GoKeeps, LockAssumption DEF RowsHeld
<1>3. CASE /\ Access(r) = "OK" /\ ~Owns(c)
           /\ End(c, IF receipts[k].request = r THEN receipts[k].answer
                     ELSE "IDEMPOTENCY_CONFLICT")
           /\ UNCHANGED receipts
  <2>1. receipts[k].answer \in Results
    BY <1>a, <1>c, <1>d, <1>3, SettledResults DEF Owns, TypeOK
  <2>2. "IDEMPOTENCY_CONFLICT" \in Results
    BY DEF Results
  <2> QED BY <1>b, <1>3, <2>1, <2>2, EndKeeps
<1> QED BY <1>1, <1>2, <1>3 DEF ValidateAccess

(* What the input resolves to depends on the request and on rows already   *)
(* locked.                                                                 *)
LEMMA ValidateOwnedKeeps ==
    ASSUME IInv, NEW c \in Calls, ValidateOwned(c)
    PROVE  IInv'
<1>a. TypeOK /\ Guarded(c)
  BY DEF IInv, AllGuarded
<1>b. Pending(c) /\ step[c] = "owned" /\ UNCHANGED <<request, instances, rows>>
  BY DEF ValidateOwned, At
<1>1. CASE Resolves(request[c])
  <2>1. Go(c, "reference") /\ UNCHANGED <<receipts, locks>>
    BY <1>1 DEF ValidateOwned
  <2>3. Guarded(c)'
    BY <1>a, <1>b, <1>1, <2>1 DEF Guarded, In, Go, TypeOK, Resolves, Access, locks
  <2> QED BY <1>b, <2>1, <2>3, GoKeeps DEF locks
<1>2. CASE ~Resolves(request[c])
  <2>1. Fail(c, "UNRESOLVED")
    BY <1>2 DEF ValidateOwned
  <2>2. gate[Key(request[c])] = c
    BY <1>a, <1>b DEF Guarded, In
  <2> QED BY <1>b, <2>1, <2>2, FailKeeps DEF Settled
<1> QED BY <1>1, <1>2

(* The EXISTS runs under the lock of the reference, so its answer stays    *)
(* true.                                                                   *)
LEMMA ReferenceAbsentKeeps ==
    ASSUME IInv, NEW c \in Calls, ReferenceAbsent(c)
    PROVE  IInv'
<1> DEFINE x == request[c].record
<1>a. TypeOK /\ Guarded(c)
  BY DEF IInv, AllGuarded
<1>b. Pending(c) /\ step[c] = "reference" /\ UNCHANGED <<request, instances, rows>>
  BY DEF ReferenceAbsent, At
<1>c. x \in Records
  BY <1>a, <1>b, RequestFields
<1>1. CASE /\ ~Referenced(x) /\ AdvisoryLock(c) /\ Go(c, "write")
           /\ UNCHANGED <<receipts, gate, domainLock>>
  <2>1. ~Imported(x) /\ (Imported(x)' <=> Imported(x))
    BY <1>b, <1>1 DEF Referenced, Imported
  <2>2. Guarded(c)'
    BY <1>a, <1>b, <1>c, <1>1, <2>1
       DEF Guarded, In, Go, TypeOK, Resolves, Access, AdvisoryLock
  <2> QED BY <1>b, <1>c, <1>1, <2>2, GoKeeps DEF AdvisoryLock
<1>2. CASE Fail(c, "EXTERNAL_REFERENCE_CONFLICT")
  <2>1. gate[Key(request[c])] = c
    BY <1>a, <1>b DEF Guarded, In
  <2> QED BY <1>b, <1>2, <2>1, FailKeeps DEF Settled
<1> QED BY <1>1, <1>2 DEF ReferenceAbsent
--------------------------------------------------------------------------------
(* An appended row changes none of the rows before it.                     *)
LEMMA Appended ==
    ASSUME TypeOK, NEW i \in [record : Records, importer : Actors \cup {NoActor}],
           instances' = Append(instances, i)
    PROVE  /\ instances' \in Seq([record : Records, importer : Actors \cup {NoActor}])
           /\ Len(instances) \in Nat
           /\ DOMAIN instances = 1..Len(instances)
           /\ DOMAIN instances' = 1..(Len(instances) + 1)
           /\ \A n \in DOMAIN instances : instances'[n] = instances[n]
           /\ instances'[Len(instances) + 1] = i
BY DEF TypeOK

(* The appended row imports a record of which no row was an import.        *)
LEMMA InsertFactsKeeps ==
    ASSUME IInv, NEW c \in Calls, InsertFacts(c)
    PROVE  IInv'
<1> DEFINE r == request[c]
           k == Key(r)
           new == Len(instances) + 1
<1>a. TypeOK /\ AllGuarded /\ OneImportPerRecord /\ ReceiptsMatchImports /\ Guarded(c)
  BY DEF IInv, AllGuarded
<1>b. Pending(c) /\ step[c] = "write" /\ UNCHANGED <<request, rows>>
  BY DEF InsertFacts, At
<1>c. /\ r \in Requests /\ k \in Keys /\ r.actor \in Actors /\ r.record \in Records
      /\ k = <<r.actor, r.record>>
  BY <1>a, <1>b, RequestFields DEF Key
<1>d. /\ gate[k] = c /\ receipts[k] = Undecided /\ advisory[r.record] = c
      /\ ~Imported(r.record)
  BY <1>a, <1>b DEF Guarded, In
<1>e. r.actor # NoActor
  BY <1>c, ImportAssumption
<1>1. PICK a \in Results : answer' = [answer EXCEPT ![c] = a]
  BY SettledResults DEF InsertFacts, End, Settled
<1>2. LocksEnd(c) /\ step' = [step EXCEPT ![c] = "ended"]
  BY DEF InsertFacts, End
<1>3. receipts' = [receipts EXCEPT ![k] = Decided(c, "IMPORTED")]
  BY DEF InsertFacts, WithReceipt
<1>4. Decided(c, "IMPORTED") \in [request : Requests, answer : Settled]
  BY <1>c DEF Decided, Settled
<1>5. /\ instances' \in Seq([record : Records, importer : Actors \cup {NoActor}])
      /\ Len(instances) \in Nat
      /\ DOMAIN instances = 1..Len(instances)
      /\ DOMAIN instances' = 1..new
      /\ \A n \in DOMAIN instances : instances'[n] = instances[n]
      /\ instances'[new] = [record |-> r.record, importer |-> r.actor]
  BY <1>a, <1>c, Appended DEF InsertFacts
<1>6. TypeOK'
  <2>1. /\ gate' \in [Keys -> Calls \cup {Free}]
        /\ domainLock' \in [Domains -> Calls \cup {Free}]
        /\ advisory' \in [Records -> Calls \cup {Free}]
    BY <1>a, <1>2, LocksEndType
  <2> QED BY <1>a, <1>b, <1>1, <1>2, <1>3, <1>4, <1>5, <2>1 DEF TypeOK
<1>7. ASSUME NEW d \in Calls PROVE Guarded(d)'
  <2>1. CASE d = c
    BY <1>a, <1>1, <2>1, EndedIsGuarded DEF TypeOK
  <2>2. CASE d # c
    <3>1. /\ \A y \in Keys : gate[y] = d => gate'[y] = d
          /\ \A x \in Domains : domainLock[x] = d => domainLock'[x] = d
          /\ \A x \in Records : advisory[x] = d => advisory'[x] = d
      BY <1>a, <1>2, <2>2, LocksEndType
    <3>2. \A y \in Keys : gate[y] = d => receipts'[y] = receipts[y]
      BY <1>a, <1>c, <1>d, <1>3, <2>2 DEF TypeOK
    <3>3. ASSUME NEW x \in Records, advisory[x] = d PROVE Imported(x)' => Imported(x)
      <4>1. x # r.record
        BY <1>d, <2>2, <3>3
      <4> QED BY <1>5, <4>1 DEF Imported
    <3>4. request'[d] = request[d] /\ answer'[d] = answer[d] /\ step'[d] = step[d] /\ rows' = rows
      BY <1>a, <1>b, <1>1, <1>2, <2>2 DEF TypeOK
    <3> QED BY <1>a, <3>1, <3>2, <3>3, <3>4, Undisturbed DEF AllGuarded
  <2> QED BY <2>1, <2>2
<1>8. OneImportPerRecord'
  <2>1. \A n \in DOMAIN instances :
           instances[n].record = r.record => instances[n].importer = NoActor
    BY <1>d DEF Imported
  <2> QED BY <1>a, <1>5, <1>e, <2>1 DEF OneImportPerRecord
<1>9. ReceiptsMatchImports'
  <2> SUFFICES ASSUME NEW y \in Keys
               PROVE  LET imports == {n \in DOMAIN instances' :
                                        <<instances'[n].importer, instances'[n].record>> = y} IN
                      IF receipts'[y] \notin {Undecided, Foreign} /\ receipts'[y].answer = "IMPORTED"
                      THEN \E n \in imports : imports = {n}
                      ELSE imports = {}
    BY Zenon DEF ReceiptsMatchImports
  <2> DEFINE were == {n \in DOMAIN instances :
                        <<instances[n].importer, instances[n].record>> = y}
             are  == {n \in DOMAIN instances' :
                        <<instances'[n].importer, instances'[n].record>> = y}
  <2>1. IF receipts[y] \notin {Undecided, Foreign} /\ receipts[y].answer = "IMPORTED"
        THEN \E n \in were : were = {n}
        ELSE were = {}
    BY <1>a, Zenon DEF ReceiptsMatchImports
  <2>2. CASE y # k
    <3>1. are = were
      BY <1>c, <1>5, <2>2
    <3>2. receipts'[y] = receipts[y]
      BY <1>3, <2>2, <1>a DEF TypeOK
    <3> QED BY <2>1, <3>1, <3>2
  <2>3. CASE y = k
    <3>1. were = {}
      BY <1>d, <2>1, <2>3
    <3>2. are = {new}
      <4>1. new \in are
        BY <1>c, <1>5, <2>3
      <4>2. ASSUME NEW n \in are PROVE n = new
        <5>1. n \notin DOMAIN instances
          BY <1>5, <3>1
        <5> QED BY <1>5, <5>1
      <4> QED BY <4>1, <4>2
    <3>3. receipts'[y] = Decided(c, "IMPORTED")
      BY <1>3, <1>c, <1>a, <2>3 DEF TypeOK
    <3>4. receipts'[y] \notin {Undecided, Foreign} /\ receipts'[y].answer = "IMPORTED"
      BY <1>4, <3>3, ImportAssumption DEF Decided
    <3> QED BY <3>2, <3>4
  <2> QED BY <2>2, <2>3
<1> QED BY <1>6, <1>7, <1>8, <1>9 DEF IInv, AllGuarded

(* Rows of a domain change only while no import holds them.                *)
LEMMA AdministerKeeps ==
    ASSUME IInv, NEW x \in Domains, NEW to \in Rows[x], AdministerRows(x, to)
    PROVE  IInv'
<1>a. TypeOK /\ AllGuarded /\ OneImportPerRecord /\ ReceiptsMatchImports
  BY DEF IInv
<1>1. UNCHANGED <<request, answer, receipts, instances, step, gate, domainLock, advisory>>
  BY DEF AdministerRows, Administer, locks
<1>2. rows' = [rows EXCEPT ![x] = to] /\ to \in Row /\ domainLock[x] = Free
  BY ImportAssumption DEF AdministerRows, Administer
<1>3. TypeOK'
  BY <1>a, <1>1, <1>2 DEF TypeOK
<1>4. ASSUME NEW d \in Calls PROVE Guarded(d)'
  <2>1. \A y \in Domains : domainLock[y] = d => rows'[y] = rows[y]
    BY <1>a, <1>2, LockAssumption DEF TypeOK
  <2> QED BY <1>a, <1>1, <2>1, Undisturbed, RecordsKept DEF AllGuarded
<1>5. ReceiptsMatchImports'
  BY <1>a, <1>1, MatchKept
<1> QED BY <1>a, <1>1, <1>3, <1>4, <1>5, RecordsKept DEF IInv, AllGuarded

(* An instance that a creation refers to a record is nobody's import.      *)
LEMMA CreateKeeps ==
    ASSUME IInv, NEW record \in Records, CreateReferenced(record)
    PROVE  IInv'
<1> DEFINE new == Len(instances) + 1
<1>a. TypeOK /\ AllGuarded /\ OneImportPerRecord /\ ReceiptsMatchImports
  BY DEF IInv
<1>1. UNCHANGED <<request, answer, receipts, rows, step, gate, domainLock, advisory>>
  BY DEF CreateReferenced, Create, locks
<1>2. /\ instances' \in Seq([record : Records, importer : Actors \cup {NoActor}])
      /\ Len(instances) \in Nat
      /\ DOMAIN instances = 1..Len(instances)
      /\ DOMAIN instances' = 1..new
      /\ \A n \in DOMAIN instances : instances'[n] = instances[n]
      /\ instances'[new] = [record |-> record, importer |-> NoActor]
  BY <1>a, Appended DEF CreateReferenced, Create
<1>3. TypeOK'
  BY <1>a, <1>1, <1>2 DEF TypeOK
<1>4. \A x : Imported(x)' => Imported(x)
  BY <1>2 DEF Imported
<1>5. ASSUME NEW d \in Calls PROVE Guarded(d)'
  BY <1>a, <1>1, <1>4, Undisturbed DEF AllGuarded
<1>6. OneImportPerRecord'
  BY <1>a, <1>2 DEF OneImportPerRecord
<1>7. ReceiptsMatchImports'
  <2>1. ASSUME NEW y \in Keys
        PROVE  {n \in DOMAIN instances' : <<instances'[n].importer, instances'[n].record>> = y}
                 = {n \in DOMAIN instances : <<instances[n].importer, instances[n].record>> = y}
    <3>1. y[1] # NoActor
      BY ImportAssumption DEF Keys
    <3> QED BY <1>2, <3>1
  <2> QED BY <1>a, <1>1, <2>1 DEF ReceiptsMatchImports
<1> QED BY <1>3, <1>5, <1>6, <1>7 DEF IInv, AllGuarded

(* Another command claims a key only while no import holds it.             *)
LEMMA ClaimKeeps ==
    ASSUME IInv, NEW k \in Keys, ClaimKey(k)
    PROVE  IInv'
<1>a. TypeOK /\ AllGuarded /\ OneImportPerRecord /\ ReceiptsMatchImports
  BY DEF IInv
<1>1. UNCHANGED <<request, answer, instances, rows, step, gate, domainLock, advisory>>
  BY DEF ClaimKey, Claim, locks
<1>2. receipts' = [receipts EXCEPT ![k] = Foreign] /\ receipts[k] = Undecided /\ gate[k] = Free
  BY DEF ClaimKey, Claim
<1>3. TypeOK'
  BY <1>a, <1>1, <1>2 DEF TypeOK
<1>4. ASSUME NEW d \in Calls PROVE Guarded(d)'
  <2>1. \A y \in Keys : gate[y] = d => receipts'[y] = receipts[y]
    BY <1>a, <1>2, LockAssumption DEF TypeOK
  <2> QED BY <1>a, <1>1, <2>1, Undisturbed, RecordsKept DEF AllGuarded
<1>5. ReceiptsMatchImports'
  <2>1. ASSUME NEW y \in Keys
        PROVE  receipts'[y] = receipts[y] \/ (receipts[y] = Undecided /\ receipts'[y] = Foreign)
    <3>1. DOMAIN receipts = Keys
      BY <1>a DEF TypeOK
    <3> QED BY <1>2, <3>1
  <2> QED BY <1>a, <1>1, <2>1, MatchKept
<1> QED BY <1>a, <1>1, <1>3, <1>4, <1>5, RecordsKept DEF IInv, AllGuarded
--------------------------------------------------------------------------------
(* Nothing is imported, held or relied on at the start.                    *)
LEMMA InitEstablishes == ImportInit => IInv
<1> SUFFICES ASSUME ImportInit PROVE IInv
  OBVIOUS
<1>1. /\ request = [c \in Calls |-> NoRequest] /\ answer = [c \in Calls |-> NoAnswer]
      /\ receipts = [k \in Keys |-> Undecided] /\ instances = <<>>
  BY DEF ImportInit, Init
<1>2. TypeOK
  <2>1. rows \in [Domains -> Row]
    BY ImportAssumption DEF ImportInit, Init
  <2> QED BY <1>1, <2>1 DEF ImportInit, TypeOK
<1>3. AllGuarded
  BY <1>1 DEF AllGuarded, Guarded, In, Pending
<1>4. OneImportPerRecord /\ ReceiptsMatchImports
  BY <1>1 DEF OneImportPerRecord, ReceiptsMatchImports
<1> QED BY <1>2, <1>3, <1>4 DEF IInv

(* The invariant is inductive.                                             *)
LEMMA StepKeeps == IInv /\ [ImportNext]_allVars => IInv'
<1> SUFFICES ASSUME IInv, [ImportNext]_allVars PROVE IInv'
  OBVIOUS
<1>1. CASE \E c \in Calls : \E r \in Requests : Begin(c, r)
  BY <1>1, BeginKeeps
<1>2. CASE \E c \in Calls : Statement(c)
  BY <1>2, AcquireReceiptKeeps, ValidateAccessKeeps, ValidateOwnedKeeps, ReferenceAbsentKeeps,
     InsertFactsKeeps DEF Statement
<1>3. CASE \E c \in Calls : RollBack(c)
  BY <1>3, SettledResults, EndKeeps DEF RollBack
<1>4. CASE \E d \in Domains : \E to \in Rows[d] : AdministerRows(d, to)
  BY <1>4, AdministerKeeps
<1>5. CASE \E record \in Records : CreateReferenced(record)
  BY <1>5, CreateKeeps
<1>6. CASE \E k \in Keys : ClaimKey(k)
  BY <1>6, ClaimKeeps
<1>7. CASE UNCHANGED allVars
  <2>1. UNCHANGED <<request, answer, receipts, instances, rows, step, gate, domainLock, advisory>>
    BY <1>7 DEF allVars, vars, locks
  <2> QED BY <2>1 DEF IInv, TypeOK, AllGuarded, Guarded, In, Pending, Access, Resolves, Imported,
                      OneImportPerRecord, ReceiptsMatchImports
<1> QED BY <1>1, <1>2, <1>3, <1>4, <1>5, <1>6, <1>7 DEF ImportNext

(* So it holds of every state.                                             *)
LEMMA Invariance == ImportSpec => []IInv
BY InitEstablishes, StepKeeps, PTL DEF ImportSpec

(* A legacy record is imported at most once, by however many actors and    *)
(* through however many domains it is asked for.                           *)
THEOREM RecordImportedOnce == ImportSpec => []OneImportPerRecord
<1>1. IInv => OneImportPerRecord
  BY DEF IInv
<1> QED BY <1>1, Invariance, PTL

(* A receipt says that its import happened if and only if it did.          *)
THEOREM ImportsHaveReceipts == ImportSpec => []ReceiptsMatchImports
<1>1. IInv => ReceiptsMatchImports
  BY DEF IInv
<1> QED BY <1>1, Invariance, PTL

--------------------------------------------------------------------------------
(* Each statement of a call is the atomic step it is the last one of, or   *)
(* changes nothing the callers can see.                                    *)
LEMMA FailDecides ==
    ASSUME TypeOK, NEW c \in Calls, Pending(c), receipts[Key(request[c])] = Undecided,
           NEW result \in Settled \ {"IMPORTED"}, Justified(request[c], result),
           Fail(c, result), UNCHANGED <<request, instances, rows>>
    PROVE  Next
<1>1. Decide(c, result)
  BY DEF Decide, Fail, End, Owns
<1> QED BY <1>1 DEF Next

(* A call whose key was decided before is a repetition.                    *)
LEMMA EndRepeats ==
    ASSUME TypeOK, NEW c \in Calls, Pending(c),
           receipts[Key(request[c])] \notin {Undecided, Foreign},
           NEW a, End(c, a), UNCHANGED <<request, receipts, instances, rows>>,
           a = IF Access(request[c]) # "OK" THEN Access(request[c])
               ELSE IF receipts[Key(request[c])].request = request[c]
               THEN receipts[Key(request[c])].answer
               ELSE "IDEMPOTENCY_CONFLICT"
    PROVE  Next
<1>1. Repeat(c)
  BY DEF Repeat, End
<1> QED BY <1>1 DEF Next

(* Each statement is one atomic step or none.                              *)
LEMMA StatementsDecide ==
    ASSUME IInv, NEW c \in Calls, Statement(c)
    PROVE  [Next]_vars
<1> DEFINE r == request[c]
           stored == receipts[Key(r)]
<1>a. TypeOK /\ Guarded(c)
  BY DEF IInv, AllGuarded
<1>1. CASE AcquireReceipt(c)
  <2>1. CASE stored = Foreign
    <3>1. Refuse(c)
      BY <1>1, <2>1 DEF AcquireReceipt, Refuse, End, At
    <3> QED BY <3>1 DEF Next
  <2>2. CASE stored # Foreign
    BY <1>1, <2>2 DEF AcquireReceipt, Go, vars
  <2> QED BY <2>1, <2>2
<1>2. CASE ValidateAccess(c)
  <2>1. /\ Pending(c) /\ stored # Foreign /\ UNCHANGED <<request, instances, rows>>
    BY <1>2, <1>a DEF ValidateAccess, At, Guarded, In
  <2>2. CASE Access(r) # "OK" /\ Fail(c, Access(r)) /\ Owns(c)
    <3>1. Access(r) \in Settled \ {"IMPORTED"}
      BY <2>2, AccessResults DEF Settled
    <3>2. Justified(r, Access(r))
      BY <2>2, AccessResults DEF Justified
    <3> QED BY <1>a, <2>1, <2>2, <3>1, <3>2, FailDecides DEF Owns
  <2>3. CASE Access(r) # "OK" /\ Fail(c, Access(r)) /\ ~Owns(c)
    <3>1. End(c, Access(r)) /\ UNCHANGED receipts
      BY <2>3 DEF Fail
    <3> QED BY <1>a, <2>1, <2>3, <3>1, EndRepeats DEF Owns
  <2>4. CASE Go(c, "owned") /\ UNCHANGED receipts
    BY <2>1, <2>4 DEF Go, vars
  <2>5. CASE /\ Access(r) = "OK" /\ ~Owns(c) /\ UNCHANGED receipts
             /\ End(c, IF stored.request = r THEN stored.answer ELSE "IDEMPOTENCY_CONFLICT")
    BY <1>a, <2>1, <2>5, EndRepeats DEF Owns
  <2> QED BY <1>2, <2>2, <2>3, <2>4, <2>5 DEF ValidateAccess
<1>3. CASE ValidateOwned(c)
  <2>1. /\ Pending(c) /\ stored = Undecided /\ Access(r) = "OK"
        /\ UNCHANGED <<request, instances, rows>>
    BY <1>3, <1>a DEF ValidateOwned, At, Guarded, In
  <2>2. CASE Resolves(r)
    BY <1>3, <2>1, <2>2 DEF ValidateOwned, Go, vars
  <2>3. CASE ~Resolves(r)
    <3>1. Justified(r, "UNRESOLVED") /\ Fail(c, "UNRESOLVED")
      BY <1>3, <2>1, <2>3 DEF Justified, ValidateOwned
    <3> QED BY <1>a, <2>1, <3>1, FailDecides DEF Settled
  <2> QED BY <2>2, <2>3
<1>4. CASE ReferenceAbsent(c)
  <2>1. /\ Pending(c) /\ stored = Undecided /\ Access(r) = "OK" /\ Resolves(r)
        /\ UNCHANGED <<request, instances, rows>>
    BY <1>4, <1>a DEF ReferenceAbsent, At, Guarded, In
  <2>2. CASE Go(c, "write") /\ UNCHANGED receipts
    BY <2>1, <2>2 DEF Go, vars
  <2>3. CASE Referenced(r.record) /\ Fail(c, "EXTERNAL_REFERENCE_CONFLICT")
    <3>1. Justified(r, "EXTERNAL_REFERENCE_CONFLICT")
      BY <2>1, <2>3 DEF Justified
    <3> QED BY <1>a, <2>1, <2>3, <3>1, FailDecides DEF Settled
  <2> QED BY <1>4, <2>2, <2>3 DEF ReferenceAbsent
<1>5. CASE InsertFacts(c)
  <2>1. /\ Pending(c) /\ stored = Undecided /\ Access(r) = "OK" /\ Resolves(r)
        /\ ~Imported(r.record)
    BY <1>5, <1>a DEF InsertFacts, At, Guarded, In
  <2>2. Justified(r, "IMPORTED")
    BY <2>1 DEF Justified
  <2>3. Decide(c, "IMPORTED")
    BY <1>5, <2>1, <2>2 DEF InsertFacts, Decide, WithReceipt, End
  <2> QED BY <2>3 DEF Next, Settled
<1> QED BY <1>1, <1>2, <1>3, <1>4, <1>5 DEF Statement

(* So is every step of the protocol.                                       *)
LEMMA StepImplements == IInv /\ [ImportNext]_allVars => [Next]_vars
<1> SUFFICES ASSUME IInv, [ImportNext]_allVars PROVE [Next]_vars
  OBVIOUS
<1>1. CASE \E c \in Calls : \E r \in Requests : Begin(c, r)
  BY <1>1 DEF Begin, Next
<1>2. CASE \E c \in Calls : Statement(c)
  BY <1>2, StatementsDecide
<1>3. CASE \E c \in Calls : RollBack(c)
  <2>1. \E c \in Calls : Refuse(c)
    BY <1>3 DEF RollBack, Refuse, End
  <2> QED BY <2>1 DEF Next
<1>4. CASE \E d \in Domains : \E to \in Rows[d] : AdministerRows(d, to)
  BY <1>4 DEF AdministerRows, Next
<1>5. CASE \E record \in Records : CreateReferenced(record)
  BY <1>5 DEF CreateReferenced, Next
<1>6. CASE \E k \in Keys : ClaimKey(k)
  BY <1>6 DEF ClaimKey, Next
<1>7. CASE UNCHANGED allVars
  BY <1>7 DEF allVars
<1> QED BY <1>1, <1>2, <1>3, <1>4, <1>5, <1>6, <1>7 DEF ImportNext

(* The import, lock by lock, implements the atomic import.                 *)
THEOREM ImportIsAtomic == ImportSpec => ImplementsAtomicImport
<1>1. ImportInit => Init
  BY DEF ImportInit
<1> QED BY <1>1, Invariance, StepImplements, PTL DEF ImportSpec, ImplementsAtomicImport, Spec
================================================================================
