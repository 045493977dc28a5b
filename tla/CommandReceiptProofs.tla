------------------------- MODULE CommandReceiptProofs --------------------------
(***************************************************************************)
(* Proofs about the idempotency protocol, for any number of calls, keys,   *)
(* instances and requests.  The inductive invariant is the type invariant, *)
(* ReadsStillHold, and that a pending call is inside its plan.             *)
(***************************************************************************)
EXTENDS ReceiptProperties, FiniteSetTheorems, TLAPS

PhaseInPlan ==
    \A c \in Calls : Pending(c) => phase[c] \in 1..Len(Plan(request[c].kind))

(* The order of the statements in the six plans.                           *)
LEMMA PlanOrder ==
    ASSUME ReceiptTypeOK, PhaseInPlan, NEW c \in Calls, NEW s, At(c, s)
    PROVE  /\ request[c] \in Requests /\ request[c].kind \in Kinds
           /\ s # "commit" => phase[c] + 1 \in 1..Len(Plan(request[c].kind)) /\ phase[c] < 7
           /\ s \in {"instance", "version", "principal", "replay", "expected", "commit"}
                 => Passed(c, "receipt")
           /\ s = "precheck" => request[c].kind = "REVISE"
           /\ s = "replay" => Admin(request[c])
           /\ s = "instance" => request[c].kind # "CREATE"
           /\ s = "expected" => /\ Compares(request[c]) /\ Passed(c, "instance")
                                /\ Admin(request[c]) => Passed(c, "replay")
           /\ s = "commit" =>
                /\ Passed(c, "version")
                /\ request[c].kind # "CREATE" => Passed(c, "instance")
                /\ Compares(request[c]) => Passed(c, "expected")
                /\ Passed(c, "principal")
                /\ Admin(request[c]) => Passed(c, "replay")
<1> DEFINE kind == request[c].kind
<1>1. request[c] \in Requests /\ kind \in Kinds
  BY RequestAssumption, NullAssumption DEF ReceiptTypeOK, At, Pending, Request
<1>2. phase[c] \in 1..Len(Plan(kind)) /\ Plan(kind)[phase[c]] = s /\ Pending(c)
  BY DEF PhaseInPlan, At
<1>3. CASE kind = "CREATE"
  BY <1>1, <1>2, <1>3, SMTT(30) DEF Plan, Passed, Admin, Compares
<1>4. CASE kind = "REVISE"
  BY <1>1, <1>2, <1>4, SMTT(30) DEF Plan, Passed, Admin, Compares
<1>5. CASE kind = "TRANSITION"
  BY <1>1, <1>2, <1>5, SMTT(30) DEF Plan, Passed, Admin, Compares
<1>6. CASE kind = "COMBINED"
  BY <1>1, <1>2, <1>6, SMTT(30) DEF Plan, CombinedPlan, Passed, Admin, Compares
<1>7. CASE kind = "OVERRIDE"
  BY <1>1, <1>2, <1>7, SMTT(30) DEF Plan, Passed, Admin, Compares
<1>8. CASE kind = "REBUILD"
  BY <1>1, <1>2, <1>8, SMTT(30) DEF Plan, RebuildPlan, Passed, Admin, Compares
<1> QED BY <1>1, <1>3, <1>4, <1>5, <1>6, <1>7, <1>8 DEF Kinds
--------------------------------------------------------------------------------
(* State versions                                                          *)

EventsOf(i) == {n \in DOMAIN history : IsEventOf(history[n], i)}

(* A version counts finitely many events.                                  *)
LEMMA StateVersionType ==
    ASSUME ReceiptTypeOK, NEW i
    PROVE  StateVersion(i) \in Nat
<1>1. Len(history) \in Nat /\ DOMAIN history = 1..Len(history)
  BY DEF ReceiptTypeOK
<1>2. IsFiniteSet(1..Len(history))
  BY <1>1, FS_Interval
<1>3. IsFiniteSet(EventsOf(i))
  BY <1>1, <1>2, FS_Subset DEF EventsOf
<1> QED BY <1>3, FS_CardinalityType DEF StateVersion, EventsOf

(* A commit on another instance leaves the state version as it is.         *)
LEMMA StateVersionFrame ==
    ASSUME ReceiptTypeOK, NEW i, NEW r \in Requests, r.instance # i,
           history' = Append(history, r)
    PROVE  StateVersion(i)' = StateVersion(i)
<1>1. Len(history) \in Nat /\ history \in Seq(Requests)
  BY DEF ReceiptTypeOK
<1>2. EventsOf(i)' = EventsOf(i)
  BY <1>1, SMTT(30) DEF EventsOf, IsEventOf
<1> QED BY <1>2 DEF StateVersion, EventsOf

(* What is stored of a decision names that decision.                       *)
LEMMA VerdictType ==
    ASSUME ReceiptTypeOK, NEW r \in Requests,
           NEW result \in {"COMMITTED", "STATE_VERSION_CONFLICT", "VERSION_STATUS",
                           "PRINCIPAL_DISABLED"}
    PROVE  Verdict(r, result) \in Answer /\ Verdict(r, result).result = result
<1>1. r.expected \in Nat
  BY RequestAssumption DEF Request
<1> QED BY <1>1, StateVersionType DEF Verdict, Told, Answer, Results

(* So is what the caller hears of it, the lost answer included.            *)
LEMMA HeardType ==
    ASSUME NEW a \in Answer
    PROVE  Heard(a) \subseteq Answer
  BY DEF Heard, Told, Answer, Results

--------------------------------------------------------------------------------
(* Type correctness                                                        *)

(* Every answer an End gives is an Answer.                                 *)
LEMMA EndType ==
    ASSUME ReceiptTypeOK, NEW c \in Calls, NEW a \in Answer, End(c, a)
    PROVE  /\ answer' \in [Calls -> Answer \cup {NoAnswer}]
           /\ been' \in [Calls -> SUBSET {"ENABLED", "DISABLED"}]
           /\ phase' \in [Calls -> 0..7]
           /\ gate' \in [Keys -> Calls \cup {Free}]
           /\ instanceLock' \in [Instances -> Calls \cup {Free}]
           /\ versionLock' \in [Versions -> Calls \cup {Free}]
           /\ shared' \subseteq Calls
  BY SMTT(30) DEF ReceiptTypeOK, End, Tell, Released
Decisions == {"COMMITTED", "STATE_VERSION_CONFLICT", "VERSION_STATUS", "PRINCIPAL_DISABLED"}

(* A stored failure is a well-typed receipt and ends the call.             *)
LEMMA StoreFailureType ==
    ASSUME ReceiptTypeOK, NEW c \in Calls, request[c] \in Requests,
           NEW result \in Decisions, StoreFailure(c, result)
    PROVE  /\ \E a \in Answer : End(c, a)
           /\ receipts' \in [Keys -> Receipt \cup {Undecided}]
<1>1. request[c].key \in Keys
  BY RequestAssumption DEF Request
<1>2. Verdict(request[c], result) \in Answer
  BY VerdictType DEF Decisions
<1>3. \E a \in Answer : End(c, a)
  BY <1>2, HeardType DEF StoreFailure
<1>4. receipts' \in [Keys -> Receipt \cup {Undecided}]
  BY <1>1, <1>2 DEF StoreFailure, Receipt, ReceiptTypeOK
<1> QED BY <1>3, <1>4

(* A repetition ends with a well-typed answer and writes nothing.          *)
LEMMA ReplayType ==
    ASSUME ReceiptTypeOK, NEW c \in Calls, request[c] \in Requests, ~Owns(c), ReplayReceipt(c)
    PROVE  \E a \in Answer : End(c, a) /\ receipts' = receipts
<1>1. request[c].key \in Keys
  BY RequestAssumption DEF Request
<1>2. receipts[request[c].key].answer \in Answer
  BY <1>1 DEF ReceiptTypeOK, Owns, Receipt
<1>3. Told("IDEMPOTENCY_CONFLICT", 0) \in Answer
  BY DEF Told, Answer, Results
<1> QED BY <1>2, <1>3 DEF ReplayReceipt

(* The tables are empty and typed at the start.                            *)
LEMMA TypeInit == ReceiptInit => ReceiptTypeOK
  BY SMTT(30) DEF ReceiptInit, Init, ReceiptTypeOK

(* The end of a call disturbs no type but those of what it wrote.          *)
LEMMA TypeOfEnd ==
    ASSUME ReceiptTypeOK, NEW c \in Calls, NEW a \in Answer, End(c, a),
           receipts' \in [Keys -> Receipt \cup {Undecided}], history' \in Seq(Requests),
           UNCHANGED <<request, status, enabled, seen>>
    PROVE  ReceiptTypeOK'
  BY EndType DEF ReceiptTypeOK

(* A call that goes on stays within its plan.                              *)
LEMMA TypeOfAdvance ==
    ASSUME ReceiptTypeOK, PhaseInPlan, NEW c \in Calls, NEW s, At(c, s), s # "commit", Advance(c),
           seen' \in [Calls -> Nat],
           gate' \in [Keys -> Calls \cup {Free}],
           instanceLock' \in [Instances -> Calls \cup {Free}],
           versionLock' \in [Versions -> Calls \cup {Free}],
           shared' \subseteq Calls,
           UNCHANGED <<request, receipts, history, status, enabled>>
    PROVE  ReceiptTypeOK'
<1>1. phase[c] < 7
  BY PlanOrder
<1>2. phase[c] \in 0..7
  BY DEF ReceiptTypeOK
<1>3. phase[c] + 1 \in 0..7
  BY <1>1, <1>2
<1> QED BY <1>3 DEF ReceiptTypeOK, Advance

(* The answers that decide nothing are answers.                            *)
LEMMA RefusalType == Told("DENIED", 0) \in Answer /\ Told("STORAGE_ERROR", 0) \in Answer
  BY DEF Told, Answer, Results

(* Every step keeps the types.                                             *)
LEMMA TypeStep ==
    ASSUME ReceiptTypeOK, PhaseInPlan, [ReceiptNext]_allVars
    PROVE  ReceiptTypeOK'
<1> USE DEF locks
<1>1. CASE UNCHANGED allVars
  BY <1>1 DEF ReceiptTypeOK, allVars, vars
<1>2. ASSUME NEW c \in Calls, NEW r \in Requests, Begin(c, r)
      PROVE  ReceiptTypeOK'
  BY <1>2, SMTT(30) DEF ReceiptTypeOK, Begin, Call, Standing
<1>3. ASSUME NEW c \in Calls, PreValidatePrincipal(c)
      PROVE  ReceiptTypeOK'
  <2>1. CASE Advance(c) /\ UNCHANGED locks
    BY <1>3, <2>1, TypeOfAdvance DEF ReceiptTypeOK, PreValidatePrincipal
  <2>2. CASE End(c, Told("DENIED", 0))
    BY <1>3, <2>2, RefusalType, TypeOfEnd DEF ReceiptTypeOK, PreValidatePrincipal
  <2> QED BY <1>3, <2>1, <2>2 DEF PreValidatePrincipal
<1>4. ASSUME NEW c \in Calls, AcquireReceipt(c)
      PROVE  ReceiptTypeOK'
  <2>1. At(c, "receipt") /\ request[c] \in Requests /\ request[c].key \in Keys
    BY <1>4, PlanOrder, RequestAssumption DEF AcquireReceipt, Request
  <2>2. CASE Owns(c) \/ Admin(request[c])
    BY <1>4, <2>1, <2>2, TypeOfAdvance DEF ReceiptTypeOK, AcquireReceipt
  <2>3. CASE ~(Owns(c) \/ Admin(request[c]))
    BY <1>4, <2>1, <2>3, ReplayType, TypeOfEnd DEF ReceiptTypeOK, AcquireReceipt
  <2> QED BY <2>2, <2>3
<1>5. ASSUME NEW c \in Calls, LockInstance(c)
      PROVE  ReceiptTypeOK'
  BY <1>5, StateVersionType, TypeOfAdvance DEF ReceiptTypeOK, LockInstance
<1>6. ASSUME NEW c \in Calls, LockVersion(c)
      PROVE  ReceiptTypeOK'
  <2>1. At(c, "version") /\ request[c] \in Requests
    BY <1>6, PlanOrder DEF LockVersion
  <2>2. CASE status[request[c].version] \in Accepts(request[c])
    <3>1. /\ Advance(c)
          /\ versionLock' = [versionLock EXCEPT ![request[c].version] = c]
          /\ UNCHANGED <<request, receipts, history, status, enabled, seen, gate,
                        instanceLock, shared>>
      BY <1>6, <2>2 DEF LockVersion, HoldVersion
    <3>2. /\ versionLock' \in [Versions -> Calls \cup {Free}]
          /\ seen \in [Calls -> Nat] /\ gate \in [Keys -> Calls \cup {Free}]
          /\ instanceLock \in [Instances -> Calls \cup {Free}] /\ shared \subseteq Calls
      BY <3>1 DEF ReceiptTypeOK
    <3> QED BY <2>1, <3>1, <3>2, TypeOfAdvance
  <2>3. CASE status[request[c].version] \notin Accepts(request[c])
    BY <1>6, <2>1, <2>3, StoreFailureType, TypeOfEnd DEF ReceiptTypeOK, LockVersion, Decisions
  <2> QED BY <2>2, <2>3
<1>7. ASSUME NEW c \in Calls, CheckPrincipal(c)
      PROVE  ReceiptTypeOK'
  <2>1. At(c, "principal") /\ request[c] \in Requests
    BY <1>7, PlanOrder DEF CheckPrincipal
  <2>2. CASE request[c].actor \in enabled
    BY <1>7, <2>1, <2>2, TypeOfAdvance DEF ReceiptTypeOK, CheckPrincipal, HoldPrincipal
  <2>3. CASE StoreFailure(c, "PRINCIPAL_DISABLED")
    BY <1>7, <2>1, <2>3, StoreFailureType, TypeOfEnd DEF ReceiptTypeOK, CheckPrincipal, Decisions
  <2>4. CASE End(c, Told("DENIED", 0)) /\ UNCHANGED receipts
    BY <1>7, <2>4, RefusalType, TypeOfEnd DEF ReceiptTypeOK, CheckPrincipal
  <2> QED BY <1>7, <2>2, <2>3, <2>4 DEF CheckPrincipal
<1>8. ASSUME NEW c \in Calls, ReplayAuthorized(c)
      PROVE  ReceiptTypeOK'
  <2>1. At(c, "replay") /\ request[c] \in Requests
    BY <1>8, PlanOrder DEF ReplayAuthorized
  <2>2. CASE Owns(c)
    BY <1>8, <2>1, <2>2, TypeOfAdvance DEF ReceiptTypeOK, ReplayAuthorized
  <2>3. CASE ~Owns(c)
    BY <1>8, <2>1, <2>3, ReplayType, TypeOfEnd DEF ReceiptTypeOK, ReplayAuthorized
  <2> QED BY <2>2, <2>3
<1>9. ASSUME NEW c \in Calls, CheckExpected(c)
      PROVE  ReceiptTypeOK'
  <2>1. At(c, "expected") /\ request[c] \in Requests
    BY <1>9, PlanOrder DEF CheckExpected
  <2>2. CASE ExpectedMatches(c)
    BY <1>9, <2>1, <2>2, TypeOfAdvance DEF ReceiptTypeOK, CheckExpected
  <2>3. CASE ~ExpectedMatches(c)
    BY <1>9, <2>1, <2>3, StoreFailureType, TypeOfEnd DEF ReceiptTypeOK, CheckExpected, Decisions
  <2> QED BY <2>2, <2>3
<1>10. ASSUME NEW c \in Calls, CommitTransaction(c)
       PROVE  ReceiptTypeOK'
  <2>1. request[c] \in Requests /\ request[c].key \in Keys
    BY <1>10, PlanOrder, RequestAssumption DEF CommitTransaction, Request
  <2>2. Verdict(request[c], "COMMITTED") \in Answer
    BY <2>1, VerdictType
  <2>3. receipts' \in [Keys -> Receipt \cup {Undecided}]
    BY <1>10, <2>1, <2>2 DEF CommitTransaction, ReceiptTypeOK, Receipt
  <2>4. history' \in Seq(Requests)
    BY <1>10, <2>1 DEF CommitTransaction, ReceiptTypeOK
  <2>5. PICK a \in Answer : End(c, a)
    BY <1>10, <2>2, HeardType DEF CommitTransaction
  <2> QED BY <1>10, <2>3, <2>4, <2>5, TypeOfEnd DEF CommitTransaction
<1>11. ASSUME NEW c \in Calls, RollBack(c)
       PROVE  ReceiptTypeOK'
  BY <1>11, RefusalType, TypeOfEnd DEF RollBack, ReceiptTypeOK
<1>12. ASSUME NEW v \in Versions, NEW to \in {"DEPRECATED", "REVOKED"}, ChangeStatus(v, to)
       PROVE  ReceiptTypeOK'
  BY <1>12 DEF ReceiptTypeOK, ChangeStatus, SetStatus
<1>13. ASSUME NEW p \in Principals, SwitchPrincipal(p)
       PROVE  ReceiptTypeOK'
  BY <1>13, SMTT(30) DEF ReceiptTypeOK, SwitchPrincipal, Switch, Standing
<1> QED BY <1>1, <1>2, <1>3, <1>4, <1>5, <1>6, <1>7, <1>8, <1>9, <1>10, <1>11, <1>12, <1>13
        DEF ReceiptNext, Statement
--------------------------------------------------------------------------------
(* What a transaction read still holds                                     *)

Inv == ReceiptTypeOK /\ PhaseInPlan /\ ReadsStillHold

(* A step of another call leaves a call where it was.                      *)
LEMMA PassedFrame ==
    ASSUME NEW d \in Calls, request'[d] = request[d], answer'[d] = answer[d],
           phase'[d] = phase[d]
    PROVE  /\ Pending(d)' = Pending(d)
           /\ \A s : Passed(d, s)' = Passed(d, s)
  BY DEF Pending, Passed

(* Going on adds the statement just executed to those passed.              *)
LEMMA PassedAfterAdvance ==
    ASSUME Inv, NEW c \in Calls, NEW s, At(c, s), Advance(c), request' = request
    PROVE  /\ Pending(c)' = Pending(c)
           /\ \A t : Passed(c, t)' <=> (Passed(c, t) \/ t = s)
<1>1. phase[c] \in Nat \ {0} /\ phase'[c] = phase[c] + 1
  BY DEF Inv, ReceiptTypeOK, PhaseInPlan, At, Advance
<1>2. Plan(request[c].kind)[phase[c]] = s /\ Pending(c) /\ Pending(c)'
  BY DEF At, Advance, Pending
<1>3. \A n \in Int : n \in 1..(phase'[c] - 1) <=> (n \in 1..(phase[c] - 1) \/ n = phase[c])
  BY <1>1
<1> QED BY <1>1, <1>2, <1>3 DEF Passed

(* A call that has ended relies on nothing any more.                       *)
LEMMA NotPendingAfterEnd ==
    ASSUME Inv, NEW c \in Calls, NEW a \in Answer, End(c, a)
    PROVE  ~Pending(c)' /\ \A s : ~Passed(c, s)'
  BY NullAssumption DEF Inv, ReceiptTypeOK, End, Tell, Pending, Passed

(* Only a command about an existing instance locks one.                    *)
LEMMA PassedInstance ==
    ASSUME Inv, NEW d \in Calls, Passed(d, "instance")
    PROVE  request[d].kind # "CREATE" /\ request[d].instance \in Instances
<1>1. request[d] \in Requests /\ phase[d] \in 1..Len(Plan(request[d].kind))
  BY DEF Inv, ReceiptTypeOK, PhaseInPlan, Passed, Pending
<1>2. request[d].kind # "CREATE"
  <2>1. SUFFICES ASSUME request[d].kind = "CREATE" PROVE FALSE
    OBVIOUS
  <2>2. Plan(request[d].kind) = <<"receipt", "version", "principal", "commit">>
    BY <2>1 DEF Plan
  <2>3. phase[d] \in 1..4
    BY <1>1, <2>2
  <2> QED BY <2>2, <2>3 DEF Passed
<1> QED BY <1>1, <1>2, RequestAssumption DEF Request
(* A re-authorized repetition is one whose receipt is locked.              *)
LEMMA NothingBeforeReceipt ==
    ASSUME Inv, NEW c \in Calls, At(c, "receipt")
    PROVE  \A s \in {"instance", "version", "principal", "replay", "expected"} : ~Passed(c, s)
<1> DEFINE kind == request[c].kind
<1>1. kind \in Kinds /\ phase[c] \in 1..Len(Plan(kind)) /\ Plan(kind)[phase[c]] = "receipt"
  BY PlanOrder DEF At, PhaseInPlan, Inv
<1>2. kind \in {"CREATE", "TRANSITION", "COMBINED", "OVERRIDE", "REBUILD"} => phase[c] = 1
  BY <1>1, SMTT(30) DEF Plan, CombinedPlan, RebuildPlan
<1>3. kind = "REVISE" => phase[c] = 2 /\ Plan(kind)[1] = "precheck"
  BY <1>1, SMTT(30) DEF Plan
<1> QED BY <1>1, <1>2, <1>3 DEF Passed, Kinds

(* No plan compares the expected version before it has read the instance.  *)
LEMMA InstanceBeforeExpected ==
    ASSUME Inv, NEW c \in Calls, At(c, "instance")
    PROVE  ~Passed(c, "expected")
<1> DEFINE kind == request[c].kind
<1>1. kind \in Kinds /\ phase[c] \in 1..Len(Plan(kind)) /\ Plan(kind)[phase[c]] = "instance"
  BY PlanOrder DEF At, PhaseInPlan, Inv
<1>2. phase[c] <= 3 /\ kind # "CREATE"
  BY <1>1, SMTT(30) DEF Plan, CombinedPlan, RebuildPlan, Kinds
<1>3. \A n \in 1..2 : Plan(kind)[n] # "expected"
  BY <1>1, <1>2, SMTT(30) DEF Plan, CombinedPlan, RebuildPlan, Kinds
<1> QED BY <1>1, <1>2, <1>3 DEF Passed

(* The end of a transaction disturbs nothing that another one has read: it *)
(* gives up its own locks only, and whatever receipt or event it commits   *)
(* is protected by a lock of its own.                                      *)
LEMMA EndKeepsInv ==
    ASSUME Inv, NEW c \in Calls, request[c] \in Requests, NEW a \in Answer, End(c, a),
           \/ receipts' = receipts
           \/ /\ gate[request[c].key] = c
              /\ \E x : receipts' = [receipts EXCEPT ![request[c].key] = x],
           \/ history' = history
           \/ /\ history' = Append(history, request[c])
              /\ request[c].kind # "CREATE" => instanceLock[request[c].instance] = c,
           UNCHANGED <<request, status, enabled, seen>>
    PROVE  PhaseInPlan' /\ ReadsStillHold'
<1>1. \A d \in Calls \ {c} : /\ Pending(d)' = Pending(d) /\ phase'[d] = phase[d]
                             /\ \A s : Passed(d, s)' = Passed(d, s)
  BY PassedFrame DEF End, Tell, Inv, ReceiptTypeOK
<1>2. PhaseInPlan'
  <2>1. \A d \in Calls \ {c} : Pending(d)' => phase'[d] \in 1..Len(Plan(request[d].kind))
    BY <1>1 DEF Inv, PhaseInPlan
  <2> QED BY <2>1, NotPendingAfterEnd DEF PhaseInPlan
<1>3. ASSUME NEW d \in Calls, d # c PROVE Holds(d)'
  <2>1. Holds(d)
    BY DEF Inv, ReadsStillHold
  <2>8. /\ been'[d] = been[d]
        /\ Pending(d) => Standing(request[d].actor)' \in been'[d]
    BY <1>3, <2>1 DEF Holds, End, Tell, Standing, Inv, ReceiptTypeOK
  <2>2. Passed(d, "receipt") => /\ gate'[request[d].key] = d
                                /\ ~Admin(request[d]) \/ Passed(d, "replay") => Owns(d)'
    <3>1. SUFFICES ASSUME Passed(d, "receipt")
                   PROVE  /\ gate'[request[d].key] = d
                          /\ ~Admin(request[d]) \/ Passed(d, "replay") => Owns(d)'
      OBVIOUS
    <3>2. gate[request[d].key] = d /\ (~Admin(request[d]) \/ Passed(d, "replay") => Owns(d))
      BY <2>1, <3>1 DEF Holds
    <3>3. request[d] \in Requests /\ request[d].key \in Keys /\ request[c].key \in Keys
      BY <3>1, RequestAssumption DEF Inv, ReceiptTypeOK, Passed, Pending, Request
    <3>4. gate'[request[d].key] = d
      BY <1>3, <3>2, <3>3 DEF End, Released, Inv, ReceiptTypeOK
    <3>5. receipts'[request[d].key] = receipts[request[d].key]
      BY <1>3, <3>2, <3>3 DEF Inv, ReceiptTypeOK
    <3> QED BY <3>2, <3>4, <3>5 DEF Owns
  <2>3. Passed(d, "instance") => /\ instanceLock'[request[d].instance] = d
                                 /\ seen'[d] = StateVersion(request[d].instance)'
    <3>1. SUFFICES ASSUME Passed(d, "instance")
                   PROVE  /\ instanceLock'[request[d].instance] = d
                          /\ seen'[d] = StateVersion(request[d].instance)'
      OBVIOUS
    <3>2. /\ instanceLock[request[d].instance] = d
          /\ seen[d] = StateVersion(request[d].instance)
      BY <2>1, <3>1 DEF Holds
    <3>3. request[d].instance \in Instances
      BY <3>1, PassedInstance
    <3>4. instanceLock'[request[d].instance] = d
      BY <1>3, <3>2, <3>3 DEF End, Released, Inv, ReceiptTypeOK
    <3>5. CASE history' = history
      BY <3>2, <3>4, <3>5 DEF StateVersion
    <3>6. CASE /\ history' = Append(history, request[c])
               /\ request[c].kind # "CREATE" => instanceLock[request[c].instance] = c
      <4>1. request[c].instance # request[d].instance
        BY <1>3, <3>2, <3>3, <3>6, RequestAssumption, NullAssumption
      <4>2. StateVersion(request[d].instance)' = StateVersion(request[d].instance)
        BY <3>6, <4>1, StateVersionFrame DEF Inv
      <4> QED BY <3>2, <3>4, <4>2
    <3> QED BY <3>5, <3>6
  <2>4. Passed(d, "version") => /\ versionLock'[request[d].version] = d
                                /\ status'[request[d].version] \in Accepts(request[d])
    BY <1>3, <2>1, RequestAssumption
    DEF Holds, End, Released, Inv, ReceiptTypeOK, Passed, Pending, Request
  <2>5. Passed(d, "principal") =>
            /\ "ENABLED" \in been'[d]
            /\ Admin(request[d]) => d \in shared' /\ request[d].actor \in enabled'
    BY <1>3, <2>1, <2>8 DEF Holds, End
  <2>6. Passed(d, "expected") => request[d].expected = seen'[d]
    BY <2>1 DEF Holds
  <2>7. \A r : Accepts(r)' = Accepts(r) /\ Admin(r)' = Admin(r)
    BY DEF Accepts, Admin
  <2> QED BY <1>1, <1>3, <2>2, <2>3, <2>4, <2>5, <2>6, <2>7, <2>8 DEF Holds
<1>4. Holds(c)'
  BY NotPendingAfterEnd DEF Holds
<1> QED BY <1>2, <1>3, <1>4 DEF ReadsStillHold
(* A statement that goes on takes only locks that are free, so what every  *)
(* other transaction holds it keeps.                                       *)
LEMMA AdvanceKeepsOthers ==
    ASSUME Inv, NEW c \in Calls, NEW s, At(c, s), s # "commit", Advance(c),
           UNCHANGED <<request, receipts, history, status, enabled>>,
           \A d \in Calls \ {c} :
               /\ seen'[d] = seen[d]
               /\ \A k \in Keys : gate[k] = d => gate'[k] = d
               /\ \A i \in Instances : instanceLock[i] = d => instanceLock'[i] = d
               /\ \A v \in Versions : versionLock[v] = d => versionLock'[v] = d
               /\ d \in shared => d \in shared'
    PROVE  PhaseInPlan' /\ \A d \in Calls \ {c} : Holds(d)'
<1>1. \A d \in Calls \ {c} : /\ Pending(d)' = Pending(d) /\ phase'[d] = phase[d]
                             /\ \A t : Passed(d, t)' = Passed(d, t)
  BY PassedFrame DEF Advance, Inv, ReceiptTypeOK
<1>2. PhaseInPlan'
  <2>1. \A d \in Calls \ {c} : Pending(d)' => phase'[d] \in 1..Len(Plan(request'[d].kind))
    BY <1>1 DEF Inv, PhaseInPlan
  <2>2. phase'[c] = phase[c] + 1
    BY DEF Advance, Inv, ReceiptTypeOK
  <2>3. phase'[c] \in 1..Len(Plan(request'[c].kind))
    BY <2>2, PlanOrder DEF Inv
  <2> QED BY <2>1, <2>3 DEF PhaseInPlan
<1>3. ASSUME NEW d \in Calls \ {c} PROVE Holds(d)'
  <2>1. Holds(d)
    BY DEF Inv, ReadsStillHold
  <2>2. \A t : Passed(d, t) => request[d].key \in Keys /\ request[d].version \in Versions
    BY RequestAssumption DEF Inv, ReceiptTypeOK, Passed, Pending, Request
  <2>3. \A r, i : /\ Accepts(r)' = Accepts(r) /\ Admin(r)' = Admin(r)
                  /\ StateVersion(i)' = StateVersion(i)
    BY DEF Accepts, Admin, StateVersion
  <2>4. been' = been /\ \A p : Standing(p)' = Standing(p)
    BY DEF Advance, Standing
  <2> QED BY <1>1, <2>1, <2>2, <2>3, <2>4, PassedInstance DEF Holds, Owns
<1> QED BY <1>2, <1>3

(* No call has begun, so no call relies on anything.                       *)
LEMMA InvInit == ReceiptInit => Inv
<1> SUFFICES ASSUME ReceiptInit PROVE Inv
  OBVIOUS
<1>1. \A c \in Calls : ~Pending(c)
  BY DEF ReceiptInit, Init, Pending
<1> QED BY <1>1, TypeInit DEF Inv, PhaseInPlan, ReadsStillHold, Holds, Passed
(* A failure is stored by the owner of the key, whose gate kept others     *)
(* out.                                                                    *)
LEMMA StoreFailureKeepsInv ==
    ASSUME Inv, NEW c \in Calls, request[c] \in Requests, Passed(c, "receipt"),
           NEW result \in Decisions, StoreFailure(c, result),
           UNCHANGED <<request, history, status, enabled, seen>>
    PROVE  PhaseInPlan' /\ ReadsStillHold'
<1>1. gate[request[c].key] = c
  BY DEF Inv, ReadsStillHold, Holds
<1>2. PICK a \in Answer : End(c, a)
  BY StoreFailureType DEF Inv
<1>3. \E x : receipts' = [receipts EXCEPT ![request[c].key] = x]
  BY DEF StoreFailure
<1> QED BY <1>1, <1>2, <1>3, EndKeepsInv

(* A repetition releases its own locks only.                               *)
LEMMA ReplayKeepsInv ==
    ASSUME Inv, NEW c \in Calls, request[c] \in Requests, ~Owns(c), ReplayReceipt(c),
           UNCHANGED <<request, history, status, enabled, seen>>
    PROVE  PhaseInPlan' /\ ReadsStillHold'
<1>1. PICK a \in Answer : End(c, a) /\ receipts' = receipts
  BY ReplayType DEF Inv
<1> QED BY <1>1, EndKeepsInv

(* Each statement establishes what it read under the lock it took, and no  *)
(* other call relies on what it writes: their locks exclude it.            *)
LEMMA StatementKeepsInv ==
    ASSUME Inv, NEW c \in Calls, Statement(c)
    PROVE  PhaseInPlan' /\ ReadsStillHold'
<1> USE DEF locks
<1>1. PhaseInPlan' /\ (\A d \in Calls \ {c} : Holds(d)') /\ Holds(c)'
          => PhaseInPlan' /\ ReadsStillHold'
  BY DEF ReadsStillHold
<1>2. Holds(c)
  BY DEF Inv, ReadsStillHold
<1>3. \A r, i : /\ Accepts(r)' = Accepts(r) /\ Admin(r)' = Admin(r)
                /\ history' = history => StateVersion(i)' = StateVersion(i)
  BY DEF Accepts, Admin, StateVersion
<1>12. Pending(c)
  BY DEF Statement, PreValidatePrincipal, AcquireReceipt, LockInstance, LockVersion,
         CheckPrincipal, ReplayAuthorized, CheckExpected, CommitTransaction, At
<1>13. Advance(c) /\ UNCHANGED <<request, enabled>>
           => been' = been /\ Standing(request[c].actor)' \in been'[c]
  BY <1>2, <1>12 DEF Advance, Standing, Holds
<1>4. CASE PreValidatePrincipal(c)
  <2>1. At(c, "precheck") /\ request[c] \in Requests
    BY <1>4, PlanOrder DEF PreValidatePrincipal, Inv
  <2>2. CASE Advance(c) /\ UNCHANGED locks
    <3>1. PhaseInPlan' /\ \A d \in Calls \ {c} : Holds(d)'
      BY <1>4, <2>1, <2>2, AdvanceKeepsOthers DEF PreValidatePrincipal
    <3>2. \A t \in {"receipt", "replay", "instance", "version", "principal", "expected"} :
              Passed(c, t)' <=> Passed(c, t)
      BY <1>4, <2>1, <2>2, PassedAfterAdvance DEF PreValidatePrincipal
    <3>3. Holds(c)'
      BY <1>2, <1>3, <1>4, <1>13, <2>2, <3>2 DEF PreValidatePrincipal, Holds, Owns
    <3> QED BY <1>1, <3>1, <3>3
  <2>3. CASE End(c, Told("DENIED", 0))
    BY <1>4, <2>1, <2>3, RefusalType, EndKeepsInv DEF PreValidatePrincipal
  <2> QED BY <1>4, <2>2, <2>3 DEF PreValidatePrincipal
<1>5. CASE AcquireReceipt(c)
  <2>1. At(c, "receipt") /\ request[c] \in Requests /\ request[c].key \in Keys
    BY <1>5, PlanOrder, RequestAssumption DEF AcquireReceipt, Request, Inv
  <2>2. CASE Owns(c) \/ Admin(request[c])
    <3>1. /\ Advance(c) /\ gate[request[c].key] = Free
          /\ gate' = [gate EXCEPT ![request[c].key] = c]
          /\ UNCHANGED <<request, receipts, history, status, enabled, seen,
                        instanceLock, versionLock, shared>>
      BY <1>5, <2>2 DEF AcquireReceipt, GateFree
    <3>2. PhaseInPlan' /\ \A d \in Calls \ {c} : Holds(d)'
      <4>1. \A d \in Calls \ {c} : \A k \in Keys : gate[k] = d => gate'[k] = d
        BY <3>1, FreeAssumption DEF Inv, ReceiptTypeOK
      <4> QED BY <2>1, <3>1, <4>1, AdvanceKeepsOthers
    <3>3. \A t \in {"replay", "instance", "version", "principal", "expected"} :
              Passed(c, t)' <=> Passed(c, t)
      BY <2>1, <3>1, PassedAfterAdvance
    <3>4. ~Passed(c, "replay")
      BY <2>1, <3>1, <1>2, FreeAssumption, NothingBeforeReceipt
    <3>5. Holds(c)'
      BY <1>2, <1>3, <1>13, <2>1, <2>2, <3>1, <3>3, <3>4 DEF Holds, Owns, Inv, ReceiptTypeOK
    <3> QED BY <1>1, <3>2, <3>5
  <2>3. CASE ~(Owns(c) \/ Admin(request[c]))
    BY <1>5, <2>1, <2>3, ReplayKeepsInv DEF AcquireReceipt
  <2> QED BY <2>2, <2>3
<1>6. CASE LockInstance(c)
  <2>1. /\ At(c, "instance") /\ Passed(c, "receipt")
        /\ request[c] \in Requests /\ request[c].kind # "CREATE"
    BY <1>6, PlanOrder DEF LockInstance, Inv
  <2>2. request[c].instance \in Instances
    BY <2>1, RequestAssumption DEF Request
  <2>3. /\ Advance(c) /\ instanceLock[request[c].instance] = Free
        /\ instanceLock' = [instanceLock EXCEPT ![request[c].instance] = c]
        /\ seen' = [seen EXCEPT ![c] = StateVersion(request[c].instance)]
        /\ UNCHANGED <<request, receipts, history, status, enabled, gate, versionLock, shared>>
    BY <1>6 DEF LockInstance
  <2>4. PhaseInPlan' /\ \A d \in Calls \ {c} : Holds(d)'
    BY <2>1, <2>3, FreeAssumption, AdvanceKeepsOthers DEF Inv, ReceiptTypeOK
  <2>5. \A t \in {"receipt", "replay", "version", "principal", "expected"} :
            Passed(c, t)' <=> Passed(c, t)
    BY <2>1, <2>3, PassedAfterAdvance
  <2>6. ~Passed(c, "expected")
    BY <2>1, InstanceBeforeExpected
  <2>7. Holds(c)'
    BY <1>2, <1>3, <1>13, <2>2, <2>3, <2>5, <2>6 DEF Holds, Owns, Inv, ReceiptTypeOK
  <2> QED BY <1>1, <2>4, <2>7
<1>7. CASE LockVersion(c)
  <2>1. /\ At(c, "version") /\ Passed(c, "receipt") /\ request[c] \in Requests
        /\ request[c].version \in Versions
    BY <1>7, PlanOrder, RequestAssumption DEF LockVersion, Inv, Request
  <2>2. CASE status[request[c].version] \in Accepts(request[c])
    <3>1. /\ Advance(c) /\ versionLock[request[c].version] = Free
          /\ versionLock' = [versionLock EXCEPT ![request[c].version] = c]
          /\ UNCHANGED <<request, receipts, history, status, enabled, seen, gate,
                        instanceLock, shared>>
      BY <1>7, <2>2 DEF LockVersion, HoldVersion
    <3>2. PhaseInPlan' /\ \A d \in Calls \ {c} : Holds(d)'
      <4>1. \A d \in Calls \ {c} : \A v \in Versions : versionLock[v] = d => versionLock'[v] = d
        BY <3>1, FreeAssumption DEF Inv, ReceiptTypeOK
      <4> QED BY <2>1, <3>1, <4>1, AdvanceKeepsOthers
    <3>3. \A t \in {"receipt", "replay", "instance", "principal", "expected"} :
              Passed(c, t)' <=> Passed(c, t)
      BY <2>1, <3>1, PassedAfterAdvance
    <3>4. Holds(c)'
      BY <1>2, <1>3, <1>13, <2>1, <2>2, <3>1, <3>3 DEF Holds, Owns, Inv, ReceiptTypeOK
    <3> QED BY <1>1, <3>2, <3>4
  <2>3. CASE status[request[c].version] \notin Accepts(request[c])
    BY <1>7, <2>1, <2>3, StoreFailureKeepsInv DEF LockVersion, Decisions
  <2> QED BY <2>2, <2>3
<1>8. CASE CheckPrincipal(c)
  <2>1. At(c, "principal") /\ Passed(c, "receipt") /\ request[c] \in Requests
    BY <1>8, PlanOrder DEF CheckPrincipal, Inv
  <2>2. CASE request[c].actor \in enabled
    <3>1. /\ Advance(c)
          /\ shared' = IF Admin(request[c]) THEN shared \cup {c} ELSE shared
          /\ UNCHANGED <<request, receipts, history, status, enabled, seen, gate,
                        instanceLock, versionLock>>
      BY <1>8, <2>2 DEF CheckPrincipal, HoldPrincipal
    <3>2. PhaseInPlan' /\ \A d \in Calls \ {c} : Holds(d)'
      BY <2>1, <3>1, AdvanceKeepsOthers
    <3>3. \A t \in {"receipt", "replay", "instance", "version", "expected"} :
              Passed(c, t)' <=> Passed(c, t)
      BY <2>1, <3>1, PassedAfterAdvance
    <3>4. "ENABLED" \in been[c]
      BY <1>2, <1>12, <2>2 DEF Holds, Standing
    <3>5. Holds(c)'
      BY <1>2, <1>3, <1>13, <2>2, <3>1, <3>3, <3>4 DEF Holds, Owns
    <3> QED BY <1>1, <3>2, <3>5
  <2>3. CASE StoreFailure(c, "PRINCIPAL_DISABLED")
    BY <1>8, <2>1, <2>3, StoreFailureKeepsInv DEF CheckPrincipal, Decisions
  <2>4. CASE End(c, Told("DENIED", 0)) /\ UNCHANGED receipts
    BY <1>8, <2>1, <2>4, RefusalType, EndKeepsInv DEF CheckPrincipal
  <2> QED BY <1>8, <2>2, <2>3, <2>4 DEF CheckPrincipal
<1>9. CASE ReplayAuthorized(c)
  <2>1. At(c, "replay") /\ request[c] \in Requests
    BY <1>9, PlanOrder DEF ReplayAuthorized, Inv
  <2>2. CASE Owns(c)
    <3>1. Advance(c) /\ UNCHANGED <<request, receipts, history, status, enabled, seen, locks>>
      BY <1>9, <2>2 DEF ReplayAuthorized
    <3>2. PhaseInPlan' /\ \A d \in Calls \ {c} : Holds(d)'
      BY <2>1, <3>1, AdvanceKeepsOthers
    <3>3. \A t \in {"receipt", "instance", "version", "principal", "expected"} :
              Passed(c, t)' <=> Passed(c, t)
      BY <2>1, <3>1, PassedAfterAdvance
    <3>4. Holds(c)'
      BY <1>2, <1>3, <1>13, <2>2, <3>1, <3>3 DEF Holds, Owns
    <3> QED BY <1>1, <3>2, <3>4
  <2>3. CASE ~Owns(c)
    BY <1>9, <2>1, <2>3, ReplayKeepsInv DEF ReplayAuthorized
  <2> QED BY <2>2, <2>3
<1>10. CASE CheckExpected(c)
  <2>1. At(c, "expected") /\ Passed(c, "receipt") /\ request[c] \in Requests
    BY <1>10, PlanOrder DEF CheckExpected, Inv
  <2>2. CASE ExpectedMatches(c)
    <3>1. Advance(c) /\ UNCHANGED <<request, receipts, history, status, enabled, seen, locks>>
      BY <1>10, <2>2 DEF CheckExpected
    <3>2. PhaseInPlan' /\ \A d \in Calls \ {c} : Holds(d)'
      BY <2>1, <3>1, AdvanceKeepsOthers
    <3>3. \A t \in {"receipt", "replay", "instance", "version", "principal"} :
              Passed(c, t)' <=> Passed(c, t)
      BY <2>1, <3>1, PassedAfterAdvance
    <3>4. Holds(c)'
      BY <1>2, <1>3, <1>13, <2>2, <3>1, <3>3 DEF Holds, Owns, ExpectedMatches
    <3> QED BY <1>1, <3>2, <3>4
  <2>3. CASE ~ExpectedMatches(c)
    BY <1>10, <2>1, <2>3, StoreFailureKeepsInv DEF CheckExpected, Decisions
  <2> QED BY <2>2, <2>3
<1>11. CASE CommitTransaction(c)
  <2>1. /\ request[c] \in Requests /\ Passed(c, "receipt")
        /\ request[c].kind # "CREATE" => Passed(c, "instance")
    BY <1>11, PlanOrder DEF CommitTransaction, Inv
  <2>2. Verdict(request[c], "COMMITTED") \in Answer
    BY <2>1, VerdictType DEF Inv
  <2>3. /\ gate[request[c].key] = c
        /\ request[c].kind # "CREATE" => instanceLock[request[c].instance] = c
    BY <1>2, <2>1 DEF Holds
  <2>4. \E x : receipts' = [receipts EXCEPT ![request[c].key] = x]
    BY <1>11 DEF CommitTransaction
  <2>5. PICK a \in Answer : End(c, a)
    BY <1>11, <2>2, HeardType DEF CommitTransaction
  <2> QED BY <1>11, <2>1, <2>3, <2>4, <2>5, EndKeepsInv DEF CommitTransaction
<1> QED BY <1>4, <1>5, <1>6, <1>7, <1>8, <1>9, <1>10, <1>11 DEF Statement
(* The invariant is inductive.                                             *)
LEMMA InvStep ==
    ASSUME Inv, [ReceiptNext]_allVars
    PROVE  Inv'
<1> USE DEF locks
<1>1. ReceiptTypeOK'
  BY TypeStep DEF Inv
<1>2. \A r, i : /\ Accepts(r)' = Accepts(r) /\ Admin(r)' = Admin(r)
                /\ history' = history => StateVersion(i)' = StateVersion(i)
                /\ enabled' = enabled => Standing(r)' = Standing(r)
  BY DEF Accepts, Admin, StateVersion, Standing
<1>3. CASE UNCHANGED allVars
  <2>1. \A d \in Calls : Pending(d)' = Pending(d) /\ \A s : Passed(d, s)' = Passed(d, s)
    BY <1>3, PassedFrame DEF allVars, vars
  <2> QED BY <1>1, <1>2, <1>3, <2>1
          DEF Inv, PhaseInPlan, ReadsStillHold, Holds, Owns, allVars, vars
<1>4. ASSUME NEW c \in Calls, NEW r \in Requests, Begin(c, r)
      PROVE  PhaseInPlan' /\ ReadsStillHold'
  <2>1. \A d \in Calls \ {c} :
            /\ request'[d] = request[d] /\ phase'[d] = phase[d] /\ been'[d] = been[d]
            /\ Pending(d)' = Pending(d)
            /\ \A s : Passed(d, s)' = Passed(d, s)
    BY <1>4, PassedFrame DEF Begin, Call, Inv, ReceiptTypeOK
  <2>2. request'[c] = r /\ phase'[c] = 1 /\ Standing(r.actor)' \in been'[c]
    BY <1>4 DEF Begin, Call, Standing, Inv, ReceiptTypeOK
  <2>3. \A s : ~Passed(c, s)'
    BY <2>2 DEF Passed
  <2>4. Len(Plan(r.kind)) \in Nat \ {0}
    BY RequestAssumption DEF Plan, CombinedPlan, RebuildPlan, Request, Kinds
  <2>5. PhaseInPlan'
    BY <2>1, <2>2, <2>4 DEF Inv, PhaseInPlan
  <2>6. \A d \in Calls \ {c} : Holds(d)'
    BY <1>2, <1>4, <2>1 DEF Inv, ReadsStillHold, Holds, Owns, Begin, Call
  <2>7. Holds(c)'
    BY <2>2, <2>3 DEF Holds
  <2> QED BY <2>5, <2>6, <2>7 DEF ReadsStillHold
<1>5. ASSUME NEW c \in Calls, Statement(c)
      PROVE  PhaseInPlan' /\ ReadsStillHold'
  BY <1>5, StatementKeepsInv
<1>6. ASSUME NEW c \in Calls, RollBack(c)
      PROVE  PhaseInPlan' /\ ReadsStillHold'
  <2>1. request[c] \in Requests
    BY <1>6 DEF RollBack, Pending, Inv, ReceiptTypeOK
  <2> QED BY <1>6, <2>1, RefusalType, EndKeepsInv DEF RollBack
<1>7. ASSUME NEW v \in Versions, NEW to \in {"DEPRECATED", "REVOKED"}, ChangeStatus(v, to)
      PROVE  PhaseInPlan' /\ ReadsStillHold'
  <2>1. \A d \in Calls : Pending(d)' = Pending(d) /\ \A s : Passed(d, s)' = Passed(d, s)
    BY <1>7, PassedFrame DEF ChangeStatus, SetStatus
  <2>2. \A w \in Versions : versionLock[w] \in Calls => status'[w] = status[w]
    BY <1>7, FreeAssumption DEF ChangeStatus, SetStatus, Inv, ReceiptTypeOK
  <2>3. \A d \in Calls : Passed(d, "version") => request[d].version \in Versions
    BY RequestAssumption DEF Inv, ReceiptTypeOK, Passed, Pending, Request
  <2> QED BY <1>2, <1>7, <2>1, <2>2, <2>3
          DEF Inv, PhaseInPlan, ReadsStillHold, Holds, Owns, ChangeStatus, SetStatus
<1>8. ASSUME NEW p \in Principals, SwitchPrincipal(p)
      PROVE  PhaseInPlan' /\ ReadsStillHold'
  <2>1. \A d \in Calls : Pending(d)' = Pending(d) /\ \A s : Passed(d, s)' = Passed(d, s)
    BY <1>8, PassedFrame DEF SwitchPrincipal, Switch
  <2>2. \A d \in shared : request[d].actor \in enabled => request[d].actor \in enabled'
    BY <1>8 DEF SwitchPrincipal, Switch
  <2>3. ASSUME NEW d \in Calls
        PROVE  /\ been[d] \subseteq been'[d]
               /\ (Pending(d) /\ Standing(request[d].actor) \in been[d])
                     => Standing(request[d].actor)' \in been'[d]
    BY <1>8 DEF SwitchPrincipal, Switch, Standing
  <2>4. ASSUME NEW d \in Calls PROVE Holds(d)'
    <3>1. Holds(d)
      BY DEF Inv, ReadsStillHold
    <3> QED BY <1>2, <1>8, <2>1, <2>2, <2>3, <3>1 DEF Holds, Owns, SwitchPrincipal, Switch
  <2> QED BY <1>8, <2>1, <2>4
          DEF Inv, PhaseInPlan, ReadsStillHold, SwitchPrincipal, Switch
<1> QED BY <1>1, <1>3, <1>4, <1>5, <1>6, <1>7, <1>8 DEF ReceiptNext, Inv

(* For any calls, keys and requests, what a transaction read still holds   *)
(* when it goes on, and every table and lock holds values of its type.     *)
THEOREM ReadsHold == ReceiptSpec => []ReceiptTypeOK /\ []ReadsStillHold
<1>1. ReceiptInit => Inv
  BY InvInit
<1>2. Inv /\ [ReceiptNext]_allVars => Inv'
  BY InvStep
<1>3. Inv => ReceiptTypeOK /\ ReadsStillHold
  BY DEF Inv
<1> QED BY <1>1, <1>2, <1>3, PTL DEF ReceiptSpec
--------------------------------------------------------------------------------
(* No set of calls waits for each other                                    *)

(* The next statement of c waits for a lock that d holds.                  *)
WaitsFor(c, d) ==
    \/ At(c, "receipt")  /\ gate[request[c].key] = d
    \/ At(c, "instance") /\ instanceLock[request[c].instance] = d
    \/ At(c, "version")  /\ versionLock[request[c].version] = d

(* While calls are pending, one of them waits for none, itself included,   *)
(* and the comparison in its commit does not fail.                         *)
SomeCallGoesOn ==
    (\E c \in Calls : Pending(c)) =>
        \E c \in Calls :
            /\ Pending(c)
            /\ \A d \in Calls : ~WaitsFor(c, d)
            /\ (At(c, "commit") /\ Compares(request[c])) =>
                  StateVersion(request[c].instance) = seen[c]

(* A lock is held only by a pending call that has executed the statement   *)
(* that takes it: no transaction leaves a lock behind.                     *)
HeldByCalls ==
    /\ \A k \in Keys      : gate[k] # Free => Passed(gate[k], "receipt")
    /\ \A i \in Instances : instanceLock[i] # Free => Passed(instanceLock[i], "instance")
    /\ \A v \in Versions  : versionLock[v] # Free => Passed(versionLock[v], "version")

(* A call that ends gives its locks back, and no other call's.             *)
LEMMA EndKeepsHeld ==
    ASSUME Inv, HeldByCalls, NEW c \in Calls, NEW a \in Answer, End(c, a), request' = request
    PROVE  HeldByCalls'
<1>1. \A d \in Calls \ {c} : \A s : Passed(d, s)' = Passed(d, s)
  BY PassedFrame DEF End, Tell, Inv, ReceiptTypeOK
<1>2. \A k \in Keys : gate'[k] # Free => gate'[k] = gate[k] /\ gate[k] \in Calls \ {c}
  BY DEF End, Released, Inv, ReceiptTypeOK
<1>3. \A i \in Instances : instanceLock'[i] # Free =>
                              instanceLock'[i] = instanceLock[i] /\ instanceLock[i] \in Calls \ {c}
  BY DEF End, Released, Inv, ReceiptTypeOK
<1>4. \A v \in Versions : versionLock'[v] # Free =>
                             versionLock'[v] = versionLock[v] /\ versionLock[v] \in Calls \ {c}
  BY DEF End, Released, Inv, ReceiptTypeOK
<1> QED BY <1>1, <1>2, <1>3, <1>4 DEF HeldByCalls

(* A call that goes on keeps its locks, and may add that of the statement. *)
LEMMA AdvanceKeepsHeld ==
    ASSUME Inv, HeldByCalls, NEW c \in Calls, NEW s, At(c, s), Advance(c), request' = request,
           \/ gate' = gate
           \/ s = "receipt" /\ \E k \in Keys : gate' = [gate EXCEPT ![k] = c],
           \/ instanceLock' = instanceLock
           \/ s = "instance" /\ \E i \in Instances : instanceLock' = [instanceLock EXCEPT ![i] = c],
           \/ versionLock' = versionLock
           \/ s = "version" /\ \E v \in Versions : versionLock' = [versionLock EXCEPT ![v] = c]
    PROVE  HeldByCalls'
<1>1. \A d \in Calls \ {c} : \A t : Passed(d, t)' = Passed(d, t)
  BY PassedFrame DEF Advance, Inv, ReceiptTypeOK
<1>2. \A t : Passed(c, t)' <=> (Passed(c, t) \/ t = s)
  BY PassedAfterAdvance
<1>3. \A d \in Calls : \A t : Passed(d, t) => Passed(d, t)'
  BY <1>1, <1>2
<1>4. \A k \in Keys : \/ gate'[k] = gate[k] /\ gate[k] \in Calls \cup {Free}
                      \/ gate'[k] = c /\ s = "receipt"
  BY DEF Inv, ReceiptTypeOK
<1>5. \A i \in Instances : \/ instanceLock'[i] = instanceLock[i]
                              /\ instanceLock[i] \in Calls \cup {Free}
                           \/ instanceLock'[i] = c /\ s = "instance"
  BY DEF Inv, ReceiptTypeOK
<1>6. \A v \in Versions : \/ versionLock'[v] = versionLock[v]
                             /\ versionLock[v] \in Calls \cup {Free}
                          \/ versionLock'[v] = c /\ s = "version"
  BY DEF Inv, ReceiptTypeOK
<1> QED BY <1>2, <1>3, <1>4, <1>5, <1>6 DEF HeldByCalls

(* So every statement keeps it.                                            *)
LEMMA StatementKeepsHeld ==
    ASSUME Inv, HeldByCalls, NEW c \in Calls, Statement(c)
    PROVE  HeldByCalls'
<1> USE DEF locks
<1>1. request' = request /\ request[c] \in Requests
      /\ request[c].key \in Keys /\ request[c].version \in Versions
  BY RequestAssumption
  DEF Statement, PreValidatePrincipal, AcquireReceipt, LockInstance, LockVersion, CheckPrincipal,
      ReplayAuthorized, CheckExpected, CommitTransaction, At, Pending, Inv, ReceiptTypeOK, Request
<1>2. CASE \E a \in Answer : End(c, a)
  BY <1>1, <1>2, EndKeepsHeld
<1>3. ASSUME NEW result \in Decisions, StoreFailure(c, result)
      PROVE  \E a \in Answer : End(c, a)
  BY <1>1, <1>3, StoreFailureType DEF Inv
<1>4. ASSUME ~Owns(c), ReplayReceipt(c)
      PROVE  \E a \in Answer : End(c, a)
  BY <1>1, <1>4, ReplayType DEF Inv
<1>5. CASE PreValidatePrincipal(c)
  BY <1>1, <1>2, <1>5, RefusalType, AdvanceKeepsHeld DEF PreValidatePrincipal
<1>6. CASE AcquireReceipt(c)
  BY <1>1, <1>2, <1>4, <1>6, AdvanceKeepsHeld DEF AcquireReceipt
<1>7. CASE LockInstance(c)
  <2>1. request[c].instance \in Instances
    BY <1>1, <1>7, PlanOrder, RequestAssumption DEF LockInstance, Inv, Request
  <2> QED BY <1>1, <1>7, <2>1, AdvanceKeepsHeld DEF LockInstance
<1>8. CASE LockVersion(c)
  BY <1>1, <1>2, <1>3, <1>8, AdvanceKeepsHeld DEF LockVersion, HoldVersion, Decisions
<1>9. CASE CheckPrincipal(c)
  BY <1>1, <1>2, <1>3, <1>9, RefusalType, AdvanceKeepsHeld DEF CheckPrincipal, Decisions
<1>10. CASE ReplayAuthorized(c)
  BY <1>1, <1>2, <1>4, <1>10, AdvanceKeepsHeld DEF ReplayAuthorized
<1>11. CASE CheckExpected(c)
  BY <1>1, <1>2, <1>3, <1>11, AdvanceKeepsHeld DEF CheckExpected, Decisions
<1>12. CASE CommitTransaction(c)
  BY <1>1, <1>2, <1>12, VerdictType, HeardType DEF CommitTransaction, Inv
<1> QED BY <1>5, <1>6, <1>7, <1>8, <1>9, <1>10, <1>11, <1>12 DEF Statement

(* And so does every other step.                                           *)
LEMMA HeldStep ==
    ASSUME Inv, HeldByCalls, [ReceiptNext]_allVars
    PROVE  HeldByCalls'
<1> USE DEF locks
<1>1. CASE UNCHANGED <<request, answer, phase, locks>>
  <2>1. \A d \in Calls : \A s : Passed(d, s)' = Passed(d, s)
    BY <1>1, PassedFrame
  <2> QED BY <1>1, <2>1 DEF HeldByCalls, Inv, ReceiptTypeOK
<1>2. ASSUME NEW c \in Calls, NEW r \in Requests, Begin(c, r)
      PROVE  HeldByCalls'
  <2>1. \A s : ~Passed(c, s)
    BY <1>2 DEF Begin, Call, Passed, Pending
  <2>2. \A d \in Calls \ {c} : \A s : Passed(d, s)' = Passed(d, s)
    BY <1>2, PassedFrame DEF Begin, Call, Inv, ReceiptTypeOK
  <2> QED BY <1>2, <2>1, <2>2 DEF Begin, HeldByCalls, Inv, ReceiptTypeOK
<1>3. ASSUME NEW c \in Calls, RollBack(c)
      PROVE  HeldByCalls'
  BY <1>3, RefusalType, EndKeepsHeld DEF RollBack
<1> QED BY <1>1, <1>2, <1>3, StatementKeepsHeld
        DEF ReceiptNext, allVars, vars, ChangeStatus, SetStatus, SwitchPrincipal, Switch

(* Every plan takes its locks in the order receipt, instance, version.     *)
LEMMA LocksInOrder ==
    ASSUME Inv, NEW c \in Calls
    PROVE  /\ Passed(c, "receipt")  => ~At(c, "receipt")
           /\ Passed(c, "instance") => ~At(c, "receipt") /\ ~At(c, "instance")
           /\ Passed(c, "version")  => ~At(c, "receipt") /\ ~At(c, "instance") /\ ~At(c, "version")
<1> DEFINE kind == request[c].kind
<1> SUFFICES ASSUME Pending(c)
             PROVE  /\ Passed(c, "receipt")  => ~At(c, "receipt")
                    /\ Passed(c, "instance") => ~At(c, "receipt") /\ ~At(c, "instance")
                    /\ Passed(c, "version")  => /\ ~At(c, "receipt") /\ ~At(c, "instance")
                                               /\ ~At(c, "version")
  BY DEF Passed
<1>1. kind \in Kinds /\ phase[c] \in 1..Len(Plan(kind))
  BY RequestAssumption DEF Inv, ReceiptTypeOK, PhaseInPlan, Pending, Request
<1>2. CASE kind = "CREATE"
  BY <1>1, <1>2, SMTT(30) DEF Plan, Passed, At
<1>3. CASE kind = "REVISE"
  BY <1>1, <1>3, SMTT(30) DEF Plan, Passed, At
<1>4. CASE kind = "TRANSITION"
  BY <1>1, <1>4, SMTT(30) DEF Plan, Passed, At
<1>5. CASE kind = "COMBINED"
  BY <1>1, <1>5, SMTT(30) DEF Plan, CombinedPlan, Passed, At
<1>6. CASE kind = "OVERRIDE"
  BY <1>1, <1>6, SMTT(30) DEF Plan, Passed, At
<1>7. CASE kind = "REBUILD"
  BY <1>1, <1>7, SMTT(30) DEF Plan, RebuildPlan, Passed, At
<1> QED BY <1>1, <1>2, <1>3, <1>4, <1>5, <1>6, <1>7 DEF Kinds

(* For any calls, keys, instances and versions: whichever calls are        *)
(* pending, one of them can execute its next statement.  A call that holds *)
(* a version row waits for nothing; if none does, one that holds an        *)
(* instance row waits for nothing; if none does, one that holds a receipt. *)
THEOREM NoCircleOfCalls == ReceiptSpec => []SomeCallGoesOn
<1>1. ReceiptInit => Inv /\ HeldByCalls
  BY InvInit, TypeInit DEF ReceiptInit, HeldByCalls
<1>2. Inv /\ HeldByCalls /\ [ReceiptNext]_allVars => Inv' /\ HeldByCalls'
  BY InvStep, HeldStep
<1>3. Inv /\ HeldByCalls => SomeCallGoesOn
  <2> SUFFICES ASSUME Inv, HeldByCalls, NEW b \in Calls, Pending(b)
               PROVE  SomeCallGoesOn
    BY DEF SomeCallGoesOn
  <2> SUFFICES \E c \in Calls : Pending(c) /\ \A d \in Calls : ~WaitsFor(c, d)
    <3>1. ASSUME NEW c \in Calls, At(c, "commit"), Compares(request[c])
          PROVE  StateVersion(request[c].instance) = seen[c]
      <4>1. request[c].kind # "CREATE"
        BY <3>1 DEF Compares
      <4>2. Passed(c, "instance")
        BY <3>1, <4>1, PlanOrder DEF Inv
      <4> QED BY <4>2 DEF Inv, ReadsStillHold, Holds
    <3> QED BY <3>1 DEF SomeCallGoesOn
  <2>1. \A c \in Calls : Pending(c) =>
            /\ request[c].key \in Keys /\ request[c].version \in Versions
            /\ At(c, "instance") => request[c].instance \in Instances
    <3>1. ASSUME NEW c \in Calls, Pending(c)
          PROVE  request[c] \in Requests
      BY <3>1 DEF Inv, ReceiptTypeOK, Pending
    <3>2. ASSUME NEW c \in Calls, At(c, "instance")
          PROVE  request[c].kind # "CREATE"
      BY <3>2, PlanOrder DEF Inv
    <3> QED BY <3>1, <3>2, RequestAssumption DEF Request
  <2>2. CASE \E c \in Calls : Passed(c, "version")
    <3>1. PICK c \in Calls : Pending(c) /\ Passed(c, "version")
      BY <2>2 DEF Passed
    <3> QED BY <3>1, LocksInOrder DEF WaitsFor
  <2>3. CASE \A c \in Calls : ~Passed(c, "version")
    <3>1. \A v \in Versions : versionLock[v] \notin Calls
      BY <2>3, FreeAssumption DEF HeldByCalls
    <3>2. CASE \E c \in Calls : Passed(c, "instance")
      <4>1. PICK c \in Calls : Pending(c) /\ Passed(c, "instance")
        BY <3>2 DEF Passed
      <4> QED BY <2>1, <3>1, <4>1, LocksInOrder DEF WaitsFor
    <3>3. CASE \A c \in Calls : ~Passed(c, "instance")
      <4>1. \A i \in Instances : instanceLock[i] \notin Calls
        BY <3>3, FreeAssumption DEF HeldByCalls
      <4>2. CASE \E c \in Calls : Passed(c, "receipt")
        <5>1. PICK c \in Calls : Pending(c) /\ Passed(c, "receipt")
          BY <4>2 DEF Passed
        <5> QED BY <2>1, <3>1, <4>1, <5>1, LocksInOrder DEF WaitsFor
      <4>3. CASE \A c \in Calls : ~Passed(c, "receipt")
        <5>1. \A k \in Keys : gate[k] \notin Calls
          BY <4>3, FreeAssumption DEF HeldByCalls
        <5> QED BY <2>1, <3>1, <4>1, <5>1 DEF WaitsFor
      <4> QED BY <4>2, <4>3
    <3> QED BY <3>2, <3>3
  <2> QED BY <2>2, <2>3
<1> QED BY <1>1, <1>2, <1>3, PTL DEF ReceiptSpec
--------------------------------------------------------------------------------
(* The statements of a transaction implement one atomic decision           *)

(* Storing a failure is one atomic decision.                               *)
LEMMA StoreFailureDecides ==
    ASSUME NEW c \in Calls, Pending(c), Owns(c), NEW result \in Decisions \ {"COMMITTED"},
           Justified(c, result), StoreFailure(c, result),
           UNCHANGED <<request, history, status, enabled>>
    PROVE  Next
<1>1. Decide(c, result)
  BY DEF Decide, StoreFailure, End, Owns, Decisions, Tell
<1> QED BY <1>1 DEF Next, Decisions

(* Answering from the receipt is one atomic repetition.                    *)
LEMMA ReplayRepeats ==
    ASSUME NEW c \in Calls, Pending(c), ~Owns(c), ReplayReceipt(c),
           UNCHANGED <<request, history, status, enabled>>
    PROVE  Next
<1>1. Repeat(c)
  BY DEF Repeat, ReplayReceipt, End, Tell, Owns
<1> QED BY <1>1 DEF Next

(* Ending without a stored answer is one atomic refusal.                   *)
LEMMA RefusalRefuses ==
    ASSUME NEW c \in Calls, Pending(c), NEW result \in {"STORAGE_ERROR", "DENIED"},
           result = "DENIED" =>
               \/ Admin(request[c]) /\ request[c].actor \notin enabled
               \/ request[c].kind = "REVISE" /\ "DISABLED" \in been[c],
           End(c, Told(result, 0)),
           UNCHANGED <<request, receipts, history, status, enabled>>
    PROVE  Next
<1>1. Refuse(c)
  BY DEF Refuse, End, Tell
<1> QED BY <1>1 DEF Next

(* A statement is a decision, a repetition, a refusal or invisible.        *)
LEMMA StatementRefines ==
    ASSUME Inv, NEW c \in Calls, Statement(c)
    PROVE  [Next]_vars
<1> USE DEF locks
<1>1. Holds(c)
  BY DEF Inv, ReadsStillHold
<1>2. ASSUME Advance(c), UNCHANGED <<request, receipts, history, status, enabled>>
      PROVE  UNCHANGED vars
  BY <1>2 DEF Advance, vars
<1>3. CASE PreValidatePrincipal(c)
  <2>1. Pending(c) /\ request[c].kind = "REVISE"
    BY <1>3, PlanOrder DEF PreValidatePrincipal, Inv, At
  <2>2. CASE Advance(c)
    BY <1>2, <1>3, <2>2 DEF PreValidatePrincipal
  <2>3. CASE request[c].actor \notin enabled /\ End(c, Told("DENIED", 0))
    <3>1. "DISABLED" \in been[c]
      BY <1>1, <2>1, <2>3 DEF Holds, Standing
    <3> QED BY <1>3, <2>1, <2>3, <3>1, RefusalRefuses DEF PreValidatePrincipal
  <2> QED BY <1>3, <2>2, <2>3 DEF PreValidatePrincipal
<1>4. CASE AcquireReceipt(c)
  <2>1. CASE Owns(c) \/ Admin(request[c])
    BY <1>2, <1>4, <2>1 DEF AcquireReceipt
  <2>2. CASE ~(Owns(c) \/ Admin(request[c]))
    BY <1>4, <2>2, ReplayRepeats DEF AcquireReceipt, At
  <2> QED BY <2>1, <2>2
<1>5. CASE LockInstance(c)
  BY <1>2, <1>5 DEF LockInstance
<1>6. CASE LockVersion(c)
  <2>1. CASE status[request[c].version] \in Accepts(request[c])
    BY <1>2, <1>6, <2>1 DEF LockVersion
  <2>2. CASE status[request[c].version] \notin Accepts(request[c])
    <3>1. /\ Pending(c) /\ Passed(c, "receipt") /\ request[c] \in Requests
          /\ request[c].version \in Versions
      BY <1>6, PlanOrder, RequestAssumption DEF LockVersion, Inv, At, Request
    <3>2. ~Admin(request[c])
      BY <2>2, <3>1 DEF Accepts, Admin, Inv, ReceiptTypeOK
    <3>3. Owns(c)
      BY <1>1, <3>1, <3>2 DEF Holds
    <3>4. Justified(c, "VERSION_STATUS")
      BY <2>2 DEF Justified
    <3> QED BY <1>6, <2>2, <3>1, <3>3, <3>4, StoreFailureDecides DEF LockVersion, Decisions
  <2> QED BY <2>1, <2>2
<1>7. CASE CheckPrincipal(c)
  <2>1. Pending(c) /\ Passed(c, "receipt") /\ request[c] \in Requests
    BY <1>7, PlanOrder DEF CheckPrincipal, Inv, At
  <2>2. CASE request[c].actor \in enabled /\ Advance(c)
    BY <1>2, <1>7, <2>2 DEF CheckPrincipal
  <2>3. CASE request[c].actor \notin enabled /\ Owns(c) /\ StoreFailure(c, "PRINCIPAL_DISABLED")
    <3>1. Justified(c, "PRINCIPAL_DISABLED")
      BY <1>1, <2>1, <2>3 DEF Justified, Holds, Standing
    <3> QED BY <1>7, <2>1, <2>3, <3>1, StoreFailureDecides DEF CheckPrincipal, Decisions
  <2>4. CASE /\ request[c].actor \notin enabled /\ ~Owns(c)
             /\ End(c, Told("DENIED", 0)) /\ UNCHANGED receipts
    <3>1. Admin(request[c])
      BY <1>1, <2>1, <2>4 DEF Holds
    <3> QED BY <1>7, <2>1, <2>4, <3>1, RefusalRefuses DEF CheckPrincipal
  <2> QED BY <1>7, <2>2, <2>3, <2>4 DEF CheckPrincipal
<1>8. CASE ReplayAuthorized(c)
  <2>1. CASE Owns(c)
    BY <1>2, <1>8, <2>1 DEF ReplayAuthorized
  <2>2. CASE ~Owns(c)
    BY <1>8, <2>2, ReplayRepeats DEF ReplayAuthorized, At
  <2> QED BY <2>1, <2>2
<1>9. CASE CheckExpected(c)
  <2>1. CASE ExpectedMatches(c)
    BY <1>2, <1>9, <2>1 DEF CheckExpected
  <2>2. CASE ~ExpectedMatches(c)
    <3>1. /\ Pending(c) /\ Passed(c, "receipt") /\ Passed(c, "instance")
          /\ Compares(request[c]) /\ (Admin(request[c]) => Passed(c, "replay"))
      BY <1>9, PlanOrder DEF CheckExpected, Inv, At
    <3>2. Owns(c) /\ seen[c] = StateVersion(request[c].instance)
      BY <1>1, <3>1 DEF Holds
    <3>3. Justified(c, "STATE_VERSION_CONFLICT")
      BY <2>2, <3>1, <3>2 DEF Justified, ExpectedMatches
    <3> QED BY <1>9, <2>2, <3>1, <3>2, <3>3, StoreFailureDecides DEF CheckExpected, Decisions
  <2> QED BY <2>1, <2>2
<1>10. CASE CommitTransaction(c)
  <2>1. /\ Pending(c) /\ Passed(c, "receipt") /\ Passed(c, "version")
        /\ request[c].kind # "CREATE" => Passed(c, "instance")
        /\ Compares(request[c]) => request[c].kind # "CREATE" /\ Passed(c, "expected")
        /\ Passed(c, "principal")
        /\ Admin(request[c]) => Passed(c, "replay")
    BY <1>10, PlanOrder DEF CommitTransaction, Compares, Inv, At
  <2>2. Owns(c) /\ Justified(c, "COMMITTED")
    BY <1>1, <2>1 DEF Holds, Justified
  <2>3. Decide(c, "COMMITTED")
    BY <1>10, <2>1, <2>2 DEF CommitTransaction, Decide, End, Tell, Owns
  <2> QED BY <2>3 DEF Next
<1> QED BY <1>3, <1>4, <1>5, <1>6, <1>7, <1>8, <1>9, <1>10 DEF Statement

(* So is every step of the protocol.                                       *)
LEMMA StepRefines ==
    ASSUME Inv, [ReceiptNext]_allVars
    PROVE  [Next]_vars
<1>1. CASE UNCHANGED allVars
  BY <1>1 DEF allVars, vars
<1>2. ASSUME NEW c \in Calls, NEW r \in Requests, Begin(c, r)
      PROVE  Next
  BY <1>2 DEF Begin, Next
<1>3. ASSUME NEW c \in Calls, Statement(c)
      PROVE  [Next]_vars
  BY <1>3, StatementRefines
<1>4. ASSUME NEW c \in Calls, RollBack(c)
      PROVE  Next
  BY <1>4, RefusalRefuses DEF RollBack
<1>5. ASSUME NEW v \in Versions, NEW to \in {"DEPRECATED", "REVOKED"}, ChangeStatus(v, to)
      PROVE  Next
  BY <1>5 DEF ChangeStatus, Next
<1>6. ASSUME NEW p \in Principals, SwitchPrincipal(p)
      PROVE  Next
  BY <1>6 DEF SwitchPrincipal, Next
<1> QED BY <1>1, <1>2, <1>3, <1>4, <1>5, <1>6 DEF ReceiptNext

(* Whatever calls run and however their statements interleave, crash and   *)
(* repeat, the callers see what AtomicCommand allows.                      *)
THEOREM ReceiptsRefine == ReceiptSpec => ImplementsAtomicCommand
<1>1. ReceiptInit => Init
  BY DEF ReceiptInit
<1>2. ReceiptInit => Inv
  BY InvInit
<1>3. Inv /\ [ReceiptNext]_allVars => Inv' /\ [Next]_vars
  BY InvStep, StepRefines
<1> QED BY <1>1, <1>2, <1>3, PTL DEF ReceiptSpec, ImplementsAtomicCommand, Spec
--------------------------------------------------------------------------------
(* What atomic decisions imply                                             *)

(* An atomic step appends an event only with the receipt of its key.       *)
LEMMA EffectStep ==
    ASSUME ReceiptTypeOK, EachKeyTakesEffectOnce, [Next]_vars
    PROVE  EachKeyTakesEffectOnce'
<1>1. CASE UNCHANGED <<receipts, history>>
  BY <1>1 DEF EachKeyTakesEffectOnce
<1>2. ASSUME NEW c \in Calls, NEW result \in Decisions, Decide(c, result)
      PROVE  EachKeyTakesEffectOnce'
  <2> DEFINE r == request[c]
             Effects(k) == {n \in DOMAIN history : history[n].key = k}
             After(k)   == {n \in DOMAIN history' : history'[n].key = k}
  <2>1. /\ r \in Requests /\ r.key \in Keys /\ receipts[r.key] = Undecided
        /\ history \in Seq(Requests)
        /\ receipts' = [receipts EXCEPT ![r.key] = [request |-> r, answer |-> Verdict(r, result)]]
        /\ history' = IF result = "COMMITTED" THEN Append(history, r) ELSE history
    BY <1>2, RequestAssumption DEF Decide, Pending, ReceiptTypeOK, Request
  <2>2. receipts'[r.key] # Undecided /\ receipts'[r.key].request = r
        /\ receipts'[r.key].answer.result = result
    BY <2>1, VerdictType, NullAssumption DEF Decisions, ReceiptTypeOK, Receipt
  <2>3. \A k \in Keys \ {r.key} : receipts'[k] = receipts[k]
    BY <2>1 DEF ReceiptTypeOK
  <2>4. Effects(r.key) = {}
    BY <2>1 DEF EachKeyTakesEffectOnce
  <2>5. CASE result # "COMMITTED"
    BY <2>1, <2>2, <2>3, <2>4, <2>5 DEF EachKeyTakesEffectOnce
  <2>6. CASE result = "COMMITTED"
    <3>1. /\ Len(history) \in Nat /\ history' = Append(history, r)
          /\ DOMAIN history' = DOMAIN history \cup {Len(history) + 1}
          /\ history'[Len(history) + 1] = r
          /\ \A n \in DOMAIN history : history'[n] = history[n]
      BY <2>1, <2>6
    <3>2. \A k \in Keys \ {r.key} : After(k) = Effects(k)
      BY <3>1
    <3>3. After(r.key) = {Len(history) + 1}
      BY <2>4, <3>1
    <3>4. \A k \in Keys : \A n \in Effects(k) : n \in DOMAIN history
      OBVIOUS
    <3> HIDE DEF Effects, After
    <3>5. ASSUME NEW k \in Keys
          PROVE  IF receipts'[k] # Undecided /\ receipts'[k].answer.result = "COMMITTED"
                 THEN \E n \in After(k) : After(k) = {n} /\ history'[n] = receipts'[k].request
                 ELSE After(k) = {}
      <4>1. CASE k = r.key
        BY <2>2, <2>6, <3>1, <3>3, <4>1
      <4>2. CASE k # r.key
        <5>1. IF receipts[k] # Undecided /\ receipts[k].answer.result = "COMMITTED"
              THEN \E n \in Effects(k) : Effects(k) = {n} /\ history[n] = receipts[k].request
              ELSE Effects(k) = {}
          BY DEF EachKeyTakesEffectOnce, Effects
        <5> QED BY <2>3, <3>1, <3>2, <3>4, <4>2, <5>1
      <4> QED BY <4>1, <4>2
    <3> QED BY <3>5 DEF EachKeyTakesEffectOnce, After
  <2> QED BY <2>5, <2>6
<1> QED BY <1>1, <1>2
        DEF Next, vars, Call, Repeat, Refuse, SetStatus, Switch, Decisions

(* A key takes effect at most once, and exactly when its receipt says so,  *)
(* for any number of concurrent, crashing and repeated calls.              *)
THEOREM ExactlyOnce == ReceiptSpec => []EachKeyTakesEffectOnce
<1>1. ReceiptInit => Inv /\ EachKeyTakesEffectOnce
  BY InvInit DEF ReceiptInit, Init, EachKeyTakesEffectOnce
<1>2. Inv /\ EachKeyTakesEffectOnce /\ [ReceiptNext]_allVars => Inv' /\ EachKeyTakesEffectOnce'
  BY InvStep, StepRefines, EffectStep DEF Inv
<1> QED BY <1>1, <1>2, PTL DEF ReceiptSpec

(* An atomic step appends only an event that saw the latest one.           *)
LEMMA UpdateStep ==
    ASSUME ReceiptTypeOK, NoLostUpdate, [Next]_vars
    PROVE  NoLostUpdate'
<1>1. CASE UNCHANGED history
  BY <1>1 DEF NoLostUpdate
<1>2. ASSUME NEW c \in Calls, Decide(c, "COMMITTED")
      PROVE  NoLostUpdate'
  <2> DEFINE r == request[c]
             Before(n, i) == {m \in 1..(n - 1) : IsEventOf(history[m], i)}
             After(n, i)  == {m \in 1..(n - 1) : IsEventOf(history'[m], i)}
  <2>1. /\ r \in Requests /\ history \in Seq(Requests) /\ history' = Append(history, r)
        /\ Compares(r) => StateVersion(r.instance) = r.expected
    BY <1>2 DEF Decide, Pending, ReceiptTypeOK, Justified
  <2>2. /\ Len(history) \in Nat
        /\ DOMAIN history = 1..Len(history) /\ DOMAIN history' = 1..(Len(history) + 1)
        /\ history'[Len(history) + 1] = r
        /\ \A n \in 1..Len(history) : history'[n] = history[n]
    BY <2>1
  <2>3. \A n \in 1..(Len(history) + 1) : \A i : After(n, i) = Before(n, i)
    BY <2>2
  <2>4. Before(Len(history) + 1, r.instance) = EventsOf(r.instance)
    BY <2>2 DEF EventsOf
  <2>5. ASSUME NEW n \in 1..(Len(history) + 1), Compares(history'[n])
        PROVE  history'[n].expected = 1 + Cardinality(After(n, history'[n].instance))
    <3>1. CASE n = Len(history) + 1
      <4>1. history'[n] = r /\ Compares(r)
        BY <2>2, <2>5, <3>1
      <4>2. After(n, r.instance) = EventsOf(r.instance)
        BY <2>3, <2>4, <3>1
      <4>3. r.expected = 1 + Cardinality(EventsOf(r.instance))
        BY <2>1, <4>1 DEF StateVersion, EventsOf
      <4> HIDE DEF After
      <4> QED BY <4>1, <4>2, <4>3
    <3>2. CASE n \in 1..Len(history)
      <4>1. history'[n] = history[n] /\ n \in DOMAIN history
        BY <2>2, <3>2
      <4>2. history[n].expected = 1 + Cardinality(Before(n, history[n].instance))
        BY <2>5, <4>1 DEF NoLostUpdate
      <4>3. After(n, history[n].instance) = Before(n, history[n].instance)
        BY <2>3
      <4> HIDE DEF After, Before
      <4> QED BY <4>1, <4>2, <4>3
    <3>3. n = Len(history) + 1 \/ n \in 1..Len(history)
      BY <2>2
    <3> QED BY <3>1, <3>2, <3>3
  <2> QED BY <2>2, <2>5 DEF NoLostUpdate
<1>3. ASSUME NEW c \in Calls, NEW result, result # "COMMITTED", Decide(c, result)
      PROVE  UNCHANGED history
  BY <1>3 DEF Decide
<1> QED BY <1>1, <1>2, <1>3
        DEF Next, vars, Call, Repeat, Refuse, SetStatus, Switch

(* Every event was asked for in knowledge of the one before it.            *)
THEOREM NoUpdateIsLost == ReceiptSpec => []NoLostUpdate
<1>1. ReceiptInit => Inv /\ NoLostUpdate
  BY InvInit DEF ReceiptInit, Init, NoLostUpdate
<1>2. Inv /\ NoLostUpdate /\ [ReceiptNext]_allVars => Inv' /\ NoLostUpdate'
  BY InvStep, StepRefines, UpdateStep DEF Inv
<1> QED BY <1>1, <1>2, PTL DEF ReceiptSpec
(* A settled answer is the receipt's, or the conflict with it.             *)
AnswersFromReceipts ==
    \A c \in Calls :
        LET k == request[c].key IN
        (answer[c] # NoAnswer /\ answer[c].result \in Settled) =>
            /\ request[c] \in Requests /\ receipts[k] # Undecided
            /\ answer[c] = IF receipts[k].request = request[c] THEN receipts[k].answer
                           ELSE Told("IDEMPOTENCY_CONFLICT", 0)

(* A decided receipt never changes, so neither does what it answers.       *)
LEMMA AnswerStep ==
    ASSUME ReceiptTypeOK, AnswersFromReceipts, [Next]_vars
    PROVE  AnswersFromReceipts'
<1>1. CASE UNCHANGED <<request, answer, receipts>>
  BY <1>1 DEF AnswersFromReceipts
<1>2. ASSUME NEW c \in Calls, NEW r \in Requests, Call(c, r)
      PROVE  AnswersFromReceipts'
  <2>1. ~(answer[c] # NoAnswer /\ answer[c].result \in Settled)
    BY <1>2, NullAssumption DEF Call, AnswersFromReceipts
  <2> QED BY <1>2, <2>1 DEF Call, AnswersFromReceipts, ReceiptTypeOK
<1>3. ASSUME NEW c \in Calls, NEW result \in Decisions, Decide(c, result)
      PROVE  AnswersFromReceipts'
  <2>1. /\ request[c] \in Requests /\ request[c].key \in Keys
        /\ receipts[request[c].key] = Undecided /\ request' = request
        /\ \E a \in Heard(Verdict(request[c], result)) : answer' = [answer EXCEPT ![c] = a]
        /\ receipts' = [receipts EXCEPT ![request[c].key] =
                            [request |-> request[c], answer |-> Verdict(request[c], result)]]
    <3>1. request[c] \in Requests
      BY <1>3 DEF Decide, Pending, ReceiptTypeOK
    <3>2. request[c].key \in Keys
      BY <3>1, RequestAssumption DEF Request
    <3>3. \E a \in Heard(Verdict(request[c], result)) : answer' = [answer EXCEPT ![c] = a]
      BY <1>3 DEF Decide, Tell
    <3> QED BY <1>3, <3>1, <3>2, <3>3 DEF Decide
  <2>2. \A k \in Keys : receipts[k] # Undecided => receipts'[k] = receipts[k]
    BY <2>1 DEF ReceiptTypeOK
  <2>3. [request |-> request[c], answer |-> Verdict(request[c], result)] \in Receipt
    BY <2>1, VerdictType DEF Decisions, Receipt
  <2>4. \A d \in Calls \ {c} : answer'[d] = answer[d]
    BY <2>1 DEF ReceiptTypeOK
  <2>5. \A d \in Calls : request[d] \in Requests => request[d].key \in Keys
    BY RequestAssumption DEF Request
  <2>6. /\ answer'[c] = Verdict(request[c], result) \/ answer'[c].result = "STORAGE_ERROR"
        /\ receipts'[request[c].key] =
               [request |-> request[c], answer |-> Verdict(request[c], result)]
    BY <2>1 DEF ReceiptTypeOK, Heard, Told
  <2> QED BY <2>1, <2>2, <2>3, <2>4, <2>5, <2>6, NullAssumption
        DEF AnswersFromReceipts, Settled
<1>4. ASSUME NEW c \in Calls, Repeat(c)
      PROVE  AnswersFromReceipts'
  <2>1. request[c] \in Requests
    BY <1>4 DEF Repeat, Pending, ReceiptTypeOK
  <2> QED BY <1>4, <2>1 DEF Repeat, Tell, AnswersFromReceipts, ReceiptTypeOK
<1>5. ASSUME NEW c \in Calls, Refuse(c)
      PROVE  AnswersFromReceipts'
  <2>1. answer'[c].result \in {"STORAGE_ERROR", "DENIED"}
    BY <1>5 DEF Refuse, Tell, Told, ReceiptTypeOK
  <2> QED BY <1>5, <2>1 DEF Refuse, Tell, AnswersFromReceipts, ReceiptTypeOK, Settled
<1> QED BY <1>1, <1>2, <1>3, <1>4, <1>5
        DEF Next, vars, SetStatus, Switch, Decisions

(* Calls with the same request are told the same settled answer.           *)
THEOREM SameAnswer == ReceiptSpec => []SameRequestSameAnswer
<1>1. ReceiptInit => Inv /\ AnswersFromReceipts
  BY InvInit DEF ReceiptInit, Init, AnswersFromReceipts
<1>2. Inv /\ AnswersFromReceipts /\ [ReceiptNext]_allVars => Inv' /\ AnswersFromReceipts'
  BY InvStep, StepRefines, AnswerStep DEF Inv
<1>3. AnswersFromReceipts => SameRequestSameAnswer
  BY DEF AnswersFromReceipts, SameRequestSameAnswer
<1> QED BY <1>1, <1>2, <1>3, PTL DEF ReceiptSpec
--------------------------------------------------------------------------------
(* How refusals are stored and read back (StoredAnswers): the protocol of  *)
(* one key, of its own variables.                                          *)
VARIABLES keyCommand, keyTold, keyReceipt, keyAgain

Key == INSTANCE StoredAnswers WITH command <- keyCommand, told <- keyTold,
                                   receipt <- keyReceipt, again <- keyAgain

(* A stored refusal has an arm that reads it back as itself.               *)
LEMMA ReadBackAsStored ==
    ASSUME NEW cmd \in Key!Commands \ {"REVISE"}, NEW error \in Key!Refusals(cmd)
    PROVE  error = IF error \in Key!Arms(cmd) THEN error ELSE Key!NoArm(cmd)
BY DEF Key!Commands, Key!Refusals, Key!Stored, Key!Arms, Key!NoArm, Key!CreateRefusals, Key!CreateArms,
       Key!TransitionRefusals, Key!TransitionArms, Key!CombinedRefusals, Key!CombinedArms,
       Key!OverrideRefusals, Key!RebuildRefusals, Key!AdminArms, Key!ImportRefusals, Key!ImportArms

(* Every command but the revision reads back each refusal that the owner   *)
(* of a receipt can be told.                                               *)
THEOREM OthersAreToldAgain ==
    Key!Spec => [](keyCommand # "REVISE" => Key!SameRefusalAgain)
<1> DEFINE KeyInv == /\ keyCommand \in Key!Commands
                     /\ keyReceipt = keyTold
                     /\ keyTold \in Key!Refusals(keyCommand) \cup {"NONE"}
                     /\ keyCommand # "REVISE" => Key!SameRefusalAgain
<1>1. Key!Init => KeyInv
  BY DEF Key!Init, Key!SameRefusalAgain
<1>2. KeyInv /\ [Key!Next]_Key!vars => KeyInv'
  <2> SUFFICES ASSUME KeyInv, [Key!Next]_Key!vars PROVE KeyInv'
    OBVIOUS
  <2>1. ASSUME NEW error \in Key!Refusals(keyCommand), Key!Refuse(error) PROVE KeyInv'
    BY <2>1 DEF Key!Refuse, Key!SameRefusalAgain
  <2>2. CASE Key!Repeat
    BY <2>2, ReadBackAsStored DEF Key!Repeat, Key!SameRefusalAgain
  <2>3. CASE UNCHANGED Key!vars
    BY <2>3 DEF Key!vars, Key!SameRefusalAgain
  <2> QED BY <2>1, <2>2, <2>3 DEF Key!Next
<1>3. KeyInv => (keyCommand # "REVISE" => Key!SameRefusalAgain)
  OBVIOUS
<1> QED BY <1>1, <1>2, <1>3, PTL DEF Key!Spec
================================================================================
