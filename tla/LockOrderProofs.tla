---------------------------- MODULE LockOrderProofs ----------------------------
(***************************************************************************)
(* Without the legacy import no set of transactions, of any size and over  *)
(* any commands, principals, instances and versions, deadlocks.            *)
(*                                                                         *)
(* Receipts, instances and versions are the only rows locked exclusively,  *)
(* and every plan takes them in this order; principals and roles are only  *)
(* shared, and the UPDATE of a principal takes no second lock.  Whoever    *)
(* blocks a transaction therefore waits, if it waits, for a row further on *)
(* in this order, and a set whose members all wait for each other would    *)
(* have no member that waits for the last of them.                         *)
(***************************************************************************)
EXTENDS LockOrder, TLAPS

NoImport == \A c \in Commands : c.kind # "IMPORT"

Exclusive == {"receipt", "instance", "version"}
Modes     == {"UPDATE", "KEY_SHARE", "SHARE", "NO_KEY_UPDATE"}

(* A lock k that may be wanted while l is held and contended for.          *)
Below(l, k) ==
    /\ l.class = "receipt"  => k.class # "receipt"
    /\ l.class = "instance" => k.class \notin {"receipt", "instance"}
    /\ l.class = "version"  => k.class \notin Exclusive

(* What the plans have in common.                                          *)
Ordered(plan) ==
    /\ Len(plan) \in Nat
    /\ \A n \in 1..Len(plan) :
          /\ plan[n].mode \in Modes
          /\ plan[n].mode = "UPDATE" <=> plan[n].class \in Exclusive
          /\ plan[n].mode = "NO_KEY_UPDATE" => n = Len(plan)
    /\ \A n, m \in 1..Len(plan) :
          n < m => /\ plan[n].mode = "UPDATE" => Below(plan[n], plan[m])
                   /\ plan[n].mode = "SHARE" => /\ plan[m].class \notin Exclusive
                                                /\ plan[m].mode # "NO_KEY_UPDATE"

--------------------------------------------------------------------------------
(* Every plan but the import's is ordered.                                 *)
LEMMA PlansOrdered == ASSUME NEW c \in Command, c.kind # "IMPORT"
                      PROVE  Ordered(Plan(c))
<1> USE DEF Command, Plan, Ordered, Below, Exclusive, Modes, Lock
<1>1. CASE c.kind = "CREATE"
  BY <1>1 DEF CreatePlan, Receipt, Referenced, Version, DomainRow
<1>2. CASE c.kind = "REVISE"
  BY <1>2 DEF RevisePlan, Receipt, Referenced, Version, Instance
<1>3. CASE c.kind \in {"TRANSITION", "COMBINED"}
  <2>1. Plan(c) = TransitionPlan(c)
    BY <1>3
  <2> HIDE DEF Plan
  <2> QED BY <2>1 DEF TransitionPlan, Receipt, Referenced, Version, Instance
<1>4. CASE c.kind = "OVERRIDE"
  BY <1>4 DEF OverridePlan, Receipt, Referenced, Version, Instance, Shared, SharedRole
<1>5. CASE c.kind = "REBUILD"
  BY <1>5 DEF RebuildPlan, Receipt, Referenced, Version, Instance, Shared, SharedRole
<1>6. CASE c.kind = "LIFECYCLE"
  BY <1>6 DEF LifecyclePlan, Version, Referenced
<1>7. CASE c.kind = "REPLACE_GRAPH"
  BY <1>7 DEF ReplaceGraphPlan, Version, Referenced
<1>8. CASE c.kind = "SWITCH"
  BY <1>8 DEF SwitchPlan
<1>9. QED
  BY <1>1, <1>2, <1>3, <1>4, <1>5, <1>6, <1>7, <1>8 DEF Kinds

--------------------------------------------------------------------------------
(* Every open transaction stays within the plan of its command.            *)
LEMMA TypeInvariant == Spec => []TypeOK
<1>1. Init => TypeOK
  BY DEF Init, TypeOK, Open
<1>2. TypeOK /\ [Next]_vars => TypeOK'
  <2> SUFFICES ASSUME TypeOK, [Next]_vars PROVE TypeOK'
    OBVIOUS
  <2>1. ASSUME NEW t \in Transactions, NEW c \in Commands, Begin(t, c) PROVE TypeOK'
    <3>1. Len(Plan(c)) \in Nat
      <4>1. CASE c.kind # "IMPORT"
        BY <4>1, PlansOrdered, CommandAssumption DEF Ordered
      <4>2. CASE c.kind = "IMPORT"
        BY <4>2, CommandAssumption, MemberAssumption
           DEF Plan, ImportPlan, RowsOf
      <4>3. QED BY <4>1, <4>2
    <3>2. QED BY <2>1, <3>1 DEF Begin, TypeOK, Open
  <2>2. ASSUME NEW t \in Transactions, Acquire(t) PROVE TypeOK'
    BY <2>2 DEF Acquire, TypeOK, Open, Waiting
  <2>3. ASSUME NEW t \in Transactions, End(t) PROVE TypeOK'
    BY <2>3 DEF End, TypeOK, Open
  <2>4. CASE UNCHANGED vars
    BY <2>4 DEF vars, TypeOK, Open
  <2>5. QED
    BY <2>1, <2>2, <2>3, <2>4 DEF Next
<1>3. QED
  BY <1>1, <1>2, PTL DEF Spec

(* Whoever blocks a transaction and waits itself waits for a row further   *)
(* on.                                                                     *)
LEMMA BlockersWaitFurtherOn ==
    ASSUME NoImport, TypeOK,
           NEW t \in Transactions, NEW u \in Transactions,
           Waiting(t), Waiting(u), Blocks(u, t)
    PROVE  /\ Below(Wanted(t), Wanted(u))
           /\ Wanted(t).class \notin Exclusive =>
                 /\ Wanted(t).mode = "NO_KEY_UPDATE"
                 /\ Wanted(u).class \notin Exclusive
                 /\ Wanted(u).mode # "NO_KEY_UPDATE"
<1> DEFINE c == command[u]
           d == command[t]
           m == at[t] + 1
           w == at[u] + 1
<1>1. c \in Command /\ d \in Command /\ c.kind # "IMPORT" /\ d.kind # "IMPORT"
  BY CommandAssumption DEF NoImport, TypeOK, Waiting, Open
<1>2. Ordered(Plan(c)) /\ Ordered(Plan(d))
  BY <1>1, PlansOrdered
<1>3. at[t] \in Nat /\ at[u] \in Nat /\ at[t] < Len(Plan(d)) /\ at[u] < Len(Plan(c))
  BY DEF TypeOK, Waiting
<1>4. PICK n \in 1..at[u] : Conflict(Plan(c)[n], Plan(d)[m])
  BY DEF Blocks, Held, Wanted, Waiting
<1> DEFINE l == Plan(c)[n]
           j == Plan(c)[w]
           k == Plan(d)[m]
<1>5. /\ m \in 1..Len(Plan(d)) /\ w \in 1..Len(Plan(c)) /\ n \in 1..Len(Plan(c))
      /\ n < w /\ n # Len(Plan(c))
  <2> HIDE DEF c, d
  <2>1. Len(Plan(c)) \in Nat /\ Len(Plan(d)) \in Nat
    BY <1>2 DEF Ordered
  <2>2. QED
    BY <1>3, <1>4, <2>1
<1>6. /\ l.mode \in Modes /\ k.mode \in Modes
      /\ l.mode = "UPDATE" <=> l.class \in Exclusive
      /\ k.mode = "UPDATE" <=> k.class \in Exclusive
      /\ l.mode # "NO_KEY_UPDATE"
      /\ l.mode = "UPDATE" => Below(l, j)
      /\ l.mode = "SHARE" => j.class \notin Exclusive /\ j.mode # "NO_KEY_UPDATE"
  <2> HIDE DEF c, d, m, w
  <2>1. QED
    BY <1>2, <1>5 DEF Ordered
<1>7. l.class = k.class /\ l.mode \in ConflictsWith(k.mode)
  BY <1>4 DEF Conflict
<1>8. k = Wanted(t) /\ j = Wanted(u)
  BY DEF Wanted
<1> HIDE DEF l, j, k
<1>9. CASE l.mode = "UPDATE"
  BY <1>6, <1>7, <1>8, <1>9 DEF Below
<1>10. CASE l.mode = "KEY_SHARE"
  BY <1>6, <1>7, <1>10 DEF ConflictsWith, Modes
<1>11. CASE l.mode = "SHARE"
  <2>1. k.class \notin Exclusive /\ k.mode = "NO_KEY_UPDATE"
    BY <1>6, <1>7, <1>11 DEF ConflictsWith, Modes
  <2>2. QED
    BY <1>6, <1>8, <1>11, <2>1 DEF Below, Exclusive
<1>12. QED
  BY <1>6, <1>9, <1>10, <1>11 DEF Modes

(* NoDeadlock: without the legacy import the transactions never deadlock,  *)
(* whatever commands run and however many at once.                         *)
THEOREM DeadlockFree == NoImport => (Spec => []NoDeadlock)
<1> SUFFICES ASSUME NoImport PROVE Spec => []NoDeadlock
  OBVIOUS
<1>1. TypeOK => NoDeadlock
  <2> HAVE TypeOK
  <2> SUFFICES ASSUME NEW S \in SUBSET Transactions, WaitForEachOther(S) PROVE FALSE
    BY DEF NoDeadlock
  <2> DEFINE class(t) == Wanted(t).class
             mode(t)  == Wanted(t).mode
  <2>1. \A t \in S : \E u \in S :
           /\ Below(Wanted(t), Wanted(u))
           /\ class(t) \notin Exclusive =>
                 /\ mode(t) = "NO_KEY_UPDATE"
                 /\ class(u) \notin Exclusive /\ mode(u) # "NO_KEY_UPDATE"
    BY BlockersWaitFurtherOn DEF WaitForEachOther
  <2>2. \A t \in S : class(t) \in Exclusive
    BY <2>1
  <2>3. \A t \in S : class(t) # "version"
    BY <2>1, <2>2 DEF Below
  <2>4. \A t \in S : class(t) # "instance"
    BY <2>1, <2>2, <2>3 DEF Below, Exclusive
  <2>5. \A t \in S : class(t) # "receipt"
    BY <2>1, <2>2, <2>3, <2>4 DEF Below, Exclusive
  <2>6. QED
    BY <2>2, <2>3, <2>4, <2>5 DEF Exclusive, WaitForEachOther
<1>2. QED
  BY <1>1, TypeInvariant, PTL
================================================================================
