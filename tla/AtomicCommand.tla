----------------------------- MODULE AtomicCommand -----------------------------
(***************************************************************************)
(* What the idempotency protocol promises a caller: a key is decided once, *)
(* by one of the calls that carry it, the decision and its effect are one  *)
(* step, and every later call with the key is answered from the decision.  *)
(*                                                                         *)
(* A request is [key, actor, kind, instance, version, expected, body]: key *)
(* stands for the pair (principal_id, idempotency_key), so it belongs to   *)
(* one actor, and two requests are equal when their request hashes are.    *)
(***************************************************************************)
EXTENDS Integers, Sequences, FiniteSets

CONSTANTS Calls,        \* handler invocations, retries included
          Keys,         \* (principal_id, idempotency_key)
          Principals,
          Instances,    \* the instances that exist at the start
          NoInstance,   \* the instance of a CREATE request: its id is fresh
          Versions,     \* definition versions
          Requests,
          Undecided,    \* the receipt of a key nobody used
          NoRequest,    \* the request of a call that has not been made
          NoAnswer

VARIABLES request,      \* [Calls -> Requests or NoRequest]
          answer,       \* [Calls -> what the caller was told, or NoAnswer]
          receipts,     \* [Keys -> [request, answer] or Undecided]
          history,      \* the requests that took effect, in commit order
          status,       \* [Versions -> status]
          enabled,      \* principals allowed to act
          been          \* [Calls -> what the actor of a pending call has been since its start]

vars == <<request, answer, receipts, history, status, enabled, been>>

Kinds   == {"CREATE", "REVISE", "TRANSITION", "COMBINED", "OVERRIDE", "REBUILD"}
Request == [key : Keys, actor : Principals, kind : Kinds, instance : Instances \cup {NoInstance},
            version : Versions, expected : Nat]

Results == {"COMMITTED", "STATE_VERSION_CONFLICT", "VERSION_STATUS", "PRINCIPAL_DISABLED",
            "IDEMPOTENCY_CONFLICT", "DENIED", "STORAGE_ERROR"}
Answer  == [result : Results, version : Nat]
Receipt == [request : Requests, answer : Answer]

ASSUME RequestAssumption ==
    /\ Requests \subseteq Request
    /\ \A r \in Requests : (r.kind = "CREATE") <=> (r.instance = NoInstance)
    /\ \A q, r \in Requests : q.key = r.key => q.actor = r.actor
ASSUME NullAssumption ==
    /\ NoInstance \notin Instances
    /\ NoRequest \notin Requests
    /\ NoAnswer \notin Answer
    /\ Undecided \notin Receipt

(* workflow_state_version of an instance: one more with every event, and   *)
(* all but a rebuilding of the projection write one.                       *)
IsEventOf(r, i) == r.instance = i /\ r.kind # "REBUILD"
StateVersion(i) == 1 + Cardinality({n \in DOMAIN history : IsEventOf(history[n], i)})

Told(result, version) == [result |-> result, version |-> version]
Admin(r)    == r.kind \in {"OVERRIDE", "REBUILD"}
Compares(r) == r.kind \notin {"CREATE", "REBUILD"}   \* names the version it expects
Accepts(r)  == IF r.kind = "CREATE" THEN {"PUBLISHED"}
               ELSE IF Admin(r) THEN {"PUBLISHED", "DEPRECATED", "REVOKED"}
               ELSE {"PUBLISHED", "DEPRECATED"}

Standing(p) == IF p \in enabled THEN "ENABLED" ELSE "DISABLED"

(* What may be decided of a call in the state it is decided in.  Whether   *)
(* the actor is enabled is read without a lock by all but the admin        *)
(* commands: it was so at some moment since the call was made, and need    *)
(* not be so any more.                                                     *)
Justified(c, result) ==
    LET r == request[c] IN
    \/ /\ result = "COMMITTED"
       /\ Compares(r) => StateVersion(r.instance) = r.expected
       /\ status[r.version] \in Accepts(r)
       /\ IF Admin(r) THEN r.actor \in enabled ELSE "ENABLED" \in been[c]
    \/ /\ result = "STATE_VERSION_CONFLICT"
       /\ Compares(r) /\ StateVersion(r.instance) # r.expected
    \/ /\ result = "VERSION_STATUS"
       /\ status[r.version] \notin Accepts(r)
    \/ /\ result = "PRINCIPAL_DISABLED"
       /\ IF Admin(r) THEN r.actor \notin enabled ELSE "DISABLED" \in been[c]

(* The stored response: the new state version, or the one that was found.  *)
Verdict(r, result) ==
    Told(result, CASE result = "COMMITTED" /\ r.kind = "CREATE"  -> 1
                   [] result = "COMMITTED" /\ r.kind = "REBUILD" -> StateVersion(r.instance)
                   [] result = "COMMITTED"                       -> r.expected + 1
                   [] result = "STATE_VERSION_CONFLICT"          -> StateVersion(r.instance)
                   [] OTHER                                      -> 0)

(* The caller hears the answer, or, when the connection or the time for    *)
(* the request is lost once COMMIT was sent, only that something failed.   *)
Heard(a) == {a, Told("STORAGE_ERROR", 0)}

Init ==
    /\ request = [c \in Calls |-> NoRequest]
    /\ answer = [c \in Calls |-> NoAnswer]
    /\ receipts = [k \in Keys |-> Undecided]
    /\ history = <<>>
    /\ status = [v \in Versions |-> "PUBLISHED"]
    /\ enabled = Principals
    /\ been = [c \in Calls |-> {}]

Call(c, r) ==
    /\ request[c] = NoRequest
    /\ request' = [request EXCEPT ![c] = r]
    /\ been' = [been EXCEPT ![c] = {Standing(r.actor)}]
    /\ UNCHANGED <<answer, receipts, history, status, enabled>>

Pending(c) == request[c] # NoRequest /\ answer[c] = NoAnswer

Tell(c, a) ==
    /\ answer' = [answer EXCEPT ![c] = a]
    /\ been' = [been EXCEPT ![c] = {}]

Decide(c, result) ==
    LET r == request[c] IN
    /\ Pending(c) /\ receipts[r.key] = Undecided /\ Justified(c, result)
    /\ history' = IF result = "COMMITTED" THEN Append(history, r) ELSE history
    /\ \E a \in Heard(Verdict(r, result)) : Tell(c, a)
    /\ receipts' = [receipts EXCEPT ![r.key] = [request |-> r, answer |-> Verdict(r, result)]]
    /\ UNCHANGED <<request, status, enabled>>

Repeat(c) ==
    LET r == request[c] IN
    /\ Pending(c) /\ receipts[r.key] # Undecided
    /\ Tell(c, IF receipts[r.key].request = r THEN receipts[r.key].answer
               ELSE Told("IDEMPOTENCY_CONFLICT", 0))
    /\ UNCHANGED <<request, receipts, history, status, enabled>>

(* Answers that decide nothing: the transaction rolled back, a repeated    *)
(* admin command whose actor has lost its authority, a revision whose      *)
(* actor was found disabled before the transaction began.                  *)
Refuse(c) ==
    /\ Pending(c)
    /\ \E result \in {"STORAGE_ERROR", "DENIED"} :
          /\ result = "DENIED" =>
                \/ Admin(request[c]) /\ request[c].actor \notin enabled
                \/ request[c].kind = "REVISE" /\ "DISABLED" \in been[c]
          /\ Tell(c, Told(result, 0))
    /\ UNCHANGED <<request, receipts, history, status, enabled>>

SetStatus(v, to) ==
    /\ to = "DEPRECATED" => status[v] = "PUBLISHED"
    /\ to = "REVOKED"    => status[v] \in {"PUBLISHED", "DEPRECATED"}
    /\ status' = [status EXCEPT ![v] = to]
    /\ UNCHANGED <<request, answer, receipts, history, enabled, been>>

Switch(p) ==
    /\ enabled' = IF p \in enabled THEN enabled \ {p} ELSE enabled \cup {p}
    /\ been' = [c \in Calls |-> IF Pending(c) /\ request[c].actor = p
                                THEN been[c] \cup {Standing(p)'} ELSE been[c]]
    /\ UNCHANGED <<request, answer, receipts, history, status>>

Next ==
    \/ \E c \in Calls : \/ \E r \in Requests : Call(c, r)
                        \/ \E result \in {"COMMITTED", "STATE_VERSION_CONFLICT",
                                          "VERSION_STATUS", "PRINCIPAL_DISABLED"} :
                               Decide(c, result)
                        \/ Repeat(c)
                        \/ Refuse(c)
    \/ \E v \in Versions, to \in {"DEPRECATED", "REVOKED"} : SetStatus(v, to)
    \/ \E p \in Principals : Switch(p)

Spec == Init /\ [][Next]_vars
================================================================================
