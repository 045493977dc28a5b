--------------------------- MODULE ReceiptProperties ---------------------------
(***************************************************************************)
(* What the idempotency protocol guarantees of concurrent calls.           *)
(***************************************************************************)
EXTENDS CommandReceipt

(* Every table and every lock holds values of its type.                    *)
ReceiptTypeOK ==
    /\ request \in [Calls -> Requests \cup {NoRequest}]
    /\ answer \in [Calls -> Answer \cup {NoAnswer}]
    /\ receipts \in [Keys -> Receipt \cup {Undecided}]
    /\ history \in Seq(Requests)
    /\ status \in [Versions -> {"PUBLISHED", "DEPRECATED", "REVOKED"}]
    /\ enabled \subseteq Principals
    /\ been \in [Calls -> SUBSET {"ENABLED", "DISABLED"}]
    /\ phase \in [Calls -> 0..7]
    /\ seen \in [Calls -> Nat]
    /\ gate \in [Keys -> Calls \cup {Free}]
    /\ instanceLock \in [Instances -> Calls \cup {Free}]
    /\ versionLock \in [Versions -> Calls \cup {Free}]
    /\ shared \subseteq Calls

(* What a transaction read and relies on still holds when it goes on: the  *)
(* key is its own, the instance is at the version it saw, the definition   *)
(* version has a status its command accepts, an admin is still enabled and *)
(* any other actor has been so since the call was made.                    *)
Passed(c, statement) ==
    Pending(c) /\ \E n \in 1..(phase[c] - 1) : Plan(request[c].kind)[n] = statement

Holds(c) ==
    LET r == request[c] IN
    /\ Pending(c)             => Standing(r.actor) \in been[c]
    /\ Passed(c, "receipt")   => /\ gate[r.key] = c
                                 /\ ~Admin(r) \/ Passed(c, "replay") => Owns(c)
    /\ Passed(c, "instance")  => instanceLock[r.instance] = c /\ seen[c] = StateVersion(r.instance)
    /\ Passed(c, "version")   => versionLock[r.version] = c /\ status[r.version] \in Accepts(r)
    /\ Passed(c, "principal") => /\ "ENABLED" \in been[c]
                                 /\ Admin(r) => c \in shared /\ r.actor \in enabled
    /\ Passed(c, "expected")  => r.expected = seen[c]

ReadsStillHold == \A c \in Calls : Holds(c)

(* A key takes effect at most once, and exactly when its receipt says so:  *)
(* never a committed event without its receipt, or a receipt of success    *)
(* without its event, however calls with the key race, crash and retry.    *)
EachKeyTakesEffectOnce ==
    \A k \in Keys :
        LET effects == {n \in DOMAIN history : history[n].key = k} IN
        IF receipts[k] # Undecided /\ receipts[k].answer.result = "COMMITTED"
        THEN \E n \in effects : effects = {n} /\ history[n] = receipts[k].request
        ELSE effects = {}

(* Each event of an instance was asked for by a caller who had seen the    *)
(* event before it: no update is lost between two concurrent commands.     *)
NoLostUpdate ==
    \A n \in DOMAIN history :
        Compares(history[n]) =>
            history[n].expected =
                1 + Cardinality({m \in 1..(n - 1) : IsEventOf(history[m], history[n].instance)})

Settled == Results \ {"STORAGE_ERROR", "DENIED"}

(* Calls with the same request that are told a settled result are told the *)
(* same one, whatever changed between them.                                *)
SameRequestSameAnswer ==
    \A c, d \in Calls :
        /\ request[c] = request[d]
        /\ answer[c] # NoAnswer /\ answer[d] # NoAnswer
        /\ answer[c].result \in Settled /\ answer[d].result \in Settled
        => answer[c] = answer[d]

(* The interleaved statements are some sequence of atomic decisions: what  *)
(* a decision was justified by still holds at its commit, except that the  *)
(* actor of an ordinary command need only have been enabled (or disabled,  *)
(* where it is refused for that) at some moment of the call.               *)
ImplementsAtomicCommand == Spec

(* No set of calls waits for each other for ever.                          *)
EveryCallEnds == \A c \in Calls : Pending(c) ~> answer[c] # NoAnswer
================================================================================
