----------------------------- MODULE AtomicImport ------------------------------
(***************************************************************************)
(* What the import of legacy records promises: a record becomes one        *)
(* instance, whoever imports it and through whichever domain; an import is *)
(* decided once, on rows that hold at that moment; and a repetition is     *)
(* told the decision only while its actor may still import.                *)
(*                                                                         *)
(* The idempotency key and the external reference are both derived from    *)
(* the record, so a request chooses neither.                               *)
(***************************************************************************)
EXTENDS Integers, Sequences

CONSTANTS Calls, Actors, Domains, Records,
          Requests,     \* [actor, domain, record, body]
          Rows,         \* [Domains -> the values the domain's rows take]
          NoActor,      \* nobody: no usable migration binding, or no importer
          NoRequest, NoAnswer, Undecided,
          Foreign       \* the receipt of a key another command type has used

VARIABLES request,      \* [Calls -> Requests or NoRequest]
          answer,       \* [Calls -> what the caller was told, or NoAnswer]
          receipts,     \* [Keys -> [request, answer], Undecided or Foreign]
          instances,    \* what was inserted, in commit order: [record, importer]
          rows          \* [Domains -> the committed rows an import reads]

vars == <<request, answer, receipts, instances, rows>>

(* MALFORMED fails validate_input_shape, UNFIT fails validate_owned: its   *)
(* context or its assignee does not fit the definition.                    *)
Bodies  == {"SOUND", "MALFORMED", "UNFIT"}
Request == [actor : Actors, domain : Domains, record : Records, body : Bodies]
Row     == [enabled : BOOLEAN, migrator : Actors \cup {NoActor}, published : BOOLEAN,
            owned : BOOLEAN]
Keys    == Actors \X Records
Key(r)  == <<r.actor, r.record>>

Settled == {"IMPORTED", "DOMAIN_DISABLED", "MIGRATION_BINDING_INVALID", "VERSION_NOT_PUBLISHED",
            "INVALID_INPUT", "UNRESOLVED", "EXTERNAL_REFERENCE_CONFLICT"}
Results == Settled \cup {"IDEMPOTENCY_CONFLICT", "INTERNAL_CONSISTENCY", "STORAGE_ERROR"}

ASSUME ImportAssumption ==
    /\ Requests \subseteq Request
    /\ \A d \in Domains : Rows[d] \subseteq Row
    /\ NoActor \notin Actors /\ NoRequest \notin Requests /\ NoAnswer \notin Results
    /\ {Undecided, Foreign} \cap [request : Requests, answer : Settled] = {}

(* validate_access.  Every refusal of the actor is one here: that it is    *)
(* disabled, no service, or not the holder of the one migration binding.   *)
Access(r) ==
    LET d == rows[r.domain] IN
    IF r.body = "MALFORMED" THEN "INVALID_INPUT"
    ELSE IF ~d.enabled THEN "DOMAIN_DISABLED"
    ELSE IF d.migrator # r.actor THEN "MIGRATION_BINDING_INVALID"
    ELSE IF ~d.published THEN "VERSION_NOT_PUBLISHED"
    ELSE "OK"

(* validate_owned, the creator falling back to the domain's owner.         *)
Resolves(r) == r.body = "SOUND" /\ rows[r.domain].owned

Referenced(record) == \E n \in DOMAIN instances : instances[n].record = record
Imported(record)   ==
    \E n \in DOMAIN instances : instances[n].record = record /\ instances[n].importer # NoActor

(* That a creation may insert the reference an import found absent is all  *)
(* that an import does not exclude.                                        *)
Justified(r, result) ==
    CASE result = "IMPORTED"   -> Access(r) = "OK" /\ Resolves(r) /\ ~Imported(r.record)
      [] result = "UNRESOLVED" -> Access(r) = "OK" /\ ~Resolves(r)
      [] result = "EXTERNAL_REFERENCE_CONFLICT" ->
             Access(r) = "OK" /\ Resolves(r) /\ Referenced(r.record)
      [] OTHER -> Access(r) = result

Decided(c, result) == [request |-> request[c], answer |-> result]

Init ==
    /\ request = [c \in Calls |-> NoRequest]
    /\ answer = [c \in Calls |-> NoAnswer]
    /\ receipts = [k \in Keys |-> Undecided]
    /\ instances = <<>>
    /\ rows \in [Domains -> UNION {Rows[d] : d \in Domains}]
    /\ \A d \in Domains : rows[d] \in Rows[d]

Call(c, r) ==
    /\ request[c] = NoRequest
    /\ request' = [request EXCEPT ![c] = r]
    /\ UNCHANGED <<answer, receipts, instances, rows>>

Pending(c) == request[c] # NoRequest /\ answer[c] = NoAnswer

(* The decision, its effect and its receipt are one step; that COMMIT was  *)
(* reached is all the caller may fail to learn.                            *)
Decide(c, result) ==
    LET r == request[c] IN
    /\ Pending(c) /\ receipts[Key(r)] = Undecided /\ Justified(r, result)
    /\ instances' = IF result = "IMPORTED"
                      THEN Append(instances, [record |-> r.record, importer |-> r.actor]) ELSE instances
    /\ receipts' = [receipts EXCEPT ![Key(r)] = Decided(c, result)]
    /\ \E a \in {result, "STORAGE_ERROR"} : answer' = [answer EXCEPT ![c] = a]
    /\ UNCHANGED <<request, rows>>

(* A repetition: its own access first, then the stored decision.           *)
Repeat(c) ==
    LET stored == receipts[Key(request[c])] IN
    /\ Pending(c) /\ stored \notin {Undecided, Foreign}
    /\ answer' = [answer EXCEPT ![c] =
                     IF Access(request[c]) # "OK" THEN Access(request[c])
                     ELSE IF stored.request = request[c] THEN stored.answer
                     ELSE "IDEMPOTENCY_CONFLICT"]
    /\ UNCHANGED <<request, receipts, instances, rows>>

Refuse(c) ==
    /\ Pending(c)
    /\ \E result \in {"STORAGE_ERROR", "INTERNAL_CONSISTENCY"} :
          /\ result = "INTERNAL_CONSISTENCY" => receipts[Key(request[c])] = Foreign
          /\ answer' = [answer EXCEPT ![c] = result]
    /\ UNCHANGED <<request, receipts, instances, rows>>

(* The administration of the domain, its principals and its versions.      *)
Administer(d, to) ==
    /\ rows' = [rows EXCEPT ![d] = to]
    /\ UNCHANGED <<request, answer, receipts, instances>>

(* CreateWorkflowInstance takes its reference and its key from the caller. *)
Create(record) ==
    /\ instances' = Append(instances, [record |-> record, importer |-> NoActor])
    /\ UNCHANGED <<request, answer, receipts, rows>>
Claim(k) ==
    /\ receipts[k] = Undecided
    /\ receipts' = [receipts EXCEPT ![k] = Foreign]
    /\ UNCHANGED <<request, answer, instances, rows>>

Next ==
    \/ \E c \in Calls : \/ \E r \in Requests : Call(c, r)
                        \/ \E result \in Settled : Decide(c, result)
                        \/ Repeat(c)
                        \/ Refuse(c)
    \/ \E d \in Domains : \E to \in Rows[d] : Administer(d, to)
    \/ \E record \in Records : Create(record)
    \/ \E k \in Keys : Claim(k)

Spec == Init /\ [][Next]_vars
================================================================================
