----------------------------- MODULE StoredAnswers ------------------------------
(***************************************************************************)
(* How a refusal outlives its transaction.  The first call of a key stores *)
(* a status and a label in the receipt, from a table of its command; a     *)
(* repetition reads them back through another one, written by hand beside  *)
(* it, that answers a pair it has no arm for with an internal error.  An   *)
(* error here is its label; its status is the same in both tables.  The    *)
(* texts that go with some errors are left out.                            *)
(***************************************************************************)
VARIABLES command,      \* the command of the key
          told,         \* what the first call was told
          receipt,      \* the label it stored
          again         \* what the repetition was told

vars == <<command, told, receipt, again>>

Commands == {"CREATE", "REVISE", "TRANSITION", "COMBINED", "OVERRIDE", "REBUILD", "IMPORT"}

(* The refusals a transaction completes its receipt with.  All others, as  *)
(* a revision outside a draft node, roll the receipt back with the rest.   *)
CreateRefusals ==
    {"PRINCIPAL_NOT_FOUND", "PRINCIPAL_DISABLED", "DOMAIN_NOT_FOUND",
     "DOMAIN_DISABLED", "DOMAIN_MEMBERSHIP_REQUIRED",
     "DEFINITION_VERSION_NOT_FOUND", "VERSION_NOT_PUBLISHED",
     "CROSS_DOMAIN_VIOLATION", "CONTEXT_VALIDATION_FAILED",
     "SIZE_LIMIT_EXCEEDED", "ASSIGNEE_RESOLUTION_FAILED"}

ReviseRefusals ==
    {"PRINCIPAL_NOT_FOUND", "PRINCIPAL_DISABLED", "STATE_VERSION_CONFLICT",
     "DEFINITION_VERSION_REVOKED", "DEFINITION_VERSION_DRAFT",
     "CONTEXT_VALIDATION_FAILED"}

TransitionRefusals ==
    {"PRINCIPAL_NOT_FOUND", "PRINCIPAL_DISABLED", "INSTANCE_NOT_FOUND",
     "CURRENT_VISIT_NOT_FOUND", "PRINCIPAL_NOT_ASSIGNEE",
     "SOURCE_NODE_TERMINAL", "DEFINITION_VERSION_REVOKED",
     "DEFINITION_VERSION_DRAFT", "STATE_VERSION_CONFLICT",
     "TRANSITION_NOT_APPLICABLE", "SUBMISSION_REQUIRED",
     "SUBMISSION_VALIDATION_FAILED", "SIZE_LIMIT_EXCEEDED",
     "INVALID_RETURN_REFERENCES", "ASSIGNEE_RESOLUTION_FAILED"}

CombinedRefusals ==
    {"PRINCIPAL_NOT_FOUND", "PRINCIPAL_DISABLED", "INSTANCE_NOT_FOUND",
     "CURRENT_VISIT_NOT_FOUND", "PRINCIPAL_NOT_CREATOR", "PRINCIPAL_NOT_ASSIGNEE",
     "CURRENT_NODE_NOT_DRAFT", "DEFINITION_VERSION_REVOKED",
     "DEFINITION_VERSION_DRAFT", "STATE_VERSION_CONFLICT",
     "TRANSITION_NOT_APPLICABLE", "CONTEXT_VALIDATION_FAILED",
     "SUBMISSION_VALIDATION_FAILED", "SIZE_LIMIT_EXCEEDED",
     "ASSIGNEE_RESOLUTION_FAILED", "INTERNAL_CONSISTENCY"}

OverrideRefusals ==
    {"PRINCIPAL_NOT_FOUND", "PRINCIPAL_DISABLED", "PRINCIPAL_TYPE_NOT_ALLOWED",
     "PERMISSION_DENIED", "INVALID_INPUT", "INVALID_TARGET", "ASSIGNEE_RESOLUTION_FAILED",
     "INVALID_IMMUTABLE_FACTS", "STATE_VERSION_CONFLICT",
     "SNAPSHOT_DIGEST_MISMATCH", "INTERNAL_CONSISTENCY"}

RebuildRefusals ==
    {"PRINCIPAL_NOT_FOUND", "PRINCIPAL_DISABLED", "PRINCIPAL_TYPE_NOT_ALLOWED",
     "PERMISSION_DENIED", "INVALID_INPUT", "SNAPSHOT_DIGEST_MISMATCH", "INVALID_IMMUTABLE_FACTS"}

ImportRefusals ==
    {"PRINCIPAL_NOT_FOUND", "PRINCIPAL_DISABLED", "PRINCIPAL_TYPE_NOT_ALLOWED",
     "MIGRATION_BINDING_INVALID", "PERMISSION_DENIED", "DOMAIN_NOT_FOUND",
     "DOMAIN_DISABLED", "DEFINITION_VERSION_NOT_FOUND",
     "VERSION_NOT_PUBLISHED", "IMPORTED_NODE_NOT_FOUND", "INVALID_INPUT",
     "CREATOR_RESOLUTION_FAILED", "ASSIGNEE_RESOLUTION_FAILED",
     "CONTEXT_VALIDATION_FAILED", "SIZE_LIMIT_EXCEEDED",
     "EXTERNAL_REFERENCE_CONFLICT", "SNAPSHOT_DIGEST_MISMATCH"}

Stored(cmd) == CASE cmd = "CREATE"     -> CreateRefusals
                 [] cmd = "REVISE"     -> ReviseRefusals
                 [] cmd = "TRANSITION" -> TransitionRefusals
                 [] cmd = "COMBINED"   -> CombinedRefusals
                 [] cmd = "OVERRIDE"   -> OverrideRefusals
                 [] cmd = "REBUILD"    -> RebuildRefusals
                 [] cmd = "IMPORT"     -> ImportRefusals

(* A receipt's row references its principal (migration 0005), so whoever   *)
(* owns one is there: only a revision, whose caller may just not be the    *)
(* creator, is refused as by a principal that is not found.  The others'   *)
(* tables have the label, but three tables of arms would not read it back. *)
Refusals(cmd) ==
    IF cmd = "REVISE" THEN Stored(cmd) ELSE Stored(cmd) \ {"PRINCIPAL_NOT_FOUND"}

(* The arms of the table that reads a stored refusal back.                 *)
CreateArms ==
    {"DOMAIN_NOT_FOUND", "DOMAIN_DISABLED", "PRINCIPAL_NOT_FOUND",
     "PRINCIPAL_DISABLED", "DOMAIN_MEMBERSHIP_REQUIRED",
     "CROSS_DOMAIN_VIOLATION", "DEFINITION_VERSION_NOT_FOUND",
     "VERSION_NOT_PUBLISHED", "CONTEXT_VALIDATION_FAILED",
     "SIZE_LIMIT_EXCEEDED", "ASSIGNEE_RESOLUTION_FAILED"}

ReviseArms ==
    {"INSTANCE_NOT_FOUND", "PRINCIPAL_DISABLED", "CURRENT_VISIT_NOT_FOUND",
     "CURRENT_NODE_NOT_DRAFT", "DEFINITION_VERSION_REVOKED",
     "DEFINITION_VERSION_DRAFT", "STATE_VERSION_CONFLICT",
     "CONTEXT_VALIDATION_FAILED", "SIZE_LIMIT_EXCEEDED"}

TransitionArms ==
    {"PRINCIPAL_NOT_FOUND", "INSTANCE_NOT_FOUND", "PRINCIPAL_DISABLED",
     "CURRENT_VISIT_NOT_FOUND", "PRINCIPAL_NOT_ASSIGNEE",
     "SOURCE_NODE_TERMINAL", "DEFINITION_VERSION_REVOKED",
     "DEFINITION_VERSION_DRAFT", "STATE_VERSION_CONFLICT",
     "TRANSITION_NOT_APPLICABLE", "SUBMISSION_REQUIRED",
     "SUBMISSION_VALIDATION_FAILED", "SIZE_LIMIT_EXCEEDED",
     "INVALID_RETURN_REFERENCES", "ASSIGNEE_RESOLUTION_FAILED"}

CombinedArms ==
    {"INSTANCE_NOT_FOUND", "CURRENT_VISIT_NOT_FOUND", "PRINCIPAL_DISABLED",
     "PRINCIPAL_NOT_CREATOR", "PRINCIPAL_NOT_ASSIGNEE",
     "CURRENT_NODE_NOT_DRAFT", "DEFINITION_VERSION_REVOKED",
     "DEFINITION_VERSION_DRAFT", "STATE_VERSION_CONFLICT",
     "TRANSITION_NOT_APPLICABLE", "CONTEXT_VALIDATION_FAILED",
     "SUBMISSION_VALIDATION_FAILED", "SIZE_LIMIT_EXCEEDED",
     "ASSIGNEE_RESOLUTION_FAILED", "INTERNAL_CONSISTENCY"}

AdminArms ==
    {"PRINCIPAL_DISABLED", "PRINCIPAL_TYPE_NOT_ALLOWED", "PERMISSION_DENIED",
     "INSTANCE_NOT_FOUND", "INVALID_INPUT", "SNAPSHOT_DIGEST_MISMATCH",
     "STATE_VERSION_CONFLICT", "INVALID_IMMUTABLE_FACTS", "INVALID_TARGET",
     "ASSIGNEE_RESOLUTION_FAILED"}

ImportArms ==
    {"PRINCIPAL_NOT_FOUND", "PRINCIPAL_DISABLED", "PRINCIPAL_TYPE_NOT_ALLOWED",
     "MIGRATION_BINDING_INVALID", "PERMISSION_DENIED", "DOMAIN_NOT_FOUND",
     "DOMAIN_DISABLED", "DEFINITION_VERSION_NOT_FOUND",
     "VERSION_NOT_PUBLISHED", "IMPORTED_NODE_NOT_FOUND", "INVALID_INPUT",
     "CREATOR_RESOLUTION_FAILED", "ASSIGNEE_RESOLUTION_FAILED",
     "CONTEXT_VALIDATION_FAILED", "SIZE_LIMIT_EXCEEDED",
     "EXTERNAL_REFERENCE_CONFLICT", "SNAPSHOT_DIGEST_MISMATCH"}

Arms(cmd) == CASE cmd = "CREATE"     -> CreateArms
               [] cmd = "REVISE"     -> ReviseArms
               [] cmd = "TRANSITION" -> TransitionArms
               [] cmd = "COMBINED"   -> CombinedArms
               [] cmd \in {"OVERRIDE", "REBUILD"} -> AdminArms
               [] cmd = "IMPORT"     -> ImportArms

NoArm(cmd) ==
    IF cmd \in {"OVERRIDE", "REBUILD", "IMPORT"} THEN "INTERNAL_CONSISTENCY" ELSE "STORAGE_ERROR"

Init ==
    /\ command \in Commands
    /\ told = "NONE" /\ receipt = "NONE" /\ again = "NONE"

Refuse(error) ==
    /\ told = "NONE"
    /\ told' = error /\ receipt' = error
    /\ UNCHANGED <<command, again>>

Repeat ==
    /\ receipt # "NONE"
    /\ again' = IF receipt \in Arms(command) THEN receipt ELSE NoArm(command)
    /\ UNCHANGED <<command, told, receipt>>

Next == (\E error \in Refusals(command) : Refuse(error)) \/ Repeat
Spec == Init /\ [][Next]_vars

--------------------------------------------------------------------------------
(* The same request is told the same refusal, whether its key was refused  *)
(* a moment ago or long before.  A caller who revises a context he did not *)
(* create is first told that, and then of an internal error.               *)
SameRefusalAgain == again \in {"NONE", told}
================================================================================
