---------------------------- MODULE ImportProperties ----------------------------
(***************************************************************************)
(* What the import of legacy records guarantees of concurrent calls.       *)
(***************************************************************************)
EXTENDS LegacyImport

(* A record is imported once, though its importers share neither a key nor *)
(* a domain, and whichever of them crash, retry or lose their answers.     *)
OneImportPerRecord ==
    \A m, n \in DOMAIN instances :
        /\ instances[m].record = instances[n].record
        /\ NoActor \notin {instances[m].importer, instances[n].importer}
        => m = n

(* The receipt of a key says imported exactly when the key's instance is   *)
(* there: a failure left nothing behind, a success is never told twice.    *)
ReceiptsMatchImports ==
    \A k \in Keys :
        LET imports == {n \in DOMAIN instances :
                        <<instances[n].importer, instances[n].record>> = k} IN
        IF receipts[k] \notin {Undecided, Foreign} /\ receipts[k].answer = "IMPORTED"
        THEN \E n \in imports : imports = {n}
        ELSE imports = {}

(* The interleaved statements are some sequence of atomic imports: the     *)
(* rows of the domain still grant what a committed import relied on, and a *)
(* repetition is answered by who may still import.                         *)
ImplementsAtomicImport == Spec

(* No set of imports waits for each other for ever, by the locks they ask  *)
(* for themselves; LockOrder has those of the foreign keys as well.        *)
EveryImportEnds == \A c \in Calls : Pending(c) ~> answer[c] # NoAnswer
================================================================================
