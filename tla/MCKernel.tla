------------------------------- MODULE MCKernel --------------------------------
(* Instances of WorkflowKernel for TLC: one version with a DRAFT, a review *)
(* by the domain owner, a TERMINAL node at the end and one before the      *)
(* review, every effect, an ADVANCE that is no node's primary and goes     *)
(* back, and a TERMINATE out of the DRAFT: the validator accepts them all. *)
EXTENDS KernelProperties, TLC

CONSTANTS alice, olga, svc, dom, v1, draft, review, done, dropped,
          submit, withdraw, approve, back, reject, redo

NodeAt(type, order, assignee, primary) ==
    [version |-> v1, type |-> type, order |-> order, assignee |-> assignee,
     fixed |-> Nobody, primary |-> primary]

MCNodeDef == (draft  :> NodeAt("DRAFT", 1, "WORKFLOW_CREATOR", submit))
          @@ (dropped :> NodeAt("TERMINAL", 2, "NONE", NoTransition))
          @@ (review :> NodeAt("NORMAL", 3, "DOMAIN_OWNER", approve))
          @@ (done   :> NodeAt("TERMINAL", 4, "NONE", NoTransition))

Arrow(source, effect, target, schema) ==
    [version |-> v1, source |-> source, target |-> target, effect |-> effect, schema |-> schema]

MCTransitionDef == (submit  :> Arrow(draft, "ADVANCE", review, FALSE))
                @@ (withdraw :> Arrow(draft, "TERMINATE", dropped, FALSE))
                @@ (approve :> Arrow(review, "ADVANCE", done, TRUE))
                @@ (back    :> Arrow(review, "RETURN", draft, TRUE))
                @@ (reject  :> Arrow(review, "TERMINATE", dropped, FALSE))
                @@ (redo    :> Arrow(review, "ADVANCE", draft, FALSE))

MCVersionDomain == [v \in {v1} |-> dom]
MCSeed == {<<dom, alice, "MEMBER">>, <<dom, olga, "DOMAIN_OWNER">>,
           <<dom, olga, "WORKFLOW_ADMIN">>, <<dom, svc, "WORKFLOW_MIGRATION">>}
AliceSwitched == {alice}
OlgaGranted   == {<<dom, olga, "DOMAIN_OWNER">>}
Nothing       == {}
================================================================================
