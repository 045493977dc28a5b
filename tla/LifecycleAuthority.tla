--------------------------- MODULE LifecycleAuthority ---------------------------
(***************************************************************************)
(* DefinitionLifecycle with the authority it leaves open: between the      *)
(* statements of a call the service looks up whether its principal and the *)
(* domain are enabled, whether the principal owns the domain, and whether  *)
(* each fixed principal of a graph it publishes is enabled.  None of       *)
(* these rows is locked, not even by the look-ups inside a transaction, so *)
(* each is a step of its own and what it found may change at once.  The    *)
(* callers are one principal; what it and the others may do is a set of    *)
(* facts that whoever administers them changes (Administer).               *)
(***************************************************************************)
EXTENDS LifecycleProperties, Sequences

CONSTANTS Principals,         \* those a graph may name
          FixedPrincipals,    \* [Graphs -> those its nodes name, in the nodes' order]
          Standings,          \* the sets of facts that may be true at one time
          MaxChanges          \* bound on changes of them

Caller == {"PRINCIPAL", "DOMAIN", "OWNER"}   \* he and his domain are enabled, he owns it

ASSUME AuthorityAssumption ==
    /\ FixedPrincipals \in [Graphs -> Seq(Principals)]
    /\ Standings \subseteq SUBSET (Caller \cup Principals) /\ Standings # {}
    /\ MaxChanges \in Nat

VARIABLES standing,           \* the facts that are true now
          changes,            \* how often they changed
          checked,            \* [Calls -> how many look-ups before its next statement are done]
          seen                \* [Calls -> what was true at some moment of the call]; no code
                              \* keeps it, the properties compare with it

authorityVars == <<vars, standing, changes, checked, seen>>

AuthorityInit ==
    /\ LifecycleInit
    /\ standing = Caller \cup Principals
    /\ changes = 0
    /\ checked = [c \in Calls |-> 0]
    /\ seen = [c \in Calls |-> {}]

--------------------------------------------------------------------------------
(* The look-ups before the next statement of a call, in their order.       *)
(* validate_fixed_principals goes through the nodes that were read before. *)
PublishDue(g)  == FixedPrincipals[g] \o <<"DOMAIN", "OWNER">>
OwnerForgotten == <<"PRINCIPAL", "DOMAIN">>        \* mutant: no ensure_domain_owner
CallerDue      == <<"PRINCIPAL", "DOMAIN", "OWNER">>

DueBefore(s, g) == CASE s \in {"number", "status"} -> CallerDue
                     [] s \in {"check", "version"} -> <<"PRINCIPAL">>
                     [] s = "replace"              -> <<"DOMAIN", "OWNER">>
                     [] s = "publish"              -> PublishDue(g)
                     [] OTHER                      -> << >>
Due(c) == DueBefore(step[c], read[c].graph)

LookUp(c) ==
    /\ checked[c] < Len(Due(c))
    /\ Due(c)[checked[c] + 1] \in standing
    /\ checked' = [checked EXCEPT ![c] = @ + 1]
    /\ UNCHANGED <<vars, standing, changes, seen>>

(* A statement of some call, if what it waits for has been looked up.  A   *)
(* look-up that finds its fact untrue ends the call: GiveUp.               *)
Moves(c)    == step'[c] # step[c]
Admitted(c) == Moves(c) => checked[c] = Len(Due(c)) \/ answer'[c] = "REFUSED"

Statement ==
    /\ LifecycleNext
    /\ \A c \in Calls : Admitted(c)
    /\ checked' = [c \in Calls |-> IF Moves(c) THEN 0 ELSE checked[c]]
    /\ seen' = [c \in Calls |-> IF ~Moves(c) THEN seen[c]
                                ELSE IF step[c] = "idle" THEN standing
                                ELSE IF step'[c] = "end" THEN {} ELSE seen[c]]
    /\ UNCHANGED <<standing, changes>>

Administer ==
    /\ changes < MaxChanges
    /\ standing' \in Standings \ {standing}
    /\ changes' = changes + 1
    /\ seen' = [c \in Calls |-> IF step[c] \in {"idle", "end"} THEN seen[c]
                                ELSE seen[c] \cup standing']
    /\ UNCHANGED <<vars, checked>>

AuthorityNext == Statement \/ (\E c \in Calls : LookUp(c)) \/ Administer

AuthoritySpec == AuthorityInit /\ [][AuthorityNext]_authorityVars

--------------------------------------------------------------------------------
Succeeds(c) == answer[c] = "none" /\ answer'[c] = "DONE"

(* Whatever a call writes, its caller was enabled, was the domain's owner, *)
(* and the domain was enabled, each at some moment of that call: the       *)
(* windows between look-up and write are those of the call itself, on      *)
(* every one of the five paths.                                            *)
WritersWereEntitled ==
    [][\A c \in Calls : Succeeds(c) => Caller \subseteq seen[c]]_authorityVars

(* The fixed principals of a graph's nodes, in any order.                  *)
Named(graph) == {FixedPrincipals[graph][k] : k \in DOMAIN FixedPrincipals[graph]}

(* Every fixed principal of a graph that is published was enabled at some  *)
(* moment of the publishing call, although the principals looked up are    *)
(* those of the graph read before and others may replace it meanwhile.     *)
AssigneesWereEnabled ==
    [][\A c \in Calls : (Succeeds(c) /\ command[c].kind = "PUBLISH")
          => Named(rows'[V(c)].graph) \subseteq seen[c]]_authorityVars
================================================================================
