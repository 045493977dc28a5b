------------------------------ MODULE MCLifecycle -------------------------------
(* One version is created, edited by two clients, published and retired; a *)
(* second one is created beside it.                                        *)
EXTENDS LifecycleAuthority, TLC

CONSTANTS p, q, v1, v2, empty, g1, g2, s1, external

Cmd(kind, v, graph, schema) ==
    [kind |-> kind, version |-> v, graph |-> graph, schema |-> schema]

MCCommands ==
    {Cmd("CREATE", v1, g1, external), Cmd("REPLACE", v1, g1, Keep), Cmd("REPLACE", v1, g2, s1),
     Cmd("PUBLISH", v1, g1, s1), Cmd("DEPRECATE", v1, g1, s1), Cmd("REVOKE", v1, g1, s1)}

(* One graph names two fixed principals.  Everyone starts with all that is *)
(* needed; the caller, his domain or the first fixed principal may be      *)
(* disabled, or the caller's role withdrawn.                               *)
MCFixed     == [g \in Graphs |-> IF g = g1 THEN <<p, q>> ELSE << >>]
AllFacts    == Caller \cup Principals
MCStandings == {AllFacts} \cup {AllFacts \ {f} : f \in Caller \cup {p}}

MCSymmetry == Permutations(Calls)
================================================================================
