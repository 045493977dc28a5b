------------------------------ MODULE AtomicQuery -------------------------------
(***************************************************************************)
(* What a caller may expect of a query: one answer, true of one state that *)
(* the tables were in between the question and the answer.                 *)
(***************************************************************************)
CONSTANTS Queries,
          NoQuery,          \* nothing is being asked
          NoAnswer

VARIABLES truth,            \* [Queries -> their answers], which commands change at will
          query,            \* the query being asked, or NoQuery
          told              \* its answer, or NoAnswer

Init == query = NoQuery /\ told = NoAnswer

Ask(q) ==
    /\ query = NoQuery
    /\ query' = q
    /\ UNCHANGED told

Answer ==
    /\ query # NoQuery /\ told = NoAnswer
    /\ told' = truth[query]
    /\ UNCHANGED query

Forget ==
    /\ told # NoAnswer
    /\ query' = NoQuery /\ told' = NoAnswer

Next == (\E q \in Queries : Ask(q)) \/ Answer \/ Forget

Spec == Init /\ [][Next]_<<query, told>>
================================================================================
