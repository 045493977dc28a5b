------------------------------- MODULE MCReceipt -------------------------------
(* Instances of CommandReceipt for TLC: one actor, one instance i1 of      *)
(* version v1, and requests of every kind but a creation, which shares no  *)
(* instance with the others.                                               *)
EXTENDS ReceiptProperties, TLC

CONSTANTS p1, k1, k2, i1, v1, c1, c2, c3

Ask(key, kind, expected) ==
    [key |-> key, actor |-> p1, kind |-> kind, version |-> v1, instance |-> i1,
     expected |-> expected]

(* On the first key a transition and an override that reuses it; on the    *)
(* second a combined command, which expects another to have gone before, a *)
(* revision and a rebuilding.                                              *)
AllRequests ==
    {Ask(k1, "TRANSITION", 1), Ask(k1, "OVERRIDE", 1),
     Ask(k2, "COMBINED", 2), Ask(k2, "REVISE", 1), Ask(k2, "REBUILD", 0)}

(* An override meets its own repetition; every command meets another       *)
(* request with its key and those that take the same rows.                 *)
MCAsks == (c1 :> {Ask(k1, "TRANSITION", 1), Ask(k1, "OVERRIDE", 1), Ask(k2, "REBUILD", 0)})
       @@ (c2 :> {Ask(k1, "OVERRIDE", 1), Ask(k2, "REVISE", 1)})
       @@ (c3 :> {Ask(k2, "COMBINED", 2)})
================================================================================
