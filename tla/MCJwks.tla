--------------------------------- MODULE MCJwks ---------------------------------
EXTENDS JwksProperties, TLC

CONSTANTS k1, k2

(* A key is added, then the first one is withdrawn.                        *)
MCKeySets == <<{k1}, {k1, k2}, {k2}>>

MCSymmetry == Permutations(Requests)
================================================================================
