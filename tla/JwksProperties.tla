---------------------------- MODULE JwksProperties -----------------------------
(***************************************************************************)
(* What the requests may count on from the cached key set.                 *)
(***************************************************************************)
EXTENDS JwksCache

(* A set is never replaced by an older one, although answers may be slow:  *)
(* refresh_and_find fetches and stores under one mutex.  Only the startup  *)
(* fetch, which does not take it, can be overtaken.                        *)
SetNeverGoesBack ==
    [][cache'.set < cache.set => Startup \in {cache.by, cache'.by}]_vars

(* A request whose own fetch returned its key is not told that the key is  *)
(* unknown, whatever the other requests and their timeouts did meanwhile.  *)
FetchedKeyIsFound ==
    [][\A r \in Requests :
        NotFound(r) /\ Known(caller[r].set, caller[r].kid) => cache.by = Startup]_vars

(* Every request is answered: no refresh keeps the mutex and none waits    *)
(* for ever behind the others, even if no request ever times out.          *)
EveryRequestAnswered ==
    \A r \in Requests : caller[r].at # "idle" ~> caller[r].at = "idle"

--------------------------------------------------------------------------------
(* "Beyond max_stale: evict cache, force refresh" (docs/contracts/         *)
(* JWKS_OBO_AUTH_V0.md): a key is used only from a set that was within     *)
(* max_stale, or was replaced, since the request came.                     *)
ExpiredSetIsRefreshed ==
    [][\A r \in Requests :
        FindAgain(r) => cache.age <= MaxStale \/ caller[r].renewed]_vars
================================================================================
