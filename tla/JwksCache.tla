------------------------------- MODULE JwksCache --------------------------------
(***************************************************************************)
(* The key set that the token verifier keeps, auth/jwks_verifier.rs: the   *)
(* requests that look up a key id in it, the refresh they do one at a      *)
(* time, and the fetch that JwksVerifier::new starts in the background and *)
(* that takes no lock.                                                     *)
(*                                                                         *)
(* The issuer's successive key sets are numbered; a fetched set is reduced *)
(* to its number.  Time is the age of the cached set.                      *)
(***************************************************************************)
EXTENDS Integers, Sequences, SequencesExt, FiniteSetsExt

CONSTANTS Requests,     \* the requests in flight at once
          Startup,      \* the fetch spawned by JwksVerifier::new
          Kids,
          KeySets,      \* the usable keys of each set the issuer publishes, in order
          CacheTtl,
          MaxStale

Callers == Requests \union {Startup}
None    == 0            \* no key set

ASSUME StartupAssumption == Startup \notin Requests
ASSUME KeySetsAssumption == Kids # {} /\ KeySets \in Seq(SUBSET Kids) /\ KeySets # <<>>
ASSUME WindowAssumption  == CacheTtl \in Nat /\ MaxStale \in Nat

VARIABLES issued,       \* the set the issuer serves now
          cache,        \* JwksCacheState: the set, its age and who fetched it
          queue,        \* refresh_lock: its holder, then the requests waiting for it
          caller        \* [Callers -> where it is, its kid, the set it received, the answer]

vars == <<issued, cache, queue, caller>>

--------------------------------------------------------------------------------
Oldest == Max({CacheTtl, MaxStale}) + 1     \* ages beyond it are alike

Known(set, kid) == set # None /\ kid \in KeySets[set]

(* Within the TTL, or beyond it and within max_stale: the same answer.     *)
Usable == cache.set # None /\ (cache.age <= CacheTtl \/ cache.age <= MaxStale)
Ready  == cache.set # None /\ cache.age <= MaxStale

AnyWaiter(r) == \E n \in DOMAIN queue : queue[n] = r
HoldsLock(r) == queue # <<>> /\ Head(queue) = r

Goes(c, at) == caller' = [caller EXCEPT ![c].at = at]

(* The caller is given its key or its error, and drops the mutex guard.    *)
Answered(r, answer) ==
    /\ caller' = [caller EXCEPT ![r].at = "idle", ![r].answer = answer]
    /\ queue' = RemoveFirst(queue, r)

(* `renewed` is there for the properties: the set was replaced since the   *)
(* caller last read it.                                                    *)
Init ==
    /\ issued = 1
    /\ cache = [set |-> None, age |-> 0, by |-> Startup]
    /\ queue = <<>>
    /\ caller = [c \in Callers |->
                    [at      |-> IF c = Startup THEN "fetching" ELSE "idle",
                     kid     |-> CHOOSE k \in Kids : TRUE,
                     set     |-> None,
                     answer  |-> "NONE",
                     renewed |-> FALSE]]

--------------------------------------------------------------------------------
(* lookup_key: the fast path, one read of the cache.                       *)
Hit(r, kid) ==
    /\ caller[r].at = "idle"
    /\ Usable /\ Known(cache.set, kid)
    /\ caller' = [caller EXCEPT ![r].kid = kid, ![r].answer = "ACCEPTED", ![r].renewed = FALSE]
    /\ UNCHANGED <<issued, cache, queue>>

Miss(r, kid) ==
    /\ caller[r].at = "idle"
    /\ ~(Usable /\ Known(cache.set, kid))
    /\ caller' = [caller EXCEPT ![r].at = "waiting", ![r].kid = kid, ![r].set = None,
                                ![r].answer = "NONE", ![r].renewed = FALSE]
    /\ queue' = Append(queue, r)
    /\ UNCHANGED <<issued, cache>>

(* refresh_and_find, once it has the mutex: whoever held it before may     *)
(* have fetched the key.  The age of the set is not looked at.             *)
FindAgain(r) ==
    /\ caller[r].at = "waiting" /\ HoldsLock(r)
    /\ Known(cache.set, caller[r].kid)
    /\ Answered(r, "ACCEPTED")
    /\ UNCHANGED <<issued, cache>>

StartFetch(r) ==
    /\ caller[r].at = "waiting" /\ HoldsLock(r)
    /\ ~Known(cache.set, caller[r].kid)
    /\ caller' = [caller EXCEPT ![r].at = "fetching", ![r].renewed = FALSE]
    /\ UNCHANGED <<issued, cache, queue>>

--------------------------------------------------------------------------------
(* fetch_jwks: the issuer serves the set it has when the GET reaches it;   *)
(* the answer arrives later.                                               *)
Serve(c) ==
    /\ caller[c].at = "fetching"
    /\ caller' = [caller EXCEPT ![c].at = "received", ![c].set = issued]
    /\ UNCHANGED <<issued, cache, queue>>

Store(c) ==
    /\ caller[c].at = "received" /\ KeySets[caller[c].set] # {}
    /\ cache' = [set |-> caller[c].set, age |-> 0, by |-> c]
    /\ caller' = [d \in Callers |->
                    [caller[d] EXCEPT !.at = IF d = c THEN "stored" ELSE @, !.renewed = d # c]]
    /\ UNCHANGED <<issued, queue>>

(* A refused or timed out request, a body that cannot be read or parsed, a *)
(* set without a usable key: the cache keeps what it has.                  *)
FailFetch(c) ==
    /\ \/ caller[c].at = "fetching"
       \/ caller[c].at = "received"
    /\ Goes(c, IF c = Startup THEN "stored" ELSE "failed")
    /\ queue' = RemoveFirst(queue, c)
    /\ UNCHANGED <<issued, cache>>

(* refresh_and_find, after its own fetch.                                  *)
Found(r) ==
    /\ caller[r].at = "stored" /\ r # Startup
    /\ Known(cache.set, caller[r].kid)
    /\ Answered(r, "ACCEPTED")
    /\ UNCHANGED <<issued, cache>>

NotFound(r) ==
    /\ caller[r].at = "stored" /\ r # Startup
    /\ ~Known(cache.set, caller[r].kid)
    /\ Goes(r, "failed")
    /\ queue' = RemoveFirst(queue, r)
    /\ UNCHANGED <<issued, cache>>

(* lookup_key, after a refresh that gave no key.                           *)
Refuse(r) ==
    /\ caller[r].at = "failed"
    /\ Answered(r, IF Ready THEN "UNAUTHORIZED" ELSE "UNAVAILABLE")
    /\ UNCHANGED <<issued, cache>>

TimeOutKeepingLock(r) ==
    /\ caller[r].at # "idle"
    /\ Goes(r, "idle")
    /\ UNCHANGED <<issued, cache, queue>>

TimeOutFetchGoesOn(r) ==
    /\ caller[r].at # "idle"
    /\ queue' = RemoveFirst(queue, r)
    /\ UNCHANGED <<issued, cache, caller>>

(* The request timeout of the router drops the handler at any await.       *)
TimeOut(r) ==
    /\ caller[r].at # "idle"
    /\ Answered(r, "TIMED_OUT")
    /\ UNCHANGED <<issued, cache>>

--------------------------------------------------------------------------------
Rotate ==
    /\ issued < Len(KeySets)
    /\ issued' = issued + 1
    /\ UNCHANGED <<cache, queue, caller>>

Tick ==
    /\ cache.set # None /\ cache.age < Oldest
    /\ cache' = [cache EXCEPT !.age = @ + 1]
    /\ UNCHANGED <<issued, queue, caller>>

Fetch(c)  == Serve(c) \/ Store(c) \/ FailFetch(c)
Lookup(r) == \/ \E kid \in Kids : Hit(r, kid) \/ Miss(r, kid)
             \/ TimeOut(r)
Refresh(r) == FindAgain(r) \/ StartFetch(r) \/ Found(r) \/ NotFound(r) \/ Refuse(r)

Next ==
    \/ \E c \in Callers : Fetch(c)
    \/ \E r \in Requests : Lookup(r) \/ Refresh(r)
    \/ Rotate
    \/ Tick

(* The runtime polls every woken task; a fetch ends, at the latest when    *)
(* the client's timeout does; tokio's mutex serves its waiters in order.   *)
Fairness ==
    /\ \A c \in Callers : WF_vars(Fetch(c))
    /\ \A r \in Requests : WF_vars(Refresh(r))

Spec == Init /\ [][Next]_vars /\ Fairness
================================================================================
