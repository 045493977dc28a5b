------------------------------ MODULE JwksProofs -------------------------------
(***************************************************************************)
(* The key set never goes back and a fetched key is found, for any number  *)
(* of requests, key sets and windows.  The invariant is one of the mutex:  *)
(* the requests in refresh_and_find are those in the queue, each once, and *)
(* one that has gone on to fetch is at its head.  What it has fetched is   *)
(* then no older than the cached set, since only the startup fetch stores  *)
(* without the mutex.                                                      *)
(***************************************************************************)
EXTENDS JwksProperties, SequenceTheorems, TLAPS

Places   == {"idle", "waiting", "fetching", "received", "stored", "failed"}
Queued   == {"waiting", "fetching", "received", "stored"}
Fetching == {"fetching", "received", "stored"}
Answers  == {"NONE", "ACCEPTED", "UNAUTHORIZED", "UNAVAILABLE", "TIMED_OUT"}
Numbers  == 0..Len(KeySets)
Cache    == [set : Numbers, age : Nat, by : Callers]
Caller   == [at : Places, kid : Kids, set : Numbers, answer : Answers, renewed : BOOLEAN]

(* Nobody has a set that the issuer has not served; a fetch that has been  *)
(* answered has one; the startup fetch ends when it has stored or failed.  *)
CallerOK(c) ==
    /\ caller[c].set <= issued
    /\ caller[c].at = "received" => caller[c].set # None
    /\ c = Startup => caller[c].at \in Fetching

JwksTypeOK ==
    /\ issued \in 1..Len(KeySets)
    /\ cache \in Cache /\ cache.set <= issued
    /\ queue \in Seq(Requests)
    /\ caller \in [Callers -> Caller]
    /\ \A c \in Callers : CallerOK(c)

(* The queue as a set: no request is in it twice.                          *)
Distinct(s) == \A m, n \in DOMAIN s : s[m] = s[n] => m = n
Has(s, e)   == \E n \in DOMAIN s : s[n] = e

(* Each request in the queue waits or holds the mutex; only its head has   *)
(* gone on.                                                                *)
MutexOK ==
    /\ Distinct(queue)
    /\ \A r \in Requests : Has(queue, r) <=> caller[r].at \in Queued
    /\ \A r \in Requests : caller[r].at \in Fetching => HoldsLock(r)

(* What a request has received is not older than what it will replace, and *)
(* what it has stored is what is cached, unless the startup fetch has      *)
(* stored in between.                                                      *)
FetchOK(r) ==
    /\ caller[r].at = "received" => cache.by = Startup \/ cache.set <= caller[r].set
    /\ caller[r].at = "stored"   => cache.by = Startup \/ cache.set = caller[r].set

Inv == JwksTypeOK /\ MutexOK /\ \A r \in Requests : FetchOK(r)

--------------------------------------------------------------------------------
(* What is left of a sequence without repetitions when an element is taken *)
(* out of it.                                                              *)
LEMMA Removed ==
    ASSUME NEW S, NEW s \in Seq(S), Distinct(s), NEW e
    PROVE  LET t == RemoveFirst(s, e) IN
           /\ t \in Seq(S) /\ Distinct(t)
           /\ \A x : Has(t, x) <=> Has(s, x) /\ x # e
           /\ (s # <<>> /\ Head(s) # e) => t # <<>> /\ Head(t) = Head(s)
<1> DEFINE t == RemoveFirst(s, e)
<1>1. DOMAIN s = 1..Len(s) /\ Len(s) \in Nat
  OBVIOUS
<1>2. CASE ~Has(s, e)
  <2>1. t = s
    BY <1>1, <1>2 DEF RemoveFirst, Has
  <2> QED BY <1>2, <2>1 DEF Has
<1>3. CASE Has(s, e)
  <2>1. PICK p \in 1..Len(s) : s[p] = e
    BY <1>1, <1>3 DEF Has
  <2>2. {i \in 1..Len(s) : s[i] = e} = {p} /\ Min({p}) = p
    BY <1>1, <2>1 DEF Distinct, Min
  <2>3. t = SubSeq(s, 1, p - 1) \o SubSeq(s, p + 1, Len(s))
    BY <2>1, <2>2 DEF RemoveFirst, RemoveAt, SelectInSeq
  <2>4. /\ t \in Seq(S) /\ Len(t) = Len(s) - 1
        /\ \A n \in 1..Len(t) : t[n] = IF n < p THEN s[n] ELSE s[n + 1]
    <3> DEFINE u == SubSeq(s, 1, p - 1)
               v == SubSeq(s, p + 1, Len(s))
    <3>1. \A i \in 1..Len(s) : s[i] \in S
      BY <1>1
    <3>2. /\ u \in Seq(S) /\ Len(u) = p - 1
          /\ \A i \in 1..(p - 1) : u[i] = s[i]
      <4>1. 1 \in Int /\ p - 1 \in Int /\ \A i \in 1..(p - 1) : s[i] \in S
        BY <1>1, <2>1, <3>1
      <4> HIDE DEF u
      <4>2. /\ u \in Seq(S) /\ Len(u) = IF 1 <= p - 1 THEN p - 1 - 1 + 1 ELSE 0
            /\ \A i \in 1..(p - 1 - 1 + 1) : u[i] = s[1 + i - 1]
        BY <4>1, SubSeqProperties DEF u
      <4> QED BY <1>1, <2>1, <4>2
    <3>3. /\ v \in Seq(S) /\ Len(v) = Len(s) - p
          /\ \A i \in 1..(Len(s) - p) : v[i] = s[p + i]
      <4>1. p + 1 \in Int /\ Len(s) \in Int /\ \A i \in (p + 1)..Len(s) : s[i] \in S
        BY <1>1, <2>1, <3>1
      <4> HIDE DEF v
      <4>2. /\ v \in Seq(S) /\ Len(v) = IF p + 1 <= Len(s) THEN Len(s) - (p + 1) + 1 ELSE 0
            /\ \A i \in 1..(Len(s) - (p + 1) + 1) : v[i] = s[p + 1 + i - 1]
        BY <4>1, SubSeqProperties DEF v
      <4>3. Len(s) - (p + 1) + 1 = Len(s) - p /\ (~(p + 1 <= Len(s)) => Len(s) - p = 0)
        <5>1. \A l \in Nat : \A q \in 1..l :
                l - (q + 1) + 1 = l - q /\ (~(q + 1 <= l) => l - q = 0)
          OBVIOUS
        <5> QED BY <1>1, <2>1, <5>1, Zenon
      <4>4. ASSUME NEW i \in 1..(Len(s) - p) PROVE v[i] = s[p + i]
        <5>1. p + 1 + i - 1 = p + i
          BY <1>1, <2>1
        <5> QED BY <4>2, <4>3, <5>1
      <4> QED BY <4>2, <4>3, <4>4
    <3>4. t = u \o v
      BY <2>3
    <3> HIDE DEF u, v, t
    <3>5. /\ u \o v \in Seq(S) /\ Len(u \o v) = Len(u) + Len(v)
          /\ \A i \in 1..(Len(u) + Len(v)) :
                (u \o v)[i] = IF i <= Len(u) THEN u[i] ELSE v[i - Len(u)]
      BY <3>2, <3>3, ConcatProperties, Zenon
    <3>6. t \in Seq(S) /\ Len(t) = Len(s) - 1
      BY <1>1, <2>1, <3>2, <3>3, <3>4, <3>5
    <3>7. ASSUME NEW n \in 1..Len(t) PROVE t[n] = IF n < p THEN s[n] ELSE s[n + 1]
      <4>1. n \in 1..(Len(u) + Len(v))
        BY <1>1, <2>1, <3>2, <3>3, <3>6
      <4>2. t[n] = IF n <= Len(u) THEN u[n] ELSE v[n - Len(u)]
        BY <3>4, <3>5, <4>1
      <4>3. CASE n < p
        <5>1. n <= Len(u) /\ n \in 1..(p - 1)
          BY <1>1, <2>1, <3>2, <3>6, <4>3
        <5>2. t[n] = u[n]
          BY <4>2, <5>1
        <5>3. u[n] = s[n]
          BY <3>2, <5>1
        <5> QED BY <4>3, <5>2, <5>3
      <4>4. CASE ~(n < p)
        <5>1. ~(n <= Len(u)) /\ n - Len(u) \in 1..(Len(s) - p) /\ p + (n - Len(u)) = n + 1
          BY <1>1, <2>1, <3>2, <3>6, <4>4
        <5>2. t[n] = v[n - Len(u)]
          BY <4>2, <5>1
        <5>3. v[n - Len(u)] = s[n + 1]
          BY <3>3, <5>1
        <5> QED BY <4>4, <5>2, <5>3
      <4> QED BY <4>3, <4>4
    <3> QED BY <3>6, <3>7
  <2> HIDE DEF t
  <2>5. DOMAIN t = 1..Len(t)
    BY <2>4
  <2>6. Distinct(t)
    BY SMTT(30), <1>1, <2>1, <2>4, <2>5 DEF Distinct
  <2>7. ASSUME NEW x PROVE Has(t, x) <=> Has(s, x) /\ x # e
    <3>1. ASSUME NEW n \in 1..Len(t), t[n] = x PROVE Has(s, x) /\ x # e
      BY <1>1, <2>1, <2>4, <3>1 DEF Has, Distinct
    <3>2. ASSUME NEW n \in 1..Len(s), s[n] = x, x # e PROVE Has(t, x)
      <4>1. n # p
        BY <2>1, <3>2
      <4>2. CASE n < p
        BY <1>1, <2>1, <2>4, <2>5, <3>2, <4>2 DEF Has
      <4>3. CASE n > p
        <5>1. n - 1 \in 1..Len(t) /\ t[n - 1] = s[n]
          BY <1>1, <2>1, <2>4, <4>3
        <5> QED BY <2>5, <3>2, <5>1 DEF Has
      <4> QED BY <1>1, <2>1, <4>1, <4>2, <4>3
    <3> QED BY <1>1, <2>5, <3>1, <3>2 DEF Has
  <2>8. ASSUME s # <<>>, Head(s) # e PROVE t # <<>> /\ Head(t) = Head(s)
    <3>1. p > 1 /\ Len(s) >= 1
      BY <1>1, <2>1, <2>8
    <3> QED BY <1>1, <2>4, <3>1
  <2> QED BY <2>4, <2>6, <2>7, <2>8 DEF t
<1> QED BY <1>2, <1>3
--------------------------------------------------------------------------------
(* The mutex                                                               *)

(* A step that leaves the queue alone lets nobody in or out, and lets only *)
(* the holder go on.                                                       *)
LEMMA QueueStays ==
    ASSUME MutexOK, queue' = queue,
           \A r \in Requests :
              /\ caller'[r].at \in Queued <=> caller[r].at \in Queued
              /\ caller'[r].at \in Fetching => caller[r].at \in Fetching \/ HoldsLock(r)
    PROVE  MutexOK'
<1>1. Distinct(queue')
  BY DEF MutexOK
<1>2. ASSUME NEW r \in Requests
      PROVE  /\ Has(queue', r) <=> caller'[r].at \in Queued
             /\ caller'[r].at \in Fetching => queue' # <<>> /\ Head(queue') = r
  BY DEF MutexOK, HoldsLock
<1> QED BY <1>1, <1>2 DEF MutexOK, HoldsLock, Distinct, Has

(* A request that leaves the queue leaves its head to the next one; the    *)
(* startup fetch was never in it.                                          *)
LEMMA QueueLoses ==
    ASSUME JwksTypeOK, MutexOK, NEW c \in Callers, queue' = RemoveFirst(queue, c),
           c \in Requests => caller'[c].at \notin Queued,
           \A r \in Requests \ {c} : caller'[r].at = caller[r].at
    PROVE  queue' \in Seq(Requests) /\ MutexOK'
<1>1. /\ queue' \in Seq(Requests) /\ Distinct(queue')
      /\ \A x : Has(queue', x) <=> Has(queue, x) /\ x # c
      /\ (queue # <<>> /\ Head(queue) # c) => queue' # <<>> /\ Head(queue') = Head(queue)
  BY Removed DEF JwksTypeOK, MutexOK
<1>2. ASSUME NEW r \in Requests
      PROVE  /\ Has(queue', r) <=> caller'[r].at \in Queued
             /\ caller'[r].at \in Fetching => queue' # <<>> /\ Head(queue') = r
  <2>1. CASE r = c
    BY <1>1, <2>1 DEF Queued, Fetching
  <2>2. CASE r # c
    BY <1>1, <2>2 DEF MutexOK, HoldsLock
  <2> QED BY <2>1, <2>2
<1> QED BY <1>1, <1>2 DEF MutexOK, HoldsLock, Distinct, Has

(* A request joins the queue at its end.                                   *)
LEMMA QueueGains ==
    ASSUME JwksTypeOK, MutexOK, NEW r \in Requests, queue' = Append(queue, r),
           caller[r].at \notin Queued, caller'[r].at = "waiting",
           \A q \in Requests \ {r} : caller'[q].at = caller[q].at
    PROVE  queue' \in Seq(Requests) /\ MutexOK'
<1>1. /\ queue \in Seq(Requests) /\ Len(queue) \in Nat /\ DOMAIN queue = 1..Len(queue)
      /\ ~Has(queue, r)
  BY DEF JwksTypeOK, MutexOK
<1>2. /\ queue' \in Seq(Requests) /\ DOMAIN queue' = 1..(Len(queue) + 1)
      /\ queue'[Len(queue) + 1] = r /\ \A n \in 1..Len(queue) : queue'[n] = queue[n]
      /\ queue # <<>> => queue' # <<>> /\ Head(queue') = Head(queue)
  BY <1>1
<1>3. Distinct(queue')
  BY <1>1, <1>2 DEF MutexOK, Distinct, Has
<1>4. ASSUME NEW x PROVE Has(queue', x) <=> Has(queue, x) \/ x = r
  BY <1>1, <1>2 DEF Has
<1>5. ASSUME NEW q \in Requests
      PROVE  /\ Has(queue', q) <=> caller'[q].at \in Queued
             /\ caller'[q].at \in Fetching => queue' # <<>> /\ Head(queue') = q
  <2>1. CASE q = r
    BY <1>4, <2>1 DEF Queued, Fetching
  <2>2. CASE q # r
    BY <1>2, <1>4, <2>2 DEF MutexOK, HoldsLock
  <2> QED BY <2>1, <2>2
<1> QED BY <1>2, <1>3, <1>5 DEF MutexOK, HoldsLock, Distinct, Has

(* Two requests never fetch at once.                                       *)
LEMMA OneFetches ==
    ASSUME MutexOK, NEW r \in Requests, NEW q \in Requests,
           caller[r].at \in Fetching, caller[q].at \in Fetching
    PROVE  r = q
BY DEF MutexOK, HoldsLock

--------------------------------------------------------------------------------
(* What a step of one caller does to the invariant.                        *)

(* The invariant holds at first: the startup fetch is under way.           *)
LEMMA InvInit == Init => Inv
<1> SUFFICES ASSUME Init PROVE Inv
  OBVIOUS
<1>1. (CHOOSE k \in Kids : TRUE) \in Kids
  BY KeySetsAssumption
<1>2. Len(KeySets) \in Nat /\ 1 <= Len(KeySets)
  BY KeySetsAssumption
<1>3. JwksTypeOK
  BY <1>1, <1>2, StartupAssumption
     DEF Init, JwksTypeOK, CallerOK, Caller, Cache, Callers, Places, Fetching, Answers, Numbers, None
<1>4. MutexOK
  BY StartupAssumption DEF Init, MutexOK, Distinct, Has, Callers, Queued, Fetching
<1>5. ASSUME NEW r \in Requests PROVE FetchOK(r)
  BY StartupAssumption DEF Init, FetchOK, Callers
<1> QED BY <1>3, <1>4, <1>5 DEF Inv

(* A step of one caller that does not store: what it must not forget.      *)
LEMMA OneCallerSteps ==
    ASSUME Inv, NEW c \in Callers, NEW new \in Caller, caller' = [caller EXCEPT ![c] = new],
           UNCHANGED <<issued, cache>>,
           new.set <= issued, new.at = "received" => new.set # None,
           c = Startup => new.at \in Fetching,
           c # Startup /\ new.at = "received" => cache.set <= new.set,
           c # Startup /\ new.at = "stored" => caller[c].at = "stored" /\ new.set = caller[c].set,
           queue' \in Seq(Requests), MutexOK'
    PROVE  Inv'
<1>1. /\ caller' \in [Callers -> Caller] /\ caller'[c] = new
      /\ \A d \in Callers \ {c} : caller'[d] = caller[d]
  BY DEF Inv, JwksTypeOK
<1>2. \A d \in Callers : CallerOK(d)'
  BY <1>1 DEF Inv, JwksTypeOK, CallerOK
<1>3. JwksTypeOK'
  BY <1>1, <1>2 DEF Inv, JwksTypeOK
<1>4. ASSUME NEW r \in Requests PROVE FetchOK(r)'
  <2>1. r \in Callers /\ r # Startup
    BY StartupAssumption DEF Callers
  <2> QED BY <1>1, <2>1 DEF Inv, FetchOK
<1> QED BY <1>3, <1>4 DEF Inv

(* A request is a caller like the startup fetch, but another one.          *)
LEMMA RequestIsCaller ==
    ASSUME Inv, NEW r \in Requests
    PROVE  r \in Callers /\ r # Startup /\ caller[r] \in Caller /\ CallerOK(r) /\ FetchOK(r)
BY StartupAssumption DEF Callers, Inv, JwksTypeOK

(* A request that leaves with its answer, whatever it was doing.           *)
LEMMA AnsweredKeepsInv ==
    ASSUME Inv, NEW r \in Requests, NEW at \in {"idle", "failed"}, NEW answer \in Answers,
           caller' = [caller EXCEPT ![r].at = at, ![r].answer = answer],
           queue' = RemoveFirst(queue, r), UNCHANGED <<issued, cache>>
    PROVE  Inv'
<1> DEFINE new == [caller[r] EXCEPT !.at = at, !.answer = answer]
<1>1. new \in Caller /\ new.at = at /\ new.set = caller[r].set
  BY RequestIsCaller DEF Caller, Places
<1>2. caller' = [caller EXCEPT ![r] = new]
  BY RequestIsCaller DEF Inv, JwksTypeOK
<1>3. /\ caller'[r].at = at
      /\ \A q \in Requests \ {r} : caller'[q].at = caller[q].at
  BY <1>1, <1>2, RequestIsCaller DEF Inv, JwksTypeOK
<1>4. queue' \in Seq(Requests) /\ MutexOK'
  BY <1>3, RequestIsCaller, QueueLoses DEF Inv, Queued
<1>5. new.set <= issued /\ new.at \notin {"received", "stored"}
  BY <1>1, RequestIsCaller DEF CallerOK
<1> HIDE DEF new
<1> QED BY <1>1, <1>2, <1>4, <1>5, RequestIsCaller, OneCallerSteps

(* lookup_key, the mutex and the refresh.                                  *)
LEMMA LookupKeepsInv ==
    ASSUME Inv, NEW r \in Requests, Lookup(r) \/ Refresh(r)
    PROVE  Inv'
<1>1. ASSUME NEW kid \in Kids, Hit(r, kid) PROVE Inv'
  <2> DEFINE new == [caller[r] EXCEPT !.kid = kid, !.answer = "ACCEPTED", !.renewed = FALSE]
  <2>1. new \in Caller /\ new.at = "idle" /\ new.set = caller[r].set
    BY <1>1, RequestIsCaller DEF Hit, Caller, Answers
  <2>2. caller' = [caller EXCEPT ![r] = new] /\ UNCHANGED <<issued, cache, queue>>
    BY <1>1, RequestIsCaller DEF Hit, Inv, JwksTypeOK
  <2>3. \A q \in Requests : caller'[q].at = caller[q].at
    BY <1>1, <2>1, <2>2, RequestIsCaller DEF Hit, Inv, JwksTypeOK
  <2>4. queue' \in Seq(Requests) /\ MutexOK'
    BY <2>2, <2>3, QueueStays DEF Inv, JwksTypeOK
  <2>5. new.set <= issued
    BY <2>1, RequestIsCaller DEF CallerOK
  <2> HIDE DEF new
  <2> QED BY <2>1, <2>2, <2>4, <2>5, RequestIsCaller, OneCallerSteps
<1>2. ASSUME NEW kid \in Kids, Miss(r, kid) PROVE Inv'
  <2> DEFINE new == [caller[r] EXCEPT !.at = "waiting", !.kid = kid, !.set = None,
                                      !.answer = "NONE", !.renewed = FALSE]
  <2>1. new \in Caller /\ new.at = "waiting" /\ new.set = None
    <3>1. None \in Numbers
      BY KeySetsAssumption DEF None, Numbers
    <3> QED BY <3>1, RequestIsCaller DEF Caller, Answers, Places
  <2>2. /\ caller' = [caller EXCEPT ![r] = new] /\ caller[r].at = "idle"
        /\ queue' = Append(queue, r) /\ UNCHANGED <<issued, cache>>
    BY <1>2, RequestIsCaller DEF Miss, Inv, JwksTypeOK
  <2>3. caller'[r].at = "waiting" /\ \A q \in Requests \ {r} : caller'[q].at = caller[q].at
    BY <2>1, <2>2, RequestIsCaller DEF Inv, JwksTypeOK
  <2>4. queue' \in Seq(Requests) /\ MutexOK'
    BY <2>2, <2>3, QueueGains DEF Inv, Queued
  <2>5. new.set <= issued
    BY <2>1 DEF Inv, JwksTypeOK, None
  <2> HIDE DEF new
  <2> QED BY <2>1, <2>2, <2>4, <2>5, RequestIsCaller, OneCallerSteps
<1>3. CASE StartFetch(r)
  <2> DEFINE new == [caller[r] EXCEPT !.at = "fetching", !.renewed = FALSE]
  <2>1. new \in Caller /\ new.at = "fetching" /\ new.set = caller[r].set
    BY RequestIsCaller DEF Caller, Places
  <2>2. /\ caller' = [caller EXCEPT ![r] = new] /\ caller[r].at = "waiting" /\ HoldsLock(r)
        /\ UNCHANGED <<issued, cache, queue>>
    BY <1>3, RequestIsCaller DEF StartFetch, Inv, JwksTypeOK
  <2>3. caller'[r].at = "fetching" /\ \A q \in Requests \ {r} : caller'[q].at = caller[q].at
    BY <2>1, <2>2, RequestIsCaller DEF Inv, JwksTypeOK
  <2>4. ASSUME NEW q \in Requests
        PROVE  /\ caller'[q].at \in Queued <=> caller[q].at \in Queued
               /\ caller'[q].at \in Fetching => caller[q].at \in Fetching \/ HoldsLock(q)
    BY <2>2, <2>3 DEF Queued, Fetching
  <2>5. queue' \in Seq(Requests) /\ MutexOK'
    BY <2>2, <2>4, QueueStays DEF Inv, JwksTypeOK
  <2>6. new.set <= issued
    BY <2>1, RequestIsCaller DEF CallerOK
  <2> HIDE DEF new
  <2> QED BY <2>1, <2>2, <2>5, <2>6, RequestIsCaller, OneCallerSteps
<1>4. CASE FindAgain(r) \/ Found(r)
  BY <1>4, AnsweredKeepsInv DEF FindAgain, Found, Answered, Answers
<1>5. CASE Refuse(r)
  BY <1>5, AnsweredKeepsInv DEF Refuse, Answered, Answers
<1>6. CASE TimeOut(r)
  BY <1>6, AnsweredKeepsInv DEF TimeOut, Answered, Answers
<1>7. CASE NotFound(r)
  <2>1. caller' = [caller EXCEPT ![r].at = "failed", ![r].answer = caller[r].answer]
    BY <1>7, RequestIsCaller DEF NotFound, Goes, Inv, JwksTypeOK, Caller
  <2>2. caller[r].answer \in Answers
    BY RequestIsCaller DEF Caller
  <2> QED BY <1>7, <2>1, <2>2, AnsweredKeepsInv DEF NotFound
<1> QED BY <1>1, <1>2, <1>3, <1>4, <1>5, <1>6, <1>7 DEF Lookup, Refresh

(* A fetch: the issuer's answer, what is done with it, and its failure.    *)
LEMMA FetchKeepsInv ==
    ASSUME Inv, NEW c \in Callers, Fetch(c)
    PROVE  Inv'
<1>0. caller[c] \in Caller /\ CallerOK(c) /\ (c # Startup => c \in Requests)
  BY DEF Inv, JwksTypeOK, Callers
<1>1. CASE Serve(c)
  <2> DEFINE new == [caller[c] EXCEPT !.at = "received", !.set = issued]
  <2>1. issued \in Numbers /\ issued # None /\ issued <= issued /\ cache.set <= issued
    BY KeySetsAssumption DEF Inv, JwksTypeOK, Numbers, None
  <2>2. new \in Caller /\ new.at = "received" /\ new.set = issued
    BY <1>0, <2>1 DEF Caller, Places
  <2>3. /\ caller' = [caller EXCEPT ![c] = new] /\ caller[c].at = "fetching"
        /\ UNCHANGED <<issued, cache, queue>>
    BY <1>0, <1>1 DEF Serve, Inv, JwksTypeOK
  <2>4. caller'[c].at = "received" /\ \A q \in Requests \ {c} : caller'[q].at = caller[q].at
    BY <2>2, <2>3, RequestIsCaller DEF Inv, JwksTypeOK
  <2>5. ASSUME NEW q \in Requests
        PROVE  /\ caller'[q].at \in Queued <=> caller[q].at \in Queued
               /\ caller'[q].at \in Fetching => caller[q].at \in Fetching \/ HoldsLock(q)
    BY <2>3, <2>4 DEF Queued, Fetching
  <2>6. queue' \in Seq(Requests) /\ MutexOK'
    BY <2>3, <2>5, QueueStays DEF Inv, JwksTypeOK
  <2>7. c = Startup => new.at \in Fetching
    BY <2>2 DEF Fetching
  <2> HIDE DEF new
  <2> QED BY <2>1, <2>2, <2>3, <2>6, <2>7, OneCallerSteps
<1>2. CASE Store(c)
  <2>1. /\ caller[c].at = "received" /\ cache' = [set |-> caller[c].set, age |-> 0, by |-> c]
        /\ UNCHANGED <<issued, queue>>
    BY <1>2 DEF Store
  <2>2. ASSUME NEW d \in Callers
        PROVE  /\ caller'[d] \in Caller /\ caller'[d].set = caller[d].set
               /\ caller'[d].at = IF d = c THEN "stored" ELSE caller[d].at
    <3>1. caller'[d] = [caller[d] EXCEPT !.at = IF d = c THEN "stored" ELSE @, !.renewed = d # c]
      BY <1>2 DEF Store
    <3> DEFINE at == IF d = c THEN "stored" ELSE caller[d].at
    <3>2. caller[d] \in Caller /\ at \in Places
      BY DEF Inv, JwksTypeOK, Caller, Places
    <3>3. (d # c) \in BOOLEAN
      OBVIOUS
    <3>4. caller'[d] = [caller[d] EXCEPT !.at = at, !.renewed = d # c]
      BY <3>1
    <3> HIDE DEF at
    <3>5. /\ caller'[d] \in Caller /\ caller'[d].set = caller[d].set
          /\ caller'[d].at = at
      BY <3>2, <3>3, <3>4 DEF Caller
    <3> QED BY <3>5 DEF at
  <2>3. caller' \in [Callers -> Caller]
    BY <1>2, <2>2 DEF Store
  <2>4. cache' \in Cache /\ cache'.set <= issued
    BY <1>0, <2>1 DEF Cache, Caller, CallerOK
  <2>5. \A d \in Callers : CallerOK(d)'
    BY <2>1, <2>2 DEF Inv, JwksTypeOK, CallerOK, Fetching
  <2>6. JwksTypeOK'
    BY <2>1, <2>3, <2>4, <2>5 DEF Inv, JwksTypeOK
  <2>7. MutexOK'
    <3>1. ASSUME NEW q \in Requests
          PROVE  /\ caller'[q].at \in Queued <=> caller[q].at \in Queued
                 /\ caller'[q].at \in Fetching => caller[q].at \in Fetching \/ HoldsLock(q)
      BY <2>1, <2>2, RequestIsCaller DEF Queued, Fetching
    <3> QED BY <2>1, <3>1, QueueStays DEF Inv
  <2>8. ASSUME NEW q \in Requests PROVE FetchOK(q)'
    <3>1. q \in Callers /\ q # Startup
      BY RequestIsCaller
    <3>2. CASE c = Startup
      BY <2>1, <3>2 DEF FetchOK
    <3>3. CASE q = c
      BY <2>1, <2>2, <3>1, <3>3 DEF FetchOK
    <3>4. CASE q # c /\ c # Startup
      <4>1. caller[q].at \notin Fetching
        BY <1>0, <2>1, <3>4, OneFetches DEF Inv, Fetching
      <4> QED BY <2>2, <3>1, <3>4, <4>1 DEF FetchOK, Fetching
    <3> QED BY <3>2, <3>3, <3>4
  <2> QED BY <2>6, <2>7, <2>8 DEF Inv
<1>3. CASE FailFetch(c)
  <2> DEFINE at == IF c = Startup THEN "stored" ELSE "failed"
             new == [caller[c] EXCEPT !.at = at]
  <2>1. new \in Caller /\ new.at = at /\ new.set = caller[c].set
    BY <1>0 DEF Caller, Places
  <2>2. /\ caller' = [caller EXCEPT ![c] = new] /\ queue' = RemoveFirst(queue, c)
        /\ UNCHANGED <<issued, cache>>
    BY <1>0, <1>3 DEF FailFetch, Goes, Inv, JwksTypeOK
  <2>3. /\ c \in Requests => caller'[c].at \notin Queued
        /\ \A q \in Requests \ {c} : caller'[q].at = caller[q].at
    BY <2>1, <2>2, RequestIsCaller DEF Queued, Inv, JwksTypeOK
  <2>4. queue' \in Seq(Requests) /\ MutexOK'
    BY <2>2, <2>3, QueueLoses DEF Inv
  <2>5. /\ new.set <= issued /\ new.at # "received"
        /\ c = Startup => new.at \in Fetching
        /\ c # Startup => new.at # "stored"
    BY <1>0, <2>1 DEF CallerOK, Fetching
  <2> HIDE DEF new
  <2> QED BY <2>1, <2>2, <2>4, <2>5, OneCallerSteps
<1> QED BY <1>1, <1>2, <1>3 DEF Fetch

(* The issuer's rotation and the passing of time.                          *)
LEMMA OutsideKeepsInv ==
    ASSUME Inv, Rotate \/ Tick \/ UNCHANGED vars
    PROVE  Inv'
<1>1. /\ UNCHANGED <<queue, caller>>
      /\ issued' \in 1..Len(KeySets) /\ issued <= issued'
      /\ cache' \in Cache /\ cache'.set = cache.set /\ cache'.by = cache.by
  <2>1. Len(KeySets) \in Nat /\ issued \in 1..Len(KeySets) /\ cache \in Cache
    BY KeySetsAssumption DEF Inv, JwksTypeOK
  <2>2. CASE Rotate
    BY <2>1, <2>2 DEF Rotate
  <2>3. CASE Tick
    BY <2>1, <2>3 DEF Tick, Cache
  <2>4. CASE UNCHANGED vars
    BY <2>1, <2>4 DEF vars
  <2> QED BY <2>2, <2>3, <2>4
<1>2. ASSUME NEW n \in Numbers, n <= issued PROVE n <= issued'
  BY <1>1, <1>2, KeySetsAssumption DEF Numbers, Inv, JwksTypeOK
<1>3. \A d \in Callers : caller[d].set \in Numbers
  BY DEF Inv, JwksTypeOK, Caller
<1>4. \A d \in Callers : CallerOK(d)'
  BY <1>1, <1>2, <1>3 DEF Inv, JwksTypeOK, CallerOK
<1>5. cache'.set <= issued'
  BY <1>1, <1>2 DEF Inv, JwksTypeOK, Cache
<1>6. JwksTypeOK'
  BY <1>1, <1>4, <1>5 DEF Inv, JwksTypeOK
<1>7. MutexOK' /\ \A r \in Requests : FetchOK(r)'
  BY <1>1 DEF Inv, MutexOK, HoldsLock, FetchOK
<1> QED BY <1>6, <1>7 DEF Inv

(* Inv is inductive.                                                       *)
LEMMA InvStep == Inv /\ [Next]_vars => Inv'
BY FetchKeepsInv, LookupKeepsInv, OutsideKeepsInv DEF Next

(* The invariant of the cache and its callers.                             *)
LEMMA Invariance == Spec => []Inv
BY InvInit, InvStep, PTL DEF Spec

--------------------------------------------------------------------------------
(* At most one request is past the mutex, whatever the requests' timeouts  *)
(* interrupt: of all the callers, only the startup fetch can be with it.   *)
THEOREM OneRefreshAtATime ==
    Spec => [](\A q, r \in Requests :
                  caller[q].at \in Fetching /\ caller[r].at \in Fetching => q = r)
<1>1. Inv => \A q, r \in Requests :
                caller[q].at \in Fetching /\ caller[r].at \in Fetching => q = r
  BY OneFetches DEF Inv
<1> QED BY <1>1, Invariance, PTL

(* A set is never replaced by an older one, unless the startup fetch is    *)
(* overtaken: what the holder of the mutex received is as new as the       *)
(* cached set, because nobody else stored since.                           *)
THEOREM TheSetNeverGoesBack == Spec => SetNeverGoesBack
<1>1. ASSUME Inv, [Next]_vars, cache'.set < cache.set
      PROVE  Startup \in {cache.by, cache'.by}
  <2>1. cache.set \in Nat
    BY <1>1, KeySetsAssumption DEF Inv, JwksTypeOK, Cache, Numbers
  <2>2. ASSUME cache'.set = cache.set PROVE FALSE
    BY <1>1, <2>1, <2>2
  <2>3. PICK c \in Callers : Store(c)
    <3>1. CASE UNCHANGED cache
      BY <2>2, <3>1
    <3>2. CASE Tick
      BY <1>1, <2>2, <3>2 DEF Tick, Inv, JwksTypeOK, Cache
    <3> QED BY <1>1, <3>1, <3>2
        DEF Next, vars, Fetch, Lookup, Refresh, Serve, FailFetch, Hit, Miss, TimeOut, FindAgain,
            StartFetch, Found, NotFound, Refuse, Rotate
  <2>4. cache'.set = caller[c].set /\ cache'.by = c /\ caller[c].at = "received"
    BY <2>3 DEF Store
  <2>5. CASE c = Startup
    BY <2>4, <2>5
  <2>6. CASE c \in Requests
    <3>1. cache.by = Startup \/ cache.set <= caller[c].set
      BY <1>1, <2>4, <2>6 DEF Inv, FetchOK
    <3>2. caller[c].set \in Nat
      BY <1>1, KeySetsAssumption DEF Inv, JwksTypeOK, Caller, Numbers
    <3> QED BY <1>1, <2>1, <2>4, <3>1, <3>2
  <2> QED BY <2>5, <2>6 DEF Callers
<1> QED BY <1>1, Invariance, PTL DEF SetNeverGoesBack, Spec

(* A request that fetched the set with its key is not told that the key is *)
(* unknown, unless the startup fetch stored in between: what a request has *)
(* stored is what is cached when it looks again.                           *)
THEOREM TheFetchedKeyIsFound == Spec => FetchedKeyIsFound
<1>1. ASSUME Inv, NEW r \in Requests, NotFound(r), Known(caller[r].set, caller[r].kid)
      PROVE  cache.by = Startup
  <2>1. caller[r].at = "stored" /\ ~Known(cache.set, caller[r].kid)
    BY <1>1 DEF NotFound
  <2>2. cache.by = Startup \/ cache.set = caller[r].set
    BY <1>1, <2>1 DEF Inv, FetchOK
  <2> QED BY <1>1, <2>1, <2>2
<1>2. Inv => \A r \in Requests :
                NotFound(r) /\ Known(caller[r].set, caller[r].kid) => cache.by = Startup
  BY <1>1
<1> QED BY <1>2, Invariance, PTL DEF FetchedKeyIsFound, Spec
================================================================================
