---------------------------- MODULE CachedClient ----------------------------
(***************************************************************************)
(* The read-through cache that the scheduler plugin and the load balancer  *)
(* put in front of the metrics APIs (CachedMetricsClient.get) and of the   *)
(* power predictors (CachedPredictorClient.do).  Both functions run the    *)
(* same protocol over a sync.Map of pointers to cache values ("entries"),  *)
(* each with an expiry time and a mutex that its creator holds while it    *)
(* asks the origin server.                                                 *)
(*                                                                         *)
(* One action is one access to shared state (the sync.Map, the mutex, the  *)
(* fields of an entry, the clock), so TLC sees every interleaving of       *)
(* concurrent callers.  Entries are heap objects: an address is free again *)
(* once neither the map nor a caller refers to it (garbage collection).    *)
(***************************************************************************)
EXTENDS Integers

CONSTANTS
    Callers,   \* goroutines that call get/do
    Keys,      \* cache keys (metricsCacheKey, predictorCacheKey)
    Entries,   \* addresses of metricsCache / predictionCache objects
    TTL,       \* the ttl the client was created with, in clock ticks
    MaxTime,   \* bound on the clock, for model checking
    None       \* nil: no entry, no data, an unlocked mutex

VARIABLES
    now,         \* time.Now()
    cache,       \* the sync.Map: key -> entry or None
    expiredAt,   \* entry -> ExpiredAt
    data,        \* entry -> the origin's answer, or None while it is empty
    mu,          \* entry -> the caller that holds its mutex, or None
    pc,          \* caller -> the statement it is about to run
    key,         \* caller -> the key it asked for
    cv,          \* caller -> its local variable cv
    began,       \* caller -> when its current call started
    result,      \* what a call returns in this step
    everFailed   \* history: keys for which the origin has ever answered an error

vars == <<now, cache, expiredAt, data, mu, pc, key, cv, began, result, everFailed>>

Times == 0 .. (MaxTime + TTL)

\* What an origin server answers: a value of the asked object, as it was at a time.
Samples == [key : Keys, at : Times]

ASSUME CacheConstants ==
    /\ TTL \in Nat /\ MaxTime \in Nat
    /\ Keys # {} /\ None \notin Entries \cup Callers \cup Samples

Statements == {"idle", "wait", "check", "miss", "push", "fetch",
               "publish", "unlock", "failUnlock", "delete"}

Results == [status : {"none", "hit", "fetched", "error"},
            key : Keys, data : Samples \cup {None}, began : 0 .. MaxTime]

NoResult == [status |-> "none", key |-> CHOOSE k \in Keys : TRUE, data |-> None, began |-> 0]

\* Every variable has its type.
TypeOK ==
    /\ now \in 0 .. MaxTime
    /\ cache \in [Keys -> Entries \cup {None}]
    /\ expiredAt \in [Entries -> Times]
    /\ data \in [Entries -> Samples \cup {None}]
    /\ mu \in [Entries -> Callers \cup {None}]
    /\ pc \in [Callers -> Statements]
    /\ key \in [Callers -> Keys]
    /\ cv \in [Callers -> Entries \cup {None}]
    /\ began \in [Callers -> 0 .. MaxTime]
    /\ result \in Results
    /\ everFailed \subseteq Keys

Init ==
    /\ now = 0
    /\ cache = [k \in Keys |-> None]
    /\ expiredAt = [e \in Entries |-> 0]
    /\ data = [e \in Entries |-> None]
    /\ mu = [e \in Entries |-> None]
    /\ pc = [p \in Callers |-> "idle"]
    /\ key \in [Callers -> Keys]   \* overwritten when a call starts
    /\ cv = [p \in Callers |-> None]
    /\ began = [p \in Callers |-> 0]
    /\ result = NoResult
    /\ everFailed = {}

-----------------------------------------------------------------------------

Goto(p, from, to) ==
    /\ pc[p] = from
    /\ pc' = [pc EXCEPT ![p] = to]
    /\ result' = NoResult

\* The call of p ends; on success its caller reads the fields of cv.
Return(p, from, status, answer) ==
    /\ pc[p] = from
    /\ pc' = [pc EXCEPT ![p] = "idle"]
    /\ cv' = [cv EXCEPT ![p] = None]
    /\ result' = [status |-> status, key |-> key[p], data |-> answer, began |-> began[p]]
    /\ began' = [began EXCEPT ![p] = 0]

\* An address the allocator may hand out: nothing refers to it.
Free(e) == (\A k \in Keys : cache[k] # e) /\ (\A p \in Callers : cv[p] # e)

\* A call starts: c.cache.Load(key).
Load(p, k) ==
    /\ Goto(p, "idle", IF cache[k] = None THEN "miss" ELSE "wait")
    /\ key' = [key EXCEPT ![p] = k]
    /\ cv' = [cv EXCEPT ![p] = cache[k]]
    /\ began' = [began EXCEPT ![p] = now]
    /\ UNCHANGED <<now, cache, expiredAt, data, mu, everFailed>>

\* Mutant of Wait: the mutex is not waited for.
WaitWithoutLock(p) ==
    /\ Goto(p, "wait", "check")
    /\ UNCHANGED <<now, cache, expiredAt, data, mu, key, cv, began, everFailed>>

\* cv.mu.Lock(); cv.mu.Unlock(): nothing happens between the two, so they are one step,
\* which waits until the mutex is free.
Wait(p) ==
    /\ Goto(p, "wait", "check")
    /\ mu[cv[p]] = None
    /\ UNCHANGED <<now, cache, expiredAt, data, mu, key, cv, began, everFailed>>

\* Mutant of CheckHit: ExpiredAt is not looked at.
CheckHitIgnoringExpiry(p) ==
    /\ Return(p, "check", "hit", data[cv[p]])
    /\ UNCHANGED <<now, cache, expiredAt, data, mu, key, everFailed>>

\* The entry has not expired: return it.
CheckHit(p) ==
    /\ Return(p, "check", "hit", data[cv[p]])
    /\ expiredAt[cv[p]] > now
    /\ UNCHANGED <<now, cache, expiredAt, data, mu, key, everFailed>>

\* The entry has expired: fall through to the miss path.
CheckExpired(p) ==
    /\ Goto(p, "check", "miss")
    /\ expiredAt[cv[p]] <= now
    /\ cv' = [cv EXCEPT ![p] = None]
    /\ UNCHANGED <<now, cache, expiredAt, data, mu, key, began, everFailed>>

\* Mutant of New: the ttl is added twice.
NewWithDoubleTTL(p) ==
    /\ Goto(p, "miss", "push")
    /\ \E e \in Entries :
        /\ Free(e)
        /\ cv' = [cv EXCEPT ![p] = e]
        /\ expiredAt' = [expiredAt EXCEPT ![e] = now + TTL + TTL]
        /\ data' = [data EXCEPT ![e] = None]
        /\ mu' = [mu EXCEPT ![e] = p]
    /\ UNCHANGED <<now, cache, key, began, everFailed>>

\* cv := &metricsCache{ExpiredAt: now + ttl}; cv.mu.Lock().
New(p) ==
    /\ Goto(p, "miss", "push")
    /\ \E e \in Entries :
        /\ Free(e)
        /\ cv' = [cv EXCEPT ![p] = e]
        /\ expiredAt' = [expiredAt EXCEPT ![e] = now + TTL]
        /\ data' = [data EXCEPT ![e] = None]
        /\ mu' = [mu EXCEPT ![e] = p]
    /\ UNCHANGED <<now, cache, key, began, everFailed>>

\* c.cache.Store(key, cv): the empty, locked entry becomes visible.
Push(p) ==
    /\ Goto(p, "push", "fetch")
    /\ cache' = [cache EXCEPT ![key[p]] = cv[p]]
    /\ UNCHANGED <<now, expiredAt, data, mu, key, cv, began, everFailed>>

\* The origin answers, and the answer is written into the entry.
FetchOk(p) ==
    /\ Goto(p, "fetch", "publish")
    /\ data' = [data EXCEPT ![cv[p]] = [key |-> key[p], at |-> now]]
    /\ UNCHANGED <<now, cache, expiredAt, mu, key, cv, began, everFailed>>

\* The origin answers an error, or the request is not one the client knows.
FetchErr(p) ==
    /\ Goto(p, "fetch", "failUnlock")
    /\ everFailed' = everFailed \cup {key[p]}
    /\ UNCHANGED <<now, cache, expiredAt, data, mu, key, cv, began>>

\* The second c.cache.Store(key, cv).
Publish(p) ==
    /\ Goto(p, "publish", "unlock")
    /\ cache' = [cache EXCEPT ![key[p]] = cv[p]]
    /\ UNCHANGED <<now, expiredAt, data, mu, key, cv, began, everFailed>>

\* Mutant of Unlock: the success path returns with the mutex held.
UnlockForgotten(p) ==
    /\ Return(p, "unlock", "fetched", data[cv[p]])
    /\ UNCHANGED <<now, cache, expiredAt, data, mu, key, everFailed>>

\* cv.mu.Unlock(); return cv, nil.
Unlock(p) ==
    /\ Return(p, "unlock", "fetched", data[cv[p]])
    /\ mu' = [mu EXCEPT ![cv[p]] = None]
    /\ UNCHANGED <<now, cache, expiredAt, data, key, everFailed>>

\* On an error the mutex is released first ...
FailUnlock(p) ==
    /\ Goto(p, "failUnlock", "delete")
    /\ mu' = [mu EXCEPT ![cv[p]] = None]
    /\ UNCHANGED <<now, cache, expiredAt, data, key, cv, began, everFailed>>

\* Mutant of Delete: the deletion names a key that is not in the map (as the default
\* branch of CachedPredictorClient.do does).
DeleteOfOtherKey(p) ==
    /\ Return(p, "delete", "error", None)
    /\ UNCHANGED <<now, cache, expiredAt, data, mu, key, everFailed>>

\* ... and then the key is deleted, whichever entry the map holds for it by now.
Delete(p) ==
    /\ Return(p, "delete", "error", None)
    /\ cache' = [cache EXCEPT ![key[p]] = None]
    /\ UNCHANGED <<now, expiredAt, data, mu, key, everFailed>>

\* The clock advances between any two steps of the callers.
Tick ==
    /\ now < MaxTime
    /\ now' = now + 1
    /\ result' = NoResult
    /\ UNCHANGED <<cache, expiredAt, data, mu, pc, key, cv, began, everFailed>>

\* The steps of a call that has started.
Step(p) ==
    \/ Wait(p) \/ CheckHit(p) \/ CheckExpired(p)
    \/ New(p) \/ Push(p) \/ FetchOk(p) \/ FetchErr(p)
    \/ Publish(p) \/ Unlock(p) \/ FailUnlock(p) \/ Delete(p)

Next ==
    \/ Tick
    \/ \E p \in Callers : (\E k \in Keys : Load(p, k)) \/ Step(p)

Spec == Init /\ [][Next]_vars

\* A goroutine that can run is run, and the origin answers or times out.  Nobody
\* has to call, and time need not pass.
FairSpec == Spec /\ \A p \in Callers : WF_vars(Step(p))

-----------------------------------------------------------------------------

\* A call never succeeds with an entry that is still being filled: it returns data of the
\* key that was asked for, or else the fetch it waited for has failed.
NoHalfFilledRead ==
    result.status \in {"hit", "fetched"} =>
        IF result.data = None THEN result.key \in everFailed
                              ELSE result.data.key = result.key

\* The expiry bounds staleness although it is set before the fetch: data that a call
\* returns was answered by the origin during that call, or less than TTL ago.
FreshResult ==
    result.data # None =>
        result.data.at >= result.began \/ now < result.data.at + TTL

\* A failed fetch never leaves its empty entry behind: an empty unlocked entry is in the
\* map only while the caller that created it is about to delete the key.
EmptyEntryIsTransient ==
    \A k \in Keys :
        (cache[k] # None /\ mu[cache[k]] = None /\ data[cache[k]] = None) =>
            \E p \in Callers : pc[p] = "delete" /\ cv[p] = cache[k] /\ key[p] = k

\* The mutex of an entry is held by the caller that created it, from its creation to its
\* unlock, and by nobody else: no Unlock of an unlocked mutex, no lock left behind.
LockDiscipline ==
    \A e \in Entries, p \in Callers :
        mu[e] = p <=> (cv[p] = e /\ pc[p] \in {"push", "fetch", "publish", "unlock", "failUnlock"})

\* Every call returns: no caller waits for ever on an entry's mutex.
EveryCallReturns ==
    \A p \in Callers : (pc[p] # "idle") ~> (pc[p] = "idle")

-----------------------------------------------------------------------------
(* What the comments of the two clients claim. *)

\* "Wait until the cache is ready": after the wait, the entry holds the origin's answer.
ReadyAfterWait ==
    \A p \in Callers : pc[p] = "check" => data[cv[p]] # None
=============================================================================
