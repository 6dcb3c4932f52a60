------------------------- MODULE CachedClientProofs -------------------------
(***************************************************************************)
(* Proofs about the caching clients, for any number of callers, keys and   *)
(* entries, any TTL and any bound on the clock.                            *)
(***************************************************************************)
EXTENDS CachedClient, TLAPS

\* Entry e is in use for key k: the map holds it under k, or a call for k points to it.
Ref(e, k) == cache[k] = e \/ \E p \in Callers : cv[p] = e /\ key[p] = k

\* An entry is in use for one key only.
OneKey ==
    \A e \in Entries, k, l \in Keys : Ref(e, k) /\ Ref(e, l) => k = l

\* What an entry in use holds: data of its key that is not older than the entry itself,
\* or nothing; and nothing once it is unlocked only if its fetch has failed.
Contents ==
    \A e \in Entries, k \in Keys : Ref(e, k) =>
        /\ expiredAt[e] <= now + TTL
        /\ data[e] # None => data[e].key = k /\ expiredAt[e] <= data[e].at + TTL
        /\ data[e] = None /\ mu[e] = None => k \in everFailed

\* What a call knows at each of its statements.
Locals ==
    \A p \in Callers :
        /\ IF pc[p] \in {"idle", "miss"} THEN cv[p] = None ELSE cv[p] \in Entries
        /\ began[p] <= now
        /\ pc[p] \in {"check", "delete"} => mu[cv[p]] = None
        /\ pc[p] \in {"push", "fetch", "failUnlock", "delete"} => data[cv[p]] = None
        /\ pc[p] \in {"failUnlock", "delete"} => key[p] \in everFailed
        /\ pc[p] \in {"publish", "unlock"} => data[cv[p]] # None /\ data[cv[p]].at >= began[p]

Inv == TypeOK /\ LockDiscipline /\ OneKey /\ Contents /\ Locals /\ EmptyEntryIsTransient

\* The initial state: no entry is in use.
LEMMA InitInv == Init => Inv
BY CacheConstants DEF Init, Inv, TypeOK, LockDiscipline, OneKey, Contents, Locals,
   EmptyEntryIsTransient, Ref, Times, Statements, Results, NoResult

\* A call that starts points to the entry that the map holds for its key.
LEMMA LoadPreserves ==
    ASSUME Inv, NEW p \in Callers, NEW k \in Keys, Load(p, k)
    PROVE  Inv'
<1>. USE CacheConstants DEF Inv, Load, Goto
<1>1. TypeOK'
  BY DEF TypeOK, Locals, Times, Samples, Statements, Results, NoResult
<1>2. LockDiscipline'
  BY DEF TypeOK, LockDiscipline, Locals
<1>3. OneKey'
  BY DEF TypeOK, OneKey, Ref, Locals
<1>4. Contents'
  BY DEF TypeOK, OneKey, Contents, Ref, Locals, LockDiscipline
<1>5. Locals'
  BY DEF TypeOK, Locals, LockDiscipline
<1>6. EmptyEntryIsTransient'
  BY Zenon DEF TypeOK, EmptyEntryIsTransient, Locals, LockDiscipline, OneKey, Ref
<1>. QED  BY Zenon, <1>1, <1>2, <1>3, <1>4, <1>5, <1>6

\* A call that stops waiting has seen the mutex free.
LEMMA WaitPreserves ==
    ASSUME Inv, NEW p \in Callers, Wait(p)
    PROVE  Inv'
<1>. USE CacheConstants DEF Inv, Wait, Goto
<1>1. TypeOK'
  BY DEF TypeOK, Locals, Times, Samples, Statements, Results, NoResult
<1>2. LockDiscipline'
  BY DEF TypeOK, LockDiscipline, Locals
<1>3. OneKey'
  BY DEF TypeOK, OneKey, Ref, Locals
<1>4. Contents'
  BY DEF TypeOK, OneKey, Contents, Ref, Locals, LockDiscipline
<1>5. Locals'
  BY DEF TypeOK, Locals, LockDiscipline
<1>6. EmptyEntryIsTransient'
  BY DEF TypeOK, EmptyEntryIsTransient, Locals, LockDiscipline, OneKey, Ref
<1>. QED  BY Zenon, <1>1, <1>2, <1>3, <1>4, <1>5, <1>6

\* A call that returns a hit lets go of its entry.
LEMMA CheckHitPreserves ==
    ASSUME Inv, NEW p \in Callers, CheckHit(p)
    PROVE  Inv'
<1>. USE CacheConstants DEF Inv, CheckHit, Return
<1>1. TypeOK'
  BY DEF TypeOK, Locals, Times, Samples, Statements, Results, NoResult
<1>2. LockDiscipline'
  BY DEF TypeOK, LockDiscipline, Locals
<1>3. OneKey'
  BY DEF TypeOK, OneKey, Ref, Locals
<1>4. Contents'
  BY DEF TypeOK, OneKey, Contents, Ref, Locals, LockDiscipline
<1>5. Locals'
  BY DEF TypeOK, Locals, LockDiscipline
<1>6. EmptyEntryIsTransient'
  BY DEF TypeOK, EmptyEntryIsTransient, Locals, LockDiscipline, OneKey, Ref
<1>. QED  BY Zenon, <1>1, <1>2, <1>3, <1>4, <1>5, <1>6

\* A call that finds its entry expired lets go of it.
LEMMA CheckExpiredPreserves ==
    ASSUME Inv, NEW p \in Callers, CheckExpired(p)
    PROVE  Inv'
<1>. USE CacheConstants DEF Inv, CheckExpired, Goto
<1>1. TypeOK'
  BY DEF TypeOK, Locals, Times, Samples, Statements, Results, NoResult
<1>2. LockDiscipline'
  BY DEF TypeOK, LockDiscipline, Locals
<1>3. OneKey'
  BY DEF TypeOK, OneKey, Ref, Locals
<1>4. Contents'
  BY DEF TypeOK, OneKey, Contents, Ref, Locals, LockDiscipline
<1>5. Locals'
  BY DEF TypeOK, Locals, LockDiscipline
<1>6. EmptyEntryIsTransient'
  BY DEF TypeOK, EmptyEntryIsTransient, Locals, LockDiscipline, OneKey, Ref
<1>. QED  BY Zenon, <1>1, <1>2, <1>3, <1>4, <1>5, <1>6

\* A new entry is in use for nothing before and for the call's key after.
LEMMA NewPreserves ==
    ASSUME Inv, NEW p \in Callers, New(p)
    PROVE  Inv'
<1>. USE CacheConstants DEF Inv, New, Free, Goto
<1>1. TypeOK'
  BY DEF TypeOK, Locals, Times, Samples, Statements, Results, NoResult
<1>2. LockDiscipline'
  BY DEF TypeOK, LockDiscipline, Locals
<1>3. OneKey'
  BY DEF TypeOK, OneKey, Ref, Locals
<1>4. Contents'
  BY DEF TypeOK, OneKey, Contents, Ref, Locals, LockDiscipline
<1>5. Locals'
  BY DEF TypeOK, Locals, LockDiscipline
<1>6. EmptyEntryIsTransient'
  BY DEF TypeOK, EmptyEntryIsTransient, Locals, LockDiscipline, OneKey, Ref
<1>. QED  BY Zenon, <1>1, <1>2, <1>3, <1>4, <1>5, <1>6

\* The new entry is pushed locked.
LEMMA PushPreserves ==
    ASSUME Inv, NEW p \in Callers, Push(p)
    PROVE  Inv'
<1>. USE CacheConstants DEF Inv, Push, Goto
<1>1. TypeOK'
  BY DEF TypeOK, Locals, Times, Samples, Statements, Results, NoResult
<1>2. LockDiscipline'
  BY DEF TypeOK, LockDiscipline, Locals
<1>3. OneKey'
  BY DEF TypeOK, OneKey, Ref, Locals
<1>4. Contents'
  BY DEF TypeOK, OneKey, Contents, Ref, Locals, LockDiscipline
<1>5. Locals'
  BY DEF TypeOK, Locals, LockDiscipline
<1>6. EmptyEntryIsTransient'
  BY DEF TypeOK, EmptyEntryIsTransient, Locals, LockDiscipline, OneKey, Ref
<1>. QED  BY Zenon, <1>1, <1>2, <1>3, <1>4, <1>5, <1>6

\* The answer is of the entry's key and not older than the entry.
LEMMA FetchOkPreserves ==
    ASSUME Inv, NEW p \in Callers, FetchOk(p)
    PROVE  Inv'
<1>. USE CacheConstants DEF Inv, FetchOk, Goto
<1>1. TypeOK'
  BY DEF TypeOK, Locals, Times, Samples, Statements, Results, NoResult
<1>2. LockDiscipline'
  BY DEF TypeOK, LockDiscipline, Locals
<1>3. OneKey'
  BY DEF TypeOK, OneKey, Ref, Locals
<1>4. Contents'
  BY DEF TypeOK, OneKey, Contents, Ref, Locals, LockDiscipline
<1>5. Locals'
  <2>1. cv[p] \in Entries /\ mu[cv[p]] = p
    BY DEF Locals, LockDiscipline
  <2>2. \A q \in Callers \ {p} : cv[q] = cv[p] => pc[q] = "wait"
    BY <2>1 DEF TypeOK, Statements, Locals, LockDiscipline
  <2>3. \A q \in Callers \ {p} : pc'[q] = pc[q] /\ (pc[q] # "wait" => data'[cv[q]] = data[cv[q]])
    BY <2>1, <2>2 DEF TypeOK
  <2>4. data'[cv[p]] = [key |-> key[p], at |-> now] /\ pc'[p] = "publish"
    BY Zenon, <2>1 DEF TypeOK
  <2>5. data'[cv[p]] # None
    BY <2>4 DEF TypeOK, Samples, Times
  <2>. QED  BY SMTT(60), <2>1, <2>3, <2>4, <2>5 DEF TypeOK, Locals
<1>6. EmptyEntryIsTransient'
  BY DEF TypeOK, EmptyEntryIsTransient, Locals, LockDiscipline, OneKey, Ref
<1>. QED  BY Zenon, <1>1, <1>2, <1>3, <1>4, <1>5, <1>6

\* A failed fetch is remembered.
LEMMA FetchErrPreserves ==
    ASSUME Inv, NEW p \in Callers, FetchErr(p)
    PROVE  Inv'
<1>. USE CacheConstants DEF Inv, FetchErr, Goto
<1>1. TypeOK'
  BY DEF TypeOK, Locals, Times, Samples, Statements, Results, NoResult
<1>2. LockDiscipline'
  BY DEF TypeOK, LockDiscipline, Locals
<1>3. OneKey'
  BY DEF TypeOK, OneKey, Ref, Locals
<1>4. Contents'
  BY DEF TypeOK, OneKey, Contents, Ref, Locals, LockDiscipline
<1>5. Locals'
  BY DEF TypeOK, Locals, LockDiscipline
<1>6. EmptyEntryIsTransient'
  BY SMTT(60) DEF TypeOK, EmptyEntryIsTransient, Locals, LockDiscipline, OneKey, Ref
<1>. QED  BY Zenon, <1>1, <1>2, <1>3, <1>4, <1>5, <1>6

\* The filled entry is stored again.
LEMMA PublishPreserves ==
    ASSUME Inv, NEW p \in Callers, Publish(p)
    PROVE  Inv'
<1>. USE CacheConstants DEF Inv, Publish, Goto
<1>1. TypeOK'
  BY DEF TypeOK, Locals, Times, Samples, Statements, Results, NoResult
<1>2. LockDiscipline'
  BY SMTT(60) DEF TypeOK, LockDiscipline, Locals
<1>3. OneKey'
  BY DEF TypeOK, OneKey, Ref, Locals
<1>4. Contents'
  BY DEF TypeOK, OneKey, Contents, Ref, Locals, LockDiscipline
<1>5. Locals'
  BY SMTT(60) DEF TypeOK, Locals, LockDiscipline
<1>6. EmptyEntryIsTransient'
  BY SMTT(60) DEF TypeOK, EmptyEntryIsTransient, Locals, LockDiscipline, OneKey, Ref
<1>. QED  BY Zenon, <1>1, <1>2, <1>3, <1>4, <1>5, <1>6

\* The filled entry is unlocked.
LEMMA UnlockPreserves ==
    ASSUME Inv, NEW p \in Callers, Unlock(p)
    PROVE  Inv'
<1>. USE CacheConstants DEF Inv, Unlock, Return
<1>1. TypeOK'
  BY DEF TypeOK, Locals, Times, Samples, Statements, Results, NoResult
<1>2. LockDiscipline'
  BY DEF TypeOK, LockDiscipline, Locals
<1>3. OneKey'
  BY SMTT(60) DEF TypeOK, OneKey, Ref, Locals
<1>4. Contents'
  BY DEF TypeOK, OneKey, Contents, Ref, Locals, LockDiscipline
<1>5. Locals'
  BY SMTT(60) DEF TypeOK, Locals, LockDiscipline
<1>6. EmptyEntryIsTransient'
  BY DEF TypeOK, EmptyEntryIsTransient, Locals, LockDiscipline, OneKey, Ref
<1>. QED  BY Zenon, <1>1, <1>2, <1>3, <1>4, <1>5, <1>6

\* The entry of a failed fetch is unlocked while its key is about to be deleted.
LEMMA FailUnlockPreserves ==
    ASSUME Inv, NEW p \in Callers, FailUnlock(p)
    PROVE  Inv'
<1>. USE CacheConstants DEF Inv, FailUnlock, Goto
<1>1. TypeOK'
  BY SMTT(60) DEF TypeOK, Locals, Times, Samples, Statements, Results, NoResult
<1>2. LockDiscipline'
  BY DEF TypeOK, LockDiscipline, Locals
<1>3. OneKey'
  BY DEF TypeOK, OneKey, Ref, Locals
<1>4. Contents'
  BY DEF TypeOK, OneKey, Contents, Ref, Locals, LockDiscipline
<1>5. Locals'
  BY DEF TypeOK, Locals, LockDiscipline
<1>6. EmptyEntryIsTransient'
  BY SMTT(60) DEF TypeOK, EmptyEntryIsTransient, Locals, LockDiscipline, OneKey, Ref
<1>. QED  BY Zenon, <1>1, <1>2, <1>3, <1>4, <1>5, <1>6

\* The key of a failed fetch is deleted.
LEMMA DeletePreserves ==
    ASSUME Inv, NEW p \in Callers, Delete(p)
    PROVE  Inv'
<1>. USE CacheConstants DEF Inv, Delete, Return
<1>1. TypeOK'
  BY DEF TypeOK, Locals, Times, Samples, Statements, Results, NoResult
<1>2. LockDiscipline'
  BY SMTT(60) DEF TypeOK, LockDiscipline, Locals
<1>3. OneKey'
  BY SMTT(60) DEF TypeOK, OneKey, Ref, Locals
<1>4. Contents'
  BY DEF TypeOK, OneKey, Contents, Ref, Locals, LockDiscipline
<1>5. Locals'
  BY SMTT(60) DEF TypeOK, Locals, LockDiscipline
<1>6. EmptyEntryIsTransient'
  BY SMTT(60) DEF TypeOK, EmptyEntryIsTransient, Locals, LockDiscipline, OneKey, Ref
<1>. QED  BY ZenonT(60), <1>1, <1>2, <1>3, <1>4, <1>5, <1>6

\* Time only makes the bounds weaker.
LEMMA TickPreserves ==
    ASSUME Inv, Tick
    PROVE  Inv'
<1>. USE CacheConstants DEF Inv, Tick
<1>1. TypeOK'
  BY SMTT(60) DEF TypeOK, Times, Results, NoResult
<1>2. LockDiscipline' /\ OneKey' /\ EmptyEntryIsTransient'
  BY DEF LockDiscipline, OneKey, Ref, EmptyEntryIsTransient
<1>3. Contents'
  BY DEF TypeOK, Contents, Ref, Times
<1>4. Locals'
  BY DEF TypeOK, Locals
<1>. QED  BY Zenon, <1>1, <1>2, <1>3, <1>4

\* Inv is inductive.
LEMMA InvInductive == Inv /\ [Next]_vars => Inv'
<1>. SUFFICES ASSUME Inv, [Next]_vars PROVE Inv'
  BY Zenon
<1>1. CASE Next
  BY Zenon, <1>1, LoadPreserves, WaitPreserves, CheckHitPreserves, CheckExpiredPreserves, NewPreserves,
     PushPreserves, FetchOkPreserves, FetchErrPreserves, PublishPreserves, UnlockPreserves,
     FailUnlockPreserves, DeletePreserves, TickPreserves DEF Next, Step
<1>2. CASE UNCHANGED vars
  BY <1>2 DEF vars, Inv, TypeOK, LockDiscipline, OneKey, Ref, Contents, Locals, EmptyEntryIsTransient
<1>. QED  BY Zenon, <1>1, <1>2

\* What a step lets a call return: nothing, an error, or the contents of an entry that is
\* in use for the call's key, unexpired or filled by the call itself.
LEMMA ReturnsSafely ==
    ASSUME Inv, [Next]_vars, NoHalfFilledRead, FreshResult
    PROVE  NoHalfFilledRead' /\ FreshResult'
<1>. USE CacheConstants
<1>1. CASE result' = NoResult
  BY Zenon, <1>1 DEF NoResult, NoHalfFilledRead, FreshResult
<1>2. ASSUME NEW p \in Callers, CheckHit(p)
      PROVE  NoHalfFilledRead' /\ FreshResult'
  <2>1. /\ cv[p] \in Entries /\ mu[cv[p]] = None /\ Ref(cv[p], key[p]) /\ key[p] \in Keys
        /\ result'.data = data[cv[p]] /\ result'.key = key[p] /\ expiredAt[cv[p]] > now
    BY Zenon, <1>2 DEF Inv, TypeOK, Locals, CheckHit, Return, Ref
  <2>2. data[cv[p]] # None =>
          data[cv[p]].key = key[p] /\ expiredAt[cv[p]] <= data[cv[p]].at + TTL
    BY ZenonT(60), <2>1 DEF Inv, Contents
  <2>3. data[cv[p]] = None => key[p] \in everFailed
    BY Zenon, <2>1 DEF Inv, Contents
  <2>4. NoHalfFilledRead'
    BY Zenon, <1>2, <2>1, <2>2, <2>3 DEF NoHalfFilledRead, CheckHit
  <2>5. FreshResult'
    BY <1>2, <2>1, <2>2 DEF FreshResult, CheckHit, Inv, TypeOK, Times, Samples
  <2>. QED  BY Zenon, <2>4, <2>5
<1>3. ASSUME NEW p \in Callers, Unlock(p)
      PROVE  NoHalfFilledRead' /\ FreshResult'
  <2>1. /\ cv[p] \in Entries /\ Ref(cv[p], key[p]) /\ key[p] \in Keys
        /\ data[cv[p]] # None /\ data[cv[p]].at >= began[p]
        /\ result'.data = data[cv[p]] /\ result'.key = key[p] /\ result'.began = began[p]
    BY Zenon, <1>3 DEF Inv, TypeOK, Locals, Unlock, Return, Ref
  <2>2. data[cv[p]].key = key[p]
    BY Zenon, <2>1 DEF Inv, Contents
  <2>. QED  BY Zenon, <2>1, <2>2 DEF NoHalfFilledRead, FreshResult
<1>4. ASSUME NEW p \in Callers, Delete(p)
      PROVE  NoHalfFilledRead' /\ FreshResult'
  BY Zenon, <1>4 DEF Delete, Return, NoHalfFilledRead, FreshResult
<1>5. CASE UNCHANGED vars
  BY Zenon, <1>5 DEF vars, NoHalfFilledRead, FreshResult
<1>6. Next => \/ result' = NoResult
              \/ \E p \in Callers : CheckHit(p) \/ Unlock(p) \/ Delete(p)
  BY Zenon DEF Next, Step, Tick, Load, Wait, CheckExpired, New, Push, FetchOk, FetchErr, Publish,
         FailUnlock, Goto
<1>. QED  BY Zenon, <1>1, <1>2, <1>3, <1>4, <1>5, <1>6

\* Every step keeps Inv.
LEMMA CacheInvariant == Spec => []Inv
BY InitInv, InvInductive, PTL DEF Spec

\* However many calls interleave, the variables have their types.
THEOREM CacheTypes == Spec => []TypeOK
<1>1. Inv => TypeOK
  BY Zenon DEF Inv
<1>. QED  BY <1>1, CacheInvariant, PTL

\* The mutex of an entry is held by the call that created it, from its creation to its unlock,
\* and by no other: no call unlocks a mutex that is not locked.
THEOREM CreatorsHoldLocks == Spec => []LockDiscipline
<1>1. Inv => LockDiscipline
  BY Zenon DEF Inv
<1>. QED  BY <1>1, CacheInvariant, PTL

\* However the calls interleave, the empty entry of a failed fetch is in the map only until its
\* creator's pending deletion.
THEOREM EmptyEntriesPass == Spec => []EmptyEntryIsTransient
<1>1. Inv => EmptyEntryIsTransient
  BY Zenon DEF Inv
<1>. QED  BY <1>1, CacheInvariant, PTL

\* What the calls return stays right.
LEMMA ReturnsInvariant == Spec => [](NoHalfFilledRead /\ FreshResult)
<1>1. Init => NoHalfFilledRead /\ FreshResult
  BY DEF Init, NoResult, NoHalfFilledRead, FreshResult
<1>2. Inv /\ NoHalfFilledRead /\ FreshResult /\ [Next]_vars => NoHalfFilledRead' /\ FreshResult'
  BY Zenon, ReturnsSafely
<1>. QED  BY CacheInvariant, <1>1, <1>2, PTL DEF Spec

\* However the calls interleave: what a call returns as a success is data of the key it asked
\* for; or it is empty, and the origin has failed for that key.
THEOREM NoHalfFilledReturns == Spec => []NoHalfFilledRead
BY ReturnsInvariant, PTL

\* However the calls interleave: data that a call returns was answered by the origin during the
\* call or less than TTL ago.
THEOREM ReturnsAreFresh == Spec => []FreshResult
BY ReturnsInvariant, PTL
=============================================================================
