--------------------------- MODULE SessionLock_proofs ---------------------------
(***************************************************************************)
(* Proofs about SessionLock, for any number of turns and threads: one turn   *)
(* at a time has the session, as long as the pool ends none of its threads,  *)
(* and, where turns come one after the other, none that a live turn needs.   *)
(***************************************************************************)
EXTENDS SessionLock, FiniteSetTheorems, TLAPS

USE DEF lockVars, turnVars, flagVars, GoTo

Inside == {t \in Turns : pc[t] \in Counted}

Thief == {"steal", "reset", "retry", "rerecord"}

-----------------------------------------------------------------------------
(* What the counter says about who is inside *)

LEMMA InsideFinite == IsFiniteSet(Inside)
BY LockAssumption, FS_Subset DEF Inside, LockAssumption

\* A turn that comes in adds one, ...
LEMMA OneMore ==
    ASSUME TypeOK, NEW t \in Turns, NEW l \in Counted, pc[t] \notin Counted,
           GoTo(t, l)
    PROVE  Cardinality(Inside') = Cardinality(Inside) + 1
<1>1. Inside' = Inside \cup {t} /\ t \notin Inside
  BY DEF TypeOK, Inside
<1> QED BY <1>1, InsideFinite, FS_AddElement

\* ... one that leaves takes one away, ...
LEMMA OneLess ==
    ASSUME TypeOK, NEW t \in Turns, NEW l, l \notin Counted, pc[t] \in Counted,
           GoTo(t, l)
    PROVE  Cardinality(Inside') = Cardinality(Inside) - 1 /\ Cardinality(Inside) > 0
<1>1. Inside' = Inside \ {t} /\ t \in Inside
  BY DEF TypeOK, Inside
<1>2. Cardinality(Inside') = Cardinality(Inside) - 1
  BY <1>1, InsideFinite, FS_RemoveElement
<1>3. Cardinality(Inside) # 0 /\ Cardinality(Inside) \in Nat
  BY <1>1, InsideFinite, FS_EmptySet, FS_CardinalityType
<1> QED BY <1>2, <1>3

\* ... and nobody is inside exactly when the counter is zero.
LEMMA NobodyInside ==
    ASSUME CountsUsers
    PROVE  refs = 0 <=> \A t \in Turns : pc[t] \notin Counted
<1>1. Cardinality(Inside) = 0 <=> Inside = {}
  BY InsideFinite, FS_EmptySet
<1> QED BY <1>1 DEF CountsUsers, Inside

-----------------------------------------------------------------------------
LEMMA InitLInv == Init => LInv
<1> SUFFICES ASSUME Init PROVE LInv
  OBVIOUS
<1>1. TypeOK
  <2>1. pc \in [Turns -> Labels]
    BY DEF Init, Labels
  <2>2. reaps \in 0 .. MaxReaps /\ stops \in 0 .. MaxStops
    BY LockAssumption DEF Init, LockAssumption
  <2>3. /\ mine \in [Turns -> Turns \cup {None}]
        /\ run  \in [Turns -> Threads \cup {None}]
        /\ via  \in [Turns -> Threads \cup {None}]
        /\ seen \in [Turns -> Threads \cup {None}]
    BY DEF Init
  <2> QED BY <2>1, <2>2, <2>3 DEF Init, TypeOK
<1>2. {t \in Turns : pc[t] \in Counted} = {}
  BY DEF Init, Counted, Labels
<1>3. CountsUsers
  BY <1>2, FS_EmptySet DEF Init, CountsUsers
<1> QED
  BY <1>1, <1>3 DEF Init, LInv, SameLock, HoldersHold, NoSteal, OneHolder, Counted, Holding,
     Labels

\* A step of a turn that neither comes nor goes, neither takes the lock nor gives it back.
LEMMA MovesOn ==
    ASSUME LInv, NEW t \in Turns, NEW l \in Counted \ Thief, pc[t] \in Counted,
           l \in Holding <=> pc[t] \in Holding,
           GoTo(t, l), UNCHANGED <<entry, refs, held, alive, mine>>, TypeOK'
    PROVE  LInv'
<1> USE DEF LInv, TypeOK
<1>1. {u \in Turns : pc'[u] \in Counted} = {u \in Turns : pc[u] \in Counted}
  OBVIOUS
<1>2. CountsUsers'
  BY <1>1 DEF CountsUsers
<1>3. SameLock'
  BY DEF SameLock
<1>4. HoldersHold'
  <2>1. \A u \in Turns : pc'[u] \in Holding <=> pc[u] \in Holding
    OBVIOUS
  <2> QED BY <2>1 DEF HoldersHold
<1>5. NoSteal'
  BY DEF NoSteal, Thief
<1>6. OneHolder'
  BY DEF OneHolder
<1> QED BY <1>2, <1>3, <1>4, <1>5, <1>6

LEMMA EnterKeeps ==
    ASSUME LInv, NEW t \in Turns, NEW th \in Threads, Enter(t, th)
    PROVE  LInv'
<1> USE DEF LInv
<1>1. pc[t] = "ready" /\ GoTo(t, "try")
  BY DEF Enter
<1>2. TypeOK'
  BY DEF Enter, TypeOK, Labels
<1>3. \A u \in Turns : u # t => pc'[u] = pc[u] /\ mine'[u] = mine[u]
  BY DEF Enter, TypeOK
<1>4. pc'[t] = "try" /\ mine'[t] = entry' /\ entry' # None
  BY LockAssumption DEF Enter, TypeOK, LockAssumption
<1>5. CountsUsers'
  <2>1. Cardinality(Inside') = Cardinality(Inside) + 1
    BY <1>1, OneMore DEF Counted, Labels
  <2>2. entry = None => refs = 0
    BY NobodyInside DEF SameLock
  <2>3. refs' = refs + 1
    BY <2>2 DEF Enter
  <2> QED BY <2>1, <2>3 DEF CountsUsers, Inside
<1>6. SameLock'
  <2>1. \A u \in Turns : u # t /\ pc[u] \in Counted => entry' = entry
    BY DEF Enter, SameLock
  <2> QED BY <1>3, <1>4, <2>1 DEF SameLock
<1>7. held' = held /\ alive' = alive
  BY DEF Enter
<1>8. \A u \in Turns : pc'[u] \in Holding <=> pc[u] \in Holding
  BY <1>1, <1>3, <1>4 DEF Holding
<1>9. HoldersHold' /\ OneHolder'
  <2>1. \A u \in Turns : pc[u] \in Holding => mine'[u] = mine[u]
    BY <1>1, <1>3 DEF Holding
  <2> QED BY <1>7, <1>8, <2>1 DEF HoldersHold, OneHolder
<1>10. NoSteal'
  BY <1>3, <1>4, <1>7 DEF NoSteal
<1> QED BY <1>2, <1>5, <1>6, <1>9, <1>10

LEMMA TryLockKeeps ==
    ASSUME LInv, NEW t \in Turns, TryLock(t)
    PROVE  LInv'
<1> USE DEF LInv
<1>1. mine[t] = entry /\ entry \in Turns /\ pc[t] = "try"
  BY DEF TryLock, SameLock, Counted, Labels, TypeOK
<1>2. TypeOK'
  BY <1>1 DEF TryLock, TypeOK, Labels
<1>3. CASE mine[t] \in held
  BY <1>2, <1>3, <1>1, MovesOn DEF TryLock, Counted, Labels, Holding, Thief
<1>4. CASE mine[t] \notin held
  <2>1. held = {}
    BY <1>1, <1>4 DEF HoldersHold, SameLock, Holding, Counted, Labels
  <2>2. \A u \in Turns : pc[u] \notin Holding
    BY <2>1 DEF HoldersHold
  <2>3. held' = {mine[t]} /\ GoTo(t, "record") /\ UNCHANGED <<entry, refs, alive, mine>>
    BY <1>4, <2>1 DEF TryLock
  <2>4. pc'[t] = "record" /\ \A u \in Turns : u # t => pc'[u] = pc[u]
    BY <2>3 DEF TypeOK
  <2>5. {u \in Turns : pc'[u] \in Counted} = {u \in Turns : pc[u] \in Counted}
    BY <1>1, <2>4 DEF Counted, Labels
  <2>6. CountsUsers'
    BY <2>3, <2>5 DEF CountsUsers
  <2>7. SameLock'
    BY <1>1, <2>3, <2>4 DEF SameLock, Counted, Labels
  <2>8. HoldersHold' /\ OneHolder'
    BY <2>2, <2>3, <2>4 DEF HoldersHold, OneHolder, Holding
  <2>9. NoSteal'
    BY <2>3, <2>4 DEF NoSteal
  <2> QED BY <1>2, <2>6, <2>7, <2>8, <2>9
<1> QED BY <1>3, <1>4

\* _release_session_lock, when the turn no longer has the session.
LEMMA LeaveKeeps ==
    ASSUME LInv, NEW t \in Turns, GiveUp(t) \/ Forget(t)
    PROVE  LInv'
<1> USE DEF LInv
<1> DEFINE l == IF pc[t] = "giveup" THEN "refused" ELSE "done"
<1>1. pc[t] \in Counted \ Holding /\ l \in Labels \ (Counted \cup Holding) /\ GoTo(t, l)
  BY DEF GiveUp, Forget, Counted, Labels, Holding
<1>2. entry # None
  BY <1>1 DEF SameLock
<1>3. Cardinality(Inside') = Cardinality(Inside) - 1 /\ Cardinality(Inside) > 0
  BY <1>1, OneLess
<1>4. refs = Cardinality(Inside)
  BY DEF CountsUsers, Inside
<1>5. refs' = refs - 1 /\ UNCHANGED <<entry, held, alive, mine>>
  BY <1>2, <1>3, <1>4 DEF GiveUp, Forget, ReleaseEntry
<1>6. refs' \in Nat
  BY <1>3, <1>4, <1>5 DEF TypeOK
<1>7. TypeOK'
  <2>1. pc' \in [Turns -> Labels]
    BY <1>1 DEF TypeOK
  <2>2. /\ holder' \in Threads \cup {None} /\ run' \in [Turns -> Threads \cup {None}]
        /\ UNCHANGED <<entry, held, alive, mine, via, seen, flagVars, robbed, reaps>>
    BY DEF GiveUp, Forget, ReleaseEntry, TypeOK
  <2> QED BY <1>6, <2>1, <2>2 DEF TypeOK
<1>8. CountsUsers'
  BY <1>3, <1>4, <1>5 DEF CountsUsers, Inside
<1>9. \A u \in Turns : pc'[u] = (IF u = t THEN l ELSE pc[u])
  BY <1>1 DEF TypeOK
<1>10. SameLock'
  BY <1>1, <1>5, <1>9 DEF SameLock
<1>11. HoldersHold' /\ OneHolder'
  <2>1. \A u \in Turns : pc'[u] \in Holding <=> pc[u] \in Holding
    BY <1>1, <1>9
  <2> QED BY <1>5, <2>1 DEF HoldersHold, OneHolder
<1>12. NoSteal'
  BY <1>5, <1>9 DEF NoSteal
<1> QED BY <1>7, <1>8, <1>10, <1>11, <1>12

LEMMA UnlockKeeps ==
    ASSUME LInv, NEW t \in Turns, Unlock(t)
    PROVE  LInv'
<1> USE DEF LInv
<1>1. pc[t] = "unlock" /\ pc[t] \in Holding /\ pc[t] \in Counted
  BY DEF Unlock, Holding, Counted, Labels
<1>2. mine[t] \in held /\ held = {mine[t]}
  BY <1>1 DEF HoldersHold, OneHolder
<1>3. held' = {} /\ GoTo(t, "forget") /\ UNCHANGED <<entry, refs, holder, alive, turnVars, flagVars, robbed, reaps>>
  BY <1>2 DEF Unlock
<1>4. pc'[t] = "forget" /\ \A u \in Turns : u # t => pc'[u] = pc[u] /\ pc[u] \notin Holding
  BY <1>1, <1>3 DEF TypeOK, OneHolder
<1>5. TypeOK'
  BY <1>3 DEF TypeOK, Labels
<1>6. {u \in Turns : pc'[u] \in Counted} = {u \in Turns : pc[u] \in Counted}
  BY <1>1, <1>4 DEF Counted, Labels
<1>7. CountsUsers'
  BY <1>3, <1>6 DEF CountsUsers
<1>8. SameLock'
  BY <1>1, <1>3, <1>4 DEF SameLock
<1>9. HoldersHold' /\ OneHolder'
  BY <1>3, <1>4 DEF HoldersHold, OneHolder, Holding
<1>10. NoSteal'
  BY <1>3, <1>4 DEF NoSteal
<1> QED BY <1>5, <1>7, <1>8, <1>9, <1>10

LEMMA ReclaimKeeps ==
    ASSUME LInv, Reclaim
    PROVE  LInv'
<1>1. \A t \in Turns : pc[t] \notin Counted
  BY NobodyInside DEF LInv, Reclaim
<1>2. UNCHANGED <<refs, held, alive, pc, turnVars, flagVars, robbed, reaps>> /\ entry' = None /\ holder' = None
  BY DEF Reclaim
<1> QED
  BY <1>1, <1>2 DEF LInv, TypeOK, CountsUsers, SameLock, HoldersHold, NoSteal, OneHolder

\* Everything else a turn does moves it on, or only a thief does it.
LEMMA OthersKeep ==
    ASSUME LInv, NEW t \in Turns,
           \/ Record(t) \/ Look(t) \/ Judge(t)
           \/ ClearFlag(t) \/ Respond(t) \/ PrepareFails(t) \/ StartStream(t) \/ NeverStarted(t)
           \/ \E th \in Threads : EndStream(t, th)
           \/ Unflag(t)
    PROVE  LInv'
<1> USE DEF Counted, Labels, Holding, Thief
<1>1. CASE Record(t)
  <2>1. TypeOK'
    BY <1>1 DEF Record, LInv, TypeOK
  <2> QED BY <1>1, <2>1, MovesOn DEF Record
<1>2. CASE Look(t)
  <2>1. TypeOK'
    BY <1>2 DEF Look, LInv, TypeOK
  <2> QED BY <1>2, <2>1, MovesOn DEF Look
<1>3. CASE Judge(t)
  <2>1. seen[t] = None \/ seen[t] \in alive
    BY DEF LInv, TypeOK, NoSteal
  <2>2. GoTo(t, "giveup")
    BY <1>3, <2>1 DEF Judge
  <2>3. TypeOK'
    BY <1>3, <2>2 DEF Judge, LInv, TypeOK
  <2> QED BY <1>3, <2>2, <2>3, MovesOn DEF Judge
<1>4. CASE ClearFlag(t)
  <2>1. TypeOK'
    BY <1>4 DEF ClearFlag, LInv, TypeOK
  <2> QED BY <1>4, <2>1, MovesOn DEF ClearFlag
<1>5. CASE Respond(t)
  <2>1. TypeOK'
    BY <1>5 DEF Respond, LInv, TypeOK
  <2> QED BY <1>5, <2>1, MovesOn DEF Respond
<1>6. CASE PrepareFails(t)
  <2>1. TypeOK'
    BY <1>6 DEF PrepareFails, LInv, TypeOK
  <2> QED BY <1>6, <2>1, MovesOn DEF PrepareFails
<1>7. CASE StartStream(t)
  <2>1. TypeOK'
    BY <1>7 DEF StartStream, LInv, TypeOK
  <2> QED BY <1>7, <2>1, MovesOn DEF StartStream
<1>8. CASE NeverStarted(t)
  <2>1. TypeOK'
    BY <1>8 DEF NeverStarted, LInv, TypeOK
  <2> QED BY <1>8, <2>1, MovesOn DEF NeverStarted
<1>9. ASSUME NEW th \in Threads, EndStream(t, th) PROVE LInv'
  <2>1. TypeOK'
    BY <1>9 DEF EndStream, LInv, TypeOK
  <2> QED BY <1>9, <2>1, MovesOn DEF EndStream
<1>10. CASE Unflag(t)
  <2>1. TypeOK'
    BY <1>10 DEF Unflag, LInv, TypeOK
  <2> QED BY <1>10, <2>1, MovesOn DEF Unflag
<1> QED BY <1>1, <1>2, <1>3, <1>4, <1>5, <1>6, <1>7, <1>8, <1>9, <1>10

-----------------------------------------------------------------------------
LEMMA NextKeeps ==
    ASSUME MaxReaps = 0, LInv, [Next]_vars
    PROVE  LInv'
<1>1. CASE UNCHANGED vars
  BY <1>1 DEF vars, LInv, TypeOK, CountsUsers, SameLock, HoldersHold, NoSteal, OneHolder
<1>2. ASSUME NEW t \in Turns, AcquireStep(t) \/ StreamStep(t) PROVE LInv'
  <2>1. ~(Steal(t) \/ ResetEntry(t) \/ Retry(t) \/ Rerecord(t))
    BY DEF LInv, NoSteal, Steal, ResetEntry, Retry, Rerecord
  <2> QED
    BY <1>2, <2>1, EnterKeeps, TryLockKeeps, LeaveKeeps, UnlockKeeps, OthersKeep
    DEF AcquireStep, StreamStep
<1>3. CASE Reclaim
  BY <1>3, ReclaimKeeps
<1>4. CASE Stop
  <2>1. UNCHANGED <<lockVars, alive, pc, turnVars, robbed, reaps>>
    BY <1>4 DEF Stop
  <2>2. cancel' \in BOOLEAN /\ told' \in SUBSET Turns /\ stops' \in 0 .. MaxStops /\ robbed' = robbed
    BY <1>4, LockAssumption DEF Stop, LInv, TypeOK, LockAssumption
  <2>3. TypeOK'
    BY <2>1, <2>2 DEF LInv, TypeOK
  <2> QED BY <2>1, <2>3 DEF LInv, CountsUsers, SameLock, HoldersHold, NoSteal, OneHolder
<1>5. ASSUME NEW th \in Threads, Reap(th) PROVE FALSE
  BY <1>5 DEF Reap, LInv, TypeOK
<1> QED BY <1>1, <1>2, <1>3, <1>4, <1>5 DEF Next

(* While no thread of the pool ends, the entry counts the turns that use it, they *)
(* all use its lock, and one of them at most has the session.                     *)
THEOREM LockInvariance ==
    ASSUME MaxReaps = 0 PROVE Spec => []LInv
<1>1. LInv /\ [Next]_vars => LInv'
  BY NextKeeps
<1> QED BY InitLInv, <1>1, PTL DEF Spec

(* Two turns of a session never overlap. *)
THEOREM OneTurnAtATime ==
    ASSUME MaxReaps = 0 PROVE Spec => []OneTurn
<1>1. LInv => OneTurn
  BY DEF LInv, OneHolder, OneTurn, Live
<1> QED BY <1>1, LockInvariance, PTL

(* The locks and counts of turns that are over are given back, on every path. *)
THEOREM LocksGivenBack ==
    ASSUME MaxReaps = 0 PROVE Spec => []NothingLeaks
<1>1. LInv => NothingLeaks
  <2> SUFFICES ASSUME LInv, \A t \in Turns : pc[t] \in {"ready", "refused", "done"}
      PROVE held = {} /\ refs = 0
    BY DEF NothingLeaks
  <2>1. \A t \in Turns : pc[t] \notin Counted /\ pc[t] \notin Holding
    BY DEF Counted, Holding
  <2>2. refs = 0
    BY <2>1, NobodyInside DEF LInv
  <2> QED BY <2>1, <2>2 DEF LInv, HoldersHold
<1> QED BY <1>1, LockInvariance, PTL

(* A stop is not taken back under the stream it was meant for. *)
THEOREM StopsArrive ==
    ASSUME MaxReaps = 0 PROVE Spec => StopReachesStream
<1>1. LInv /\ [Next]_vars => (cancel /\ ~cancel' => \A t \in Turns : pc[t] # "stream")
  <2> SUFFICES ASSUME LInv, [Next]_vars, cancel, ~cancel' PROVE \A t \in Turns : pc[t] # "stream"
    OBVIOUS
  <2>1. PICK t \in Turns : ClearFlag(t) \/ Unflag(t)
    BY DEF Next, vars, AcquireStep, StreamStep, Enter, TryLock, Record, Look, Judge, Steal,
       ResetEntry,
       Retry, Rerecord, GiveUp, Reclaim, Respond, PrepareFails, StartStream, NeverStarted, EndStream,
       Unlock, Forget, Stop, Reap
  <2>2. pc[t] \in {"unflag0", "unflag"}
    BY <2>1 DEF ClearFlag, Unflag
  <2> QED BY <2>2 DEF LInv, OneHolder, Holding
<1> QED BY <1>1, LockInvariance, PTL DEF Spec, StopReachesStream

-----------------------------------------------------------------------------
(* Threads that end *)

\* The entry stays, and all use its lock.
OneLock == \A t \in Turns : pc[t] # "ready" => entry # None /\ mine[t] = entry

OneInRoute == \A t, u \in Turns : pc[t] \in InRoute /\ pc[u] \in InRoute => t = u

\* The thread of a route runs it, and so does not end before the route returns.
ThreadStays ==
    \A t \in Turns : pc[t] \in InRoute => run[t] = via[t] /\ via[t] \in alive

\* A live turn holds the lock, and once it has been noted nobody else is.
LiveIsNoted ==
    \A t \in Turns :
        /\ pc[t] \in Live => mine[t] \in held
        /\ pc[t] \in Live \ {"record", "rerecord"} => holder \in {via[t], None}

\* What a turn has read of a live one is its thread or nothing, and it steals only
\* when that thread has ended.
StealsOnlyDead ==
    \A t, u \in Turns : t # u /\ pc[u] \in Live =>
        /\ pc[t] = "judge" => seen[t] \in {via[u], None}
        /\ pc[t] = "steal" => via[u] \notin alive
        /\ pc[t] \notin {"reset", "retry"}

\* What holds as long as no live turn has been robbed, ...
Orderly == OneInRoute /\ ThreadStays /\ LiveIsNoted /\ StealsOnlyDead /\ OneTurn

\* ... and what is known of the first theft for ever after.
DeadRobbed == \E u \in robbed : pc[u] # "ready" /\ via[u] \notin alive

TheftInv == TypeOK /\ OneLock /\ (Orderly \/ DeadRobbed)

(* Types, as long as no entry is deleted. *)
LEMMA TypeKept == TypeOK /\ OneLock /\ [Next]_vars => TypeOK'
<1> SUFFICES ASSUME TypeOK, OneLock, [Next]_vars PROVE TypeOK'
  OBVIOUS
<1> USE LockAssumption DEF LockAssumption
<1>1. CASE UNCHANGED vars
  BY <1>1 DEF vars, TypeOK
<1>2. ASSUME NEW t \in Turns, NEW th \in Threads, Enter(t, th) PROVE TypeOK'
  BY <1>2 DEF Enter, TypeOK, Labels
<1>3. ASSUME NEW t \in Turns, AcquireStep(t), \A th \in Threads : ~Enter(t, th) PROVE TypeOK'
  <2>1. CASE TryLock(t)
    BY <2>1 DEF TryLock, OneLock, TypeOK, Labels
  <2>2. CASE Record(t)
    BY <2>2 DEF Record, TypeOK, Labels
  <2>3. CASE Look(t)
    BY <2>3 DEF Look, TypeOK, Labels
  <2>4. CASE Judge(t)
    BY <2>4 DEF Judge, TypeOK, Labels
  <2>5. CASE Steal(t)
    BY <2>5 DEF Steal, TypeOK, Labels
  <2>6. CASE ResetEntry(t)
    BY <2>6 DEF ResetEntry, TypeOK, Labels
  <2>7. CASE Retry(t)
    BY <2>7 DEF Retry, OneLock, TypeOK, Labels
  <2>8. CASE Rerecord(t)
    BY <2>8 DEF Rerecord, TypeOK, Labels
  <2>9. CASE GiveUp(t)
    BY <2>9 DEF GiveUp, ReleaseEntry, TypeOK, Labels
  <2> QED
    BY <1>3, <2>1, <2>2, <2>3, <2>4, <2>5, <2>6, <2>7, <2>8, <2>9 DEF AcquireStep
<1>4. ASSUME NEW t \in Turns, StreamStep(t) PROVE TypeOK'
  <2>1. CASE ClearFlag(t) \/ Unflag(t)
    BY <2>1 DEF ClearFlag, Unflag, TypeOK, Labels
  <2>2. CASE Respond(t) \/ PrepareFails(t) \/ StartStream(t) \/ NeverStarted(t)
    BY <2>2 DEF Respond, PrepareFails, StartStream, NeverStarted, TypeOK, Labels
  <2>3. CASE \E th \in Threads : EndStream(t, th)
    BY <2>3 DEF EndStream, TypeOK, Labels
  <2>4. CASE Unlock(t)
    BY <2>4 DEF Unlock, TypeOK, Labels
  <2>5. CASE Forget(t)
    BY <2>5 DEF Forget, ReleaseEntry, TypeOK, Labels
  <2> QED
    BY <1>4, <2>1, <2>2, <2>3, <2>4, <2>5 DEF StreamStep
<1>5. CASE Reclaim
  BY <1>5 DEF Reclaim, TypeOK
<1>6. CASE Stop
  BY <1>6 DEF Stop, TypeOK
<1>7. ASSUME NEW th \in Threads, Reap(th) PROVE TypeOK'
  BY <1>7 DEF Reap, TypeOK
<1> QED
  BY <1>1, <1>2, <1>3, <1>4, <1>5, <1>6, <1>7 DEF Next

(* A turn that uses the lock uses the one in the entry, which stays. *)
LEMMA OneLockKept ==
    ASSUME ~Full PROVE TypeOK /\ OneLock /\ [Next]_vars => OneLock'
<1> SUFFICES ASSUME ~Full, TypeOK, OneLock, [Next]_vars PROVE OneLock'
  OBVIOUS
<1>1. ~Reclaim
  BY DEF Reclaim
<1>2. ASSUME NEW t \in Turns, NEW th \in Threads, Enter(t, th) PROVE OneLock'
  <2>1. entry' \in Turns /\ (entry # None => entry' = entry)
    BY <1>2 DEF Enter, TypeOK
  <2>2. pc[t] = "ready" /\ mine'[t] = entry'
    BY <1>2 DEF Enter, TypeOK
  <2>3. \A u \in Turns : u # t => pc'[u] = pc[u] /\ mine'[u] = mine[u]
    BY <1>2 DEF Enter, TypeOK
  <2> QED
    BY <2>1, <2>2, <2>3, LockAssumption DEF OneLock, LockAssumption
<1>3. ASSUME NEW t \in Turns, AcquireStep(t) \/ StreamStep(t), \A th \in Threads : ~Enter(t, th)
      PROVE  OneLock'
  <2>1. entry' = entry /\ mine' = mine /\ pc[t] # "ready"
    BY <1>3 DEF AcquireStep, StreamStep, TryLock, Record, Look, Judge, Steal, ResetEntry, Retry,
       Rerecord, GiveUp, ReleaseEntry, ClearFlag, Respond, PrepareFails, StartStream, NeverStarted,
       EndStream, Unflag, Unlock, Forget
  <2>2. \A u \in Turns : u # t => pc'[u] = pc[u]
    BY <1>3 DEF TypeOK, AcquireStep, StreamStep, TryLock, Record, Look, Judge, Steal, ResetEntry,
       Retry, Rerecord, GiveUp, ClearFlag, Respond, PrepareFails, StartStream, NeverStarted,
       EndStream, Unflag, Unlock, Forget
  <2> QED BY <2>1, <2>2 DEF OneLock
<1>4. CASE Stop \/ (\E th \in Threads : Reap(th)) \/ UNCHANGED vars
  <2>1. UNCHANGED <<entry, mine, pc>>
    BY <1>4 DEF Stop, Reap, vars
  <2> QED BY <2>1 DEF OneLock
<1> QED BY <1>1, <1>2, <1>3, <1>4 DEF Next

(* Whoever has been robbed once its thread had ended stays so. *)
LEMMA RobbedStays == TypeOK /\ DeadRobbed /\ [Next]_vars => DeadRobbed'
<1> SUFFICES ASSUME TypeOK, DeadRobbed, [Next]_vars PROVE DeadRobbed'
  OBVIOUS
<1>1. PICK v \in robbed : pc[v] # "ready" /\ via[v] \notin alive
  BY DEF DeadRobbed
<1>2. v \in Turns
  BY <1>1 DEF TypeOK
<1>3. ASSUME NEW t \in Turns, NEW th \in Threads, Enter(t, th) PROVE DeadRobbed'
  <2>1. t # v /\ UNCHANGED <<robbed, alive>> /\ pc'[v] = pc[v] /\ via'[v] = via[v]
    BY <1>1, <1>2, <1>3 DEF Enter, TypeOK
  <2> QED BY <1>1, <2>1 DEF DeadRobbed
<1>4. ASSUME NEW t \in Turns, AcquireStep(t) \/ StreamStep(t), \A th \in Threads : ~Enter(t, th)
      PROVE  DeadRobbed'
  <2>1. via' = via /\ alive' = alive /\ robbed \subseteq robbed'
    BY <1>4 DEF AcquireStep, StreamStep, TryLock, Record, Look, Judge, Steal, ResetEntry, Retry,
       Rerecord, GiveUp, ReleaseEntry, ClearFlag, Respond, PrepareFails, StartStream, NeverStarted,
       EndStream, Unflag, Unlock, Forget
  <2>2. pc'[v] # "ready"
    BY <1>1, <1>2, <1>4 DEF TypeOK, AcquireStep, StreamStep, TryLock, Record, Look, Judge, Steal,
       ResetEntry, Retry, Rerecord, GiveUp, ClearFlag, Respond, PrepareFails, StartStream,
       NeverStarted, EndStream, Unflag, Unlock, Forget
  <2> QED BY <1>1, <2>1, <2>2 DEF DeadRobbed
<1>5. CASE Reclaim \/ Stop \/ (\E th \in Threads : Reap(th)) \/ UNCHANGED vars
  <2>1. UNCHANGED <<pc, via, robbed>> /\ alive' \subseteq alive
    BY <1>5 DEF Reclaim, Stop, Reap, vars
  <2> QED BY <1>1, <2>1 DEF DeadRobbed
<1> QED BY <1>3, <1>4, <1>5 DEF Next

(* Where turns come one after the other and no entry is deleted, a step of a turn *)
(* that has come in keeps the order, or robs a turn whose thread has ended, ... *)
LEMMA TurnKeepsOrder ==
    ASSUME TypeOK, OneLock, Orderly, TypeOK', NEW t \in Turns, AcquireStep(t) \/ StreamStep(t),
           \A th \in Threads : ~Enter(t, th)
    PROVE  Orderly' \/ DeadRobbed'
<1> USE DEF Labels, Holding, Live, InRoute
<1>1. CASE TryLock(t)
  BY <1>1 DEF TryLock, Orderly, OneLock, OneInRoute, ThreadStays, LiveIsNoted, StealsOnlyDead,
     OneTurn, TypeOK
<1>2. CASE Record(t)
  BY <1>2 DEF Record, Orderly, OneLock, OneInRoute, ThreadStays, LiveIsNoted, StealsOnlyDead,
     OneTurn, TypeOK
<1>3. CASE Look(t)
  BY <1>3 DEF Look, Orderly, OneLock, OneInRoute, ThreadStays, LiveIsNoted, StealsOnlyDead,
     OneTurn, TypeOK
<1>4. CASE Judge(t)
  BY <1>4 DEF Judge, Orderly, OneLock, OneInRoute, ThreadStays, LiveIsNoted, StealsOnlyDead,
     OneTurn, TypeOK
<1>5. CASE Steal(t)
  <2>1. pc[t] = "steal" /\ pc' = [pc EXCEPT ![t] = "reset"] /\ UNCHANGED <<entry, holder, alive, turnVars>>
    BY <1>5 DEF Steal
  <2>2. ASSUME NEW u \in Turns \ {t}, pc[u] \in Live PROVE DeadRobbed'
    <3>1. mine[u] = mine[t] /\ via[u] \notin alive
      BY <2>1, <2>2 DEF OneLock, Orderly, StealsOnlyDead
    <3>2. u \in robbed'
      BY <1>5, <2>2, <3>1 DEF Steal
    <3>3. pc'[u] # "ready"
      BY <2>1, <2>2 DEF TypeOK
    <3> QED BY <2>1, <3>1, <3>2, <3>3 DEF DeadRobbed
  <2>3. ASSUME \A u \in Turns \ {t} : pc[u] \notin Live PROVE Orderly'
    BY <2>1, <2>3 DEF Orderly, OneInRoute, ThreadStays, LiveIsNoted, StealsOnlyDead, OneTurn, TypeOK
  <2> QED BY <2>2, <2>3
<1>6. CASE ResetEntry(t)
  BY <1>6 DEF ResetEntry, Orderly, OneLock, OneInRoute, ThreadStays, LiveIsNoted, StealsOnlyDead,
     OneTurn, TypeOK
<1>7. CASE Retry(t)
  BY <1>7 DEF Retry, Orderly, OneLock, OneInRoute, ThreadStays, LiveIsNoted, StealsOnlyDead,
     OneTurn, TypeOK
<1>8. CASE Rerecord(t)
  BY <1>8 DEF Rerecord, Orderly, OneLock, OneInRoute, ThreadStays, LiveIsNoted, StealsOnlyDead,
     OneTurn, TypeOK
<1>9. CASE GiveUp(t)
  BY <1>9 DEF GiveUp, ReleaseEntry, Orderly, OneLock, OneInRoute, ThreadStays, LiveIsNoted,
     StealsOnlyDead,
     OneTurn, TypeOK
<1>10. CASE ClearFlag(t)
  BY <1>10 DEF ClearFlag, Orderly, OneLock, OneInRoute, ThreadStays, LiveIsNoted, StealsOnlyDead,
     OneTurn, TypeOK
<1>11. CASE Respond(t)
  BY <1>11 DEF Respond, Orderly, OneLock, OneInRoute, ThreadStays, LiveIsNoted, StealsOnlyDead,
     OneTurn, TypeOK
<1>12. CASE PrepareFails(t)
  BY <1>12 DEF PrepareFails, Orderly, OneLock, OneInRoute, ThreadStays, LiveIsNoted,
     StealsOnlyDead,
     OneTurn, TypeOK
<1>13. CASE StartStream(t)
  BY <1>13 DEF StartStream, Orderly, OneLock, OneInRoute, ThreadStays, LiveIsNoted, StealsOnlyDead,
     OneTurn, TypeOK
<1>14. CASE NeverStarted(t)
  BY <1>14 DEF NeverStarted, Orderly, OneLock, OneInRoute, ThreadStays, LiveIsNoted,
     StealsOnlyDead,
     OneTurn, TypeOK
<1>15. CASE Unflag(t)
  BY <1>15 DEF Unflag, Orderly, OneLock, OneInRoute, ThreadStays, LiveIsNoted, StealsOnlyDead,
     OneTurn, TypeOK
<1>16. CASE Unlock(t)
  BY <1>16 DEF Unlock, Orderly, OneLock, OneInRoute, ThreadStays, LiveIsNoted, StealsOnlyDead,
     OneTurn, TypeOK
<1>17. CASE Forget(t)
  BY <1>17 DEF Forget, ReleaseEntry, Orderly, OneLock, OneInRoute, ThreadStays, LiveIsNoted,
     StealsOnlyDead,
     OneTurn, TypeOK
<1>18. ASSUME NEW th \in Threads, EndStream(t, th) PROVE Orderly'
  BY <1>18 DEF EndStream, Orderly, OneLock, OneInRoute, ThreadStays, LiveIsNoted, StealsOnlyDead,
     OneTurn, TypeOK
<1> QED
  BY <1>1, <1>2, <1>3, <1>4, <1>5, <1>6, <1>7, <1>8, <1>9, <1>10, <1>11, <1>12, <1>13, <1>14,
     <1>15, <1>16, <1>17, <1>18 DEF AcquireStep, StreamStep

(* ... and so do a turn that comes in, the user, and the pool. *)
LEMMA TheftKept ==
    ASSUME Serial, ~Full PROVE TheftInv /\ [Next]_vars => TheftInv'
<1> SUFFICES ASSUME TheftInv, [Next]_vars PROVE TheftInv'
  OBVIOUS
<1>1. TypeOK' /\ OneLock'
  BY TypeKept, OneLockKept DEF TheftInv
<1>2. CASE DeadRobbed
  BY <1>1, <1>2, RobbedStays DEF TheftInv
<1>3. CASE Orderly
  <2>1. ASSUME NEW t \in Turns, AcquireStep(t) \/ StreamStep(t), \A th \in Threads : ~Enter(t, th)
        PROVE  Orderly' \/ DeadRobbed'
    BY <1>1, <1>3, <2>1, TurnKeepsOrder DEF TheftInv
  <2>2. ASSUME NEW t \in Turns, NEW th \in Threads, Enter(t, th) PROVE Orderly'
    <3> USE <1>3, <2>2 DEF Enter, Orderly, TheftInv, TypeOK, Labels, Holding, Live, InRoute
    <3>1. \A u \in Turns : pc[u] \notin InRoute
      OBVIOUS
    <3>2. \A u \in Turns : u # t =>
            pc'[u] = pc[u] /\ mine'[u] = mine[u] /\ run'[u] = run[u] /\ via'[u] = via[u]
      OBVIOUS
    <3>3. pc'[t] = "try" /\ run'[t] = th /\ via'[t] = th /\ th \in alive'
      BY DEF Idle
    <3>4. entry # None => holder' = holder
      OBVIOUS
    <3>5. OneInRoute'
      BY <3>1, <3>2 DEF OneInRoute
    <3>6. ThreadStays'
      BY <3>1, <3>2, <3>3 DEF ThreadStays
    <3>7. LiveIsNoted'
      BY <3>2, <3>3, <3>4 DEF LiveIsNoted, OneLock
    <3>8. StealsOnlyDead' /\ OneTurn'
      BY <3>2, <3>3 DEF StealsOnlyDead, OneTurn
    <3> QED BY <3>5, <3>6, <3>7, <3>8
  <2>3. ~Reclaim
    BY DEF Reclaim
  <2>4. CASE Stop \/ UNCHANGED vars
    <3>1. UNCHANGED <<lockVars, alive, pc, turnVars>>
      BY <2>4 DEF Stop, vars
    <3>2. Orderly'
      BY <1>3, <3>1 DEF Orderly, OneInRoute, ThreadStays, LiveIsNoted, StealsOnlyDead, OneTurn
    <3> QED BY <1>1, <3>2 DEF TheftInv
  <2>5. ASSUME NEW th \in Threads, Reap(th) PROVE Orderly'
    <3>1. UNCHANGED <<lockVars, pc, turnVars>> /\ alive' = alive \ {th} /\ \A t \in Turns : run[t] # th
      BY <2>5 DEF Reap, Idle
    <3>2. ThreadStays' /\ StealsOnlyDead'
      BY <1>3, <3>1 DEF Orderly, ThreadStays, StealsOnlyDead
    <3> QED BY <1>3, <3>1, <3>2 DEF Orderly, OneInRoute, LiveIsNoted, OneTurn
  <2> QED BY <1>1, <2>1, <2>2, <2>3, <2>4, <2>5 DEF Next, AcquireStep, TheftInv
<1> QED BY <1>2, <1>3 DEF TheftInv

(* Where turns of a session come one after the other and entries are kept, the    *)
(* pool may end any idle thread and lost streams have their lock stolen; two turns *)
(* then overlap only after a live turn was robbed whose route's thread had ended   *)
(* (_acquire_session_lock, helpers.py).                                            *)
THEOREM OverlapsAreThefts ==
    ASSUME Serial, ~Full PROVE Spec => []OverlapIsTheft
<1>1. Init => TheftInv
  <2> SUFFICES ASSUME Init PROVE TheftInv
    OBVIOUS
  <2>1. TypeOK
    BY InitLInv DEF LInv
  <2>2. \A t \in Turns : pc[t] = "ready"
    BY DEF Init
  <2>3. OneLock /\ Orderly
    BY <2>2 DEF OneLock, Orderly, OneInRoute, ThreadStays, LiveIsNoted, StealsOnlyDead, OneTurn,
       Holding, Live, InRoute
  <2> QED BY <2>1, <2>3 DEF TheftInv
<1>2. TheftInv => OverlapIsTheft
  BY DEF TheftInv, Orderly, DeadRobbed, OverlapIsTheft
<1> QED BY <1>1, <1>2, TheftKept, PTL DEF Spec
=============================================================================
