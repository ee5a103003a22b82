------------------------------ MODULE SessionLock ------------------------------
(***************************************************************************)
(* The lock that admits one chat turn at a time to a session, and the flag *)
(* by which the user stops it (app/core/helpers.py, app/routes/chat.py).   *)
(*                                                                         *)
(* A turn's route runs in a thread of the server's pool; its event stream  *)
(* is resumed, and in the end cleaned up, in whichever pool thread is free. *)
(* A step is one critical section of the guard, one operation on the       *)
(* lock, or one stretch between them.  Lock objects are named after the    *)
(* turn that created them.                                                 *)
(***************************************************************************)
EXTENDS Integers, FiniteSets

CONSTANTS
    Turns,     \* requests to /chat/stream for this session, each made once
    Threads,   \* of the pool
    None,
    MaxReaps,  \* how many threads the pool may end because they are idle
    Full,      \* are there so many sessions that entries are deleted?
    Serial,    \* do requests for the session come one after the other?
    MaxStops   \* how often the user may press stop

ASSUME LockAssumption ==
    /\ IsFiniteSet(Turns)
    /\ None \notin Turns /\ None \notin Threads
    /\ MaxReaps \in Nat /\ MaxStops \in Nat
    /\ Full \in BOOLEAN /\ Serial \in BOOLEAN

VARIABLES
    entry,   \* the lock object of the session's entry in _SESSION_LOCKS
    refs, holder,  \* the entry's refcount and holder_thread
    held,    \* the lock objects that are held
    alive,   \* the threads that have not ended
    pc, mine,  \* of each turn: what comes next, and its session_lock
    run,     \* the thread the turn's code is running in
    via,     \* the thread its route ran in
    seen,    \* the holder it has read
    cancel,  \* the session's cancel flag
    told,    \* the turns that held the session when the user pressed stop
    robbed,  \* the live turns whose lock another has released (history)
    reaps, stops

lockVars == <<entry, refs, holder, held>>
turnVars == <<mine, run, via, seen>>
flagVars == <<cancel, told, stops>>
vars     == <<lockVars, alive, pc, turnVars, flagVars, robbed, reaps>>

Labels ==
    {"ready", "try", "record", "look", "judge", "steal", "reset", "retry", "rerecord", "giveup",
     "unflag0", "prepare", "response", "stream", "unflag", "unlock", "forget",
     "refused", "done", "lost"}

\* The turn believes that it has the session.
Holding == {"record", "rerecord", "unflag0", "prepare", "response", "stream", "unflag", "unlock", "lost"}

Live == Holding \ {"lost"}

\* Its route has not returned.
InRoute == Labels \ {"ready", "response", "stream", "unflag", "unlock", "forget", "refused", "done", "lost"}

\* The turn counts in the entry's refcount.
Counted == Labels \ {"ready", "refused", "done"}

TypeOK ==
    /\ entry \in Turns \cup {None} /\ refs \in Nat /\ holder \in Threads \cup {None}
    /\ held \in SUBSET Turns
    /\ alive \in SUBSET Threads
    /\ pc \in [Turns -> Labels]
    /\ mine \in [Turns -> Turns \cup {None}]
    /\ run  \in [Turns -> Threads \cup {None}]
    /\ via  \in [Turns -> Threads \cup {None}]
    /\ seen \in [Turns -> Threads \cup {None}]
    /\ cancel \in BOOLEAN /\ told \in SUBSET Turns /\ robbed \in SUBSET Turns
    /\ reaps \in 0 .. MaxReaps /\ stops \in 0 .. MaxStops

Init ==
    /\ entry = None /\ refs = 0 /\ holder = None
    /\ held = {}
    /\ alive = Threads
    /\ pc = [t \in Turns |-> "ready"]
    /\ mine = [t \in Turns |-> None]
    /\ run  = [t \in Turns |-> None]
    /\ via  = [t \in Turns |-> None]
    /\ seen = [t \in Turns |-> None]
    /\ cancel = FALSE /\ told = {} /\ robbed = {}
    /\ reaps = 0 /\ stops = 0

Idle(th) == th \in alive /\ \A t \in Turns : run[t] # th

GoTo(t, label) == pc' = [pc EXCEPT ![t] = label]

-----------------------------------------------------------------------------
(* _acquire_session_lock *)

\* The first critical section: find or make the entry, and count.
Enter(t, th) ==
    /\ pc[t] = "ready" /\ Idle(th)
    /\ Serial => \A u \in Turns : pc[u] \notin InRoute
    /\ entry' = IF entry = None THEN t ELSE entry
    /\ refs' = IF entry = None THEN 1 ELSE refs + 1
    /\ holder' = IF entry = None THEN None ELSE holder
    /\ mine' = [mine EXCEPT ![t] = entry']
    /\ run' = [run EXCEPT ![t] = th]
    /\ via' = [via EXCEPT ![t] = th]
    /\ GoTo(t, "try")
    /\ UNCHANGED <<held, alive, seen, flagVars, robbed, reaps>>

\* Mutant of TryLock: a lock that cannot be had is passed by.
TryLock_Anyway(t) ==
    /\ pc[t] = "try"
    /\ held' = held \cup {mine[t]}
    /\ GoTo(t, "record")
    /\ UNCHANGED <<entry, refs, holder, alive, turnVars, flagVars, robbed, reaps>>

\* lock.acquire(blocking=False)
TryLock(t) ==
    /\ pc[t] = "try"
    /\ held' = held \cup {mine[t]}
    /\ GoTo(t, IF mine[t] \in held THEN "look" ELSE "record")
    /\ UNCHANGED <<entry, refs, holder, alive, turnVars, flagVars, robbed, reaps>>

\* The second: note who holds it, in whatever entry there is by now.
Record(t) ==
    /\ pc[t] = "record"
    /\ holder' = IF entry = None THEN None ELSE run[t]
    /\ GoTo(t, "unflag0")
    /\ UNCHANGED <<entry, refs, held, alive, turnVars, flagVars, robbed, reaps>>

\* The lock is taken: read who is noted as its holder ...
Look(t) ==
    /\ pc[t] = "look"
    /\ seen' = [seen EXCEPT ![t] = IF entry = None THEN None ELSE holder]
    /\ GoTo(t, "judge")
    /\ UNCHANGED <<lockVars, alive, mine, run, via, flagVars, robbed, reaps>>

\* Mutant of Judge: whatever thread is noted is taken for gone.
Judge_Any(t) ==
    /\ pc[t] = "judge"
    /\ GoTo(t, IF seen[t] # None THEN "steal" ELSE "giveup")
    /\ UNCHANGED <<lockVars, alive, turnVars, flagVars, robbed, reaps>>

\* ... and whether that thread has ended.
Judge(t) ==
    /\ pc[t] = "judge"
    /\ GoTo(t, IF seen[t] # None /\ seen[t] \notin alive THEN "steal" ELSE "giveup")
    /\ UNCHANGED <<lockVars, alive, turnVars, flagVars, robbed, reaps>>

\* lock.release() on the other turn's behalf; a RuntimeError is passed over.
Steal(t) ==
    /\ pc[t] = "steal"
    /\ held' = held \ {mine[t]}
    /\ robbed' = robbed \cup {u \in Turns \ {t} : pc[u] \in Live /\ mine[u] = mine[t]}
    /\ GoTo(t, "reset")
    /\ UNCHANGED <<entry, refs, holder, alive, turnVars, flagVars, reaps>>

ResetEntry(t) ==
    /\ pc[t] = "reset"
    /\ refs' = 0 /\ holder' = None
    /\ GoTo(t, "retry")
    /\ UNCHANGED <<entry, held, alive, turnVars, flagVars, robbed, reaps>>

Retry(t) ==
    /\ pc[t] = "retry"
    /\ held' = held \cup {mine[t]}
    /\ GoTo(t, IF mine[t] \in held THEN "giveup" ELSE "rerecord")
    /\ UNCHANGED <<entry, refs, holder, alive, turnVars, flagVars, robbed, reaps>>

Rerecord(t) ==
    /\ pc[t] = "rerecord"
    /\ IF entry = None THEN UNCHANGED <<refs, holder>> ELSE refs' = 1 /\ holder' = run[t]
    /\ GoTo(t, "unflag0")
    /\ UNCHANGED <<entry, held, alive, turnVars, flagVars, robbed, reaps>>

\* _release_session_lock, in the thread that runs the turn.
ReleaseEntry(t) ==
    /\ refs' = IF entry # None /\ refs > 0 THEN refs - 1 ELSE refs
    /\ holder' = IF holder = run[t] THEN None ELSE holder
    /\ run' = [run EXCEPT ![t] = None]

\* The session is busy: 409.
GiveUp(t) ==
    /\ pc[t] = "giveup"
    /\ ReleaseEntry(t)
    /\ GoTo(t, "refused")
    /\ UNCHANGED <<entry, held, alive, mine, via, seen, flagVars, robbed, reaps>>

\* _reclaim_idle_session_locks, for another session's sake: an entry nobody
\* counts in is deleted.
Reclaim ==
    /\ Full /\ entry # None /\ refs = 0
    /\ entry' = None /\ holder' = None
    /\ UNCHANGED <<refs, held, alive, pc, turnVars, flagVars, robbed, reaps>>

-----------------------------------------------------------------------------
(* chat_stream and chat_stop *)

\* Whatever stop was pressed before belongs to an earlier turn.
ClearFlag(t) ==
    /\ pc[t] = "unflag0"
    /\ cancel' = FALSE
    /\ GoTo(t, "prepare")
    /\ UNCHANGED <<lockVars, alive, turnVars, told, stops, robbed, reaps>>

\* The route returns a response whose generator has not started.
Respond(t) ==
    /\ pc[t] = "prepare"
    /\ run' = [run EXCEPT ![t] = None]
    /\ GoTo(t, "response")
    /\ UNCHANGED <<lockVars, alive, mine, via, seen, flagVars, robbed, reaps>>

\* The reports, the agent or the message cannot be prepared.
PrepareFails(t) ==
    /\ pc[t] = "prepare"
    /\ GoTo(t, "unlock")
    /\ UNCHANGED <<lockVars, alive, turnVars, flagVars, robbed, reaps>>

StartStream(t) ==
    /\ pc[t] = "response"
    /\ GoTo(t, "stream")
    /\ UNCHANGED <<lockVars, alive, turnVars, flagVars, robbed, reaps>>

\* The client is gone before the generator starts: its finally never runs.
NeverStarted(t) ==
    /\ pc[t] = "response"
    /\ GoTo(t, "lost")
    /\ UNCHANGED <<lockVars, alive, turnVars, flagVars, robbed, reaps>>

\* The stream ends, in some thread: finished, failed, stopped or disconnected.
EndStream(t, th) ==
    /\ pc[t] = "stream" /\ Idle(th)
    /\ run' = [run EXCEPT ![t] = th]
    /\ GoTo(t, "unflag")
    /\ UNCHANGED <<lockVars, alive, mine, via, seen, flagVars, robbed, reaps>>

\* finally: clear_cancel_flag,
Unflag(t) ==
    /\ pc[t] = "unflag"
    /\ cancel' = FALSE
    /\ GoTo(t, "unlock")
    /\ UNCHANGED <<lockVars, alive, turnVars, told, stops, robbed, reaps>>

\* session_lock.release(), which raises when somebody else has released it,
Unlock(t) ==
    /\ pc[t] = "unlock"
    /\ held' = held \ {mine[t]}
    /\ IF mine[t] \in held
       THEN GoTo(t, "forget") /\ UNCHANGED run
       ELSE GoTo(t, "done") /\ run' = [run EXCEPT ![t] = None]
    /\ UNCHANGED <<entry, refs, holder, alive, mine, via, seen, flagVars, robbed, reaps>>

\* Mutant of Forget: the flag is cleared here, when the lock is already free.
Forget_LateFlag(t) ==
    /\ pc[t] = "forget"
    /\ ReleaseEntry(t)
    /\ cancel' = FALSE
    /\ GoTo(t, "done")
    /\ UNCHANGED <<entry, held, alive, mine, via, seen, told, stops, robbed, reaps>>

\* and _release_session_lock.
Forget(t) ==
    /\ pc[t] = "forget"
    /\ ReleaseEntry(t)
    /\ GoTo(t, "done")
    /\ UNCHANGED <<entry, held, alive, mine, via, seen, flagVars, robbed, reaps>>

\* chat_stop: the user presses stop.
Stop ==
    /\ stops < MaxStops
    /\ stops' = stops + 1
    /\ cancel' = TRUE
    /\ told' = {t \in Turns : pc[t] \in Holding}
    /\ UNCHANGED <<lockVars, alive, pc, turnVars, robbed, reaps>>

\* The pool ends a thread that has been idle.
Reap(th) ==
    /\ reaps < MaxReaps /\ Idle(th)
    /\ reaps' = reaps + 1
    /\ alive' = alive \ {th}
    /\ UNCHANGED <<lockVars, pc, turnVars, flagVars, robbed>>

AcquireStep(t) ==
    \/ \E th \in Threads : Enter(t, th)
    \/ TryLock(t) \/ Record(t) \/ Look(t) \/ Judge(t)
    \/ Steal(t) \/ ResetEntry(t) \/ Retry(t) \/ Rerecord(t) \/ GiveUp(t)
StreamStep(t) ==
    \/ ClearFlag(t) \/ Respond(t) \/ PrepareFails(t) \/ StartStream(t) \/ NeverStarted(t)
    \/ \E th \in Threads : EndStream(t, th)
    \/ Unflag(t) \/ Unlock(t) \/ Forget(t)

Next ==
    \/ \E t \in Turns : AcquireStep(t) \/ StreamStep(t)
    \/ Reclaim \/ Stop \/ \E th \in Threads : Reap(th)

Spec == Init /\ [][Next]_vars

-----------------------------------------------------------------------------
\* At most one turn at a time has the session: what it does to the history and the
\* report context is not mixed with another's.
OneTurn == \A t, u \in Turns : pc[t] \in Live /\ pc[u] \in Live => t = u

\* Where turns come one after the other and entries stay, two of them overlap for
\* one reason alone: a lock was taken from a turn that was still live although the
\* pool had ended the idle thread its route ran in (helpers.py:254-278).  A lost
\* stream, a refused turn, or a thread that ends elsewhere lets no second turn in.
OverlapIsTheft == OneTurn \/ \E u \in robbed : via[u] \notin alive

\* Once every turn is over the session is free, and its entry may be reclaimed.
NothingLeaks ==
    (\A t \in Turns : pc[t] \in {"ready", "refused", "done"}) => held = {} /\ refs = 0

\* A stop that was pressed while a turn streams is not cleared under it by
\* the clean-up of another turn.
StopReachesStream ==
    [][cancel /\ ~cancel' => \A t \in Turns : pc[t] # "stream"]_vars

\* A turn that held the session when the user pressed stop does not stream on
\* without seeing the flag.
StopIsHeeded == \A t \in told : pc[t] = "stream" => cancel

\* The lock of a turn whose route's thread is alive is never released by another.
LiveNeverStolen ==
    [][\A t, u \in Turns :
          /\ pc[t] = "steal" /\ pc'[t] = "reset"
          /\ t # u /\ pc[u] \in Holding /\ mine[u] = mine[t]
          => via[u] \notin alive]_vars

\* The lock of a lost stream is known to be its thread's, so that it can be
\* reclaimed when the thread ends.
LostIsReclaimable ==
    (\A t \in Turns : pc[t] \in {"ready", "refused", "done", "lost"}) /\ entry \in held
        => \E t \in Turns : pc[t] = "lost" /\ holder = via[t]

-----------------------------------------------------------------------------
(* The inductive invariant, as long as no thread of the pool ends *)

\* The entry counts the turns that use it, and stays as long as one does.
CountsUsers == refs = Cardinality({t \in Turns : pc[t] \in Counted})

\* A turn that uses the lock uses the one in the entry.
SameLock == \A t \in Turns : pc[t] \in Counted => entry # None /\ mine[t] = entry

\* Whoever has the session holds the lock, and nothing is held otherwise.
HoldersHold ==
    /\ \A t \in Turns : pc[t] \in Holding => mine[t] \in held
    /\ held # {} => \E t \in Turns : pc[t] \in Holding /\ held = {mine[t]}

\* Nobody has a reason to steal.
NoSteal ==
    /\ alive = Threads
    /\ \A t \in Turns : pc[t] \notin {"steal", "reset", "retry", "rerecord"}

\* One turn at most, lost ones included.
OneHolder == \A t, u \in Turns : pc[t] \in Holding /\ pc[u] \in Holding => t = u

LInv == TypeOK /\ CountsUsers /\ SameLock /\ HoldersHold /\ NoSteal /\ OneHolder
=============================================================================
