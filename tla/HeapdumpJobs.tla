----------------------------- MODULE HeapdumpJobs -----------------------------
(***************************************************************************)
(* The life of a heap-dump report: the row of table heapdump_reports, its   *)
(* dump directory, the worker processes that parse it with Eclipse MAT, the *)
(* watchdog each worker process runs, and the web routes that cancel and    *)
(* delete reports while all of this is going on.                            *)
(*                                                                         *)
(* One step is one database transaction, or one await-free stretch of the  *)
(* worker's coroutine.  Faults are drawn from a budget, so that a run can   *)
(* say exactly which ones it admits.                                       *)
(***************************************************************************)
EXTENDS Integers, FiniteSets

CONSTANTS
    Workers,      \* worker processes (heapdump_worker/__main__.py), each with its watchdog
    NoWorker,     \* worker_id = '' / the flock is free
    NumReports,   \* reports are numbered in the order of their queued_at
    MaxAttempts,  \* HEAPDUMP_WORKER_MAX_ATTEMPTS
    Budget        \* how many faults and user requests of each kind may happen

Reports  == 1 .. NumReports
NoReport == 0

Faults == {"crash",   \* a worker process is killed (kill -9, OOM killer)
           "stop",    \* a worker process receives SIGTERM
           "stall",   \* a live worker's heartbeat stays away for > HEARTBEAT_TIMEOUT
           "db",      \* an UPDATE fails and _update_fields swallows the exception
           "cancel", "delete"}

ASSUME ConstantsAssumption ==
    /\ NumReports \in Nat
    /\ MaxAttempts \in Nat \ {0}
    /\ NoWorker \notin Workers
    /\ Budget \in [Faults -> Nat]

VARIABLES
    (* the row *)
    status, hb, owner, attempts,
    (* the dump directory *)
    hprof, index, flock, orphans,
    (* the worker's coroutine and its watchdog *)
    pc, task, outcome, scan, cancelScan,
    (* web requests in progress *)
    web, rm,
    (* what is left of the budget *)
    left

rowVars  == <<status, hb, owner, attempts>>
dumpVars == <<hprof, index, flock, orphans>>
procVars == <<pc, task, outcome>>
scanVars == <<scan, cancelScan>>
webVars  == <<web, rm>>
vars == <<rowVars, dumpVars, procVars, scanVars, webVars, left>>

Terminal  == {"DONE", "FAILED", "CANCELLED"}
Statuses  == {"new", "gone", "QUEUED", "PARSING", "CANCEL_REQUESTED"} \cup Terminal
Labels    == {"down", "idle", "check", "lock", "parse", "release",
              "settle", "write", "stats", "commit"}
Outcomes  == {"none", "DONE", "FAILED", "CANCELLED", "settled", "stopped"}
Snapshots == [report : Reports, attempts : Nat]

TypeOK ==
    /\ status   \in [Reports -> Statuses]
    /\ hb       \in [Reports -> {"none", "fresh", "stale"}]
    /\ owner    \in [Reports -> Workers \cup {NoWorker}]
    /\ attempts \in [Reports -> Nat]
    /\ hprof    \in [Reports -> BOOLEAN]
    /\ index    \in [Reports -> {"none", "partial", "whole"}]
    /\ flock    \in [Reports -> Workers \cup {NoWorker}]
    /\ orphans  \in [Reports -> Nat]
    /\ pc       \in [Workers -> Labels]
    /\ task     \in [Workers -> Reports \cup {NoReport}]
    /\ outcome  \in [Workers -> Outcomes]
    /\ scan       \in [Workers -> SUBSET Snapshots]
    /\ cancelScan \in [Workers -> SUBSET Reports]
    /\ web      \in [Reports -> {"none", "QUEUED", "PARSING"}]
    /\ rm       \in [Reports -> BOOLEAN]
    /\ left     \in [Faults -> Nat]

Init ==
    /\ status   = [r \in Reports |-> "new"]
    /\ hb       = [r \in Reports |-> "none"]
    /\ owner    = [r \in Reports |-> NoWorker]
    /\ attempts = [r \in Reports |-> 0]
    /\ hprof    = [r \in Reports |-> FALSE]
    /\ index    = [r \in Reports |-> "none"]
    /\ flock    = [r \in Reports |-> NoWorker]
    /\ orphans  = [r \in Reports |-> 0]
    /\ pc       = [w \in Workers |-> "idle"]
    /\ task     = [w \in Workers |-> NoReport]
    /\ outcome  = [w \in Workers |-> "none"]
    /\ scan       = [w \in Workers |-> {}]
    /\ cancelScan = [w \in Workers |-> {}]
    /\ web      = [r \in Reports |-> "none"]
    /\ rm       = [r \in Reports |-> FALSE]
    /\ left     = Budget

-----------------------------------------------------------------------------
(* Statements and helpers *)

Exists(r) == status[r] \notin {"new", "gone"}
Alive(w)  == pc[w] # "down"
Works(w, r) == Alive(w) /\ task[w] = r

Spend(f) == left[f] > 0 /\ left' = [left EXCEPT ![f] = @ - 1]

\* _update_fields without where_status: whatever the row's status is by now.
\* An exception is logged and swallowed: the write is lost, control goes on.
UpdateFields(r, s) ==
    \/ /\ status' = IF Exists(r) THEN [status EXCEPT ![r] = s] ELSE status
       /\ UNCHANGED left
    \/ Spend("db") /\ UNCHANGED status

\* _update_fields with where_status = 'PARSING'.
IfParsing(r, s) == IF status[r] = "PARSING" THEN [status EXCEPT ![r] = s] ELSE status
UpdateIfParsing(r, s) ==
    \/ status' = IfParsing(r, s) /\ UNCHANGED left
    \/ Spend("db") /\ UNCHANGED status

CleanPartialIndexes(r) == index' = [index EXCEPT ![r] = "none"]
Rmtree(r) == /\ hprof' = [hprof EXCEPT ![r] = FALSE]
             /\ index' = [index EXCEPT ![r] = "none"]
FreeFlock(w) == [r \in Reports |-> IF flock[r] = w THEN NoWorker ELSE flock[r]]

GoTo(w, l, o) == /\ pc' = [pc EXCEPT ![w] = l]
                 /\ outcome' = [outcome EXCEPT ![w] = o]
                 /\ UNCHANGED task
Drop(w, l) == /\ pc' = [pc EXCEPT ![w] = l]
              /\ task' = [task EXCEPT ![w] = NoReport]
              /\ outcome' = [outcome EXCEPT ![w] = "none"]

-----------------------------------------------------------------------------
(* The worker's coroutine: worker_loop and run_parse_task *)

\* Mutant of ClaimNextTask: the UPDATE does not repeat status = 'QUEUED'.
ClaimNextTask_Unconditional(w) ==
    /\ pc[w] = "idle"
    /\ \E r \in Reports :
        /\ status[r] \in {"QUEUED", "PARSING"}
        /\ status' = [status EXCEPT ![r] = "PARSING"]
        /\ hb' = [hb EXCEPT ![r] = "fresh"]
        /\ owner' = [owner EXCEPT ![r] = w]
        /\ pc' = [pc EXCEPT ![w] = "check"]
        /\ task' = [task EXCEPT ![w] = r]
    /\ UNCHANGED <<attempts, dumpVars, outcome, scanVars, webVars, left>>

\* The oldest QUEUED row, taken by a conditional UPDATE.  If reading it again
\* fails after the commit, the row is PARSING and nobody works on it.
ClaimNextTask(w) ==
    /\ pc[w] = "idle"
    /\ \E r \in Reports :
        /\ status[r] = "QUEUED"
        /\ \A q \in Reports : status[q] = "QUEUED" => r <= q
        /\ status' = [status EXCEPT ![r] = "PARSING"]
        /\ hb' = [hb EXCEPT ![r] = "fresh"]
        /\ owner' = [owner EXCEPT ![r] = w]
        /\ \/ /\ pc' = [pc EXCEPT ![w] = "check"]
              /\ task' = [task EXCEPT ![w] = r]
              /\ UNCHANGED left
           \/ Spend("db") /\ UNCHANGED <<pc, task>>
    /\ UNCHANGED <<attempts, dumpVars, outcome, scanVars, webVars>>

CheckFiles(w) ==
    /\ pc[w] = "check"
    /\ hprof[task[w]]
    /\ GoTo(w, "lock", "none")
    /\ UNCHANGED <<rowVars, dumpVars, scanVars, webVars, left>>

\* The hprof is gone, or MAT_HOME does not exist on this machine: FAILED, unguarded.
CheckFails(w) ==
    /\ pc[w] = "check"
    /\ UpdateFields(task[w], "FAILED")
    /\ Drop(w, "idle")
    /\ UNCHANGED <<hb, owner, attempts, dumpVars, scanVars, webVars>>

\* Mutant of AcquireDumpLock: a lock file that is only opened, never locked.
AcquireDumpLock_NoFlock(w) ==
    /\ pc[w] = "lock"
    /\ hprof[task[w]]
    /\ flock' = [flock EXCEPT ![task[w]] = w]
    /\ index' = [index EXCEPT ![task[w]] = IF @ = "whole" THEN @ ELSE "partial"]
    /\ GoTo(w, "parse", "none")
    /\ UNCHANGED <<rowVars, hprof, orphans, scanVars, webVars, left>>

\* flock taken, MAT started.  MAT reopens an index it finds complete.
AcquireDumpLock(w) ==
    /\ pc[w] = "lock"
    /\ hprof[task[w]]
    /\ flock[task[w]] = NoWorker
    /\ flock' = [flock EXCEPT ![task[w]] = w]
    /\ index' = [index EXCEPT ![task[w]] = IF @ = "whole" THEN @ ELSE "partial"]
    /\ GoTo(w, "parse", "none")
    /\ UNCHANGED <<rowVars, hprof, orphans, scanVars, webVars, left>>

\* Somebody holds the flock, or the directory is gone: FAILED, unguarded.
DumpLockRefused(w) ==
    /\ pc[w] = "lock"
    /\ flock[task[w]] # NoWorker \/ ~hprof[task[w]]
    /\ UpdateFields(task[w], "FAILED")
    /\ Drop(w, "idle")
    /\ UNCHANGED <<hb, owner, attempts, dumpVars, scanVars, webVars>>

\* heartbeat_loop and _stats_heartbeat: unguarded, on whoever's row it is by now.
Heartbeat(w) ==
    /\ pc[w] \in {"parse", "stats"}
    /\ Exists(task[w])
    /\ hb[task[w]] # "fresh"
    /\ hb' = [hb EXCEPT ![task[w]] = "fresh"]
    /\ UNCHANGED <<status, owner, attempts, dumpVars, procVars, scanVars, webVars, left>>

\* MAT exits 0 and some *.index is there.  Two MATs writing the same files may
\* leave anything behind; the exit code does not tell.
MatSucceeds(w) ==
    /\ pc[w] = "parse"
    /\ hprof[task[w]]
    /\ \E i \in IF orphans[task[w]] = 0 THEN {"whole"} ELSE {"whole", "partial"} :
          index' = [index EXCEPT ![task[w]] = i]
    /\ GoTo(w, "release", "DONE")
    /\ UNCHANGED <<rowVars, hprof, flock, orphans, scanVars, webVars, left>>

\* MAT exits non-zero (79: out of memory), or leaves no index.
MatFails(w) ==
    /\ pc[w] = "parse"
    /\ CleanPartialIndexes(task[w])
    /\ GoTo(w, "release", "FAILED")
    /\ UNCHANGED <<rowVars, hprof, flock, orphans, scanVars, webVars, left>>

\* pump_cancel sees CANCEL_REQUESTED and kills MAT; run_parse_v1 cleans up.
PumpCancel(w) ==
    /\ pc[w] = "parse"
    /\ status[task[w]] = "CANCEL_REQUESTED"
    /\ CleanPartialIndexes(task[w])
    /\ GoTo(w, "release", "CANCELLED")
    /\ UNCHANGED <<rowVars, hprof, flock, orphans, scanVars, webVars, left>>

\* _PARSE_TIMEOUT: MAT is killed, the row fails if it is still PARSING.
ParseTimeout(w) ==
    /\ pc[w] = "parse"
    /\ CleanPartialIndexes(task[w])
    /\ UpdateIfParsing(task[w], "FAILED")
    /\ GoTo(w, "release", "settled")
    /\ UNCHANGED <<hb, owner, attempts, hprof, flock, orphans, scanVars, webVars>>

\* Any other exception (no launcher, no java): FAILED, unguarded.
ParserCrash(w) ==
    /\ pc[w] = "parse"
    /\ CleanPartialIndexes(task[w])
    /\ UpdateFields(task[w], "FAILED")
    /\ GoTo(w, "release", "settled")
    /\ UNCHANGED <<hb, owner, attempts, hprof, flock, orphans, scanVars, webVars>>

\* Mutant of ReleaseDumpLock: the outcome of the parse is not looked at.
ReleaseDumpLock_AnyOutcome(w) ==
    /\ pc[w] = "release"
    /\ flock' = FreeFlock(w)
    /\ GoTo(w, "stats", "DONE")
    /\ UNCHANGED <<rowVars, hprof, index, orphans, scanVars, webVars, left>>

\* The finally block: the lock goes before the outcome is written.
ReleaseDumpLock(w) ==
    /\ pc[w] = "release"
    /\ flock' = FreeFlock(w)
    /\ \/ outcome[w] = "DONE" /\ GoTo(w, "stats", "DONE")
       \/ outcome[w] \in {"FAILED", "CANCELLED"} /\ GoTo(w, "settle", outcome[w])
       \/ outcome[w] = "settled" /\ Drop(w, "idle")
       \/ outcome[w] = "stopped" /\ Drop(w, "down")
    /\ UNCHANGED <<rowVars, hprof, index, orphans, scanVars, webVars, left>>

\* _finish_terminal, the read.  A missing row and a failed read both read as None.
FinishTerminalRead(w) ==
    /\ pc[w] = "settle"
    /\ \/ /\ status[task[w]] \in {"gone", "PARSING", "CANCEL_REQUESTED"}
          /\ GoTo(w, "write", outcome[w])
          /\ UNCHANGED left
       \/ /\ status[task[w]] \notin {"gone", "PARSING", "CANCEL_REQUESTED"}
          /\ Drop(w, "idle")
          /\ UNCHANGED left
       \/ Spend("db") /\ GoTo(w, "write", outcome[w])
    /\ UNCHANGED <<rowVars, dumpVars, scanVars, webVars>>

\* _finish_terminal, the write: whatever the status is by now.
FinishTerminalWrite(w) ==
    /\ pc[w] = "write"
    /\ UpdateFields(task[w], outcome[w])
    /\ Drop(w, "idle")
    /\ UNCHANGED <<hb, owner, attempts, dumpVars, scanVars, webVars>>

\* backfill_stats, successful or not, does not decide anything.
BackfillStats(w) ==
    /\ pc[w] = "stats"
    /\ GoTo(w, "commit", outcome[w])
    /\ UNCHANGED <<rowVars, dumpVars, scanVars, webVars, left>>

\* Mutant of CommitDone: the last UPDATE has no where_status.
CommitDone_Unguarded(w) ==
    /\ pc[w] = "commit"
    /\ UpdateFields(task[w], "DONE")
    /\ Drop(w, "idle")
    /\ UNCHANGED <<hb, owner, attempts, dumpVars, scanVars, webVars>>

CommitDone(w) ==
    /\ pc[w] = "commit"
    /\ UpdateIfParsing(task[w], "DONE")
    /\ Drop(w, "idle")
    /\ UNCHANGED <<hb, owner, attempts, dumpVars, scanVars, webVars>>

-----------------------------------------------------------------------------
(* Processes come and go *)

\* kill -9.  The kernel frees the flock (its descriptor is not inherited by
\* MAT); MAT, in a session of its own, runs on as an orphan.
Crash(w) ==
    /\ Alive(w)
    /\ Spend("crash")
    /\ flock' = FreeFlock(w)
    /\ orphans' = IF pc[w] = "parse" THEN [orphans EXCEPT ![task[w]] = @ + 1] ELSE orphans
    /\ Drop(w, "down")
    /\ scan' = [scan EXCEPT ![w] = {}]
    /\ cancelScan' = [cancelScan EXCEPT ![w] = {}]
    /\ UNCHANGED <<rowVars, hprof, index, webVars>>

\* SIGTERM during the parse: 30 s later the task is cancelled, MAT is killed
\* and the row fails if it is still PARSING.
ShutdownParse(w) ==
    /\ pc[w] = "parse"
    /\ Spend("stop")
    /\ CleanPartialIndexes(task[w])
    /\ status' = IfParsing(task[w], "FAILED")
    /\ GoTo(w, "release", "stopped")
    /\ UNCHANGED <<hb, owner, attempts, hprof, flock, orphans, scanVars, webVars>>

\* SIGTERM at any other await: the task, if any, stays as its row says.  A sweep
\* in progress is waited for: its thread outlives the coroutines.
Shutdown(w) ==
    /\ pc[w] \in {"idle", "check", "lock", "release", "stats"}
    /\ Spend("stop")
    /\ flock' = FreeFlock(w)
    /\ Drop(w, "down")
    /\ UNCHANGED <<rowVars, hprof, index, orphans, scanVars, webVars>>

Restart(w) ==
    /\ pc[w] = "down"
    /\ scan[w] = {} /\ cancelScan[w] = {}
    /\ Drop(w, "idle")
    /\ UNCHANGED <<rowVars, dumpVars, scanVars, webVars, left>>

OrphanExits(r) ==
    /\ orphans[r] > 0
    /\ orphans' = [orphans EXCEPT ![r] = @ - 1]
    /\ \E i \in IF hprof[r] THEN {"partial", "whole"} ELSE {index[r]} :
          index' = [index EXCEPT ![r] = i]
    /\ UNCHANGED <<rowVars, hprof, flock, procVars, scanVars, webVars, left>>

\* The heartbeat passes HEARTBEAT_TIMEOUT: nobody works on the row, or the one
\* who does is stalled.
HeartbeatExpires(r) ==
    /\ status[r] \in {"PARSING", "CANCEL_REQUESTED"}
    /\ hb[r] = "fresh"
    /\ hb' = [hb EXCEPT ![r] = "stale"]
    /\ IF \E w \in Workers : Works(w, r) THEN Spend("stall") ELSE UNCHANGED left
    /\ UNCHANGED <<status, owner, attempts, dumpVars, procVars, scanVars, webVars>>

-----------------------------------------------------------------------------
(* The watchdog: _sweep_once *)

\* SELECT the PARSING rows, keep those whose heartbeat is too old.
SweepParsing(w) ==
    /\ Alive(w)
    /\ scan[w] = {} /\ cancelScan[w] = {}
    /\ scan' = [scan EXCEPT ![w] =
          {[report |-> r, attempts |-> attempts[r]] :
              r \in {q \in Reports : status[q] = "PARSING" /\ hb[q] # "fresh"}}]
    /\ scan'[w] # {}
    /\ UNCHANGED <<rowVars, dumpVars, procVars, cancelScan, webVars, left>>

\* Mutant of ResetStale: no WHERE status = 'PARSING'.
ResetStale_Unguarded(w) ==
    \E s \in scan[w] :
        /\ scan' = [scan EXCEPT ![w] = @ \ {s}]
        /\ attempts' = [attempts EXCEPT ![s.report] = s.attempts + 1]
        /\ status' = [status EXCEPT ![s.report] =
                          IF s.attempts + 1 >= MaxAttempts THEN "FAILED" ELSE "QUEUED"]
        /\ UNCHANGED <<hb, owner, dumpVars, procVars, cancelScan, webVars, left>>

\* The UPDATE, with the attempts read by the SELECT.
ResetRow(r, n) ==
    /\ attempts' = [attempts EXCEPT ![r] = n + 1]
    /\ owner' = [owner EXCEPT ![r] = NoWorker]
    /\ IF n + 1 >= MaxAttempts
       THEN status' = [status EXCEPT ![r] = "FAILED"] /\ UNCHANGED hb
       ELSE status' = [status EXCEPT ![r] = "QUEUED"] /\ hb' = [hb EXCEPT ![r] = "none"]

\* WHERE status = 'PARSING'; the heartbeat is not looked at again.  If the sweep
\* fails it is rolled back.
ResetStale(w) ==
    \E s \in scan[w] :
        /\ scan' = [scan EXCEPT ![w] = @ \ {s}]
        /\ \/ status[s.report] = "PARSING" /\ ResetRow(s.report, s.attempts) /\ UNCHANGED left
           \/ status[s.report] # "PARSING" /\ UNCHANGED <<rowVars, left>>
           \/ Spend("db") /\ UNCHANGED rowVars
        /\ UNCHANGED <<dumpVars, procVars, cancelScan, webVars>>

\* Mutant of SweepCancelRequested: a watchdog that looks at PARSING rows only.
SweepCancelRequested_Never(w) ==
    /\ Alive(w) /\ FALSE
    /\ UNCHANGED vars

\* SELECT the CANCEL_REQUESTED rows, keep those without a recent heartbeat.
SweepCancelRequested(w) ==
    /\ Alive(w)
    /\ scan[w] = {} /\ cancelScan[w] = {}
    /\ cancelScan' = [cancelScan EXCEPT ![w] =
          {r \in Reports : status[r] = "CANCEL_REQUESTED" /\ hb[r] # "fresh"}]
    /\ cancelScan'[w] # {}
    /\ UNCHANGED <<rowVars, dumpVars, procVars, scan, webVars, left>>

\* The directory goes whether or not the UPDATE matched, and before the commit:
\* if the commit fails the row is still CANCEL_REQUESTED.
CancelStale(w) ==
    \E r \in cancelScan[w] :
        /\ cancelScan' = [cancelScan EXCEPT ![w] = @ \ {r}]
        /\ Rmtree(r)
        /\ \/ /\ status[r] = "CANCEL_REQUESTED"
              /\ status' = [status EXCEPT ![r] = "CANCELLED"]
              /\ owner' = [owner EXCEPT ![r] = NoWorker]
              /\ UNCHANGED left
           \/ status[r] # "CANCEL_REQUESTED" /\ UNCHANGED <<status, owner, left>>
           \/ Spend("db") /\ UNCHANGED <<status, owner>>
        /\ UNCHANGED <<hb, attempts, flock, orphans, procVars, scan, webVars>>

-----------------------------------------------------------------------------
(* The web process: complete_upload, cancel, delete *)

\* complete_upload ends: the hprof is in place, then the row is inserted.
AddReport(r) ==
    /\ status[r] = "new"
    /\ \A q \in Reports : q < r => status[q] # "new"
    /\ status' = [status EXCEPT ![r] = "QUEUED"]
    /\ hprof' = [hprof EXCEPT ![r] = TRUE]
    /\ UNCHANGED <<hb, owner, attempts, index, flock, orphans, procVars, scanVars, webVars, left>>

\* cancel_heapdump_report reads the status (409 unless QUEUED or PARSING) ...
CancelRead(r) ==
    /\ web[r] = "none"
    /\ status[r] \in {"QUEUED", "PARSING"}
    /\ Spend("cancel")
    /\ web' = [web EXCEPT ![r] = status[r]]
    /\ UNCHANGED <<rowVars, dumpVars, procVars, scanVars, rm>>

\* ... and writes what that status called for, unguarded.
CancelWrite(r) ==
    /\ web[r] # "none"
    /\ web' = [web EXCEPT ![r] = "none"]
    /\ IF Exists(r)
       THEN IF web[r] = "QUEUED"
            THEN /\ status' = [status EXCEPT ![r] = "CANCELLED"]
                 /\ rm' = [rm EXCEPT ![r] = TRUE]
            ELSE /\ status' = [status EXCEPT ![r] = "CANCEL_REQUESTED"]
                 /\ UNCHANGED rm
       ELSE UNCHANGED <<status, rm>>
    /\ UNCHANGED <<hb, owner, attempts, dumpVars, procVars, scanVars, left>>

\* delete_heapdump_report deletes one row, delete_session all of a session's.
DeleteReports(S) ==
    /\ S # {} /\ \A r \in S : Exists(r)
    /\ Spend("delete")
    /\ status' = [r \in Reports |-> IF r \in S THEN "gone" ELSE status[r]]
    /\ rm' = [r \in Reports |-> r \in S \/ rm[r]]
    /\ UNCHANGED <<hb, owner, attempts, dumpVars, procVars, scanVars, web>>

\* shutil.rmtree, after the commit, in the cancel and the delete routes.
RemoveDump(r) ==
    /\ rm[r]
    /\ rm' = [rm EXCEPT ![r] = FALSE]
    /\ Rmtree(r)
    /\ UNCHANGED <<rowVars, flock, orphans, procVars, scanVars, web, left>>

-----------------------------------------------------------------------------
ParseEnds(w) == MatSucceeds(w) \/ MatFails(w) \/ PumpCancel(w) \/ ParseTimeout(w) \/ ParserCrash(w)

WorkerStep(w) ==
    \/ ClaimNextTask(w) \/ CheckFiles(w) \/ CheckFails(w)
    \/ AcquireDumpLock(w) \/ DumpLockRefused(w) \/ ParseEnds(w)
    \/ ReleaseDumpLock(w) \/ FinishTerminalRead(w) \/ FinishTerminalWrite(w)
    \/ BackfillStats(w) \/ CommitDone(w)
WatchdogStep(w) ==
    SweepParsing(w) \/ ResetStale(w) \/ SweepCancelRequested(w) \/ CancelStale(w)
ProcessStep(w) == Crash(w) \/ ShutdownParse(w) \/ Shutdown(w) \/ Restart(w)
RequestStep(r) == AddReport(r) \/ CancelRead(r) \/ CancelWrite(r) \/ RemoveDump(r)

Next ==
    \/ \E w \in Workers : WorkerStep(w) \/ Heartbeat(w) \/ WatchdogStep(w) \/ ProcessStep(w)
    \/ \E r \in Reports : RequestStep(r) \/ OrphanExits(r) \/ HeartbeatExpires(r)
    \/ \E S \in SUBSET Reports : DeleteReports(S)

Spec == Init /\ [][Next]_vars

\* The coroutines run, supervised processes are restarted, a request that has
\* started is carried through, time passes.  Users and faults owe us nothing.
Fairness ==
    /\ \A w \in Workers : /\ WF_vars(WorkerStep(w))
                          /\ WF_vars(SweepParsing(w) \/ ResetStale(w))
                          /\ WF_vars(SweepCancelRequested(w) \/ CancelStale(w))
                          /\ WF_vars(Restart(w))
    /\ \A r \in Reports : /\ WF_vars(CancelWrite(r)) /\ WF_vars(RemoveDump(r))
                          /\ WF_vars(OrphanExits(r)) /\ WF_vars(HeartbeatExpires(r))

FairSpec == Spec /\ Fairness

-----------------------------------------------------------------------------
(* Properties *)

\* The statuses from which a report never comes back to life.
Disowned == {"CANCEL_REQUESTED", "CANCELLED", "FAILED", "gone"}

\* The directory of a report that waits, is parsed or is done is never removed,
\* whatever workers die, stall or lose writes and whoever cancels: the rmtree of
\* the routes and of the watchdog, which look at nothing, only ever hit reports
\* that no later write can bring back.
LiveRowsKeepDump ==
    \A r \in Reports : status[r] \in {"QUEUED", "PARSING", "DONE"} => hprof[r]

\* The flock of a dump directory admits one supervised MAT at a time, also when
\* the watchdog has handed a stalled worker's report to another one.
OneSupervisedMat ==
    \A v, w \in Workers :
        pc[v] = "parse" /\ pc[w] = "parse" /\ task[v] = task[w] => v = w

\* A report whose cancellation was accepted never turns DONE, and is never
\* queued or claimed again: the commit of the worker, the watchdog's reset and
\* the claim are guarded by the status.
CancelIsBinding ==
    [][\A r \in Reports : status[r] \in Disowned => status'[r] \in Disowned]_vars

\* A settled report leaves its final status only through a cancel request that
\* read the status while the report was being parsed and writes late.
OnlyLateCancelReopens ==
    [][\A r \in Reports :
          status[r] \in Terminal /\ status'[r] \notin Terminal \cup {"gone"}
            => web[r] = "PARSING" /\ web'[r] = "none"]_vars

\* A DONE report has its heap dump and a complete index to answer queries from.
DoneHasIndex ==
    \A r \in Reports : status[r] = "DONE" => hprof[r] /\ index[r] = "whole"

\* A worker commits a report as DONE only if the claim is still its own.
OnlyOwnerCompletes ==
    [][\A w \in Workers, r \in Reports :
          /\ pc[w] = "commit" /\ pc'[w] = "idle" /\ task[w] = r
          /\ status[r] = "PARSING" /\ status'[r] = "DONE"
          => owner[r] = w]_vars

\* A worker settles a report in PARSING only if the claim is still its own.
OnlyOwnerSettles ==
    [][\A w \in Workers, r \in Reports :
          /\ task[w] = r /\ pc'[w] # pc[w]
          /\ status[r] = "PARSING" /\ status'[r] \in Terminal
          => owner[r] = w]_vars

\* Every reset by the watchdog is counted: attempts bounds the number of times
\* a report can be parsed.
EveryRetryCounted ==
    [][\A r \in Reports :
          status[r] = "PARSING" /\ status'[r] = "QUEUED"
            => /\ attempts'[r] = attempts[r] + 1
               /\ attempts'[r] < MaxAttempts]_vars

\* The watchdog takes a report away only from a worker whose heartbeat is lost.
OnlyStaleIsReset ==
    [][\A r \in Reports :
          status[r] = "PARSING" /\ status'[r] = "QUEUED" => hb[r] # "fresh"]_vars

\* A report with attempts below the limit gets another try when its worker dies.
RetriedBelowLimit ==
    [][\A r \in Reports :
          /\ status[r] = "PARSING" /\ status'[r] # "PARSING"
          /\ \E w \in Workers : scan'[w] # scan[w] /\ Alive(w) /\ pc'[w] = pc[w]
          /\ attempts[r] < MaxAttempts
          => status'[r] = "QUEUED"]_vars

\* A settled report stays as it is until it is deleted.
TerminalIsFinal ==
    [][\A r \in Reports :
          status[r] \in Terminal => status'[r] \in {status[r], "gone"}]_vars

\* At most one MAT process, supervised or orphaned, writes a dump directory.
OneWriterPerDump ==
    \A r \in Reports :
        orphans[r] + Cardinality({w \in Workers : pc[w] = "parse" /\ task[w] = r}) <= 1

\* The watchdog does not remove index files a MAT process is still writing.
WatchdogSparesLiveMat ==
    [][\A w \in Workers, r \in Reports :
          pc[w] = "parse" /\ task[w] = r /\ index[r] # "none" /\ index'[r] = "none"
            => \A v \in Workers : cancelScan'[v] = cancelScan[v]]_vars

\* Every report is eventually settled: no crash, stall, lost write or cancel leaves
\* one spinning in the list for ever.
EveryReportSettles ==
    \A r \in Reports : Exists(r) ~> status[r] \in Terminal \cup {"gone"}

-----------------------------------------------------------------------------
(* The inductive invariant of the proofs *)

\* A worker between its claim and its last write has a report; what it carries to
\* _finish_terminal is never DONE.
BusyHasTask ==
    \A w \in Workers :
        /\ pc[w] \notin {"idle", "down"} => task[w] \in Reports
        /\ pc[w] \in {"settle", "write"} => outcome[w] \in {"FAILED", "CANCELLED"}

\* A supervised MAT runs under the flock of its worker.
ParsesUnderFlock == \A w \in Workers : pc[w] = "parse" => flock[task[w]] = w

\* Whatever is about to be removed belongs to a report that will not come back.
OnlyDisownedRemoved ==
    /\ \A r \in Reports : rm[r] => status[r] \in Disowned
    /\ \A w \in Workers : \A r \in cancelScan[w] : status[r] \in Disowned

\* The strengthening under which LiveRowsKeepDump and OneSupervisedMat are
\* preserved by every step.
IInv == TypeOK /\ BusyHasTask /\ ParsesUnderFlock /\ OnlyDisownedRemoved /\ LiveRowsKeepDump

-----------------------------------------------------------------------------
(* What the user of the report list is promised *)

Phase(s) == CASE s = "new" -> "absent"
              [] s \in {"QUEUED", "PARSING"} -> "live"
              [] s = "DONE" -> "done"
              [] OTHER -> "disowned"

Promise == INSTANCE ReportPromise WITH
               phase <- [r \in Reports |-> Phase(status[r])],
               dump  <- hprof

\* The row, its workers, its watchdogs and the routes together implement
\* ReportPromise, under every fault: a report is live, then done or disowned,
\* and only a disowned one loses its dump.
KeepsPromise == Promise!Spec

=============================================================================
