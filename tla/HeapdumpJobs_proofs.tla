-------------------------- MODULE HeapdumpJobs_proofs --------------------------
(***************************************************************************)
(* Proofs about HeapdumpJobs, for any number of workers and reports, any    *)
(* limit of attempts and any budget of faults and requests.                *)
(***************************************************************************)
EXTENDS HeapdumpJobs, TLAPS

USE DEF Reports, NoReport, Faults, Terminal, Statuses, Labels, Outcomes, Snapshots, Disowned

(* The initial state satisfies the inductive invariant. *)
LEMMA InitIInv == Init => IInv
  BY ConstantsAssumption
  DEF Init, IInv, TypeOK, BusyHasTask, ParsesUnderFlock, OnlyDisownedRemoved, LiveRowsKeepDump

-----------------------------------------------------------------------------
(* Types: first what the helpers preserve, then one step per action *)

(* Spending from the budget keeps it a budget. *)
LEMMA SpendType ==
  ASSUME TypeOK, NEW f \in Faults, Spend(f)
  PROVE  left' \in [Faults -> Nat]
  BY DEF TypeOK, Spend

(* An unguarded update, applied or lost, leaves statuses and budget well typed. *)
LEMMA UpdateFieldsType ==
  ASSUME TypeOK, NEW r \in Reports, NEW s \in Statuses, UpdateFields(r, s)
  PROVE  status' \in [Reports -> Statuses] /\ left' \in [Faults -> Nat]
<1>1. CASE Spend("db") /\ UNCHANGED status
  BY <1>1, SpendType DEF TypeOK
<1>2. CASE status' = (IF Exists(r) THEN [status EXCEPT ![r] = s] ELSE status) /\ UNCHANGED left
  BY <1>2 DEF TypeOK
<1> QED  BY <1>1, <1>2 DEF UpdateFields

(* So does an update guarded by PARSING. *)
LEMMA UpdateIfParsingType ==
  ASSUME TypeOK, NEW r \in Reports, NEW s \in Statuses, UpdateIfParsing(r, s)
  PROVE  status' \in [Reports -> Statuses] /\ left' \in [Faults -> Nat]
<1>1. CASE Spend("db") /\ UNCHANGED status
  BY <1>1, SpendType DEF TypeOK
<1>2. CASE status' = IfParsing(r, s) /\ UNCHANGED left
  BY <1>2 DEF TypeOK, IfParsing
<1> QED  BY <1>1, <1>2 DEF UpdateIfParsing

(* Moving a worker on, with or without its task. *)
LEMMA GoToType ==
  ASSUME TypeOK, NEW w \in Workers, NEW l \in Labels, NEW o \in Outcomes, GoTo(w, l, o)
  PROVE  /\ pc' \in [Workers -> Labels]
         /\ task' \in [Workers -> Reports \cup {NoReport}]
         /\ outcome' \in [Workers -> Outcomes]
  BY DEF TypeOK, GoTo

LEMMA DropType ==
  ASSUME TypeOK, NEW w \in Workers, NEW l \in Labels, Drop(w, l)
  PROVE  /\ pc' \in [Workers -> Labels]
         /\ task' \in [Workers -> Reports \cup {NoReport}]
         /\ outcome' \in [Workers -> Outcomes]
  BY DEF TypeOK, Drop

(* Removing index files, or all of a directory, or freeing a flock. *)
LEMMA DumpType ==
  ASSUME TypeOK, NEW r \in Reports
  PROVE  /\ CleanPartialIndexes(r) => index' \in [Reports -> {"none", "partial", "whole"}]
         /\ Rmtree(r) => /\ index' \in [Reports -> {"none", "partial", "whole"}]
                         /\ hprof' \in [Reports -> BOOLEAN]
  BY DEF TypeOK, CleanPartialIndexes, Rmtree

LEMMA FlockType ==
  ASSUME TypeOK, NEW w \in Workers
  PROVE  FreeFlock(w) \in [Reports -> Workers \cup {NoWorker}]
  BY DEF TypeOK, FreeFlock

(* Every step of the worker's coroutine preserves types. *)
LEMMA WorkerType ==
  ASSUME TypeOK, BusyHasTask, NEW w \in Workers, WorkerStep(w)
  PROVE  TypeOK'
<1> USE DEF rowVars, dumpVars, procVars, scanVars, webVars
<1>t. pc[w] \notin {"idle", "down"} => task[w] \in Reports
  BY DEF BusyHasTask
<1>1. CASE ClaimNextTask(w)
  <2>1. left' \in [Faults -> Nat]
    BY <1>1, SpendType DEF ClaimNextTask, TypeOK
  <2>2. pc' \in [Workers -> Labels] /\ task' \in [Workers -> Reports \cup {NoReport}]
    BY <1>1 DEF ClaimNextTask, TypeOK
  <2>3. status' \in [Reports -> Statuses] /\ hb' \in [Reports -> {"none", "fresh", "stale"}]
    BY <1>1 DEF ClaimNextTask, TypeOK
  <2>4. owner' \in [Reports -> Workers \cup {NoWorker}]
    BY <1>1 DEF ClaimNextTask, TypeOK
  <2>5. UNCHANGED <<attempts, hprof, index, flock, orphans, outcome, scan, cancelScan, web, rm>>
    BY <1>1 DEF ClaimNextTask
  <2> HIDE DEF Statuses, Labels, Faults
  <2> QED  BY <2>1, <2>2, <2>3, <2>4, <2>5 DEF TypeOK
<1>2. CASE CheckFiles(w)
  BY <1>2, GoToType DEF CheckFiles, TypeOK
<1>3. CASE CheckFails(w)
  BY <1>3, <1>t, UpdateFieldsType, DropType DEF CheckFails, TypeOK
<1>4. CASE AcquireDumpLock(w)
  <2>1. index' \in [Reports -> {"none", "partial", "whole"}]
    BY <1>4, <1>t DEF AcquireDumpLock, TypeOK
  <2>2. flock' \in [Reports -> Workers \cup {NoWorker}]
    BY <1>4, <1>t DEF AcquireDumpLock, TypeOK
  <2>3. /\ pc' \in [Workers -> Labels]
        /\ task' \in [Workers -> Reports \cup {NoReport}]
        /\ outcome' \in [Workers -> Outcomes]
    BY <1>4, GoToType DEF AcquireDumpLock
  <2> QED  BY <1>4, <2>1, <2>2, <2>3 DEF AcquireDumpLock, TypeOK
<1>5. CASE DumpLockRefused(w)
  BY <1>5, <1>t, UpdateFieldsType, DropType DEF DumpLockRefused, TypeOK
<1>6. CASE MatSucceeds(w)
  <2>1. index' \in [Reports -> {"none", "partial", "whole"}]
    BY <1>6, <1>t DEF MatSucceeds, TypeOK
  <2> QED  BY <1>6, <2>1, GoToType DEF MatSucceeds, TypeOK
<1>7. CASE MatFails(w)
  BY <1>7, <1>t, GoToType, DumpType DEF MatFails, TypeOK
<1>8. CASE PumpCancel(w)
  BY <1>8, <1>t, GoToType, DumpType DEF PumpCancel, TypeOK
<1>9. CASE ParseTimeout(w)
  BY <1>9, <1>t, GoToType, DumpType, UpdateIfParsingType DEF ParseTimeout, TypeOK
<1>10. CASE ParserCrash(w)
  BY <1>10, <1>t, GoToType, DumpType, UpdateFieldsType DEF ParserCrash, TypeOK
<1>11. CASE ReleaseDumpLock(w)
  <2>1. /\ pc' \in [Workers -> Labels]
        /\ task' \in [Workers -> Reports \cup {NoReport}]
        /\ outcome' \in [Workers -> Outcomes]
    BY <1>11, GoToType, DropType DEF ReleaseDumpLock
  <2> QED  BY <1>11, <2>1, <1>t, FlockType DEF ReleaseDumpLock, TypeOK
<1>12. CASE FinishTerminalRead(w)
  <2>1. /\ pc' \in [Workers -> Labels]
        /\ task' \in [Workers -> Reports \cup {NoReport}]
        /\ outcome' \in [Workers -> Outcomes]
    BY <1>12, GoToType, DropType DEF FinishTerminalRead, TypeOK
  <2>2. left' \in [Faults -> Nat]
    BY <1>12, SpendType DEF FinishTerminalRead, TypeOK
  <2> QED  BY <1>12, <2>1, <2>2 DEF FinishTerminalRead, TypeOK
<1>13. CASE FinishTerminalWrite(w)
  <2>1. outcome[w] \in Statuses
    BY <1>13 DEF FinishTerminalWrite, BusyHasTask
  <2> QED  BY <1>13, <2>1, <1>t, UpdateFieldsType, DropType DEF FinishTerminalWrite, TypeOK
<1>14. CASE BackfillStats(w)
  <2>1. outcome[w] \in Outcomes
    BY DEF TypeOK
  <2> QED  BY <1>14, <2>1, GoToType DEF BackfillStats, TypeOK
<1>15. CASE CommitDone(w)
  BY <1>15, <1>t, UpdateIfParsingType, DropType DEF CommitDone, TypeOK
<1> QED
  BY <1>1, <1>2, <1>3, <1>4, <1>5, <1>6, <1>7, <1>8, <1>9, <1>10, <1>11, <1>12, <1>13,
     <1>14, <1>15 DEF WorkerStep, ParseEnds

(* Every step of a watchdog preserves types. *)
LEMMA WatchdogType ==
  ASSUME TypeOK, NEW w \in Workers, WatchdogStep(w)
  PROVE  TypeOK'
<1> USE DEF rowVars, dumpVars, procVars, scanVars, webVars
<1>1. CASE SweepParsing(w)
  <2>1. {[report |-> r, attempts |-> attempts[r]] :
           r \in {q \in Reports : status[q] = "PARSING" /\ hb[q] # "fresh"}} \subseteq Snapshots
    BY DEF TypeOK
  <2> QED  BY <1>1, <2>1 DEF SweepParsing, TypeOK
<1>2. CASE ResetStale(w)
  <2>1. PICK s \in scan[w] :
          /\ scan' = [scan EXCEPT ![w] = @ \ {s}]
          /\ \/ status[s.report] = "PARSING" /\ ResetRow(s.report, s.attempts) /\ UNCHANGED left
             \/ UNCHANGED <<rowVars, left>>
             \/ Spend("db") /\ UNCHANGED rowVars
          /\ UNCHANGED <<dumpVars, procVars, cancelScan, webVars>>
    BY <1>2 DEF ResetStale
  <2>2. s.report \in Reports /\ s.attempts \in Nat
    BY DEF TypeOK
  <2>3. scan' \in [Workers -> SUBSET Snapshots]
    BY <2>1 DEF TypeOK
  <2>4. UNCHANGED <<hprof, index, flock, orphans, pc, task, outcome, cancelScan, web, rm>>
    BY <2>1
  <2>5. left' \in [Faults -> Nat]
    BY <2>1, SpendType DEF TypeOK
  <2>6. CASE ResetRow(s.report, s.attempts)
    <3>1. /\ attempts' \in [Reports -> Nat]
          /\ owner' \in [Reports -> Workers \cup {NoWorker}]
      BY <2>2, <2>6 DEF ResetRow, TypeOK
    <3>2. status' \in [Reports -> Statuses] /\ hb' \in [Reports -> {"none", "fresh", "stale"}]
      BY <2>2, <2>6 DEF ResetRow, TypeOK
    <3> HIDE DEF Statuses
    <3> QED  BY <3>1, <3>2, <2>3, <2>4, <2>5 DEF TypeOK
  <2>7. CASE UNCHANGED <<status, hb, owner, attempts>>
    BY <2>7, <2>3, <2>4, <2>5 DEF TypeOK
  <2> QED  BY <2>1, <2>6, <2>7
<1>3. CASE SweepCancelRequested(w)
  BY <1>3 DEF SweepCancelRequested, TypeOK
<1>4. CASE CancelStale(w)
  <2> PICK r \in cancelScan[w] :
        /\ cancelScan' = [cancelScan EXCEPT ![w] = @ \ {r}]
        /\ Rmtree(r)
        /\ \/ /\ status[r] = "CANCEL_REQUESTED"
              /\ status' = [status EXCEPT ![r] = "CANCELLED"]
              /\ owner' = [owner EXCEPT ![r] = NoWorker]
              /\ UNCHANGED left
           \/ status[r] # "CANCEL_REQUESTED" /\ UNCHANGED <<status, owner, left>>
           \/ Spend("db") /\ UNCHANGED <<status, owner>>
        /\ UNCHANGED <<hb, attempts, flock, orphans, procVars, scan, webVars>>
    BY <1>4 DEF CancelStale
  <2>1. r \in Reports
    BY DEF TypeOK
  <2>2. left' \in [Faults -> Nat]
    BY SpendType DEF TypeOK
  <2>3. status' \in [Reports -> Statuses] /\ owner' \in [Reports -> Workers \cup {NoWorker}]
    BY <2>1 DEF TypeOK
  <2> QED  BY <2>1, <2>2, <2>3, DumpType DEF TypeOK
<1> QED  BY <1>1, <1>2, <1>3, <1>4 DEF WatchdogStep

(* So do heartbeats, and processes that die, stop and come back. *)
LEMMA ProcessType ==
  ASSUME TypeOK, BusyHasTask, NEW w \in Workers, ProcessStep(w) \/ Heartbeat(w)
  PROVE  TypeOK'
<1> USE DEF rowVars, dumpVars, procVars, scanVars, webVars
<1>t. pc[w] \notin {"idle", "down"} => task[w] \in Reports
  BY DEF BusyHasTask
<1>1. CASE Crash(w)
  <2>1. orphans' \in [Reports -> Nat]
    BY <1>1, <1>t DEF Crash, TypeOK
  <2>2. FreeFlock(w) \in [Reports -> Workers \cup {NoWorker}]
    BY DEF FreeFlock, TypeOK
  <2> QED  BY <1>1, <2>1, <2>2, SpendType, DropType DEF Crash, TypeOK
<1>2. CASE ShutdownParse(w)
  BY <1>2, <1>t, SpendType, GoToType, DumpType DEF ShutdownParse, TypeOK, IfParsing
<1>3. CASE Shutdown(w)
  <2>1. FreeFlock(w) \in [Reports -> Workers \cup {NoWorker}]
    BY DEF FreeFlock, TypeOK
  <2> QED  BY <1>3, <2>1, SpendType, DropType DEF Shutdown, TypeOK
<1>4. CASE Restart(w)
  BY <1>4, DropType DEF Restart, TypeOK
<1>5. CASE Heartbeat(w)
  BY <1>5, <1>t DEF Heartbeat, TypeOK
<1> QED  BY <1>1, <1>2, <1>3, <1>4, <1>5 DEF ProcessStep

(* And the web routes, orphans and the passing of time. *)
LEMMA RequestType ==
  ASSUME TypeOK, NEW r \in Reports, RequestStep(r) \/ OrphanExits(r) \/ HeartbeatExpires(r)
  PROVE  TypeOK'
<1> USE DEF rowVars, dumpVars, procVars, scanVars, webVars
<1>1. CASE AddReport(r)
  BY <1>1 DEF AddReport, TypeOK
<1>2. CASE CancelRead(r)
  BY <1>2, SpendType DEF CancelRead, TypeOK
<1>3. CASE CancelWrite(r)
  BY <1>3 DEF CancelWrite, TypeOK
<1>4. CASE RemoveDump(r)
  BY <1>4, DumpType DEF RemoveDump, TypeOK
<1>5. CASE OrphanExits(r)
  <2>1. index' \in [Reports -> {"none", "partial", "whole"}]
    BY <1>5 DEF OrphanExits, TypeOK
  <2>2. orphans' \in [Reports -> Nat]
    BY <1>5 DEF OrphanExits, TypeOK
  <2> QED  BY <1>5, <2>1, <2>2 DEF OrphanExits, TypeOK
<1>6. CASE HeartbeatExpires(r)
  <2>1. left' \in [Faults -> Nat]
    BY <1>6, SpendType DEF HeartbeatExpires, TypeOK
  <2> QED  BY <1>6, <2>1 DEF HeartbeatExpires, TypeOK
<1> QED  BY <1>1, <1>2, <1>3, <1>4, <1>5, <1>6 DEF RequestStep

LEMMA DeleteType ==
  ASSUME TypeOK, NEW S \in SUBSET Reports, DeleteReports(S)
  PROVE  TypeOK'
  BY SpendType DEF DeleteReports, TypeOK, rowVars, dumpVars, procVars, scanVars, webVars

LEMMA NextType == TypeOK /\ BusyHasTask /\ [Next]_vars => TypeOK'
<1> SUFFICES ASSUME TypeOK, BusyHasTask, [Next]_vars  PROVE TypeOK'
  OBVIOUS
<1>1. CASE Next
  BY <1>1, WorkerType, WatchdogType, ProcessType, RequestType, DeleteType DEF Next
<1>2. CASE UNCHANGED vars
  BY <1>2 DEF vars, rowVars, dumpVars, procVars, scanVars, webVars, TypeOK
<1> QED  BY <1>1, <1>2

-----------------------------------------------------------------------------
(* Control: a busy worker has a task, a parsing one holds the flock *)

(* Moving on to a label that asks for no more than the old one gave. *)
LEMMA GoToBusy ==
  ASSUME TypeOK, BusyHasTask, ParsesUnderFlock,
         NEW w \in Workers, NEW l \in Labels, NEW o \in Outcomes, GoTo(w, l, o),
         task[w] \in Reports, l # "parse",
         l \in {"settle", "write"} => o \in {"FAILED", "CANCELLED"},
         flock' = flock \/ flock' = FreeFlock(w)
  PROVE  BusyHasTask' /\ ParsesUnderFlock'
<1>1. /\ pc'[w] = l /\ outcome'[w] = o /\ task' = task
      /\ \A v \in Workers \ {w} : pc'[v] = pc[v] /\ outcome'[v] = outcome[v]
  BY DEF GoTo, TypeOK
<1>2. BusyHasTask'
  BY <1>1 DEF BusyHasTask
<1>3. \A v \in Workers \ {w} : pc[v] = "parse" => flock'[task[v]] = v
  BY DEF BusyHasTask, ParsesUnderFlock, FreeFlock
<1> QED  BY <1>1, <1>2, <1>3 DEF ParsesUnderFlock

(* Dropping the task. *)
LEMMA DropBusy ==
  ASSUME TypeOK, BusyHasTask, ParsesUnderFlock,
         NEW w \in Workers, NEW l \in {"idle", "down"}, Drop(w, l),
         flock' = flock \/ flock' = FreeFlock(w)
  PROVE  BusyHasTask' /\ ParsesUnderFlock'
<1>1. /\ pc'[w] = l
      /\ \A v \in Workers \ {w} : /\ pc'[v] = pc[v] /\ outcome'[v] = outcome[v]
                                 /\ task'[v] = task[v]
  BY DEF Drop, TypeOK
<1>2. BusyHasTask'
  BY <1>1 DEF BusyHasTask
<1>3. \A v \in Workers \ {w} : pc[v] = "parse" => flock'[task[v]] = v
  BY DEF BusyHasTask, ParsesUnderFlock, FreeFlock
<1> QED  BY <1>1, <1>2, <1>3 DEF ParsesUnderFlock

LEMMA WorkerControl ==
  ASSUME TypeOK, BusyHasTask, ParsesUnderFlock, NEW w \in Workers, WorkerStep(w)
  PROVE  BusyHasTask' /\ ParsesUnderFlock'
<1> USE DEF rowVars, dumpVars, procVars, scanVars, webVars
<1>t. pc[w] \notin {"idle", "down"} => task[w] \in Reports
  BY DEF BusyHasTask
<1>1. CASE ClaimNextTask(w)
  <2>1. /\ pc'[w] = "idle" \/ (pc'[w] = "check" /\ task'[w] \in Reports)
        /\ \A v \in Workers \ {w} : pc'[v] = pc[v] /\ task'[v] = task[v]
    <3>1. PICK r \in Reports :
            \/ pc' = [pc EXCEPT ![w] = "check"] /\ task' = [task EXCEPT ![w] = r]
            \/ UNCHANGED <<pc, task>>
      BY <1>1 DEF ClaimNextTask
    <3>2. pc[w] = "idle"
      BY <1>1 DEF ClaimNextTask
    <3>3. CASE pc' = [pc EXCEPT ![w] = "check"] /\ task' = [task EXCEPT ![w] = r]
      BY <3>3 DEF TypeOK
    <3>4. CASE UNCHANGED <<pc, task>>
      BY <3>2, <3>4
    <3> QED  BY <3>1, <3>3, <3>4
  <2>2. flock' = flock /\ outcome' = outcome
    BY <1>1 DEF ClaimNextTask
  <2> QED  BY <2>1, <2>2 DEF BusyHasTask, ParsesUnderFlock
<1>2. CASE CheckFiles(w)
  BY <1>2, <1>t, GoToBusy DEF CheckFiles
<1>3. CASE CheckFails(w)
  BY <1>3, DropBusy DEF CheckFails
<1>4. CASE AcquireDumpLock(w)
  <2>1. /\ pc'[w] = "parse" /\ outcome'[w] = "none" /\ task' = task /\ task[w] \in Reports
        /\ \A v \in Workers \ {w} : pc'[v] = pc[v] /\ outcome'[v] = outcome[v]
    BY <1>4, <1>t DEF AcquireDumpLock, GoTo, TypeOK
  <2>2. flock'[task[w]] = w
    BY <1>4, <2>1 DEF AcquireDumpLock, TypeOK
  <2>3. ASSUME NEW v \in Workers \ {w}, pc[v] = "parse"  PROVE flock'[task[v]] = v
    <3>1. flock[task[v]] = v /\ task[v] \in Reports
      BY <2>3 DEF ParsesUnderFlock, BusyHasTask
    <3>2. task[v] # task[w]
      BY <3>1, <1>4, ConstantsAssumption DEF AcquireDumpLock
    <3> QED  BY <3>1, <3>2, <2>1, <1>4 DEF AcquireDumpLock, TypeOK
  <2> QED  BY <2>1, <2>2, <2>3 DEF BusyHasTask, ParsesUnderFlock
<1>5. CASE DumpLockRefused(w)
  BY <1>5, DropBusy DEF DumpLockRefused
<1>6. CASE MatSucceeds(w)
  BY <1>6, <1>t, GoToBusy DEF MatSucceeds
<1>7. CASE MatFails(w)
  BY <1>7, <1>t, GoToBusy DEF MatFails
<1>8. CASE PumpCancel(w)
  BY <1>8, <1>t, GoToBusy DEF PumpCancel
<1>9. CASE ParseTimeout(w)
  BY <1>9, <1>t, GoToBusy DEF ParseTimeout
<1>10. CASE ParserCrash(w)
  BY <1>10, <1>t, GoToBusy DEF ParserCrash
<1>11. CASE ReleaseDumpLock(w)
  BY <1>11, <1>t, GoToBusy, DropBusy DEF ReleaseDumpLock
<1>12. CASE FinishTerminalRead(w)
  <2>1. outcome[w] \in {"FAILED", "CANCELLED"}
    BY <1>12 DEF FinishTerminalRead, BusyHasTask
  <2> QED  BY <1>12, <2>1, <1>t, GoToBusy, DropBusy DEF FinishTerminalRead
<1>13. CASE FinishTerminalWrite(w)
  BY <1>13, DropBusy DEF FinishTerminalWrite
<1>14. CASE BackfillStats(w)
  <2>1. outcome[w] \in Outcomes
    BY DEF TypeOK
  <2> QED  BY <1>14, <2>1, <1>t, GoToBusy DEF BackfillStats
<1>15. CASE CommitDone(w)
  BY <1>15, DropBusy DEF CommitDone
<1> QED
  BY <1>1, <1>2, <1>3, <1>4, <1>5, <1>6, <1>7, <1>8, <1>9, <1>10, <1>11, <1>12, <1>13,
     <1>14, <1>15 DEF WorkerStep, ParseEnds

LEMMA ProcessControl ==
  ASSUME TypeOK, BusyHasTask, ParsesUnderFlock, NEW w \in Workers, ProcessStep(w)
  PROVE  BusyHasTask' /\ ParsesUnderFlock'
<1> USE DEF rowVars, dumpVars, procVars, scanVars, webVars
<1>1. CASE Crash(w)
  BY <1>1, DropBusy DEF Crash
<1>2. CASE ShutdownParse(w)
  <2>1. task[w] \in Reports
    BY <1>2 DEF ShutdownParse, BusyHasTask
  <2> QED  BY <1>2, <2>1, GoToBusy DEF ShutdownParse
<1>3. CASE Shutdown(w)
  BY <1>3, DropBusy DEF Shutdown
<1>4. CASE Restart(w)
  BY <1>4, DropBusy DEF Restart
<1> QED  BY <1>1, <1>2, <1>3, <1>4 DEF ProcessStep

(* No other step touches a worker or a flock. *)
LEMMA OtherControl ==
  /\ \A w \in Workers :
        Heartbeat(w) \/ WatchdogStep(w) => UNCHANGED <<pc, task, outcome, flock>>
  /\ \A r \in Reports :
        RequestStep(r) \/ OrphanExits(r) \/ HeartbeatExpires(r)
          => UNCHANGED <<pc, task, outcome, flock>>
  /\ \A S \in SUBSET Reports : DeleteReports(S) => UNCHANGED <<pc, task, outcome, flock>>
<1> USE DEF rowVars, dumpVars, procVars, scanVars, webVars
<1>1. ASSUME NEW w \in Workers, Heartbeat(w) \/ WatchdogStep(w)
      PROVE  UNCHANGED <<pc, task, outcome, flock>>
  BY <1>1 DEF Heartbeat, WatchdogStep, SweepParsing, ResetStale, SweepCancelRequested, CancelStale
<1>2. ASSUME NEW r \in Reports, RequestStep(r) \/ OrphanExits(r) \/ HeartbeatExpires(r)
      PROVE  UNCHANGED <<pc, task, outcome, flock>>
  BY <1>2 DEF RequestStep, AddReport, CancelRead, CancelWrite, RemoveDump, OrphanExits,
              HeartbeatExpires
<1>3. ASSUME NEW S \in SUBSET Reports, DeleteReports(S)
      PROVE  UNCHANGED <<pc, task, outcome, flock>>
  BY <1>3 DEF DeleteReports
<1> QED  BY <1>1, <1>2, <1>3

LEMMA NextControl ==
  TypeOK /\ BusyHasTask /\ ParsesUnderFlock /\ [Next]_vars => BusyHasTask' /\ ParsesUnderFlock'
<1> SUFFICES ASSUME TypeOK, BusyHasTask, ParsesUnderFlock, [Next]_vars
             PROVE  BusyHasTask' /\ ParsesUnderFlock'
  OBVIOUS
<1>1. ASSUME UNCHANGED <<pc, task, outcome, flock>>  PROVE BusyHasTask' /\ ParsesUnderFlock'
  BY <1>1 DEF BusyHasTask, ParsesUnderFlock
<1>2. CASE Next
  BY <1>1, <1>2, WorkerControl, ProcessControl, OtherControl DEF Next
<1>3. CASE UNCHANGED vars
  BY <1>1, <1>3 DEF vars, procVars, dumpVars
<1> QED  BY <1>2, <1>3

-----------------------------------------------------------------------------
(* Rows: how a step may move a status, and what becomes of the dump *)

Live == {"QUEUED", "PARSING", "DONE"}

\* The moves of a status: none, to a final one but DONE, to CANCEL_REQUESTED by
\* the late write of a cancel, on within the live ones, or into being, dump included.
Moved(q) ==
  \/ status'[q] = status[q]
  \/ /\ status[q] \notin {"new", "gone"}
     /\ \/ status'[q] \in {"FAILED", "CANCELLED", "gone"}
        \/ status'[q] = "CANCEL_REQUESTED" /\ web[q] = "PARSING" /\ web'[q] = "none"
  \/ status[q] \in {"QUEUED", "PARSING"} /\ status'[q] \in Live
  \/ status[q] = "new" /\ status'[q] = "QUEUED" /\ hprof'[q]

\* Only what is disowned, or not yet there, has its dump touched.
Spared(q) ==
  \/ hprof'[q] = hprof[q]
  \/ status[q] \in Disowned /\ ~hprof'[q]
  \/ status[q] = "new" /\ status'[q] = "QUEUED" /\ hprof'[q]

(* The worker's two kinds of update, applied or lost. *)
LEMMA UpdateFieldsMoves ==
  ASSUME TypeOK, NEW r \in Reports, NEW s \in {"FAILED", "CANCELLED"}, UpdateFields(r, s)
  PROVE  \A q \in Reports : Moved(q)
  BY DEF TypeOK, UpdateFields, Exists, Spend, Moved

LEMMA UpdateIfParsingMoves ==
  ASSUME TypeOK, NEW r \in Reports, NEW s \in {"FAILED", "DONE"}, UpdateIfParsing(r, s)
  PROVE  \A q \in Reports : Moved(q)
<1>1. UNCHANGED status \/ status' = IfParsing(r, s)
  BY DEF UpdateIfParsing
<1> QED  BY <1>1 DEF TypeOK, IfParsing, Moved, Live

LEMMA WorkerMoves ==
  ASSUME TypeOK, BusyHasTask, NEW w \in Workers, WorkerStep(w)
  PROVE  \A q \in Reports : Moved(q) /\ Spared(q)
<1> USE DEF rowVars, dumpVars, procVars, scanVars, webVars
<1>t. pc[w] \notin {"idle", "down"} => task[w] \in Reports
  BY DEF BusyHasTask
<1>h. hprof' = hprof
  BY DEF WorkerStep, ParseEnds, ClaimNextTask, CheckFiles, CheckFails, AcquireDumpLock,
         DumpLockRefused, MatSucceeds, MatFails, PumpCancel, ParseTimeout, ParserCrash,
         ReleaseDumpLock, FinishTerminalRead, FinishTerminalWrite, BackfillStats, CommitDone
<1>1. CASE ClaimNextTask(w)
  <2>1. \A q \in Reports : Moved(q)
    BY <1>1 DEF ClaimNextTask, TypeOK, Moved, Live
  <2> QED  BY <2>1, <1>h DEF Spared
<1>2. CASE UNCHANGED status
  BY <1>2, <1>h DEF Moved, Spared
<1>3. CASE CheckFails(w)
  BY <1>3, <1>t, <1>h, UpdateFieldsMoves DEF CheckFails, Spared
<1>4. CASE DumpLockRefused(w)
  BY <1>4, <1>t, <1>h, UpdateFieldsMoves DEF DumpLockRefused, Spared
<1>5. CASE ParseTimeout(w)
  BY <1>5, <1>t, <1>h, UpdateIfParsingMoves DEF ParseTimeout, Spared
<1>6. CASE ParserCrash(w)
  BY <1>6, <1>t, <1>h, UpdateFieldsMoves DEF ParserCrash, Spared
<1>7. CASE FinishTerminalWrite(w)
  <2>1. outcome[w] \in {"FAILED", "CANCELLED"}
    BY <1>7 DEF FinishTerminalWrite, BusyHasTask
  <2> QED  BY <1>7, <2>1, <1>t, <1>h, UpdateFieldsMoves DEF FinishTerminalWrite, Spared
<1>8. CASE CommitDone(w)
  BY <1>8, <1>t, <1>h, UpdateIfParsingMoves DEF CommitDone, Spared
<1> QED
  BY <1>1, <1>2, <1>3, <1>4, <1>5, <1>6, <1>7, <1>8
  DEF WorkerStep, ParseEnds, CheckFiles, AcquireDumpLock, MatSucceeds, MatFails, PumpCancel,
      ReleaseDumpLock, FinishTerminalRead, BackfillStats

LEMMA WatchdogMoves ==
  ASSUME TypeOK, OnlyDisownedRemoved, NEW w \in Workers, WatchdogStep(w)
  PROVE  \A q \in Reports : Moved(q) /\ Spared(q)
<1> USE DEF rowVars, dumpVars, procVars, scanVars, webVars
<1>1. CASE SweepParsing(w) \/ SweepCancelRequested(w)
  BY <1>1 DEF SweepParsing, SweepCancelRequested, Moved, Spared
<1>2. CASE ResetStale(w)
  <2>1. hprof' = hprof
    BY <1>2 DEF ResetStale
  <2>2. \E q \in Reports :
           \/ status[q] = "PARSING" /\ \E t \in {"FAILED", "QUEUED"} :
                                         status' = [status EXCEPT ![q] = t]
           \/ UNCHANGED status
    <3>1. PICK s \in scan[w] :
            \/ status[s.report] = "PARSING" /\ ResetRow(s.report, s.attempts)
            \/ UNCHANGED status
      BY <1>2 DEF ResetStale
    <3>2. s.report \in Reports
      BY DEF TypeOK
    <3> QED  BY <3>1, <3>2 DEF ResetRow
  <2> QED  BY <2>1, <2>2 DEF TypeOK, Moved, Spared, Live
<1>3. CASE CancelStale(w)
  <2>1. PICK r \in cancelScan[w] :
          /\ Rmtree(r)
          /\ \/ status[r] = "CANCEL_REQUESTED" /\ status' = [status EXCEPT ![r] = "CANCELLED"]
             \/ UNCHANGED status
    BY <1>3 DEF CancelStale
  <2>2. r \in Reports /\ status[r] \in Disowned
    BY DEF TypeOK, OnlyDisownedRemoved
  <2>3. \A q \in Reports : Moved(q)
    BY <2>1, <2>2 DEF TypeOK, Moved
  <2>4. \A q \in Reports : Spared(q)
    BY <2>1, <2>2 DEF TypeOK, Spared, Rmtree
  <2> QED  BY <2>3, <2>4
<1> QED  BY <1>1, <1>2, <1>3 DEF WatchdogStep

LEMMA ProcessMoves ==
  ASSUME TypeOK, BusyHasTask, NEW w \in Workers, ProcessStep(w) \/ Heartbeat(w)
  PROVE  \A q \in Reports : Moved(q) /\ Spared(q)
<1> USE DEF rowVars, dumpVars, procVars, scanVars, webVars
<1>1. CASE ShutdownParse(w)
  <2>1. task[w] \in Reports
    BY <1>1 DEF BusyHasTask, ShutdownParse
  <2> QED  BY <1>1, <2>1 DEF ShutdownParse, IfParsing, TypeOK, Moved, Spared
<1>2. CASE UNCHANGED status /\ UNCHANGED hprof
  BY <1>2 DEF Moved, Spared
<1> QED  BY <1>1, <1>2 DEF ProcessStep, Crash, Shutdown, Restart, Heartbeat

LEMMA RequestMoves ==
  ASSUME TypeOK, OnlyDisownedRemoved, NEW r \in Reports,
         RequestStep(r) \/ OrphanExits(r) \/ HeartbeatExpires(r)
  PROVE  \A q \in Reports : Moved(q) /\ Spared(q)
<1> USE DEF rowVars, dumpVars, procVars, scanVars, webVars
<1>1. CASE AddReport(r)
  BY <1>1 DEF AddReport, TypeOK, Moved, Spared
<1>2. CASE CancelWrite(r)
  <2>1. web[r] = "QUEUED" \/ (web[r] = "PARSING" /\ web'[r] = "none")
    BY <1>2 DEF CancelWrite, TypeOK
  <2>2. \/ status' = status
        \/ /\ Exists(r)
           /\ \/ status' = [status EXCEPT ![r] = "CANCELLED"]
              \/ web[r] = "PARSING" /\ status' = [status EXCEPT ![r] = "CANCEL_REQUESTED"]
    BY <1>2, <2>1 DEF CancelWrite
  <2>3. hprof' = hprof
    BY <1>2 DEF CancelWrite
  <2>4. \A q \in Reports : Moved(q)
    BY <2>1, <2>2 DEF Exists, TypeOK, Moved
  <2> QED  BY <2>3, <2>4 DEF Spared
<1>3. CASE RemoveDump(r)
  <2>1. status[r] \in Disowned
    BY <1>3 DEF RemoveDump, OnlyDisownedRemoved
  <2> QED  BY <1>3, <2>1 DEF RemoveDump, Rmtree, TypeOK, Moved, Spared
<1>4. CASE UNCHANGED status /\ UNCHANGED hprof
  BY <1>4 DEF Moved, Spared
<1> QED  BY <1>1, <1>2, <1>3, <1>4 DEF RequestStep, CancelRead, OrphanExits, HeartbeatExpires

LEMMA DeleteMoves ==
  ASSUME TypeOK, NEW S \in SUBSET Reports, DeleteReports(S)
  PROVE  \A q \in Reports : Moved(q) /\ Spared(q)
  BY DEF DeleteReports, Exists, TypeOK, Moved, Spared, dumpVars

(* Every step moves every row so. *)
LEMMA NextMoves ==
  ASSUME IInv, [Next]_vars
  PROVE  \A q \in Reports : Moved(q) /\ Spared(q)
<1>1. CASE Next
  BY <1>1, WorkerMoves, WatchdogMoves, ProcessMoves, RequestMoves, DeleteMoves DEF Next, IInv
<1>2. CASE UNCHANGED vars
  BY <1>2 DEF vars, rowVars, dumpVars, Moved, Spared
<1> QED  BY <1>1, <1>2

-----------------------------------------------------------------------------
(* The inductive invariant *)

(* What is marked for removal is disowned when it is marked. *)
LEMMA RemovalsGrow ==
  ASSUME TypeOK, [Next]_vars
  PROVE  /\ \A r \in Reports : rm'[r] => rm[r] \/ status'[r] \in Disowned
         /\ \A w \in Workers : \A r \in cancelScan'[w] :
               r \in cancelScan[w] \/ status[r] \in Disowned
<1> USE DEF rowVars, dumpVars, procVars, scanVars, webVars
<1>1. ASSUME UNCHANGED <<rm, cancelScan>>
      PROVE  /\ \A r \in Reports : rm'[r] => rm[r] \/ status'[r] \in Disowned
             /\ \A w \in Workers : \A r \in cancelScan'[w] :
                   r \in cancelScan[w] \/ status[r] \in Disowned
  BY <1>1
<1>2. CASE UNCHANGED vars
  BY <1>1, <1>2 DEF vars
<1>3. ASSUME NEW w \in Workers, WorkerStep(w) \/ Heartbeat(w) \/ ShutdownParse(w) \/ Shutdown(w)
                               \/ Restart(w) \/ SweepParsing(w) \/ ResetStale(w)
      PROVE  UNCHANGED <<rm, cancelScan>>
  <2>1. CASE WorkerStep(w)
    BY <2>1 DEF WorkerStep, ParseEnds, ClaimNextTask, CheckFiles, CheckFails, AcquireDumpLock,
           DumpLockRefused, MatSucceeds, MatFails, PumpCancel, ParseTimeout, ParserCrash,
           ReleaseDumpLock, FinishTerminalRead, FinishTerminalWrite, BackfillStats, CommitDone
  <2>2. CASE Heartbeat(w) \/ ShutdownParse(w) \/ Shutdown(w) \/ Restart(w)
    BY <2>2 DEF Heartbeat, ShutdownParse, Shutdown, Restart
  <2>3. CASE SweepParsing(w) \/ ResetStale(w)
    BY <2>3 DEF SweepParsing, ResetStale
  <2> QED  BY <1>3, <2>1, <2>2, <2>3
<1>4. ASSUME NEW w \in Workers, Crash(w) \/ SweepCancelRequested(w) \/ CancelStale(w)
      PROVE  /\ rm' = rm
             /\ \A v \in Workers : \A r \in cancelScan'[v] :
                   r \in cancelScan[v] \/ status[r] \in Disowned
  BY <1>4 DEF TypeOK, Crash, SweepCancelRequested, CancelStale
<1>5. ASSUME NEW r \in Reports, RequestStep(r) \/ OrphanExits(r) \/ HeartbeatExpires(r)
      PROVE  /\ cancelScan' = cancelScan
             /\ \A q \in Reports : rm'[q] => rm[q] \/ status'[q] \in Disowned
  <2>1. CASE CancelWrite(r)
    <3>1. cancelScan' = cancelScan
      BY <2>1 DEF CancelWrite
    <3>2. CASE /\ rm' = [rm EXCEPT ![r] = TRUE]
               /\ status' = [status EXCEPT ![r] = "CANCELLED"]
      BY <3>1, <3>2 DEF TypeOK
    <3>3. CASE rm' = rm
      BY <3>1, <3>3
    <3>4. CASE Exists(r) /\ web[r] = "QUEUED"
      BY <2>1, <3>2, <3>4 DEF CancelWrite
    <3>5. CASE ~(Exists(r) /\ web[r] = "QUEUED")
      BY <2>1, <3>3, <3>5 DEF CancelWrite
    <3> QED  BY <3>4, <3>5
  <2>2. CASE RemoveDump(r)
    BY <2>2 DEF RemoveDump, TypeOK
  <2>3. CASE UNCHANGED <<rm, cancelScan>>
    BY <2>3
  <2> QED  BY <1>5, <2>1, <2>2, <2>3 DEF RequestStep, AddReport, CancelRead, OrphanExits,
                                       HeartbeatExpires
<1>6. ASSUME NEW S \in SUBSET Reports, DeleteReports(S)
      PROVE  /\ cancelScan' = cancelScan
             /\ \A q \in Reports : rm'[q] => rm[q] \/ status'[q] \in Disowned
  BY <1>6 DEF TypeOK, DeleteReports
<1>7. CASE Next
  BY <1>1, <1>3, <1>4, <1>5, <1>6, <1>7 DEF Next, WatchdogStep, ProcessStep
<1> QED  BY <1>2, <1>7

(* Disowned is for good. *)
LEMMA DisownedForGood ==
  ASSUME IInv, [Next]_vars
  PROVE  \A r \in Reports : status[r] \in Disowned => status'[r] \in Disowned
  BY NextMoves DEF Moved

(* IInv is inductive. *)
LEMMA NextIInv == IInv /\ [Next]_vars => IInv'
<1> SUFFICES ASSUME IInv, [Next]_vars  PROVE IInv'
  OBVIOUS
<1>1. TypeOK' /\ BusyHasTask' /\ ParsesUnderFlock'
  BY NextType, NextControl DEF IInv
<1>2. OnlyDisownedRemoved'
  <2>1. \A w \in Workers : cancelScan'[w] \subseteq Reports
    BY <1>1 DEF TypeOK
  <2> QED  BY <2>1, RemovalsGrow, DisownedForGood DEF IInv, OnlyDisownedRemoved
<1>3. LiveRowsKeepDump'
  BY NextMoves DEF Moved, Spared, Live, IInv, LiveRowsKeepDump
<1> QED  BY <1>1, <1>2, <1>3 DEF IInv

(* Whatever dies, stalls, is lost or is cancelled, the inductive invariant holds. *)
THEOREM Invariance == Spec => []IInv
  BY InitIInv, NextIInv, PTL DEF Spec

(* No state of the pipeline is ill typed. *)
THEOREM TypeCorrect == Spec => []TypeOK
<1>1. IInv => TypeOK
  BY DEF IInv
<1> QED  BY <1>1, Invariance, PTL

(* The directory of a waiting, parsed or done report is never removed. *)
THEOREM LiveDumpsKept == Spec => []LiveRowsKeepDump
<1>1. IInv => LiveRowsKeepDump
  BY DEF IInv
<1> QED  BY <1>1, Invariance, PTL

(* The flock keeps two supervised MATs out of one dump directory. *)
THEOREM MutualExclusion == Spec => []OneSupervisedMat
<1>1. IInv => OneSupervisedMat
  BY DEF IInv, ParsesUnderFlock, OneSupervisedMat
<1> QED  BY <1>1, Invariance, PTL

(* A cancelled, failed or deleted report never comes back to life. *)
THEOREM CancelBinds == Spec => CancelIsBinding
<1>1. IInv /\ [Next]_vars =>
        [\A r \in Reports : status[r] \in Disowned => status'[r] \in Disowned]_vars
  BY DisownedForGood
<1> QED  BY <1>1, Invariance, PTL DEF Spec, CancelIsBinding

(* Only the late write of a cancel takes a report out of a final status. *)
THEOREM LateCancelAlone == Spec => OnlyLateCancelReopens
<1>1. IInv /\ [Next]_vars =>
        [\A r \in Reports :
            status[r] \in Terminal /\ status'[r] \notin Terminal \cup {"gone"}
              => web[r] = "PARSING" /\ web'[r] = "none"]_vars
  BY NextMoves DEF Moved
<1> QED  BY <1>1, Invariance, PTL DEF Spec, OnlyLateCancelReopens

-----------------------------------------------------------------------------
(* The pipeline implements ReportPromise *)

\* A step leaves every report but r alone.
Others(r) == \A q \in Reports \ {r} : status'[q] = status[q] /\ hprof'[q] = hprof[q]
OneTouched == UNCHANGED <<status, hprof>> \/ \E r \in Reports : Others(r)

(* The rows are updated, and the directories removed, one at a time, unless a
   session is deleted. *)
LEMMA WorkerTouchesOne ==
  ASSUME TypeOK, BusyHasTask, NEW w \in Workers, WorkerStep(w)
  PROVE  OneTouched
<1> USE DEF rowVars, dumpVars, procVars, scanVars, webVars
<1>t. pc[w] \notin {"idle", "down"} => task[w] \in Reports
  BY DEF BusyHasTask
<1>h. hprof' = hprof
  BY DEF WorkerStep, ParseEnds, ClaimNextTask, CheckFiles, CheckFails, AcquireDumpLock,
         DumpLockRefused, MatSucceeds, MatFails, PumpCancel, ParseTimeout, ParserCrash,
         ReleaseDumpLock, FinishTerminalRead, FinishTerminalWrite, BackfillStats, CommitDone
<1>1. CASE ClaimNextTask(w)
  BY <1>1, <1>h DEF ClaimNextTask, OneTouched, Others, TypeOK
<1>2. CASE UNCHANGED status
  BY <1>2, <1>h DEF OneTouched
<1>3. ASSUME NEW s \in Statuses, UpdateFields(task[w], s) \/ UpdateIfParsing(task[w], s),
             task[w] \in Reports
      PROVE  OneTouched
  BY <1>3, <1>h DEF UpdateFields, UpdateIfParsing, IfParsing, Spend, OneTouched, Others, TypeOK
<1>4. CASE CheckFails(w) \/ DumpLockRefused(w) \/ ParseTimeout(w) \/ ParserCrash(w) \/ CommitDone(w)
  BY <1>3, <1>4, <1>t DEF CheckFails, DumpLockRefused, ParseTimeout, ParserCrash, CommitDone
<1>5. CASE FinishTerminalWrite(w)
  <2>1. outcome[w] \in Statuses
    BY <1>5 DEF FinishTerminalWrite, BusyHasTask
  <2> QED  BY <1>3, <1>5, <1>t, <2>1 DEF FinishTerminalWrite
<1> QED
  BY <1>1, <1>2, <1>4, <1>5
  DEF WorkerStep, ParseEnds, CheckFiles, AcquireDumpLock, MatSucceeds, MatFails, PumpCancel,
      ReleaseDumpLock, FinishTerminalRead, BackfillStats

LEMMA WatchdogTouchesOne ==
  ASSUME TypeOK, NEW w \in Workers, WatchdogStep(w)
  PROVE  OneTouched
<1> USE DEF rowVars, dumpVars, procVars, scanVars, webVars
<1>1. CASE SweepParsing(w) \/ SweepCancelRequested(w)
  BY <1>1 DEF SweepParsing, SweepCancelRequested, OneTouched
<1>2. CASE ResetStale(w)
  <2>1. hprof' = hprof
    BY <1>2 DEF ResetStale
  <2>2. UNCHANGED status \/ \E q \in Reports, t \in Statuses : status' = [status EXCEPT ![q] = t]
    <3>1. PICK s \in scan[w] :
            \/ UNCHANGED status
            \/ status' = [status EXCEPT ![s.report] = "FAILED"]
            \/ status' = [status EXCEPT ![s.report] = "QUEUED"]
      BY <1>2 DEF ResetStale, ResetRow
    <3>2. s.report \in Reports
      BY DEF TypeOK
    <3> QED  BY <3>1, <3>2
  <2> QED  BY <2>1, <2>2 DEF TypeOK, OneTouched, Others
<1>3. CASE CancelStale(w)
  <2>1. PICK r \in cancelScan[w] :
          /\ Rmtree(r)
          /\ UNCHANGED status \/ status' = [status EXCEPT ![r] = "CANCELLED"]
    BY <1>3 DEF CancelStale
  <2>2. r \in Reports
    BY DEF TypeOK
  <2>3. Others(r)
    BY <2>1, <2>2 DEF TypeOK, Others, Rmtree
  <2> QED  BY <2>2, <2>3 DEF OneTouched
<1> QED  BY <1>1, <1>2, <1>3 DEF WatchdogStep

LEMMA ProcessTouchesOne ==
  ASSUME TypeOK, BusyHasTask, NEW w \in Workers, ProcessStep(w) \/ Heartbeat(w)
  PROVE  OneTouched
<1> USE DEF rowVars, dumpVars, procVars, scanVars, webVars
<1>1. CASE ShutdownParse(w)
  <2>1. task[w] \in Reports
    BY <1>1 DEF BusyHasTask, ShutdownParse
  <2> QED  BY <1>1, <2>1 DEF ShutdownParse, IfParsing, TypeOK, OneTouched, Others
<1>2. CASE UNCHANGED <<status, hprof>>
  BY <1>2 DEF OneTouched
<1> QED  BY <1>1, <1>2 DEF ProcessStep, Crash, Shutdown, Restart, Heartbeat

LEMMA RequestTouchesOne ==
  ASSUME TypeOK, NEW r \in Reports, RequestStep(r) \/ OrphanExits(r) \/ HeartbeatExpires(r)
  PROVE  OneTouched
<1> USE DEF rowVars, dumpVars, procVars, scanVars, webVars
<1>1. CASE AddReport(r)
  BY <1>1 DEF AddReport, TypeOK, OneTouched, Others
<1>2. CASE CancelWrite(r)
  <2>1. hprof' = hprof
    BY <1>2 DEF CancelWrite
  <2>2. \A q \in Reports \ {r} : status'[q] = status[q]
    BY <1>2 DEF CancelWrite, TypeOK
  <2> QED  BY <2>1, <2>2 DEF OneTouched, Others
<1>3. CASE RemoveDump(r)
  BY <1>3 DEF RemoveDump, Rmtree, TypeOK, OneTouched, Others
<1>4. CASE UNCHANGED <<status, hprof>>
  BY <1>4 DEF OneTouched
<1> QED  BY <1>1, <1>2, <1>3, <1>4 DEF RequestStep, CancelRead, OrphanExits, HeartbeatExpires

\* The refinement mapping.
PhaseOf == [r \in Reports |-> Phase(status[r])]

LEMMA PhaseValues ==
  ASSUME NEW s \in Statuses
  PROVE  /\ Phase(s) = "absent" <=> s = "new"
         /\ Phase(s) = "live" <=> s \in {"QUEUED", "PARSING"}
         /\ Phase(s) = "done" <=> s = "DONE"
         /\ Phase(s) = "disowned" <=> s \in Disowned
  BY DEF Phase

(* The initial state of the pipeline is one of the promise. *)
LEMMA InitRefines == Init => Promise!Init
  BY PhaseValues DEF Init, Promise!Init

(* A step that touches one report is a step, or no step, of the promise. *)
LEMMA OneRefines ==
  ASSUME TypeOK, TypeOK', NEW r \in Reports, Moved(r), Spared(r), Others(r)
  PROVE  [Promise!Next]_(Promise!vars)
<1>t. /\ status[r] \in Statuses /\ status'[r] \in Statuses
      /\ hprof \in [Reports -> BOOLEAN] /\ hprof' \in [Reports -> BOOLEAN]
  BY DEF TypeOK
<1>q. \A q \in Reports \ {r} : PhaseOf'[q] = PhaseOf[q] /\ hprof'[q] = hprof[q]
  BY DEF Others, PhaseOf
<1>p. PhaseOf[r] = Phase(status[r]) /\ PhaseOf'[r] = Phase(status'[r])
  BY DEF PhaseOf
<1>f. PhaseOf = [q \in Reports |-> PhaseOf[q]] /\ PhaseOf' = [q \in Reports |-> PhaseOf'[q]]
  BY DEF PhaseOf
<1>h. hprof'[r] = hprof[r] => hprof' = hprof
  <2> SUFFICES ASSUME hprof'[r] = hprof[r]  PROVE hprof' = hprof
    OBVIOUS
  <2>1. \A q \in Reports : hprof'[q] = hprof[q]
    BY <1>q
  <2>2. hprof = [q \in Reports |-> hprof[q]] /\ hprof' = [q \in Reports |-> hprof'[q]]
    BY <1>t
  <2> QED  BY <2>1, <2>2, Zenon
<1>1. CASE PhaseOf'[r] = PhaseOf[r] /\ hprof'[r] = hprof[r]
  <2>1. PhaseOf' = PhaseOf
    BY <1>1, <1>q, <1>f
  <2> QED  BY <1>1, <1>h, <2>1 DEF PhaseOf, Promise!vars
<1>2. CASE PhaseOf[r] = "absent" /\ PhaseOf'[r] = "live" /\ hprof'[r]
  <2>1. /\ PhaseOf' = [PhaseOf EXCEPT ![r] = "live"]
        /\ hprof' = [hprof EXCEPT ![r] = TRUE]
    BY <1>2, <1>q, <1>f, <1>t
  <2>2. Promise!Upload(r)
    BY <1>2, <2>1 DEF PhaseOf, Promise!Upload
  <2> QED  BY <2>2 DEF Promise!Next
<1>3. CASE PhaseOf[r] = "live" /\ PhaseOf'[r] = "done" /\ hprof'[r] = hprof[r]
  <2>1. PhaseOf' = [PhaseOf EXCEPT ![r] = "done"]
    BY <1>3, <1>q, <1>f
  <2>2. Promise!Complete(r)
    BY <1>3, <1>h, <2>1 DEF PhaseOf, Promise!Complete
  <2> QED  BY <2>2 DEF Promise!Next
<1>4. CASE /\ PhaseOf[r] \in {"live", "done"} /\ PhaseOf'[r] = "disowned"
           /\ hprof'[r] = hprof[r]
  <2>1. PhaseOf' = [q \in Reports |-> IF q \in {r} THEN "disowned" ELSE PhaseOf[q]]
    BY <1>4, <1>q, <1>f
  <2>2. Promise!Disown({r})
    BY <1>4, <1>h, <2>1 DEF PhaseOf, Promise!Disown
  <2> QED  BY <2>2 DEF Promise!Next
<1>5. CASE PhaseOf[r] = "disowned" /\ PhaseOf'[r] = "disowned" /\ ~hprof'[r]
  <2>1. PhaseOf' = PhaseOf /\ hprof' = [hprof EXCEPT ![r] = FALSE]
    BY <1>5, <1>q, <1>f, <1>t
  <2>2. Promise!RemoveDump(r)
    BY <1>5, <2>1 DEF PhaseOf, Promise!RemoveDump
  <2> QED  BY <2>2 DEF Promise!Next
<1>6. \/ PhaseOf'[r] = PhaseOf[r] /\ hprof'[r] = hprof[r]
      \/ PhaseOf[r] = "absent" /\ PhaseOf'[r] = "live" /\ hprof'[r]
      \/ PhaseOf[r] = "live" /\ PhaseOf'[r] = "done" /\ hprof'[r] = hprof[r]
      \/ /\ PhaseOf[r] \in {"live", "done"} /\ PhaseOf'[r] = "disowned"
         /\ hprof'[r] = hprof[r]
      \/ PhaseOf[r] = "disowned" /\ PhaseOf'[r] = "disowned" /\ ~hprof'[r]
  BY <1>p, <1>t, PhaseValues DEF Moved, Spared, Live
<1> QED  BY <1>1, <1>2, <1>3, <1>4, <1>5, <1>6

(* Neither does a deletion do anything the promise does not allow. *)
LEMMA DeleteRefines ==
  ASSUME TypeOK, NEW S \in SUBSET Reports, DeleteReports(S)
  PROVE  [Promise!Next]_(Promise!vars)
<1>1. \A r \in S : status[r] \in Statuses \ {"new", "gone"}
  BY DEF DeleteReports, Exists, TypeOK
<1>2. hprof' = hprof /\ status' = [r \in Reports |-> IF r \in S THEN "gone" ELSE status[r]]
  BY DEF DeleteReports, dumpVars
<1> DEFINE D == {r \in S : status[r] \notin Disowned}
<1>3. \A r \in D : PhaseOf[r] \in {"live", "done"}
  BY <1>1 DEF PhaseOf, Phase
<1>4. ASSUME NEW r \in Reports
      PROVE  PhaseOf'[r] = IF r \in D THEN "disowned" ELSE PhaseOf[r]
  BY <1>1, <1>2 DEF PhaseOf, Phase, TypeOK
<1>5. PhaseOf' = [r \in Reports |-> IF r \in D THEN "disowned" ELSE PhaseOf[r]]
  BY <1>4 DEF PhaseOf
<1>6. Promise!Disown(D)
  BY <1>2, <1>3, <1>5 DEF PhaseOf, Promise!Disown
<1> QED  BY <1>6 DEF Promise!Next

LEMMA NextRefines == IInv /\ [Next]_vars => [Promise!Next]_(Promise!vars)
<1> SUFFICES ASSUME IInv, [Next]_vars  PROVE [Promise!Next]_(Promise!vars)
  OBVIOUS
<1>1. TypeOK /\ TypeOK'
  BY NextType DEF IInv
<1>2. CASE \E S \in SUBSET Reports : DeleteReports(S)
  BY <1>1, <1>2, DeleteRefines
<1>3. CASE OneTouched
  <2>1. CASE UNCHANGED <<status, hprof>>
    BY <2>1 DEF Promise!vars
  <2>2. CASE \E r \in Reports : Others(r)
    BY <1>1, <2>2, NextMoves, OneRefines
  <2> QED  BY <1>3, <2>1, <2>2 DEF OneTouched
<1>4. CASE UNCHANGED vars
  BY <1>3, <1>4 DEF vars, rowVars, dumpVars, OneTouched
<1> QED
  BY <1>1, <1>2, <1>3, <1>4, WorkerTouchesOne, WatchdogTouchesOne, ProcessTouchesOne,
     RequestTouchesOne DEF Next, IInv

(* The pipeline implements ReportPromise, whatever fails. *)
THEOREM Refinement == Spec => KeepsPromise
  BY InitRefines, NextRefines, Invariance, PTL DEF Spec, KeepsPromise, Promise!Spec

-----------------------------------------------------------------------------
(* When nothing fails: users cancel and delete, processes do neither die nor *)
(* stall, and no write is lost                                               *)

NothingFails == \A f \in {"crash", "stop", "stall", "db"} : Budget[f] = 0

\* Nobody is down or shutting down, no sweep found anything, no MAT is orphaned.
AllWell ==
    /\ \A f \in {"crash", "stop", "stall", "db"} : left[f] = 0
    /\ \A w \in Workers : pc[w] # "down" /\ outcome[w] # "stopped" /\ scan[w] = {}
    /\ \A r \in Reports : orphans[r] = 0

\* A worker has a report of its own, or none.
OneEach ==
    /\ \A v, w \in Workers : task[v] = task[w] /\ task[v] # NoReport => v = w
    /\ \A w \in Workers : pc[w] = "idle" => task[w] = NoReport /\ outcome[w] = "none"

\* Nobody works on a report that waits or is done.
LeftAlone ==
    \A r \in Reports : status[r] \in {"new", "QUEUED", "DONE"} => \A w \in Workers : task[w] # r

\* A report in PARSING has an owner, who works on it.
OwnerWorks ==
    \A r \in Reports : status[r] = "PARSING" =>
        owner[r] \in Workers /\ task[owner[r]] = r /\ hb[r] = "fresh"

\* A worker that has settled its report has settled it.
SettledIsSettled ==
    \A w \in Workers : outcome[w] = "settled" => status[task[w]] # "PARSING"

\* A worker knows that the index of its report is complete.
Parsed(w) == pc[w] \in {"stats", "commit"} \/ (pc[w] = "release" /\ outcome[w] = "DONE")

Indexed ==
    /\ \A w \in Workers : Parsed(w) /\ status[task[w]] = "PARSING" => index[task[w]] = "whole"
    /\ \A r \in Reports : status[r] = "DONE" => index[r] = "whole"

WellInv == AllWell /\ OneEach /\ LeftAlone /\ OwnerWorks /\ SettledIsSettled /\ Indexed

(* No report has been added. *)
LEMMA InitWell == ASSUME NothingFails PROVE Init => WellInv
BY ConstantsAssumption DEF NothingFails, Init, WellInv, AllWell, OneEach, LeftAlone, OwnerWorks,
   SettledIsSettled,
       Parsed, Indexed

(* Where nothing fails, nothing is spent on failures. *)
LEMMA NothingSpent ==
    ASSUME AllWell
    PROVE  ~Spend("crash") /\ ~Spend("stop") /\ ~Spend("stall") /\ ~Spend("db")
BY DEF AllWell, Spend

(* A worker's update is written. *)
LEMMA Written ==
    ASSUME TypeOK, AllWell, NEW r \in Reports, NEW s
    PROVE  /\ UpdateFields(r, s) =>
                status' = (IF Exists(r) THEN [status EXCEPT ![r] = s] ELSE status) /\ left' = left
           /\ UpdateIfParsing(r, s) => status' = IfParsing(r, s) /\ left' = left
BY NothingSpent DEF UpdateFields, UpdateIfParsing

\* The rows and the index files of the others stay.
OwnOnly(r) == \A q \in Reports \ {r} : status'[q] = status[q] /\ index'[q] = index[q]
\* The other workers stay as they are.
Alone(w) == \A v \in Workers \ {w} : pc'[v] = pc[v] /\ task'[v] = task[v] /\ outcome'[v] = outcome[v]

(* A worker goes on with its report, which may have failed meanwhile, or drops *)
(* it when it is settled.                                                      *)
Carries(w, r) ==
    /\ task'[w] = r /\ pc'[w] \notin {"idle", "down"} /\ outcome'[w] # "stopped"
    /\ status'[r] = status[r] \/ status'[r] = "FAILED"
    /\ outcome'[w] = "settled" => status'[r] # "PARSING"
    /\ Parsed(w)' => index'[r] = "whole" \/ (Parsed(w) /\ index'[r] = index[r])
Drops(w, r) ==
    /\ task'[w] = NoReport /\ pc'[w] = "idle" /\ outcome'[w] = "none"
    /\ status'[r] # "PARSING" /\ index'[r] = index[r]
    /\ \/ status'[r] = status[r] \/ status'[r] \in {"FAILED", "CANCELLED"}
       \/ status[r] = "PARSING" /\ status'[r] = "DONE" /\ Parsed(w)

LEMMA WorkerAlone ==
    ASSUME IInv, WellInv, NEW w \in Workers, WorkerStep(w), ~ClaimNextTask(w)
    PROVE  /\ task[w] \in Reports
           /\ UNCHANGED <<owner, hb, scan, orphans, left>>
           /\ OwnOnly(task[w]) /\ Alone(w)
           /\ Carries(w, task[w]) \/ Drops(w, task[w])
<1> DEFINE r == task[w]
<1> USE DEF rowVars, dumpVars, procVars, scanVars, webVars
<1>0. TypeOK /\ BusyHasTask /\ AllWell /\ OneEach /\ SettledIsSettled
  BY DEF IInv, WellInv
<1>1. pc[w] \notin {"idle", "down"}
  BY DEF WorkerStep, ParseEnds, CheckFiles, CheckFails, AcquireDumpLock,
         DumpLockRefused, MatSucceeds, MatFails, PumpCancel, ParseTimeout, ParserCrash,
         ReleaseDumpLock, FinishTerminalRead, FinishTerminalWrite, BackfillStats, CommitDone
<1>2. r \in Reports
  BY <1>0, <1>1 DEF BusyHasTask
<1> DEFINE Goal == /\ UNCHANGED <<owner, hb, scan, orphans, left>>
                   /\ OwnOnly(r) /\ Alone(w)
                   /\ Carries(w, r) \/ Drops(w, r)
<1>3. ASSUME NEW l, NEW o, GoTo(w, l, o)
      PROVE  Alone(w) /\ task' = task /\ pc'[w] = l /\ outcome'[w] = o
  BY <1>0, <1>3 DEF GoTo, Alone, TypeOK
<1>4. ASSUME NEW l, Drop(w, l)
      PROVE  Alone(w) /\ task'[w] = NoReport /\ pc'[w] = l /\ outcome'[w] = "none"
  BY <1>0, <1>4 DEF Drop, Alone, TypeOK
<1>5. ASSUME NEW i, index' = [index EXCEPT ![r] = i]
      PROVE  index'[r] = i /\ \A q \in Reports \ {r} : index'[q] = index[q]
  BY <1>0, <1>2, <1>5 DEF TypeOK
<1>6. ASSUME NEW s, UpdateFields(r, s), s # "PARSING"
      PROVE  /\ left' = left /\ status'[r] # "PARSING" /\ (status'[r] = status[r] \/ status'[r] = s)
             /\ \A q \in Reports \ {r} : status'[q] = status[q]
  <2>1. left' = left /\ status' = IF Exists(r) THEN [status EXCEPT ![r] = s] ELSE status
    BY <1>0, <1>2, <1>6, Written
  <2>2. CASE Exists(r)
    BY <1>0, <1>2, <1>6, <2>1, <2>2 DEF TypeOK
  <2>3. CASE ~Exists(r)
    BY <2>1, <2>3 DEF Exists
  <2>4. QED
    BY <2>2, <2>3
<1>7. ASSUME NEW s, UpdateIfParsing(r, s), s # "PARSING"
      PROVE  /\ left' = left /\ status'[r] # "PARSING"
             /\ (status'[r] = status[r] \/ (status[r] = "PARSING" /\ status'[r] = s))
             /\ \A q \in Reports \ {r} : status'[q] = status[q]
  <2>1. left' = left /\ status' = IF status[r] = "PARSING" THEN [status EXCEPT ![r] = s] ELSE status
    BY <1>0, <1>2, <1>7, Written DEF IfParsing
  <2>2. CASE status[r] = "PARSING"
    BY <1>0, <1>2, <1>7, <2>1, <2>2 DEF TypeOK
  <2>3. CASE status[r] # "PARSING"
    BY <2>1, <2>3
  <2>4. QED
    BY <2>2, <2>3
<1> SUFFICES Goal
  BY <1>2
<1> HIDE DEF r
<1>c1. CASE CheckFiles(w)
  BY <1>c1, <1>3 DEF CheckFiles, r, OwnOnly, Carries, Parsed
<1>c2. CASE CheckFails(w)
  <2>1. UpdateFields(r, "FAILED") /\ Drop(w, "idle") /\ UNCHANGED <<owner, hb, scan, orphans, index>>
    BY <1>c2 DEF CheckFails, r
  <2>2. QED
    BY <2>1, <1>4, <1>6 DEF OwnOnly, Drops
<1>c3. CASE AcquireDumpLock(w)
  <2>1. /\ GoTo(w, "parse", "none") /\ UNCHANGED <<owner, hb, scan, orphans, status, left>>
        /\ \E i : index' = [index EXCEPT ![r] = i]
    BY <1>c3 DEF AcquireDumpLock, r
  <2>2. QED
    BY <2>1, <1>3, <1>5 DEF OwnOnly, Carries, Parsed, r
<1>c4. CASE DumpLockRefused(w)
  <2>1. UpdateFields(r, "FAILED") /\ Drop(w, "idle") /\ UNCHANGED <<owner, hb, scan, orphans, index>>
    BY <1>c4 DEF DumpLockRefused, r
  <2>2. QED
    BY <2>1, <1>4, <1>6 DEF OwnOnly, Drops
<1>c5. CASE MatSucceeds(w)
  <2>1. /\ GoTo(w, "release", "DONE") /\ UNCHANGED <<owner, hb, scan, orphans, status, left>>
        /\ index' = [index EXCEPT ![r] = "whole"]
    BY <1>c5, <1>0, <1>2 DEF MatSucceeds, r, AllWell
  <2>2. index'[r] = "whole" /\ \A q \in Reports \ {r} : index'[q] = index[q]
    BY <2>1, <1>5
  <2>3. QED
    BY <2>1, <2>2, <1>3 DEF OwnOnly, Carries, Parsed, r
<1>c6. CASE MatFails(w) \/ PumpCancel(w)
  <2>1. /\ GoTo(w, "release", "FAILED") \/ GoTo(w, "release", "CANCELLED")
        /\ UNCHANGED <<owner, hb, scan, orphans, status, left>>
        /\ index' = [index EXCEPT ![r] = "none"]
    BY <1>c6 DEF MatFails, PumpCancel, CleanPartialIndexes, r
  <2>2. QED
    BY <2>1, <1>3, <1>5 DEF OwnOnly, Carries, Parsed, r
<1>c7. CASE ParseTimeout(w) \/ ParserCrash(w)
  <2>1. /\ GoTo(w, "release", "settled") /\ UNCHANGED <<owner, hb, scan, orphans>>
        /\ UpdateIfParsing(r, "FAILED") \/ UpdateFields(r, "FAILED")
        /\ index' = [index EXCEPT ![r] = "none"]
    BY <1>c7 DEF ParseTimeout, ParserCrash, CleanPartialIndexes, r
  <2>2. QED
    BY <2>1, <1>3, <1>5, <1>6, <1>7 DEF OwnOnly, Carries, Parsed, r
<1>c8. CASE ReleaseDumpLock(w)
  <2>1. UNCHANGED <<owner, hb, scan, orphans, status, index, left>> /\ pc[w] = "release"
    BY <1>c8 DEF ReleaseDumpLock
  <2>2. CASE outcome[w] = "DONE" /\ GoTo(w, "stats", "DONE")
    BY <2>1, <2>2, <1>3 DEF OwnOnly, Carries, Parsed, r
  <2>3. CASE outcome[w] \in {"FAILED", "CANCELLED"} /\ GoTo(w, "settle", outcome[w])
    BY <2>1, <2>3, <1>3 DEF OwnOnly, Carries, Parsed, r
  <2>4. CASE outcome[w] = "settled" /\ Drop(w, "idle")
    BY <2>1, <2>4, <1>0, <1>4 DEF OwnOnly, Drops, SettledIsSettled, r
  <2>5. QED
    BY <1>c8, <1>0, <2>2, <2>3, <2>4 DEF ReleaseDumpLock, AllWell
<1>c9. CASE FinishTerminalRead(w)
  <2>1. UNCHANGED <<owner, hb, scan, orphans, status, index, left>>
    BY <1>c9, <1>0, NothingSpent DEF FinishTerminalRead
  <2>2. outcome[w] \in {"FAILED", "CANCELLED"}
    BY <1>c9, <1>0 DEF FinishTerminalRead, BusyHasTask
  <2>3. CASE GoTo(w, "write", outcome[w])
    BY <2>1, <2>2, <2>3, <1>3 DEF OwnOnly, Carries, Parsed, r
  <2>4. CASE status[r] # "PARSING" /\ Drop(w, "idle")
    BY <2>1, <2>4, <1>4 DEF OwnOnly, Drops
  <2>5. QED
    BY <1>c9, <1>0, <2>3, <2>4, NothingSpent DEF FinishTerminalRead, r
<1>c10. CASE FinishTerminalWrite(w)
  <2>1. /\ UpdateFields(r, outcome[w]) /\ Drop(w, "idle")
        /\ UNCHANGED <<owner, hb, scan, orphans, index>>
    BY <1>c10 DEF FinishTerminalWrite, r
  <2>2. outcome[w] \in {"FAILED", "CANCELLED"}
    BY <1>c10, <1>0 DEF FinishTerminalWrite, BusyHasTask
  <2>3. QED
    BY <2>1, <2>2, <1>4, <1>6 DEF OwnOnly, Drops
<1>c11. CASE BackfillStats(w)
  <2>1. outcome[w] # "stopped"
    BY <1>0 DEF AllWell
  <2>2. outcome[w] = "settled" => status[r] # "PARSING"
    BY <1>0 DEF SettledIsSettled, r
  <2>3. QED
    BY <1>c11, <2>1, <2>2, <1>3 DEF BackfillStats, OwnOnly, Carries, Parsed, r
<1>c12. CASE CommitDone(w)
  <2>1. /\ UpdateIfParsing(r, "DONE") /\ Drop(w, "idle") /\ pc[w] = "commit"
        /\ UNCHANGED <<owner, hb, scan, orphans, index>>
    BY <1>c12 DEF CommitDone, r
  <2>2. QED
    BY <2>1, <1>4, <1>7 DEF OwnOnly, Drops, Parsed
<1>q. QED
  BY <1>2, <1>c1, <1>c2, <1>c3, <1>c4, <1>c5, <1>c6, <1>c7, <1>c8, <1>c9, <1>c10, <1>c11, <1>c12
     DEF WorkerStep, ParseEnds, r

(* A step of a worker's coroutine keeps the invariant. *)
LEMMA WorkerWell ==
    ASSUME IInv, WellInv, NEW w \in Workers, WorkerStep(w)
    PROVE  WellInv'
<1>0. /\ TypeOK /\ BusyHasTask /\ AllWell /\ OneEach
      /\ LeftAlone /\ OwnerWorks /\ SettledIsSettled /\ Indexed
  BY DEF IInv, WellInv
<1>1. CASE ClaimNextTask(w)
  <2>1. PICK r \in Reports :
          /\ status[r] = "QUEUED" /\ status' = [status EXCEPT ![r] = "PARSING"]
          /\ hb' = [hb EXCEPT ![r] = "fresh"] /\ owner' = [owner EXCEPT ![r] = w]
          /\ pc' = [pc EXCEPT ![w] = "check"] /\ task' = [task EXCEPT ![w] = r]
    BY <1>0, <1>1, NothingSpent DEF ClaimNextTask
  <2>2. /\ UNCHANGED <<outcome, scan, orphans, index, left>> /\ pc[w] = "idle"
        /\ task[w] = NoReport /\ outcome[w] = "none"
    BY <1>0, <1>1, NothingSpent DEF ClaimNextTask, OneEach, dumpVars, scanVars
  <2>3. /\ \A q \in Reports \ {r} : status'[q] = status[q] /\ hb'[q] = hb[q] /\ owner'[q] = owner[q]
        /\ status'[r] = "PARSING" /\ hb'[r] = "fresh" /\ owner'[r] = w
        /\ \A v \in Workers \ {w} : pc'[v] = pc[v] /\ task'[v] = task[v]
        /\ pc'[w] = "check" /\ task'[w] = r
    BY <1>0, <2>1 DEF TypeOK
  <2>4. \A v \in Workers : task[v] # r
    BY <1>0, <2>1 DEF LeftAlone
  <2>5. AllWell'
    BY <1>0, <2>2, <2>3 DEF AllWell
  <2>6. OneEach'
    BY <1>0, <2>2, <2>3, <2>4 DEF OneEach
  <2>7. LeftAlone'
    BY <1>0, <2>3 DEF LeftAlone
  <2>8. OwnerWorks'
    BY <1>0, <2>2, <2>3, ConstantsAssumption DEF OwnerWorks
  <2>9. SettledIsSettled'
    <3> SUFFICES ASSUME NEW v \in Workers, outcome'[v] = "settled", status'[task'[v]] = "PARSING"
                 PROVE FALSE
      BY DEF SettledIsSettled
    <3>1. v # w /\ task'[v] = task[v] /\ task[v] # r /\ outcome[v] = "settled"
      BY <2>2, <2>3, <2>4
    <3>2. pc[v] \notin {"idle", "down"}
      BY <1>0, <3>1 DEF OneEach, AllWell
    <3>3. task[v] \in Reports
      BY <1>0, <3>2 DEF BusyHasTask
    <3>4. QED
      BY <1>0, <2>3, <3>1, <3>3 DEF SettledIsSettled
  <2>10. Indexed'
    <3>1. ASSUME NEW v \in Workers, Parsed(v)', status'[task'[v]] = "PARSING"
          PROVE  index'[task'[v]] = "whole"
      <4>1. v # w /\ task'[v] = task[v] /\ task[v] # r /\ Parsed(v)
        BY <3>1, <2>2, <2>3, <2>4 DEF Parsed
      <4>2. task[v] \in Reports
        BY <1>0, <4>1 DEF BusyHasTask, Parsed
      <4>3. QED
        BY <1>0, <2>2, <2>3, <3>1, <4>1, <4>2 DEF Indexed
    <3>2. \A q \in Reports : status'[q] = "DONE" => index'[q] = "whole"
      BY <1>0, <2>2, <2>3 DEF Indexed
    <3>3. QED
      BY <3>1, <3>2 DEF Indexed
  <2>11. QED
    BY <2>5, <2>6, <2>7, <2>8, <2>9, <2>10 DEF WellInv
<1>2. CASE ~ClaimNextTask(w)
  <2> DEFINE r == task[w]
  <2>1. /\ r \in Reports /\ UNCHANGED <<owner, hb, scan, orphans, left>>
        /\ OwnOnly(r) /\ Alone(w) /\ (Carries(w, r) \/ Drops(w, r))
    BY <1>2, WorkerAlone
  <2>2. \A v \in Workers \ {w} : task[v] # r
    BY <1>0, <2>1, ConstantsAssumption DEF OneEach
  <2>r. r = task[w]
    OBVIOUS
  <2>3. status[r] \notin {"new", "QUEUED", "DONE"}
    BY <1>0, <2>1 DEF LeftAlone
  <2>4. \A v \in Workers : pc'[v] \notin {"idle", "down"} => task'[v] \in Reports
    BY <1>0, <2>1 DEF BusyHasTask, Alone, Carries, Drops
  <2> HIDE DEF r
  <2>5. AllWell'
    BY <1>0, <2>1 DEF AllWell, Alone, Carries, Drops
  <2>6. OneEach'
    BY <1>0, <2>1, <2>2, <2>r DEF OneEach, Alone, Carries, Drops
  <2>7. LeftAlone'
    BY <1>0, <2>1, <2>2, <2>3, <2>r DEF LeftAlone, Alone, Carries, Drops, OwnOnly
  <2>8. OwnerWorks'
    <3> SUFFICES ASSUME NEW q \in Reports, status'[q] = "PARSING"
                 PROVE  owner'[q] \in Workers /\ task'[owner'[q]] = q /\ hb'[q] = "fresh"
      BY DEF OwnerWorks
    <3>1. status[q] = "PARSING" /\ (q = r => Carries(w, r))
      BY <2>1 DEF Carries, Drops, OwnOnly
    <3>2. owner[q] \in Workers /\ task[owner[q]] = q /\ hb[q] = "fresh"
      BY <1>0, <3>1 DEF OwnerWorks
    <3>3. owner[q] = w => q = r
      BY <3>2, <2>r
    <3>4. QED
      BY <2>1, <2>r, <3>1, <3>2, <3>3 DEF Alone, Carries
  <2>9. SettledIsSettled'
    <3> SUFFICES ASSUME NEW v \in Workers, outcome'[v] = "settled"
                 PROVE  status'[task'[v]] # "PARSING"
      BY DEF SettledIsSettled
    <3>1. CASE v = w
      BY <2>1, <3>1 DEF Carries, Drops
    <3>2. CASE v # w
      <4>1. task'[v] = task[v] /\ outcome[v] = "settled" /\ pc'[v] = pc[v] /\ task[v] # r
        BY <2>1, <2>2, <3>2 DEF Alone
      <4>2. pc[v] \notin {"idle", "down"}
        BY <1>0, <4>1 DEF OneEach, AllWell
      <4>3. task[v] \in Reports
        BY <1>0, <4>2 DEF BusyHasTask
      <4>4. QED
        BY <1>0, <2>1, <4>1, <4>3 DEF SettledIsSettled, OwnOnly
    <3>3. QED
      BY <3>1, <3>2
  <2>10. Indexed'
    <3>1. ASSUME NEW v \in Workers, Parsed(v)', status'[task'[v]] = "PARSING"
          PROVE  index'[task'[v]] = "whole"
      <4>1. CASE v = w
        <5>1. Carries(w, r) /\ task'[v] = r /\ status[r] = "PARSING"
          BY <2>1, <3>1, <4>1 DEF Carries, Drops, Parsed
        <5>2. QED
          BY <1>0, <2>r, <3>1, <4>1, <5>1 DEF Carries, Indexed
      <4>2. CASE v # w
        <5>1. task'[v] = task[v] /\ Parsed(v) /\ task[v] # r
          BY <2>1, <2>2, <3>1, <4>2 DEF Alone, Parsed
        <5>2. task[v] \in Reports
          BY <1>0, <5>1 DEF BusyHasTask, Parsed
        <5>3. QED
          BY <1>0, <2>1, <3>1, <5>1, <5>2 DEF Indexed, OwnOnly
      <4>3. QED
        BY <4>1, <4>2
    <3>2. ASSUME NEW q \in Reports, status'[q] = "DONE" PROVE index'[q] = "whole"
      <4>1. CASE q = r
        BY <1>0, <2>1, <2>3, <2>r, <3>2, <4>1 DEF Carries, Drops, Indexed
      <4>2. CASE q # r
        BY <1>0, <2>1, <3>2, <4>2 DEF OwnOnly, Indexed
      <4>3. QED
        BY <4>1, <4>2
    <3>3. QED
      BY <3>1, <3>2 DEF Indexed
  <2>11. QED
    BY <2>5, <2>6, <2>7, <2>8, <2>9, <2>10 DEF WellInv
<1>3. QED
  BY <1>1, <1>2

\* What the others do with a report: nothing, or settle it, or add it.
Aside(q) ==
    \/ /\ status'[q] = status[q]
       /\ status[q] \in Disowned \/ index'[q] = index[q]
       /\ (status[q] = "PARSING" => owner'[q] = owner[q] /\ (hb[q] = "fresh" => hb'[q] = "fresh"))
    \/ status'[q] \in Disowned
    \/ status[q] = "new" /\ status'[q] = "QUEUED"

(* A step that leaves the workers alone keeps the invariant. *)
LEMMA AsideWell ==
    ASSUME IInv, WellInv, UNCHANGED <<pc, task, outcome, scan, orphans>>,
           \A f \in {"crash", "stop", "stall", "db"} : left'[f] = left[f],
           \A q \in Reports : Aside(q)
    PROVE  WellInv'
<1>0. /\ TypeOK /\ BusyHasTask /\ AllWell /\ OneEach
      /\ LeftAlone /\ OwnerWorks /\ SettledIsSettled /\ Indexed
  BY DEF IInv, WellInv
<1>1. \A q \in Reports : /\ status'[q] = "PARSING" => status[q] = "PARSING" /\ index'[q] = index[q]
                         /\ status'[q] = "DONE" => status[q] = "DONE" /\ index'[q] = index[q]
  BY DEF Aside
<1>2. AllWell' /\ OneEach'
  BY <1>0 DEF AllWell, OneEach
<1>3. LeftAlone'
  BY <1>0 DEF Aside, LeftAlone
<1>4. OwnerWorks'
  BY <1>0 DEF Aside, OwnerWorks
<1>5. SettledIsSettled'
  <2> SUFFICES ASSUME NEW v \in Workers, outcome[v] = "settled" PROVE status'[task[v]] # "PARSING"
    BY DEF SettledIsSettled
  <2>1. pc[v] \notin {"idle", "down"}
    BY <1>0 DEF OneEach, AllWell
  <2>2. QED
    BY <1>0, <1>1, <2>1 DEF SettledIsSettled, BusyHasTask
<1>6. Indexed'
  <2>1. ASSUME NEW v \in Workers, Parsed(v), status'[task[v]] = "PARSING"
        PROVE  index'[task[v]] = "whole"
    BY <1>0, <1>1, <2>1 DEF Indexed, BusyHasTask, Parsed
  <2>2. QED
    BY <1>0, <1>1, <2>1 DEF Indexed, Parsed
<1>7. QED
  BY <1>2, <1>3, <1>4, <1>5, <1>6 DEF WellInv

(* Every step keeps the invariant, where nothing fails. *)
LEMMA WellKept == IInv /\ WellInv /\ [Next]_vars => WellInv'
<1> SUFFICES ASSUME IInv, WellInv, [Next]_vars PROVE WellInv'
  OBVIOUS
<1> USE DEF rowVars, dumpVars, procVars, scanVars, webVars
<1>0. TypeOK /\ AllWell /\ OwnerWorks /\ OnlyDisownedRemoved
  BY DEF IInv, WellInv
<1>1. ASSUME NEW w \in Workers, WorkerStep(w) PROVE WellInv'
  BY <1>1, WorkerWell
<1>2. ASSUME NEW w \in Workers, Heartbeat(w) PROVE WellInv'
  <2>1. \A q \in Reports : Aside(q)
    BY <1>0, <1>2 DEF Heartbeat, Aside, TypeOK
  <2>2. QED
    BY <1>2, <2>1, AsideWell DEF Heartbeat
<1>3. ASSUME NEW w \in Workers, SweepParsing(w) PROVE WellInv'
  <2>1. {[report |-> r, attempts |-> attempts[r]] :
              r \in {q \in Reports : status[q] = "PARSING" /\ hb[q] # "fresh"}} = {}
    BY <1>0 DEF OwnerWorks
  <2>2. QED
    BY <1>0, <1>3, <2>1 DEF SweepParsing, TypeOK
<1>4. ASSUME NEW w \in Workers, ResetStale(w) PROVE WellInv'
  BY <1>0, <1>4 DEF ResetStale, AllWell
<1>5. ASSUME NEW w \in Workers, SweepCancelRequested(w) PROVE WellInv'
  BY <1>5, AsideWell DEF SweepCancelRequested, Aside
<1>6. ASSUME NEW w \in Workers, CancelStale(w) PROVE WellInv'
  <2>1. PICK r \in cancelScan[w] :
          /\ index' = [index EXCEPT ![r] = "none"]
          /\ \/ /\ status' = [status EXCEPT ![r] = "CANCELLED"]
                /\ owner' = [owner EXCEPT ![r] = NoWorker]
                /\ status[r] = "CANCEL_REQUESTED"
             \/ UNCHANGED <<status, owner>>
    BY <1>0, <1>6, NothingSpent DEF CancelStale, Rmtree
  <2>2. r \in Reports /\ status[r] \in Disowned
    BY <1>0 DEF TypeOK, OnlyDisownedRemoved
  <2>3. \A q \in Reports : Aside(q)
    <3>1. /\ \A q \in Reports \ {r} : index'[q] = index[q] /\ status'[q] = status[q] /\ owner'[q] = owner[q]
          /\ status'[r] = status[r] \/ status'[r] = "CANCELLED"
      BY <1>0, <2>1, <2>2 DEF TypeOK
    <3>2. hb' = hb
      BY <1>6 DEF CancelStale
    <3>3. QED
      BY <2>2, <3>1, <3>2 DEF Aside
  <2>4. \A f \in {"crash", "stop", "stall", "db"} : left'[f] = left[f]
    BY <1>0, <1>6, NothingSpent DEF CancelStale
  <2>5. QED
    BY <1>6, <2>3, <2>4, AsideWell DEF CancelStale
<1>7. ASSUME NEW w \in Workers, ProcessStep(w) PROVE WellInv'
  BY <1>0, <1>7, NothingSpent DEF ProcessStep, Crash, ShutdownParse, Shutdown, Restart, AllWell
<1>8. ASSUME NEW r \in Reports, AddReport(r) PROVE WellInv'
  <2>1. \A q \in Reports : Aside(q)
    BY <1>0, <1>8 DEF AddReport, Aside, TypeOK
  <2>2. QED
    BY <1>8, <2>1, AsideWell DEF AddReport
<1>9. ASSUME NEW r \in Reports, CancelRead(r) PROVE WellInv'
  <2>1. \A q \in Reports : Aside(q)
    BY <1>9 DEF CancelRead, Aside
  <2>2. \A f \in {"crash", "stop", "stall", "db"} : left'[f] = left[f]
    BY <1>0, <1>9 DEF CancelRead, Spend, TypeOK
  <2>3. QED
    BY <1>9, <2>1, <2>2, AsideWell DEF CancelRead
<1>10. ASSUME NEW r \in Reports, CancelWrite(r) PROVE WellInv'
  <2>1. \/ status' = status
        \/ \E s \in {"CANCELLED", "CANCEL_REQUESTED"} : status' = [status EXCEPT ![r] = s]
    BY <1>10 DEF CancelWrite
  <2>2. UNCHANGED <<hb, index>>
    BY <1>10 DEF CancelWrite
  <2>3. \A q \in Reports : status'[q] = status[q] \/ status'[q] \in {"CANCELLED", "CANCEL_REQUESTED"}
    BY <1>0, <2>1 DEF TypeOK
  <2>9. \A q \in Reports : Aside(q)
    BY <1>10, <2>2, <2>3 DEF Aside, CancelWrite
  <2>4. QED
    BY <2>9, <1>10, AsideWell DEF CancelWrite
<1>11. ASSUME NEW r \in Reports, RemoveDump(r) PROVE WellInv'
  <2>1. status[r] \in Disowned
    BY <1>0, <1>11 DEF RemoveDump, OnlyDisownedRemoved
  <2>2. \A q \in Reports : Aside(q)
    BY <1>0, <1>11, <2>1 DEF RemoveDump, Rmtree, Aside, TypeOK
  <2>3. QED
    BY <1>11, <2>2, AsideWell DEF RemoveDump
<1>12. ASSUME NEW r \in Reports, OrphanExits(r) PROVE WellInv'
  BY <1>0, <1>12 DEF OrphanExits, AllWell
<1>13. ASSUME NEW r \in Reports, HeartbeatExpires(r) PROVE WellInv'
  <2>1. status[r] = "PARSING" => \E w \in Workers : Works(w, r)
    BY <1>0 DEF OwnerWorks, AllWell, Works, Alive
  <2>2. status[r] # "PARSING" /\ UNCHANGED left
    BY <1>0, <1>13, <2>1, NothingSpent DEF HeartbeatExpires
  <2>3. \A q \in Reports : Aside(q)
    BY <1>0, <1>13, <2>2 DEF HeartbeatExpires, Aside, TypeOK
  <2>4. QED
    BY <1>13, <2>2, <2>3, AsideWell DEF HeartbeatExpires
<1>14. ASSUME NEW S \in SUBSET Reports, DeleteReports(S) PROVE WellInv'
  <2>1. \A q \in Reports : Aside(q)
    BY <1>0, <1>14 DEF DeleteReports, Aside, TypeOK
  <2>2. \A f \in {"crash", "stop", "stall", "db"} : left'[f] = left[f]
    BY <1>0, <1>14 DEF DeleteReports, Spend, TypeOK
  <2>3. QED
    BY <1>14, <2>1, <2>2, AsideWell DEF DeleteReports
<1>15. CASE UNCHANGED vars
  BY <1>15, AsideWell DEF vars, Aside
<1>16. QED
  BY <1>1, <1>2, <1>3, <1>4, <1>5, <1>6, <1>7, <1>8, <1>9, <1>10, <1>11, <1>12, <1>13, <1>14,
     <1>15
     DEF Next, WatchdogStep, RequestStep

(* Where nothing fails, a claimed report has one worker and that worker is its *)
(* owner: what the guards of the pipeline add up to when no watchdog is needed. *)
THEOREM WellInvariance == ASSUME NothingFails PROVE Spec => [](IInv /\ WellInv)
BY InitIInv, InitWell, NextIInv, WellKept, PTL DEF Spec

(* Whatever users cancel and delete, a DONE report has its dump and a complete *)
(* index (CommitDone), as long as no process dies or stalls and no write is    *)
(* lost; jobs_orphan and jobs_noindex show what becomes of it otherwise.       *)
THEOREM DoneIsIndexed == ASSUME NothingFails PROVE Spec => []DoneHasIndex
<1>1. IInv /\ WellInv => DoneHasIndex
  BY DEF IInv, WellInv, LiveRowsKeepDump, Indexed, DoneHasIndex
<1>2. QED
  BY <1>1, WellInvariance, PTL

(* Under the same condition only the owner of a claim settles its report.      *)
THEOREM OwnersSettle == ASSUME NothingFails PROVE Spec => OnlyOwnerSettles
<1>1. IInv /\ WellInv /\ [Next]_vars =>
        [\A w \in Workers, r \in Reports :
          /\ task[w] = r /\ pc'[w] # pc[w]
          /\ status[r] = "PARSING" /\ status'[r] \in Terminal
          => owner[r] = w]_vars
  <2>1. ASSUME WellInv, NEW w \in Workers, NEW r \in Reports, task[w] = r, status[r] = "PARSING"
        PROVE  owner[r] = w
    BY <2>1, ConstantsAssumption DEF WellInv, OneEach, OwnerWorks
  <2>2. QED
    BY <2>1
<1>2. QED
  BY <1>1, WellInvariance, PTL DEF Spec, OnlyOwnerSettles
=============================================================================
