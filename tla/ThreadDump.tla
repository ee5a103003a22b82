------------------------------ MODULE ThreadDump ------------------------------
(***************************************************************************)
(* Reading a thread dump (react_agent/jstack_analyzer.py): a state machine  *)
(* cuts the text into the blocks of its threads and the deadlock section,   *)
(* the blocks become threads, and the threads a report with a diagnosis.    *)
(* Then the agent may ask for one thread of it by name or number.           *)
(*                                                                         *)
(* A line is a record whose kind says which recogniser takes it:            *)
(*   thread [name, tid, nids, hint], state [of], frame [of], lock [of, addr, desc] *)
(*   mounted, carrying      the two stacks of a carrier of virtual threads  *)
(*   found, entry [name], held [by]      the deadlock section               *)
(*   refs                   "JNI global refs", other                        *)
(* A dump in JSON is its containers of threads, a container before those in *)
(* it; a thread there is [name, tid, nids, virtual, state, frames, held,     *)
(* waiting].                                                               *)
(***************************************************************************)
EXTENDS Integers, Sequences, SequencesExt, FiniteSets, FiniteSetsExt, Functions

CONSTANTS
    Dumps,          \* the dumps as text: sequences of lines
    JsonDumps,      \* the dumps in JSON: sequences of containers
    Within,         \* pairs of what is asked for and a name that contains it
    ThreadCountWarn, ThreadCountCrit, PoolBloatMin, \* 1000, 2000, 500
    ScanFrames,     \* frames searched for a connection pool: 15
    HotLimit,       \* locks that are reported as hot: 10
    Ranges          \* of depth: 0-5, 6-10, 11-20, 21-30, 31-50, 51-999

ASSUME DumpAssumption ==
    /\ ThreadCountWarn \in Nat /\ ThreadCountCrit \in Nat /\ ThreadCountWarn <= ThreadCountCrit
    /\ PoolBloatMin \in Nat /\ ScanFrames \in Nat /\ HotLimit \in Nat
    \* The ranges begin at 0 and follow each other.
    /\ Ranges \in Seq(Nat \X Nat) /\ Ranges # <<>> /\ Ranges[1][1] = 0
    /\ \A r \in DOMAIN Ranges : Ranges[r][1] <= Ranges[r][2]
    /\ \A r \in 2 .. Len(Ranges) : Ranges[r][1] = Ranges[r - 1][2] + 1
    \* Dumps are sequences, and so are containers and stacks.
    /\ \A d \in Dumps : d \in Seq(ToSet(d))
    /\ \A d \in JsonDumps :
        /\ d \in Seq(ToSet(d))
        /\ \A c \in ToSet(d) :
            /\ c.threads \in Seq(ToSet(c.threads))
            /\ \A t \in ToSet(c.threads) :
                t.frames \in Seq(ToSet(t.frames)) /\ t.tid \in Seq(ToSet(t.tid))

VARIABLES
    dump,        \* what was uploaded
    json,        \* is it JSON?
    line,        \* lines read
    section,     \* header, thread, deadlock, jni, done
    block,       \* the block in progress
    tblocks,     \* blocks of the threads
    deadlines,   \* lines of the deadlock section
    report,      \* the report, <<>> before
    asked,       \* what the agent asked for, <<>>
    shown        \* the tid of the thread it was shown, <<>>

dumpVars == <<dump, json, line, section, block, tblocks, deadlines, report, asked, shown>>

DumpInit ==
    /\ \/ json = FALSE /\ dump \in Dumps
       \/ json = TRUE /\ dump \in JsonDumps
    /\ line = 0 /\ section = "header"
    /\ block = <<>> /\ tblocks = <<>> /\ deadlines = <<>>
    /\ report = <<>> /\ asked = <<>> /\ shown = <<>>

------------------------------------------------------------------------------
(* Cutting the text.  After "JNI global refs" nothing is read any more.      *)
Cut == dump[line + 1]
Closed(some) == IF block = <<>> THEN some ELSE Append(some, block)

ReadHeader ==
    /\ section = "header"
    /\ IF Cut.kind = "thread" THEN section' = "thread" /\ block' = <<Cut>> ELSE UNCHANGED <<section, block>>
    /\ UNCHANGED <<tblocks, deadlines>>
NextThread ==
    /\ section = "thread" /\ Cut.kind = "thread"
    /\ tblocks' = Closed(tblocks)
    /\ block' = <<Cut>>
    /\ UNCHANGED <<section, deadlines>>
FoundDeadlock_Keep ==
    /\ section = "thread" /\ Cut.kind = "found"
    /\ tblocks' = Closed(tblocks)
    /\ section' = "deadlock"
    /\ deadlines' = Append(deadlines, Cut)
    /\ UNCHANGED block
FoundDeadlock ==
    /\ section = "thread" /\ Cut.kind = "found"
    /\ tblocks' = Closed(tblocks)
    /\ block' = <<>>
    /\ section' = "deadlock"
    /\ deadlines' = Append(deadlines, Cut)
ReadRefs ==
    /\ section \in {"thread", "deadlock"} /\ Cut.kind = "refs"
    /\ tblocks' = Closed(tblocks)
    /\ block' = <<>>
    /\ section' = "jni"
    /\ UNCHANGED deadlines
ReadBlockLine ==
    /\ section = "thread" /\ Cut.kind \notin {"thread", "found", "refs"}
    /\ block' = Append(block, Cut)
    /\ UNCHANGED <<section, tblocks, deadlines>>
ReadDeadlockLine ==
    /\ section = "deadlock" /\ Cut.kind # "refs"
    /\ deadlines' = Append(deadlines, Cut)
    /\ UNCHANGED <<section, block, tblocks>>
SkipRest ==
    /\ section = "jni"
    /\ UNCHANGED <<section, block, tblocks, deadlines>>

ReadDumpLine ==
    /\ ~json /\ section # "done" /\ line < Len(dump)
    /\ line' = line + 1
    /\ \/ ReadHeader \/ NextThread \/ FoundDeadlock \/ ReadRefs
       \/ ReadBlockLine \/ ReadDeadlockLine \/ SkipRest
    /\ UNCHANGED <<dump, json, report, asked, shown>>

------------------------------------------------------------------------------
(* A thread of its block.                                                    *)
LinesAt(lines, places) ==
    [n \in 1 .. Cardinality(places) |->
        lines[CHOOSE i \in places : Cardinality({j \in places : j <= i}) = n]]
Kind(lines, k) == LinesAt(lines, {i \in DOMAIN lines : lines[i].kind = k})
StateOfHint(h) ==
    CASE h \in {"waiting on condition", "in Object.wait()"} -> "WAITING"
      [] h = "blocked" -> "BLOCKED"
      [] OTHER -> "RUNNABLE"
StateOf(b) ==
    LET stated == Kind(b, "state") IN IF stated = <<>> THEN StateOfHint(b[1].hint) ELSE Last(stated).of

(* Of a carrier with a mounted virtual thread only the frames of the virtual *)
(* thread count; locks are taken of both.                                    *)
FramesOf_All(b) == [i \in DOMAIN Kind(b, "frame") |-> Kind(b, "frame")[i].of]
FramesOf(b) ==
    LET at == SelectInSeq(b, LAMBDA l : l.kind = "mounted")
        some == Kind(SubSeq(b, at + 1, Len(b)), "frame")
    IN  [i \in DOMAIN some |-> some[i].of]

(* Locks are known by their class; the address only where that is missing.   *)
LockName(l) == IF l.desc = "" THEN l.addr ELSE l.desc
LocksOf(b, types) ==
    LET some == LinesAt(b, {i \in DOMAIN b : b[i].kind = "lock" /\ b[i].of \in types})
    IN  [i \in DOMAIN some |-> LockName(some[i])]

Waits == {"waiting to lock", "parking to wait for"}
Thread(b) ==
    LET waits == LocksOf(b, Waits)
    IN  [name    |-> b[1].name,
         tid     |-> b[1].tid,
         state   |-> StateOf(b),
         frames  |-> FramesOf(b),
         held    |-> LocksOf(b, {"locked"}),  \* joined to one text
         waiting |-> IF waits = <<>> THEN "None" ELSE Last(waits)]

(* A thread of a JSON dump.  Without a name it gets one, a virtual thread of *)
(* its container.                                                            *)
JsonName(t, container) ==
    IF t.name # <<>> THEN t.name ELSE (IF t.virtual THEN <<"VThread", container>> ELSE <<"Thread">>) \o t.tid
JsonThreads(containers) ==
    FlattenSeq([c \in DOMAIN containers |->
        [i \in DOMAIN containers[c].threads |->
            LET t == containers[c].threads[i]
            IN  [name |-> JsonName(t, containers[c].name), tid |-> t.tid, state |-> t.state,
                 frames |-> t.frames, held |-> t.held, waiting |-> t.waiting]]])

(* Deadlocked threads; the list of their stacks at the end counts them again. *)
Deadlocks(lines) == Kind(lines, "entry")

------------------------------------------------------------------------------
(* The report.  Threads are taken by their place in the dump.                *)
Those(ts, P(_)) == {i \in DOMAIN ts : P(ts[i])}
Waiting(t) == t.state \in {"WAITING", "TIMED_WAITING"}
IoMethods == {"socketRead0", "socketAccept", "accept0", "read0", "readBytes", "epollWait", "epollCtl",
              "poll0", "poll", "recvfrom", "recv0"}
BorrowMethods == {"HikariPool.getConnection", "ConcurrentBag.borrow", "DruidDataSource.getConnection",
                  "GenericObjectPool.borrowObject", "ConnectionPool.borrowConnection",
                  "BasicResourcePool.awaitAvailable"}
InIo(t) == t.frames # <<>> /\ t.frames[1] \in IoMethods
Borrows(t) == Waiting(t) /\ \E i \in DOMAIN t.frames : i <= ScanFrames /\ t.frames[i] \in BorrowMethods

ConnWaiters(ts) == Those(ts, Borrows)
IoWaiters(ts) == Those(ts, LAMBDA t : Waiting(t) /\ InIo(t)) \ ConnWaiters(ts)
RealRunnable(ts) == Those(ts, LAMBDA t : t.state = "RUNNABLE" /\ ~InIo(t))

(* Three methods on top of more than half of the running threads.            *)
Concentrated(ts) ==
    LET with == {i \in RealRunnable(ts) : ts[i].frames # <<>>}
        on(m) == {i \in with : ts[i].frames[1] = m}
    IN  \E three \in SUBSET {ts[i].frames[1] : i \in with} :
            /\ Cardinality(three) <= 3
            /\ 2 * Cardinality(UNION {on(m) : m \in three}) > Cardinality(RealRunnable(ts))

Percent100(part, total) == IF total = 0 THEN 0 ELSE (20000 * part + total) \div (2 * total)
Blocked(ts) == Those(ts, LAMBDA t : t.state = "BLOCKED")
(* A name is its parts: what ends in a number belongs to the pool before it.  *)
Pool(name) == IF Len(name) = 1 THEN name ELSE Front(name)
Pools(ts) == {Pool(ts[i].name) : i \in DOMAIN ts}
PoolSize(ts, p) == Cardinality(Those(ts, LAMBDA t : Pool(t.name) = p))

DumpFinding(rule, severity) == [rule |-> rule, severity |-> severity]
FindingIf(rule, high, medium) ==
    IF high THEN {DumpFinding(rule, "high")} ELSE IF medium THEN {DumpFinding(rule, "medium")} ELSE {}
DeadlockFinding(n) == FindingIf("deadlock", n > 0, FALSE)
Diagnosis(ts, deadlocked) ==
    LET total == Len(ts)
        blocked == Percent100(Cardinality(Blocked(ts)), total)
        conn == Cardinality(ConnWaiters(ts))
    IN  IF total = 0 THEN {} ELSE
        UNION {FindingIf("thread_count_high", total > ThreadCountCrit, total > ThreadCountWarn),
               FindingIf("thread_pool_bloat", FALSE,
                  \E p \in Pools(ts) : PoolSize(ts, p) > PoolBloatMin /\ 2 * PoolSize(ts, p) > total),
               DeadlockFinding(deadlocked),
               FindingIf("lock_contention", blocked > 1500, blocked > 500),
               FindingIf("conn_pool_exhaustion", conn >= 2 /\ (conn >= 5 \/ 10 * conn > total), conn >= 2),
               FindingIf("io_wait_concentration", FALSE, Cardinality(IoWaiters(ts)) >= 3),
               FindingIf("cpu_intensive", FALSE,
                  2 * Cardinality(RealRunnable(ts)) > total /\ Concentrated(ts))}
Overall(findings) ==
    IF \E f \in findings : f.severity = "high" THEN "critical"
    ELSE IF findings # {} THEN "warning" ELSE "health"

(* Hot locks: the names most threads wait for, of equals the one met first;  *)
(* how many wait for each, and who holds it: the last thread whose locks,    *)
(* joined, read the same.                                                    *)
Waiters(ts, k) == Those(ts, LAMBDA t : t.waiting = k)
Hotter(ts, k, l) ==
    \/ Cardinality(Waiters(ts, k)) > Cardinality(Waiters(ts, l))
    \/ /\ Cardinality(Waiters(ts, k)) = Cardinality(Waiters(ts, l))
       /\ Min(Waiters(ts, k)) < Min(Waiters(ts, l))
HotLocks(ts) ==
    LET names == {ts[i].waiting : i \in DOMAIN ts} \ {"None"}
    IN  {l \in names : Cardinality({k \in names : Hotter(ts, k, l)}) < HotLimit}
HolderOf_AnyLock(ts, k) ==
    LET holds == Those(ts, LAMBDA t : t.held # <<>>) IN IF holds = {} THEN 0 ELSE Max(holds)
HolderOf(ts, k) ==
    LET holds == Those(ts, LAMBDA t : t.held = <<k>>) IN IF holds = {} THEN 0 ELSE Max(holds)

DepthCount(ts, r) ==
    Cardinality(Those(ts, LAMBDA t : Ranges[r][1] <= Len(t.frames) /\ Len(t.frames) <= Ranges[r][2]))

(* The flame graph: how many running threads went through each path from the *)
(* entry; built a thread at a time.                                          *)
Flame(ts) ==
    LET paths(t) == {SubSeq(Reverse(t.frames), 1, n) : n \in 0 .. Len(t.frames)}
        add(g, t) ==
            IF t.state # "RUNNABLE" \/ t.frames = <<>> THEN g
            ELSE [p \in DOMAIN g \cup paths(t) |->
                    (IF p \in DOMAIN g THEN g[p] ELSE 0) + (IF p \in paths(t) THEN 1 ELSE 0)]
    IN  FoldLeft(add, [p \in {<<>>} |-> 0], ts)

ReportOn(ts, deadlocked) ==
    LET findings == Diagnosis(ts, deadlocked)
    IN  [threads   |-> ts,
         deadlocks |-> deadlocked,
         findings  |-> findings,
         overall   |-> Overall(findings),
         holders   |-> [k \in HotLocks(ts) |-> HolderOf(ts, k)],
         waiters   |-> [k \in HotLocks(ts) |-> Cardinality(Waiters(ts, k))],
         depths    |-> [r \in DOMAIN Ranges |-> DepthCount(ts, r)],
         pools     |-> [p \in Pools(ts) |-> PoolSize(ts, p)],
         flame     |-> Flame(ts)]

BuildReport ==
    LET threads == Closed(tblocks)
    IN  /\ ~json /\ section # "done" /\ line = Len(dump)
        /\ section' = "done"
        /\ tblocks' = threads /\ block' = <<>>
        /\ report' = ReportOn([i \in DOMAIN threads |-> Thread(threads[i])], Len(Deadlocks(deadlines)))
        /\ UNCHANGED <<dump, json, line, deadlines, asked, shown>>

(* A JSON dump says nothing of deadlocks.                                    *)
ReportJson ==
    /\ json /\ section # "done"
    /\ section' = "done"
    /\ report' = ReportOn(JsonThreads(dump), 0)
    /\ UNCHANGED <<dump, json, line, block, tblocks, deadlines, asked, shown>>

(* The agent asks for a thread: the first whose name contains what it asked  *)
(* for, or one of whose numbers is that: its own and those the operating     *)
(* system gave it (nids, which a dump in JSON has not).                      *)
Fits(ask, l) == ask \in {l.tid} \cup l.nids \/ <<ask, l.name>> \in Within
AnalyzeThread(ask) ==
    LET headers == IF json THEN FlattenSeq([c \in DOMAIN dump |-> dump[c].threads]) ELSE Kind(dump, "thread")
        first == SelectInSeq(headers, LAMBDA l : Fits(ask, l))
    IN  /\ section = "done" /\ asked = <<>>
        /\ asked' = ask
        /\ shown' = IF first = 0 THEN <<>> ELSE headers[first].tid
        /\ UNCHANGED <<dump, json, line, section, block, tblocks, deadlines, report>>

DumpNext ==
    \/ ReadDumpLine
    \/ BuildReport
    \/ ReportJson
    \/ \E pair \in Within : AnalyzeThread(pair[1])
DumpSpec == DumpInit /\ [][DumpNext]_dumpVars

------------------------------------------------------------------------------
HasReport == section = "done"
Threads == report.threads

(* What the machine says of its threads, read from the dump itself: the      *)
(* lines from a header to the next line that ends it.                        *)
Headers == {i \in DOMAIN dump : ~json /\ dump[i].kind = "thread"}
Ends(i, j) == i < j /\ dump[j].kind \in {"thread", "found", "refs"}
OwnLines(i) == {j \in i .. Len(dump) : \A e \in i + 1 .. j : ~Ends(i, e)}
Own(i, k) == {dump[j].of : j \in {m \in OwnLines(i) : dump[m].kind = k}}
OwnLocks(i, types) ==
    {LockName(dump[j]) : j \in {m \in OwnLines(i) : dump[m].kind = "lock" /\ dump[m].of \in types}}

(* A dump as the JVM prints it: its threads before the deadlock section and  *)
(* the references, one virtual thread on a carrier; a name contains itself.  *)
Printed ==
    \A d \in Dumps : \A i, j \in DOMAIN d :
        /\ i < j /\ d[i].kind \in {"found", "refs"} => d[j].kind # "thread"
        /\ i < j /\ d[i].kind = "mounted" /\ d[j].kind = "mounted" =>
             \E k \in i + 1 .. j : d[k].kind \in {"thread", "found", "refs"}
        /\ d[i].kind = "thread" => d[i].name # <<>> /\ <<d[i].name, d[i].name>> \in Within

(* Types.                                                                    *)
DumpTypeOK ==
    /\ section \in {"header", "thread", "deadlock", "jni", "done"}
    /\ line \in 0 .. Len(dump)
    /\ block # <<>> => block[1].kind = "thread"
    /\ \A i \in DOMAIN tblocks : tblocks[i] # <<>> /\ tblocks[i][1].kind = "thread"
    /\ section = "thread" <=> block # <<>>
    /\ json => section \in {"header", "done"}
    /\ HasReport => report.overall \in {"critical", "warning", "health"}

(* Every thread of the dump is in the report with its own state, its own     *)
(* locks and as many frames as its stack has: neither the locks nor the      *)
(* frames of a neighbour, nor the scheduling stack of the carrier of a       *)
(* virtual thread.                                                           *)
ThreadsAreTheirOwn ==
    HasReport /\ ~json =>
        /\ Len(Threads) = Cardinality(Headers)
        /\ \A t \in ToSet(Threads) : \E i \in Headers :
             LET mounted == {j \in OwnLines(i) : dump[j].kind = "mounted"}
             IN  /\ dump[i].tid = t.tid
                 /\ Own(i, "state") # {} => t.state \in Own(i, "state")
                 /\ ToSet(t.held) = OwnLocks(i, {"locked"})
                 /\ t.waiting \in (IF OwnLocks(i, Waits) = {} THEN {"None"} ELSE OwnLocks(i, Waits))
                 /\ Len(t.frames) = Cardinality({j \in OwnLines(i) :
                        dump[j].kind = "frame" /\ \A m \in mounted : m < j})

(* Of a JSON dump too every thread is in the report, however deep its         *)
(* container is, and no two get the same name.                                 *)
JsonThreadsAllThere ==
    HasReport /\ json =>
        /\ {t.tid : t \in ToSet(Threads)} = UNION {{t.tid : t \in ToSet(c.threads)} : c \in ToSet(dump)}
        /\ \A i, j \in DOMAIN Threads :
             Threads[i].name = Threads[j].name /\ Threads[i].tid # Threads[j].tid =>
                 \E c \in ToSet(dump) : \E t \in ToSet(c.threads) : t.name = Threads[i].name

(* A deadlock in the dump is reported as critical, wherever it is written    *)
(* before the line that ends the dump.                                       *)
DeadlockIsCritical ==
    HasReport /\ ~json =>
        ((\E i, j \in DOMAIN dump : i < j /\ dump[i].kind = "found" /\ dump[j].kind = "entry"
            /\ Headers \cap 1 .. i # {} /\ \A e \in 1 .. j : dump[e].kind # "refs")
         => report.overall = "critical")

(* No thread is counted for two causes: what waits for a connection is not   *)
(* counted as waiting for the network, and neither as running.               *)
OneCauseEach ==
    HasReport =>
        LET ts == Threads
        IN  /\ Cardinality(ConnWaiters(ts)) + Cardinality(IoWaiters(ts)) + Cardinality(RealRunnable(ts))
                 + Cardinality(Blocked(ts)) <= Len(ts)

(* The thread named as the holder of a hot lock holds a lock of that name.   *)
HolderHolds ==
    HasReport =>
        \A k \in DOMAIN report.holders :
            report.holders[k] # 0 => \E n \in DOMAIN Threads[report.holders[k]].held :
                                        Threads[report.holders[k]].held[n] = k

(* The counts agree: the pools and, up to the last depth that is counted,    *)
(* the ranges of depth make up all threads, and every path of the flame      *)
(* graph is at least as wide as those that go on from it.                    *)
CountsAgree ==
    HasReport =>
        LET ts == Threads
            g == report.flame
        IN  /\ SumFunction(report.pools) = Len(ts)
            /\ (\A t \in ToSet(ts) : Len(t.frames) <= Last(Ranges)[2]) => SumFunction(report.depths) = Len(ts)
            /\ \A p \in DOMAIN g :
                 LET on == {q \in DOMAIN g : Len(q) = Len(p) + 1 /\ SubSeq(q, 1, Len(p)) = p}
                 IN  SumFunctionOnSet(g, on) <= g[p]

(* Who asks for a thread by its name sees the stack of that thread, if no    *)
(* other name contains it and no other number is it.                         *)
NamedThreadIsShown ==
    \A i \in Headers :
        /\ asked = dump[i].name
        /\ \A j \in Headers : j # i => ~Fits(asked, dump[j])
        => shown = dump[i].tid

(* What is in the dump is reported: every thread as it is, in both formats   *)
(* (parse_jstack, _parse_jstack_json), a deadlock (_parse_deadlocks), and    *)
(* the thread that is asked for by name (_extract_thread_text).              *)
DumpIsReported ==
    ThreadsAreTheirOwn /\ JsonThreadsAllThere /\ DeadlockIsCritical /\ NamedThreadIsShown

(* The figures fit the threads and each other: no thread is counted for two  *)
(* causes, no total misses one, and the holder of a hot lock holds it        *)
(* (compute_stats, _diagnose_threads, build_flamegraph_data).                *)
DumpFiguresAgree == OneCauseEach /\ HolderHolds /\ CountsAgree

(* The lock that is named hot is one lock: the class of a lock is not enough *)
(* to say who holds it.  The code does not keep this.                        *)
HolderHoldsThatLock ==
    HasReport /\ ~json =>
        \A k \in DOMAIN report.holders :
            report.holders[k] # 0 =>
                \E i \in Headers, w \in DOMAIN dump :
                    /\ dump[i].tid = Threads[report.holders[k]].tid
                    /\ dump[w].kind = "lock" /\ dump[w].of # "locked"
                    /\ \E j \in OwnLines(i) :
                         dump[j].kind = "lock" /\ dump[j].of = "locked" /\ dump[j].addr = dump[w].addr

(* "extract the thread asked for": a thread of exactly that name is shown if *)
(* there is one.  The code does not keep this.                               *)
ExactNameIsShown ==
    shown # <<>> =>
        ((\E i \in Headers : dump[i].name = asked) => \E i \in Headers : dump[i].name = asked /\ dump[i].tid = shown)

(* README.md: "Deadlock detection": a deadlock section is reported wherever  *)
(* it is.  The code does not keep this: HotSpot prints it after the line     *)
(* "JNI global refs" (since Java 9), where nothing is read any more.         *)
DeadlockAlwaysReported ==
    HasReport /\ ~json =>
        ((\E i, j \in DOMAIN dump : i < j /\ dump[i].kind = "found" /\ dump[j].kind = "entry"
            /\ Headers \cap 1 .. i # {})
         => report.deadlocks > 0)

(* What the report calls a thread can be asked for.  The code does not keep  *)
(* this: the names it gives to virtual threads are not in the dump.          *)
ReportNamesCanBeAsked ==
    HasReport => \A t \in ToSet(Threads) : asked = t.name => shown # <<>>
=============================================================================
