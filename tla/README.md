# A formal model of JVMind CE

JVMind CE is a web application that diagnoses JVM problems with the help of a
language model: it parses GC logs and thread dumps, has Eclipse MAT parse heap
dumps in worker processes, and lets an agent with tools answer questions about
the results in chat sessions.  This directory holds TLA+ models of the parts of
it in which order, concurrency and failure matter, TLC configurations that check
them, and TLAPS proofs of the most important results.

Contents: [the system](#the-system), [the plan](#the-plan), one section per
module ([HeapdumpJobs](#heapdumpjobs-and-reportpromise),
[ChunkUpload](#chunkupload), [SessionLock](#sessionlock),
[StreamAdapter](#streamadapter), [SessionMemory](#sessionmemory), the analyzers
composed in [Reports](#reports-reading-and-judging-uploads), the rest of the
server composed in [Backend](#backend)),
[disagreements](#disagreements) between the code and what it says of itself, and
[what is not modelled](#not-modelled).

To check a module by hand: `tlc -config <run>.cfg <module>`, with the module
named in `PROJECT.json`; to check the proofs: `tlapm <module>_proofs.tla`.

## The system

Paths are relative to `src/`.

| Component | Sources | State | Operations | Hard because |
|---|---|---|---|---|
| Heap-dump jobs | `react_agent/heapdump_worker/*`, `app/routes/heapdump_reports.py`, the row of `heapdump_reports` | row status, heartbeat, owner, attempts; the dump directory (hprof, `*.index`, `.worker.lock`); the coroutine of each worker; each watchdog's result set | claim, parse, heartbeat, finish, stats, sweep, cancel, delete | several processes, kill -9, lost heartbeats, lost writes, unguarded read-then-write, orphaned MAT processes |
| Chunked upload | `app/routes/heapdump_upload.py` | session directory with `meta.json`, `<i>.part`, temporary files; the dump directory being made | create, PUT chunk, status, complete, cancel | concurrent PUTs of one chunk, complete racing PUT and cancel, retries, death between insert and clean-up |
| Session lock, chat route | `app/routes/chat.py`, `app/core/helpers.py` | table of lock entries with refcount and holder thread, cancel flags | stream, stop, release, reclaim | threads, event loop and generator clean-up meet; recovery steals locks |
| Streamed answer | `react_agent/graph/sse_adapter.py`, `progress.py` | chunk queue, progress queue, flags of thread and generator, the text so far | drive the graph, take, send, drain, join, save | bounded queues, a timeout racing the last item, exceptions raised at every `yield` |
| Session memory | `react_agent/memory_db.py`, `summarizer.py`, `graph/facade.py`, `app/routes/sessions.py` | messages, the summary, sessions | append, read, summarise, clear, delete | a summary that takes long, while messages come and go |
| Agent loop | `react_agent/graph/nodes.py`, `react_agent/graph/graph_builder.py`, `react_agent/tools.py` | message list, iteration count, guard flags | call model, run tools in parallel, decide to continue, trim the history | trimming must keep tool calls and their answers together; a limit on iterations |
| Configuration, agents | `react_agent/config.py`, `app/routes/config.py`, `app/core/helpers.py`, `app/core/state.py` | `.env`, `os.environ`, the agent cache | put config, get agent, evict | an agent built from the old configuration and cached after the change |
| Facts and token budget | `react_agent/memory_db.py`, `react_agent/memory/{facts,token_budget}.py` | facts with scores | add, select under a budget, remove by index | the index is of another order than the one shown |
| GC log analysis | `react_agent/gc_analyzer/*` | one pass over lines | join, parse, pair, compute statistics | long state machines over irregular logs |
| Thread dump analysis | `react_agent/jstack_analyzer.py` | one pass over lines, a wait-for graph | parse, find deadlocks, group | cycles |
| GC and thread dump reports | `app/routes/gc_reports.py`, `app/routes/jstack_reports.py`, `react_agent/upload_storage.py` | report row, file record, stored text | upload, list, delete, expire | three writes, each of which may fail |
| Heap-dump queries | `react_agent/mat_tools.py`, `app/routes/heapdump_proxy.py` | map of task owners | proxy to the query service | a map that survives neither restart nor a second process |
| Users, skills, settings, feedback, audit | `user_manager_db.py`, `skill_manager_db.py`, `app/routes/{auth,skills,settings,feedback,plans,health}.py`, `app/services/audit.py` | one table each | CRUD | little |
| Frontend | `frontend/src/*` | browser state | rendering, polling, sending chunks | out of scope but for the poller and the sender |

What makes each modelled component correct:

* **Heap-dump jobs** - one worker owns a report; a report that has not been
  given up keeps its dump; giving up (cancel, failure, deletion) is for good;
  MATs do not write into each other's files; every report is settled.
* **Chunked upload** - a chunk reported as received, and every chunk merged into a
  report, is whole; what fails leaves no dump behind; an upload is completed once.
* **Session lock** - one turn at a time has a session; the lock comes back on every
  path; a stop reaches the stream it was meant for.
* **Streamed answer** - what is saved is what the graph emitted, and nothing after
  an error; a stop ends the turn although the model hangs, and so does an event that
  finds the client gone; no thread is left behind.
* **Agent loop** - every prompt is one the provider accepts; a tool is reported
  successful only if it was executed; every turn ends, with an answer, although
  tools hang.
* **Configuration, agents** - who asks after a save is served with what was saved.
* **Facts** - what the model is given fits the budget; deleting a fact deletes no
  other.
* **Log and dump analysis** - what the machine printed is reported once and with
  its own figures, however its lines are interleaved; what a report says is backed
  by what was read.
* **Reports** - row, record and text agree, whatever is uploaded, removed or swept
  at the same time.
* **Heap-dump queries** - everyone who asks is told something; nobody is told a
  result the query did not have.
* **Session memory** - the model is not shown what the user has cleared; messages
  are dropped only when a summary stands for them; the table stays bounded; a
  deleted session leaves nothing.

### How the components interact

*Heap dumps.*  The browser PUTs chunks to an upload session and completes it
(`ChunkUpload`); that inserts a `QUEUED` row and leaves an hprof in the row's
dump directory, where `HeapdumpJobs` begins.  A worker process claims the oldest
such row by a conditional `UPDATE`, takes a `flock` in the directory, starts MAT
in a process session of its own, and keeps the row's heartbeat fresh.  When MAT
is done the worker releases the lock, backfills statistics through the query
service and commits `DONE`.  Each worker process also runs a watchdog, which
resets or fails `PARSING` rows and settles `CANCEL_REQUESTED` rows whose
heartbeat is too old.  The web process cancels and deletes: it reads the row's
status in one transaction and writes in another, and removes the directory after
its commit.  Nothing but the database, the flock and the files connects these
processes.

*Chat.*  `chat_stream` takes the session's lock (`SessionLock`), clears the stop
flag, prepares the report context and returns a generator.  The generator saves
the question, starts a thread that drives the agent graph and puts what it emits
into a bounded queue, and takes from that queue until the end marker, a stop, or
the client's departure (`StreamAdapter`); then it saves the answer and has the
session summarised if it has become long (`SessionMemory`); its `finally` clears
the flag and gives the lock back.  `chat_stop` sets the flag.  Clearing the
messages and deleting the session take no lock: they meet a turn at any point.
Within the graph (`AgentLoop`) rounds of the model and of tools alternate; tools run
in a pool shared by all turns of a user's agent, which comes from the cache of agents
(`AgentCache`) and whose prompt includes facts chosen under a budget (`SessionFacts`).
`SessionLock` abstracts a stream to "it ends some time", `StreamAdapter` is what
happens in between, and `SessionMemory` assumes that turns of a session come one
after the other, which is what `OneTurn` of `SessionLock` is about.

*Logs and thread dumps.*  An upload is read by one of the readers (`GcLog8`, `GcLog9`,
`ThreadDump`) in a pool thread, a GC log's events are judged there (`GcDiagnosis`),
and the result is stored as a row, a file and its record (`ReportStore`); old texts
are swept by whoever uploads next.  The agent's tools read the stored text again.

*Queries.*  The page, the workbench and two of the agent's tools submit queries on a
parsed heap dump to the query service, the first two through the proxy, and poll
until they are told the end (`HeapTasks`).

## The plan

Order of work, most important first.

1. `HeapdumpJobs` with `ReportPromise`, the abstract specification it implements,
   and proofs: the inductive invariant, the safety properties that follow from it,
   the refinement - done.
2. `ChunkUpload`: PUT, complete and cancel of an upload session, with proofs - done.
3. `SessionLock` and `StreamAdapter`: one turn per session, the stop flag, the
   bounded queue between graph thread and response, with proofs - done.
4. `SessionMemory`: append, summarise, clear, delete, with proofs - done.
5. The analyzers: `GcLog8`, `GcLog9`, `ThreadDump` (reading), `GcDiagnosis`
   (judging), composed by `Reports` - done.
6. `AgentLoop`: rounds, parallel tool calls, assembly and trimming of the prompt,
   with the proof that the two limits on a turn agree - done.
7. `ReportStore`: report row, file record and stored text, with proofs - done.
8. `HeapTasks`: the proxy, its map of owners and the four pollers - done.
9. `AgentCache`, `SessionFacts` - done; `Backend` composes 6 to 9.
10. The safety of the heap queries, of a turn, of the agent cache and of `Backend` as
    a whole, jobs where nothing fails, uploads that overlap, the bound on the history,
    the verdicts on GC logs, `OneTurn` with threads that end but are spared: proofs -
    done.
11. The three readers, the charts, the facts and the types of `Backend` and `Reports`:
    proofs - done, but for what a report of a Java 8 log says of each block.
12. `SessionLock` with `StreamAdapter` in place of "it ends some time", and an
    abstract specification of a chat turn that both implement.

Deadlock checking is off in every configuration: once users have stopped asking
and everything has been settled, the systems modelled here rest.

## HeapdumpJobs and ReportPromise

`HeapdumpJobs` models `react_agent/heapdump_worker/{__init__,claim,parse,watchdog}.py`
and the cancel and delete routes of `app/routes/heapdump_reports.py`;
`MCHeapdumpJobs` names budgets for TLC; `ReportPromise` is what the user of the
report list is promised: a report is live until it is done or disowned
(cancelled, failed, deleted), disowned is for good, and only a disowned report
loses its dump.

### State and actions

The row: `status` (with `new` before the insert and `gone` after the delete),
`hb` (`none`, `fresh`, or `stale`: older than `HEARTBEAT_TIMEOUT`), `owner`
(`worker_id`), `attempts`.  The dump directory: `hprof`, `index` (`none`,
`partial`, `whole`), `flock` (who holds `.worker.lock`), `orphans` (MAT processes
whose worker died).  Per worker: `pc`, `task` and `outcome` for its coroutine,
`scan` and `cancelScan` for the rows its watchdog has selected and not yet dealt
with.  Per report: `web` (a cancel request that has read the status and not yet
written) and `rm` (a directory about to be removed).  `left` is a budget of
faults and user requests.

A step is one database transaction, or one stretch of a coroutine without an
`await` in it.  `pc` names the stretch that comes next: `idle`, `check` (the
files), `lock`, `parse`, `release` (the `finally` of `run_parse_task`), `settle`
and `write` (the two halves of `_finish_terminal`), `stats`, `commit`; `down`
is a process that is not there.

Faults: `crash` (kill -9; the kernel frees the flock, MAT lives on in its own
session), `stop` (SIGTERM), `stall` (a live worker's heartbeat stays away longer
than the timeout: `backfill_stats` or a slow database blocks the event loop),
`db` (an `UPDATE` fails and `_update_fields` swallows the exception, a claim is
committed and not read back, a sweep is rolled back), and the requests `cancel`
and `delete`.

### Runs

| Run | Instance | Shows |
|---|---|---|
| `jobs_requests` | 2 workers, 2 reports, 2 cancels, a delete, no faults | `DoneHasIndex`, `OnlyOwnerSettles`: as long as nothing fails, a `DONE` report can be queried and only its owner settles it |
| `jobs_faults` | 2 workers, 1 report, every fault once, 2 cancels, a delete | `LiveRowsKeepDump`, `OneSupervisedMat`, `KeepsPromise` (the refinement, which also says that a cancel is binding) |
| `jobs_liveness` | 2 workers, 1 report, a crash, a stall, a failed write, a cancel; `FairSpec` | `EveryReportSettles` |

Two workers are enough for every race between claimants and for two watchdogs;
the races are on one row, so one report is enough except for the order of claims
and for deleting several rows at once (`jobs_requests`).  `MaxAttempts` is 2, so
that the limit is reached within the budget, and 3 where a reset must lead back
to the queue.  A budget admits each fault once because each can hit any stretch
of any worker; the interesting cases combine different faults, which it allows.
`jobs_liveness` leaves out SIGTERM and deletions, which only settle reports
earlier.  `DoneHasIndex` and `OnlyOwnerSettles` are checked without faults
because with a stall they do not hold (see [disagreements](#disagreements)).

### Fairness

`FairSpec` assumes that the coroutines and the watchdogs of a running process
take their next step (asyncio schedules every ready task; the sweep runs every
minute), that a killed process is restarted (systemd or docker), that a request
which has read carries on to its write and its `rmtree`, that a heartbeat nobody
refreshes becomes old, and that an orphaned MAT ends.  Users and faults owe
nothing; `Heartbeat` is not fair, so a worker may be slow for ever within its
stall budget.

### What is proved

`HeapdumpJobs_proofs` proves, for any number of workers and reports, any limit
and any budget: `Spec => []IInv` and from it `[]TypeOK`, `[]LiveRowsKeepDump`,
`[]OneSupervisedMat`, `CancelIsBinding`, `OnlyLateCancelReopens`, and that `Spec`
implements `ReportPromise` under the mapping `Phase`.  The only assumption is
`ConstantsAssumption`.

`LiveRowsKeepDump` is not inductive: an `rmtree` looks at nothing, so it has to
be known that whatever is marked for removal (`rm`, `cancelScan`) is `Disowned`
(`OnlyDisownedRemoved`), and that disowned is for good (`DisownedForGood`), which
in turn needs to know what a worker may write at the end of `_finish_terminal`
(`BusyHasTask`).  The heart of the argument is `NextMoves`: a step moves each
status in one of four ways and touches the dump of a disowned report only.
`OneSupervisedMat` follows from `ParsesUnderFlock`.

In this module and in those below, what is proved and not among the properties of a
run (`IInv`, `CancelIsBinding`, `OnlyLateCancelReopens` here; `UInv`, `LInv`,
`NothingLeaks`, `AInv`, `NoAnswerAfterError`, `MInv`, `DeletedOnce`) was found to hold
by TLC on the runs' instances before it was proved, and is left to the proof.

`DoneHasIndex` and `OnlyOwnerSettles` hold while nothing fails.  They are proved for
that case: under `NothingFails` (no crash, SIGTERM, stall or lost write in the budget,
any number of cancels, deletions, workers and reports, as in `jobs_requests`).  Neither
is inductive.  `WellInv` adds that a report in `PARSING` is with its owner, whose
heartbeat is fresh (`OwnerWorks`; so no watchdog and no second claim can touch it), that
no two workers have one report and nobody works on what waits or is done (`OneEach`,
`LeftAlone`), and that a worker past the parse has a complete index as long as its
report is in `PARSING` (`Indexed`).  `jobs_noindex` and `jobs_takeover` show what a
single stall breaks.

Liveness is only model-checked: it is out of the prover's reach.

## ChunkUpload

One upload session of `app/routes/heapdump_upload.py`: `upload_chunk`,
`complete_upload` with `_merge_parts`, `cancel_upload`, and death of the process.

### State and actions

`session` is the session's directory, `tmp` and `part` map a chunk's two file
names to inodes (named after the PUT that created them), `data` is the set of
blocks in place in each inode.  An inode is what a name leads to and what an open
descriptor (`fd`) keeps when the name is gone: `os.replace` and `unlink` work on
names, whoever's file they lead to by then, and that is the point of the model.
Per request: `pc`; for a PUT `chunk`, `fd`, `sent`; for a complete `count`,
`read`, `merged` and its `dumpDir`; `reports` are the rows inserted.

A PUT is `PutOpen` (open for writing, truncating), `PutWrite` per piece of the
body (an `await` before each), then `PutEnd` or `PutEndFails` (`os.replace`), or
`PutFails` at any point (`except`: unlink).  A complete is `CompleteStart` (list
the parts), `MergePart` per part, in a thread and so interleaved with everything,
then `CompleteInsert` and `CompleteClean`, between which the event loop runs
nothing else (`LoopFree`) but the process may die, or `CompleteFails`.

`Overlap` says whether a client may send a chunk again while the server is still
receiving it.  The browser's sender (`frontend/src/heapdump-analysis/heapdump.js:484`)
sends each chunk once, one after the other; the API offers resumption, and a client
that resumes after a lost connection may send a chunk while the server still
receives the old attempt.  The passing run lets chunks be sent again but not at
once; other chunks may overlap in any way.

### Runs

`upload_sequential`: four PUTs of two chunks of two blocks, two completes, any
number of cancels, one crash, `Overlap = FALSE`.  Two blocks are enough for a file
to be in part written; four PUTs allow each chunk to be sent twice or one to be
sent four times; two completes can overlap or follow each other.  It shows
`PartsAreWhole` (what the status endpoint lists, and a client resumes
after, is whole), `ReportIsWhole` (so is everything merged, although parts are
replaced and the session is removed meanwhile), `NoOrphanedDump` and
`CompletesOnce`, both with the exception of a process that died.  With
`Overlap = TRUE` `PartsAreWhole` does not hold: see
[disagreements](#disagreements).

There is no liveness to check: what a client does next is up to it.

### What is proved

`ChunkUpload_proofs`, for any number of requests, chunks, blocks and crashes and
under `~Overlap`: `[]UInv`, `[]PartsAreWhole`, `[]ReportIsWhole`.  `PartsAreWhole`
is not inductive: `PutEnd` renames whatever has the temporary name.  `UInv` adds
that a name leads to a file made for it (`NamesInOrder`), that whoever receives a
chunk is alone and the file under the temporary name is its own and holds what it
has received (`ReceivesAlone`), that what has been read by a merge is whole
(`MergedAreWhole`), and that nothing has a name after the session is gone
(`GoneIsEmpty`).  Inode names are not reused because a PUT is issued once.
`NoOrphanedDump` and `CompletesOnce` are proved without that assumption (`Kept`): a
completion has its row before its last stretch, and where a report has been made the
session is gone, about to be removed, or its process died.

## SessionLock

The lock of one session: `_acquire_session_lock`, `_release_session_lock`,
`_reclaim_idle_session_locks` and the cancel flags of `app/core/helpers.py`;
`chat_stream`, its clean-up and `chat_stop` of `app/routes/chat.py`.

### State and actions

`entry`, `refs` and `holder` are the session's entry `[lock, refcount,
holder_thread]`; lock objects are named after the turn that created them, since an
entry that was reclaimed and made again has another lock; `held` are the locked
ones.  `alive` are the threads of the server's pool.  Per turn: `pc`, `mine` (its
`session_lock`), `run` (the thread it is running in), `via` (the thread its route
ran in), `seen` (the holder it has read).  `cancel` is the flag.  `told` is a
history variable: who held the session when the user pressed stop; so is `robbed`:
the live turns whose lock another turn has released.

A step is one critical section of the guard, one operation on the lock, or one
stretch in between: acquiring is `Enter`, `TryLock`, `Record`, or `Look`, `Judge`,
`Steal`, `ResetEntry`, `Retry`, `Rerecord`, `GiveUp`.  A response whose generator
is never started (the client is gone) runs no `finally`: that turn is `lost`, and
its lock is what the recovery is for.

`MaxReaps`, `Full` and `Serial` select the environment: how many idle threads the
pool ends, whether there are so many sessions that entries without users are
deleted, and whether requests for a session come one after the other.

### Runs

| Run | Instance | Shows |
|---|---|---|
| `lock_nobodyends` | 3 concurrent turns, 3 threads, 2 stops, entries reclaimed, no thread ends | `OneTurn`, `StopReachesStream` |
| `lock_recovery` | 4 turns one after the other, the pool ends 2 threads, any that are idle | `OverlapIsTheft`: two turns overlap only after a live turn was robbed of the lock, and its route's thread had ended |

Three turns are needed for one to hold, one to look and one to slip in between;
four for a second recovery after the first.  `OneTurn` itself fails as soon as the
pool ends the thread of a live turn's route ([`lock_idlethread`](#disagreements));
`OverlapIsTheft` says that, where turns come one after the other and entries stay,
nothing else lets a second turn in.  Where requests are concurrent there is another
way in: a turn that reads a holder who is just leaving robs the next one
([`lock_livestolen`](#disagreements)).

There is no fairness: what ends a stream is the subject of `StreamAdapter`.

### What is proved

`SessionLock_proofs`, for any set of turns and threads, under `MaxReaps = 0`:
`[]LInv`, `[]OneTurn`, `[]NothingLeaks`, `StopReachesStream`.  `OneTurn` is not
inductive: that the lock a turn takes is the lock the others hold (`SameLock`)
depends on the entry not being reclaimed under them, hence on the refcount being
their number (`CountsUsers`, a cardinality argument: `OneMore`, `OneLess`);
`HoldersHold` and `NoSteal` give the rest.

`OverlapsAreThefts` proves `[]OverlapIsTheft` for the case of `lock_recovery`: the pool
ends any number of idle threads, turns of the session come one after the other
(`Serial`), entries are kept (`~Full`).  Here the refcount says nothing (`ResetEntry`
sets it to 0 under others), so the invariant `TheftInv` does without it.  As long as no
live turn has been robbed things are `Orderly`: a live turn, once noted, is noted by its
own thread or not at all (`LiveIsNoted`), hence whoever has read a name while it lived
has read that of its thread or none, and steals only if that thread has ended
(`StealsOnlyDead`); and as there is one turn in the route at a time, nobody takes the
lock between the theft and the second attempt.  So the first theft from a live turn is
from one whose thread had ended, and that stays true of it (`DeadRobbed`, `RobbedStays`);
what the later ones are like is not claimed.

## StreamAdapter

One streamed answer: `run_stream` and `_drive_graph` of
`react_agent/graph/sse_adapter.py` and the queue of `progress.py`.

### State and actions

The thread is `graph` (`emit`: in the graph; `put`, `mark`: about to put an item
or the end marker; `marked`; `ended`: `graph_done` is set).  The queue is first in,
first out and is known by `put`, `taken` and where the `marker` is.  The generator
is `pc`, with a label for every stretch between two yields or queue operations;
`stopDrain`, `gone` (`client_disconnected`) and `failed` (`graph_error`) are the
code's flags; `saved` is how many items the saved message holds.

The client may leave at any moment (`ClientLeaves`: the server knows, `left`), but the
generator hears of it only at a `yield`, where the server then closes it instead of
resuming it: `GeneratorExit` is raised there, once (`CloseAtStart`, `CloseInLoop`,
`CloseAtLeftover`, each of which does something else), and a generator that yields
after it is thrown away as it is (`thrown`).  While there is nothing to send the loop
goes round `chunk_queue.get(timeout=0.1)` and looks at the stop flag and `graph_done`
only; an item may also give nothing to send (`Get`).  `GetTimeout` and `CheckDone` are
the tenth of a second without an item and the second look at the queue.  `Join` waits
five seconds and goes on, whether or not the thread has ended.

### Runs

`adapter_leaves`: queues of two, five items, three reports of progress, stop,
departure and error at any point, under `SlowSpec`.  More items than the queue
holds, and more than it holds twice, let it fill, drain and fill again; three
reports overflow the progress queue.  It shows `AnswerIsWhole` (nothing is
lost between the thread and the generator) and `EndIsServed`: once the graph is through
the turn ends (`TurnEnds`), a stop ends it although the graph may never emit again
(`StopIsServed`), and so does the next event that is to be sent to a client who has
left (`DepartureIsNoticed`).  A departure alone does not: on the same instance
`LeavingEndsTurn` fails, as the client leaves while the model hangs, nothing is sent,
and the turn keeps the session until somebody presses stop.  `adapter_stuckthread`
shows a disagreement: `GraphEnds` fails although models and tools do return
(`FairSpec`).

### Fairness

`FairGenerator`: the server resumes the generator at a `yield` while the client reads,
and closes it there when the client has gone.  `FairThread`: the thread's own code runs
when it is not blocked.  `SlowSpec` has these two only: how long the graph takes to its
next item is up to models and tools, which may hang for ever.  `FairSpec` adds that the
graph does emit or return some day.

### What is proved

`StreamAdapter_proofs`, for every size of the queues and any numbers:
`[]AInv`, `[]AnswerIsWhole`, `[]NoAnswerAfterError`.  `AnswerIsWhole` needs that
the marker is behind everything (`MarkerLast`), that past the loop, unless it was
cut short, everything has been taken (`LoopComplete`; this is where the second
look at the queue is used), and that nothing is taken after that (`SavedIsTaken`).
Liveness is only model-checked.

## SessionMemory

What a session remembers: `append_message`, `clear_messages`, `delete_messages`,
`delete_session`, `set_context_fact` of `react_agent/memory_db.py`,
`maybe_summarize` of `summarizer.py`, the reading and trimming of the history in
`graph/facade.py`.

### State and actions

`rows` are the ids of the messages in the table (ids grow, `next` is the next
one), `questions` those the user wrote, `summary` the messages the fact
`[context:summary]` was made of.  The turn: `pc`, `history` (what it has read),
`snap` (what is being summarised).  A deletion: `removal`, `loadedRows`,
`loadedSummary`, what the cascade has loaded before it deletes.  History variables:
`shown`, `cleared`, `quietly`, `forgotten`.

A step is one transaction or one call of a model: `Begin`, `Ask`, `CallModel`,
`Answer`, then `CountMessages`, `CallSummarizer`, `WriteSummary`, `DropMessages`;
each write may fail and is passed over (`BeginBlind`, `AskFails`, `NoAnswer`,
`SummaryFails`).  `Clear` and `LoadSession`/`DeleteSession` take no lock and come
at any time.  `ForeignKeys` says whether the database enforces them: PostgreSQL
does, SQLite as it is configured does not.

### Runs

`memory_turns`: threshold 3, the last 1 kept, 3 messages shown, five turns, two
clears, one failure, foreign keys enforced.  A session is summarised in its second
turn, so five turns allow a summary of messages after a summary, a failed one
between two, and clears before, within and after each.  It shows
`ForgetsQuietClears` (what was cleared while no turn ran is never shown to the
model again), `HistoryBounded`, `DeletedIsGone`, `DroppedAreSummarised`.
`ForgetsCleared`, the same for a clear during a turn, does not hold: see
[disagreements](#disagreements).

Nothing here is promised to happen, so there is no fairness.

### What is proved

`SessionMemory_proofs`, for any thresholds and numbers of turns, clears and
failures: `[]MInv`, `[]ForgetsQuietClears`, `DroppedAreSummarised`, and
`[]DeletedIsGone` where foreign keys are enforced.  `DroppedAreSummarised` rests on
`SummaryInTime`: from the read to the drop no message is added (the turn that
could is the one that summarises), so what is dropped is what was read, unless it
was cleared.  `ForgetsQuietClears` rests on `ClearedAreGone`, which follows what
was cleared quietly through the table, the summary, the history and the snapshot.
`HistoryBounded` is `Room` for a turn that is over: during a turn the table holds as
many more as the turn has added (`Added`), and the summary at its end brings it back
under the threshold or is counted in `fails`.  That the newest `KEEP_LAST` are that
many (`NewestBounded`) is by induction on their number, through the oldest of a finite
set (`Oldest`).


## Reports: reading and judging uploads

What happens to an uploaded log or thread dump before it is stored.  `Reports`
is the sum of four modules that share no state: its `subject` says which of them
a behaviour is about.  The three readers run in one thread per upload, over text
that several threads of the virtual machine have written; their difficulty is the
input, so the specifications choose it nondeterministically and step through the
reader.  `SampleLogs8`, `SampleLogs9`, `SampleDumps` and `SampleDiagnoses` hold the
instances, built from the logs and dumps under `_tests`.

### GcLog8 - `gc_analyzer/jdk8`

A log is a sequence of *blocks*, each what the machine writes for one collection
(or a header, a safepoint, a heap dump block); a *line* is what the recognisers
see of it: its marks (time stamp, brackets, figures, phrases), the brackets it
leaves open, the block it belongs to.  `st`, `cur`, `depth`, `raw` are the state
machine of `preprocess_state.py`, one step per line; `at`, `events8`, `gens`,
`collector8` are the loop of `jdk8/__init__.py` over the groups, one step per
group.  A block may be torn: the machine is killed while writing it and another
appends to the file.

`Log8IsReported` compares the events with the blocks: every readable block of a
collection gives one event of its category, in order, with its own heap and its
own time, no figure goes to two events, and the collector is the one named by the
command line.  *Readable* leaves out torn blocks and what an open bracket of
theirs swallows; and of a remark that prints the times of its phases the first of
these is reported as the pause, which is not the pause (`PauseIsWhole`, see
[disagreements](#disagreements)).  The instance has all logs of up to two (of the
simpler blocks three) of seven to fifteen chosen blocks for each collector, and logs
torn in the middle and restarted.

### GcLog9 - `gc_analyzer/jdk9`

`written` is what the machine has written: it goes on with any of its cycles that
may write, unless a pause holds the others (`holds`).  `by_key` is the dictionary
of events, keyed by number, category and type; `startOf`, `zgcHeap`, `totalHeap`
the side tables; `stage9` the passes after the last line (sum of pauses, start
times, heaps).  `Log9IsReported`: every pause and phase is in the list once, under
its cycle; the pause of a full ZGC collection is the sum of its own; a heap was
printed by the event's own cycle; cycles that do not overlap are in order.  Three
cycles in every interleaving, for G1, Serial, CMS, Shenandoah and both ZGCs: two
would do for mixing up two numbers, the third is between or after them.

### ThreadDump - `jstack_analyzer.py`

`section`, `block`, `tblocks`, `deadlines` are the state machine of `parse_jstack`,
a step per line; then one step each builds the report and answers the agent's
request for a thread (`asked`, `shown`).  JSON dumps are read in one step.
`DumpIsReported`: every thread is reported with its own state, its own locks, held
and awaited, and as many frames as its stack has, in both formats; a deadlock section
where it is read makes the report critical; who asks for a thread by a name that is
part of no other, and the number of none, is shown that one.  `DumpFiguresAgree`: no
thread is counted for two causes, the pools and depths add up, the holder of a hot
lock holds a lock of that class.  Of nine stanzas any two, or one and twice another,
with the deadlock section in each place where it may stand, and larger dumps for the
thresholds (lowered to 3, 9 and 2 by constants, the number of hot locks from ten to
one, so that dumps have more than are shown).

### GcDiagnosis - `compute_stats.py`

Twenty rules as operators on a log (a record of collector, times and events), then
risks, cause, evidence, advice and the two chart series; averages and ratios are
compared after multiplying out.  `compute_stats` runs in a thread pool, and its
one shared variable, `_HEALTHY_HIGH_FREQ`, is `healthy`: a diagnosis is
`ResetHealthyHighFreq`, `RunRules`, `Judge`, `Annotate`, between which another
diagnosis may step.  `VerdictIsBacked`: leak and OOM are never both announced, a
banner or an alarm has its findings, advice names rules that fired.
`ManualCountsOnlyMixed`: with all collections somebody asked for taken out of the
log both risks are the same (compared as none, medium or high), save where such
collections make up the three full ones of a G1 log of which one was not asked for:
beside a heap that cannot be reclaimed the OOM risk is then high.  The code's comment
has it that they never raise it (`ManualRaisesNoAlarm`, see
[disagreements](#disagreements)).  `NoteIsOwnWhenAlone`: a diagnosis no other
overlaps has its own note.  `ChartsShowAll`: the worst pauses are drawn, and each event
between 0 and the log's duration is in one part of the frequency chart, those on a border
included.  What the charts do not keep is among the disagreements too: that they have
at most 200 sampled points (`SeriesKeepsLimit`), and that the parts hold every event of
a log that does not begin with the JVM (`BucketsCoverLog`).  The instance has, for
G1, CMS and ZGC, the mixes of up to four of five chosen full collections and mixes of up
to three with two requested ones after them; twenty-two logs at the rules'
thresholds; and two logs that begin later.  A second diagnosis runs at the same time.

Nothing is promised to happen: a reader is a loop over finite input, so there is no
fairness.

### What is proved

`Reports_proofs`, of the composition `ReportsSpec`, for any number of threads and any
uploads within the assumptions on the constants (lists are sequences, figures are
integers).  What is assumed of the input beyond that is a named hypothesis; TLC
evaluates each on the instances of the run (`MCReports`).

| Hypothesis | It says | Needed by |
| --- | --- | --- |
| `FlagsFirst` | the flags of the first block name the collector, and no line is marked as another collector's | `CollectorIsNamed` |
| `Worded` | the words of a unified line say what it is; what begins has no figures yet | `UnifiedIsReported` |
| `Printed` | threads come before the deadlock section and the references, one virtual thread on a carrier | `DumpsAreReported` |
| `AskedIsNoFailure` | no collection somebody asked for tells of a failure as well | `AskedForCountsOnlyMixed` |

*Verdicts*: `[]GcInv`, `[]GcTypeOK`, `[]VerdictIsBacked`, `[]NoteIsOwnWhenAlone`.
The parts of `VerdictIsBacked` are statements about every set of findings the rules
can give.  That a leak is never announced beside an OOM (`OneRiskAtMost`) needs to
know that the two leak rules that are no OOM rules never exceed *medium*
(`FindingsSay`, from all twenty rules); with a *high* one a *medium* OOM would stand
beside a *high* leak.  That the banner agrees with the risk (`BannerAgrees`) compares
two searches the code writes apart: an event that `OomReason` takes for a failed
allocation satisfies the longer condition of `RuleAllocFailureFull`.
`NoteIsOwnWhenAlone` is not inductive: `OwnNote` follows the shared annotation
through the steps of a thread that none overlaps - empty after the reset, its own
after the rules - and says that while it is alone no other is between reset and
verdict.

*Requested collections* (`AskedForCountsOnlyMixed`): four rules decide the two risks
(`OfTheFour`).  Each works on a selection of the log, and selecting from a log without
the collections somebody asked for gives the same list as selecting from all of it, as
each of the four leaves those out by itself (`SelectedTwice`); equal lists give equal
findings, whatever averages, slopes and percentiles are then taken of them
(`FoundInSelected`).  The rule on full collections of G1 is the one exception, as it
counts all of them: it becomes *high* by those somebody asked for only in the mixed case
(`CountedManual`, `MixedIsHigh`), and a *high* finding lifts the OOM risk only beside
one of the rules that see a heap filling up (`EscalatedOfTheRest`).

*Charts* (`WorstAreDrawn`, `EventsAreCounted`): a pause among the worst has a rank below
the limit, for ranks are a permutation (`Ranks`).  The parts of the time are disjoint
and cover the time from 0 to the duration, so the counts add up to the events in it
(`PartsOfTime`, `SumOfParts`, `PartsCountAll`), for any log; that these are all its
events holds only of one that begins at 0.  A longest pause is promised to be drawn only
if it lasted at all: a log of concurrent phases and events without a time has no worst
pause, and there the sample may miss them.

*Logs of Java 8*: `Inv8` says that groups are made of lines of the text, that they begin
in its order, before the one in progress and before what is still to be read, and that
events are of blocks of the log and not after the groups still to be classified.  It
gives the types, and the order of events (`Java8InOrder`) of any text, torn or not,
although a Full GC consumes up to seven later groups.  `FlagsInv` follows the first
block: as long as its lines are read the machine seeks, so each is a group of its own,
and at the end one of them has the flag; until then the loop can only have inferred the
same collector (`Inferred`), or the flag is the one of CMS and outranks it.

*Unified logs*: `Inv9` says what every event of the dictionary has: its time, its heap and
its pause from lines of its own cycle that were read (`IsOwn`), and how far each of the
passes after the last line has come (`PassesInv`).  Order and types hold of any text.
The sort is a permutation (`Sorting`), as the order is total and tells any two events
apart.

*Thread dumps*: `DumpInv` says that a closed block reaches from its header to the line
before the next end, unbroken (`CutPieces`), that there are as many as headers
(`CutCounts`), and that the report is made of them.  `DumpFiguresAgree`, that all threads of a JSON dump are there
(`AllThreadsReported`) and types hold of any dump.  The sums over pools, depths and the
flame graph are sizes of disjoint parts of the threads (`SumOfParts`); the holder of a
hot lock is the greatest of those it is sought among (`Greatest`).  That a block of the
report has its thread's own locks and no other's is read off the lines of its piece
(`LocksOfPiece`).

All types together are `ReportsTypeOK`.

How recursion is met.  `FoldSeq`, `FlattenSeq` and the sums of the community modules
are defined through a function that is chosen to satisfy its own recursive equation; a
proof shows that some function does, and then knows the equation of the chosen one
(`FlattenSteps`).  What follows for every length is by induction on the naturals, in
the form "a set that has 0, and *k* with *k - 1*, has all" (`Upwards`), which follows from
the least element of a set of naturals (`Least`).  `SelectSeq` of the standard module
cannot be expanded; where a theorem speaks of a selection, the model says which
places are selected and numbers them in order (`EventsAt`, `LinesAt`, `FirstOf`).

Only model-checked: of `Log8IsReported` that each readable collection gives one event of
its own category with its own figures, and that no figure goes to two events
(`EveryCollectionOnce` but for the order, `OwnFigures`, `NoFigureTwice`).  They depend on
the shape of every block the machine may write and on what of a torn one is
swallowed by which later lines; a hypothesis from which they follow would be
the list of these shapes.

## Backend

The sum of five parts that share no state; `part` says which one a behaviour is of,
and `BackendTypeOK` joins their type invariants.  The run `backend` checks them on
the instances named below.

### HeapTasks - `heapdump_proxy.py`, `mat_tools.py`, `task-poller.js`, `mat-workbench.js`

`tasks` is the query service's (external) table of tasks, `owner` the proxy's
`_TASK_OWNER`, `asker` the loop of each of the four programs that submit and poll.
They share the service and differ in what they do with an answer, so each has an
operator of its own: `PageHears`, `WorkbenchHears`, `LeakToolHears`,
`OomToolHears`.  A task may finish, fail, be cancelled, have its result evicted;
either server may restart; a request or its answer may be lost (`HeapFault`); a
dump may be deleted meanwhile.

`NothingMadeUp`: a result shown is one that the query found, of an ended query
(`mat_leak_suspects` excepted, see [disagreements](#disagreements)).
`ToldIsForgotten`: whoever has been told the end through the proxy leaves no
entry in the map.  Two dumps, an asker of each kind, one task, two tries, two
faults: one task is enough for a poll to meet every end, and the askers run one
at a time because each submits its own.

### AgentLoop - `graph/nodes.py`, `graph_builder.py`, `facade.py`, `memory/token_budget.py`

A turn is the graph: `messages`, `iteration`, `stage` (the node that comes next),
`prompt` (what the model was shown last), `collected`, `steps`; `queue`, `running`
and `executed` are the tool pool, which all turns of a user's agent share.  `Agent`
is `_trim_history` and one call of the model, which may call tools or not;
`RunTools`, `Collect`, `ToolsDone` are `ParallelToolNode`, whose wait for a call
ends after 300 s with a failure while the call goes on; `RunInline` is the path
for a single call.  `InitialMessages` assembles the history under the budget.

`PromptIsWhole`: every prompt is one the provider accepts - no tool answer without
its call, no open call - and has no gap, although history is dropped by cost in
one place and by number in another.  `MessagesAreTrue`: a reported success was
executed, by this turn's call; a turn that is over has an answer.
`RoundsAreBounded`: the round counter and the graph's own step limit
(`sse_adapter.py:89`) never contradict each other.  Two turns, a pool of one thread
(so that they block each other), up to two calls, one round each, MAX_HISTORY 3
instead of 40, a budget of 3 tokens: histories and rounds are longer than both.

### ReportStore - `gc_reports.py`, `jstack_reports.py`, `memory_db.py`, `upload_storage.py`, `helpers.py`

`rows`, `files`, `records` are the three places; `expired` the records whose time
is over; per upload and per removal a `pc`; `ending` the deletion of the session.
A step is one transaction or one operation on a file.  `BeginUpload` ... `AddRecord`
is an upload with the sweep in front of it; `FindReport`, `DeleteRow`, `DeleteText`
a removal; `SeeReports`, `DropSession`, `DropText`, `SessionGone` the deletion of
the session.

`PlacesAgree`: a report in the list has its text until it expires, a text has a
record (or one is on its way, or could not be written).  `NoReportWithoutSession`
where foreign keys are enforced.  Two uploads, two removals, one fault: two of
each for the sweep of one upload against the writing of another and for two
removals of one report.

### AgentCache - `helpers.py`, `config.py`, `skills.py`, `state.py`

What is stored is a number that grows; `cached` is the agent, made of the numbers
it was built with; `locked` is `_AGENTS_LOCK`.  A save stores, builds outside the
lock and swaps in; a skill change stores and drops; a chat takes what there is or
builds under the lock, reading configuration and skills one after the other.
`SavedIsUsed`: who asks after a save or a change is over gets an agent that has
it.  Two saves, one change, two chats; with `Overlap = FALSE` a save or change begins
when no other is in progress - one user in one browser - because otherwise it does
not hold (see [disagreements](#disagreements)).

### SessionFacts - `memory/facts.py`, `memory_db.py`, `sessions.py`

`facts` are the rows by id, the summary among them; `shown` is the list the user
sees; `adding` what an `add_fact` has looked up and not yet inserted.  Scores are
compared exactly: a score halves each day and grows with the logarithm of the
reads.  `FactsFitBudget`: what is chosen fits.  `SummaryIsKept`: no deletion by
index takes the summary.  Two facts and the summary, two adders, a budget with
room for some of them, one day, one read.

### Fairness

Of the askers' and the turns' own steps (`AskerStep`, `TurnStep`), and of nothing
else: HTTP calls have timeouts (`_TIMEOUTS` in `heapdump_proxy.py`, `httpx` in
`mat_tools.py`), polls a number of tries, waits for the pool 300 s; a tool in the
pool may hang for ever, a task may run for ever, the service may be gone.
`EveryoneIsAnswered` holds all the same: every query submitted ends with an
answer or an error, every turn ends.

### What is proved

*Queries* (`Backend_proofs`): `[]HeapInv`, and from it `[]NothingMadeUp` and
`[]ToldIsForgotten`, for any askers, dumps, tries, faults and tasks.  What an asker
holds goes through three hands, so the invariant says of each what it may hold:
the service a result only of a task that is done (`HeldWasFound`), an asker of its
own task only what that has come to (`Asked`), and that no two ask about one task
(`OwnTask`).  It is kept because a task only moves on: what has ended has ended and
found what it found.

*Turns* (`AgentLoop_proofs`): `[]PromptIsWhole`, `[]MessagesAreTrue` and
`[]RoundsAreBounded`, for any turns, limits, histories, calls and threads of the
pool.  `TalkInv` says what the messages of a turn are at each node: a conversation
with nothing open before the model is asked, with exactly the calls of the last
message open while tools run.  From such a conversation an ending that does not
begin with an answer, with the first message before it, is whole (`EndingIsWhole`);
`_trim_history` always finds one (`SomethingElse`, `TrimIsEnding`: the answers of
one round are fewer than what is kept), and so does the budget (`Assembled`,
whatever messages cost).  `RInv` counts: with `k` rounds done a turn has run at most
`3k` nodes and the one or two at its end (`Counted`), while the limit is at least
five per round and fifteen more (`LimitIsHigh`).

*Reports* (`Backend_proofs`), for any uploads, removals and faults: `[]StoreInv`, and
from it `[]PlacesAgree` and `[]DeletedOnce`; where foreign keys are enforced
`[]NoReportWithoutSession`.  `PlacesAgree` is not inductive: that a removal or a sweep
takes no text of a report in the list needs to know that a removal has deleted
the row before it touches the file (`DeletedHasNoRow`), that it found a report
that was stored (`FoundWasStored`), and that the sweep holds only expired records
(`SweepsExpired`).

*Agents* (`Backend_proofs`): `[]SavedIsUsed` under `~Overlap`, for any saves, changes
and chats.  The agent that is kept, or being built under the lock, is not older than
any save or change that is *over* (`KeptIsRecent`, `BuiltIsRecent`); a save that is
under way is alone, so what it has read is still what is stored (`SavesAlone`,
`SaveIsRecent`).  Without the assumption it does not hold (see
[disagreements](#disagreements)).

*All of them* (`PartsHoldTogether`, `AgentStaysRecent`, `BackendTypeCorrect`): what is proved of a part is
proved of the server too, as every step is a step of one part and leaves the
others alone.

*Facts* (`Backend_proofs`), for any facts, costs, budget and scores: the invariant
(`FactsInvariance`), `[]FactsFitBudget`, `[]SummaryIsKept`.  Choosing is a fold over the
facts in the order of their scores; its partial results fit one after the other, as a
fact is taken only if it still does, so the order does not matter.  A deletion by place
removes an element of the list shown, and the list has no summary in it.

*Types* (`BackendTypeCorrect`): those of the five parts, `[]BackendTypeOK`.  The one that
is not local is the pool's (`PoolInv`): the calls of all turns share its queue and its
threads, and none is in two places because a call is handed over by one step and its
number is new to its turn.

Only model-checked: liveness (`EveryoneIsAnswered`), which is out of the prover's reach.

The provers have no induction over the naturals that can be instantiated here.
Where a proof needs one - the last message that is no answer, the oldest of some -
it takes the least element of a set of naturals (`Least`, `Oldest`), which follows
from the well-foundedness of strict inclusion on the subsets of a finite set.  Folds are
met as in [Reports](#reports-reading-and-judging-uploads).


## Disagreements

Where the code does something else than what a comment, a test or an answer of the
API says.  The first two are findings of `PROJECT.json` with a run of their own.
For each of the others TLC finds the violation of the property, which is defined in
the module named: with the configuration in this directory, or on the instance of a
run with the property in place of those it lists (and the constants given).

| Configuration or instance | Property | What the code does | What is said |
|---|---|---|---|
| `adapter_stuckthread` | `GraphEnds` | `sse_adapter.py:118`: the end marker is put with a blocking `put` into a queue that may be full and unread | `sse_adapter.py:99`: such a `put` would leak the thread |
| `heap_falseclear` | `AllClearIsTrue` | `mat_tools.py:688`: knows FAILED only; an evicted, cancelled or forgotten query has no result, which reads as "no obvious leak suspects" | `task-poller.js:7`, `mat_tools.py:203`: an evicted result must be asked for again |
| `jobs_orphan` | `OneWriterPerDump` | `heapdump_worker/parse.py:115`: the flock's descriptor is not inherited by MAT; kill -9 of the worker frees it while MAT goes on | `parse.py:102`: the orphaned java holds the lock |
| `lock_idlethread` | `OneTurn` | `helpers.py:265`: the holder is the pool thread of the route, which may end while the stream goes on in others | `helpers.py:210`: never force-releases a live holder's lock |
| `memory_turns` | `ForgetsCleared` | `summarizer.py:79`: a summary read before the clear is written after it | `memory_db.py:347`: facts are deleted, or the model would remember the cleared history |
| `memory_turns`, `ForeignKeys = FALSE` | `DeletedIsGone` | `memory_db.py:129`: without enforced foreign keys a running turn appends to a deleted session | `memory_db.py:128`: deletion cascades |
| `jobs_takeover` | `OnlyOwnerCompletes` | `heapdump_worker/__init__.py:120`: the last `UPDATE` is guarded by the status, not by `worker_id` | `parse.py:43`: the guard keeps one worker from overwriting what another has claimed |
| `jobs_noindex` | `DoneHasIndex` | the same line: the flock is released before the statistics, a second claimant's failure removes the index, the first commits `DONE` | `__init__.py:117`: the index has been made |
| `jobs_latecancel` | `TerminalIsFinal` | `heapdump_reports.py:213`: a status read in one transaction is overwritten in another | `heapdump_reports.py:191`: a report in another status cannot be cancelled |
| `jobs_stalesweep` | `OnlyStaleIsReset` | `watchdog.py:70`: the `UPDATE` does not look at the heartbeat again | `watchdog.py:4`: only an old heartbeat counts as dead |
| `jobs_stalesweep`, two crashes | `EveryRetryCounted` | `watchdog.py:74`: `attempts` is written from the value the `SELECT` read | `watchdog.py:5`: every reset is `attempts += 1` |
| `jobs_lastretry` | `RetriedBelowLimit` | `watchdog.py:54`: `attempts + 1 >= MAX_ATTEMPTS` fails the report | `watchdog.py:5`: `attempts < MAX_ATTEMPTS` is reset |
| `jobs_rmlive` | `WatchdogSparesLiveMat` | `watchdog.py:102`: the dump directory of a cancelled report is removed though its MAT may live | `watchdog.py:7`: index files are not removed, the worker may be alive |
| `upload_overlap` | `PartsAreWhole` | `heapdump_upload.py:185`: the digest is of the stream, the file may be another PUT's, truncated since | `heapdump_upload.py:149`, `:191`: chunks are verified and may be resumed after |
| `lock_livestolen` | `LiveNeverStolen` | `helpers.py:268`: a lost holder's note may still be there when the next turn has the lock already | `helpers.py:242`: a live thread's lock is never stolen |
| `lock_earlystop` | `StopIsHeeded` | `chat.py:202`: the flag is cleared after the lock has been taken | `helpers.py:518`: a stop ends the generation soon |
| `lock_stuck` | `LostIsReclaimable` | `helpers.py:232`: a refused request in the recorded thread clears the record | `helpers.py:240`: a lock whose holder's thread is gone is reclaimed |
| `reports` | `DiagnosesAreIndependent` (`GcDiagnosis`) | `compute_stats.py:180`: the note on a healthy frequency goes through a module variable; another diagnosis takes, changes or removes it (a `KeyError`) | `compute_stats.py:2058`: each diagnosis is independent |
| `reports` | `NoLineKillsTheRest` (`GcLog8`) | `preprocess_state.py:169`: an open bracket of a torn line swallows what follows | `jdk8/base_parser.py:13`: a single bad line must not kill the whole parse |
| `reports` | `PauseIsWhole` (`GcLog8`) | `jdk8/base_parser.py:97`: of a remark that prints its phases the pattern takes the first time, that of the first phase (`_tests/jdk8_g1_sample.txt:64`: 0.0131867 of 0.0177109 s) | `jdk8/base_parser.py:96`: the time at the end of the line is the pause |
| `reports` | `ManualRaisesNoAlarm` (`GcDiagnosis`) | `compute_stats.py:782`, with `:678` and `:1516`: requested collections count among the three of the mixed branch, whose *high* lifts the OOM risk from medium to high | `compute_stats.py:752`: they do not escalate the OOM banner |
| `reports` | `SeriesKeepsLimit` (`GcDiagnosis`) | `compute_stats.py:2182`: the step is `len // 200`, rounded down, which leaves up to 399 points | `compute_stats.py:2177`: at most 200 points |
| `reports` | `BucketsCoverLog` (`GcDiagnosis`) | `compute_stats.py:2237`: the parts begin at 0 and not with the log's first event, so of a log that begins later the last events are in none | `compute_stats.py:2232`: the trend of the events |
| `reports` | `StartsBeforeItEnds` (`GcLog9`) | `jdk9/__init__.py:218`: all events of a cycle get its last start, and are dated after their own lines | the comment there: uptime is the start |
| `reports` | `HolderHoldsThatLock` (`ThreadDump`) | `jstack_analyzer.py:774`: locks are keyed by class; the holder shown may hold another object of it | `jstack_analyzer.py:772`: the lock's holder |
| `reports` | `ExactNameIsShown` (`ThreadDump`) | `jstack_analyzer.py:945`: the first thread whose name contains the one asked for | `jstack_analyzer.py:933`: the thread asked for |
| `reports` | `DeadlockAlwaysReported` (`ThreadDump`) | `jstack_analyzer.py:469`: nothing is read after "JNI global refs", where HotSpot prints the deadlocks since Java 9 | `README.md:107`: deadlock detection |
| `backend`, `Overlap = TRUE` | `SavedIsUsed` | `config.py:68`: two saves may swap in the reverse order; a save may bring back skills it read before a change | `config.py:72`: readers always see a valid agent, the old or the new one |
| `backend`, `KeepsForeignKeys = FALSE` | `NoReportWithoutSession` | `memory_db.py:496`: SQLite, as it is configured, accepts a report of a deleted session | `memory_db.py:128`: deletion cascades |
| `backend` | `DeletesWhatWasMeant` (`SessionFacts`) | `memory_db.py:488`: the index counts rows by id, the list shown is in order of score and cut by the budget | `frontend/src/messages.js:119`: deletes the one clicked |

What else the models show of the code, where nothing says otherwise:

* *Streamed answer.*  A client that leaves while the model or a tool hangs is not
  noticed: the turn keeps its session busy until the graph emits or somebody presses
  stop (`LeavingEndsTurn`).
* *GC logs.*  Events of `-XX:+PrintAdaptiveSizePolicy` lose their duration; a torn
  Full GC takes the figures of the next group; a heap block torn open swallows up
  to the next brace; the initial mark and remark of CMS give no event; a log with
  dates only has uptime 0.  Of two equal lines in a cycle one is dropped; two JVM
  runs in one file collide on their numbers.  ZGC's summary for an OOM
  (`summary_en_zgc`) is never found under the key that is looked up, and the pause
  of a full ZGC collection is counted with its parts.
* *Thread dumps.*  Virtual threads get names that are not in the dump, so the tool
  does not find them (`ReportNamesCanBeAsked`); `deadlock_count` counts threads; stacks deeper than the last
  range are in no range.
* *Queries.*  The workbench shows a spinner for ever when the result was evicted or
  the query failed; a task whose poller gives up, or that the service answers with
  404, stays in `_TASK_OWNER`; a lost reply to a submission leaves a task running
  that nobody knows.
* *Reports.*  A report deleted while its upload is still writing leaves text and
  record until they expire (`DeletedTextIsGone`).
* *Agent.*  Rounds with many calls push the question out of the last forty messages
  (`QuestionIsShown`); `keep_last_turns` keeps messages, not turns, and does not count them
  in the budget; the facade passes no system prompt, so the configured template is
  ignored except by `force_final_node`; calls timed out go on and may starve the
  pool of other turns; the single-call path has no time limit of its own.
* *Facts.*  Two concurrent `add_fact` insert a fact twice; reading raises scores,
  so that old facts may keep new ones out for days; facts that cannot be scored
  are all given to the model.

Where a row names a file only by its last part it is the one of
`react_agent/heapdump_worker/`, `app/routes/`, `app/core/helpers.py`,
`react_agent/` or `react_agent/{graph,gc_analyzer}/`.

## Not modelled

Within the modules: the contents of hprof and index files, progress figures
(`progress`, `phase`), the registry of workers (`heapdump_workers`, which nothing
but an admin page reads), the texts of messages and summaries, the conversion of
chunks to events, rate limits and report contexts of the chat route; of the
analyzers the regular expressions themselves (a line is known by which of them
match), times of day, the flags a log prints, the detail tables and texts of a
report; what a tool or the language model answers; the LRU eviction of the agent
cache (an evicted agent is built again, which `BeginChat` covers by starting
without one).

Left out: JVM flag tables, prompts, languages and content filters (texts and
pattern lists); users, skills, settings, feedback and audit (one table each, one
transaction per request, except for what skills do to the cached agent); schema and
start-up of database and server; the registry of workers (one upsert nothing reads
back); the browser's state and rendering, but for its pollers.
