----------------------------- MODULE StreamAdapter -----------------------------
(***************************************************************************)
(* One streamed answer: a thread drives the agent graph and puts what it    *)
(* emits into a bounded queue, a generator takes it out, sends it to the    *)
(* client and saves the answer (react_agent/graph/sse_adapter.py).          *)
(*                                                                         *)
(* The queue is first in, first out, so it is known by how many items have  *)
(* been put and how many taken.  The client may go away at any moment, but  *)
(* the generator hears of it only at a yield: GeneratorExit is raised       *)
(* there, once, and a generator that yields after it is thrown away as it   *)
(* is.  While it waits for the queue it looks at nothing but the stop flag  *)
(* and the end of the graph.                                                *)
(***************************************************************************)
EXTENDS Integers

CONSTANTS
    QueueSize,     \* of chunk_queue
    ProgressSize,  \* of progress_queue
    MaxItems,      \* how much the graph emits at most
    MaxReports,    \* how many progress events its tools report at most
    MayStop,       \* may the user press stop?
    MayClose,      \* may the client go away?
    MayFail        \* may the graph raise?

ASSUME AdapterAssumption ==
    /\ QueueSize \in Nat \ {0} /\ ProgressSize \in Nat /\ MaxItems \in Nat /\ MaxReports \in Nat
    /\ MayStop \in BOOLEAN /\ MayClose \in BOOLEAN /\ MayFail \in BOOLEAN

VARIABLES
    graph,     \* the graph's thread
    put, taken,  \* items put into and taken from chunk_queue
    marker,    \* the None at the end: "no", "queued" or "taken"
    progress,  \* events in progress_queue
    reports,   \* events reported
    failed,    \* graph_error is set
    pc,        \* the generator: what comes next
    stopDrain, \* stop_drain is set
    gone,      \* client_disconnected
    left,      \* the client is gone, as the server knows
    closed,    \* GeneratorExit has been raised
    stop,      \* should_stop() would say so
    saved      \* the items in the assistant's message; -1: no message

graphVars == <<graph, put, failed, reports>>
genVars   == <<taken, stopDrain, gone, closed, saved>>
vars == <<graphVars, genVars, marker, progress, pc, stop, left>>

GraphLabels == {"new", "emit", "put", "mark", "marked", "ended"}
GenLabels   == {"start", "top", "drain", "get", "empty", "send", "sent", "join",
                "drain2", "judge", "save", "end", "thrown"}

TypeOK ==
    /\ graph \in GraphLabels
    /\ put \in 0 .. MaxItems /\ taken \in 0 .. MaxItems
    /\ marker \in {"no", "queued", "taken"}
    /\ progress \in 0 .. ProgressSize /\ reports \in 0 .. MaxReports
    /\ failed \in BOOLEAN
    /\ pc \in GenLabels
    /\ stopDrain \in BOOLEAN /\ gone \in BOOLEAN /\ closed \in BOOLEAN
    /\ stop \in BOOLEAN /\ left \in BOOLEAN
    /\ saved \in -1 .. MaxItems

Init ==
    /\ graph = "new" /\ put = 0 /\ taken = 0 /\ marker = "no"
    /\ progress = 0 /\ reports = 0 /\ failed = FALSE
    /\ pc = "start"
    /\ stopDrain = FALSE /\ gone = FALSE /\ closed = FALSE /\ stop = FALSE /\ left = FALSE
    /\ saved = -1

Length == (put - taken) + (IF marker = "queued" THEN 1 ELSE 0)

-----------------------------------------------------------------------------
(* _drive_graph *)

\* The graph emits an item, after however long.
Emit ==
    /\ graph = "emit" /\ put < MaxItems
    /\ graph' = "put"
    /\ UNCHANGED <<put, failed, reports, genVars, marker, progress, pc, stop, left>>

\* put_nowait, and a look at stop_drain.
Put ==
    /\ graph = "put" /\ Length < QueueSize
    /\ put' = put + 1
    /\ graph' = IF stopDrain THEN "mark" ELSE "emit"
    /\ UNCHANGED <<failed, reports, genVars, marker, progress, pc, stop, left>>

\* The queue is full and nobody takes from it any more.
PutGivesUp ==
    /\ graph = "put" /\ Length = QueueSize /\ stopDrain
    /\ graph' = "mark"
    /\ UNCHANGED <<put, failed, reports, genVars, marker, progress, pc, stop, left>>

\* The graph is through, or raises.
GraphReturns ==
    /\ graph = "emit"
    /\ graph' = "mark"
    /\ failed' \in (IF MayFail THEN BOOLEAN ELSE {FALSE})
    /\ UNCHANGED <<put, reports, genVars, marker, progress, pc, stop, left>>

\* finally: chunk_queue.put(None), which waits for room,
PutMarker ==
    /\ graph = "mark" /\ Length < QueueSize
    /\ marker' = "queued"
    /\ graph' = "marked"
    /\ UNCHANGED <<put, failed, reports, genVars, progress, pc, stop, left>>

\* and graph_done.set().
GraphDone ==
    /\ graph = "marked"
    /\ graph' = "ended"
    /\ UNCHANGED <<put, failed, reports, genVars, marker, progress, pc, stop, left>>

\* A tool reports progress; with the queue full the event is dropped.
Report ==
    /\ graph = "emit" /\ reports < MaxReports
    /\ reports' = reports + 1
    /\ progress' = IF progress < ProgressSize THEN progress + 1 ELSE progress
    /\ UNCHANGED <<graph, put, failed, genVars, marker, pc, stop, left>>

-----------------------------------------------------------------------------
(* The generator, run_stream *)

\* It has saved the question and yielded it; then it starts the thread.
StartGraph ==
    /\ pc = "start" /\ ~left
    /\ graph' = "emit" /\ pc' = "top"
    /\ UNCHANGED <<put, failed, reports, genVars, marker, progress, stop, left>>

CloseAtStart ==
    /\ pc = "start" /\ left
    /\ closed' = TRUE /\ pc' = "thrown"
    /\ UNCHANGED <<graphVars, taken, stopDrain, gone, saved, marker, progress, stop, left>>

\* The top of the loop, and again after an item has been sent: should_stop().
CheckStop ==
    /\ pc \in {"top", "sent"}
    /\ stopDrain' = (stopDrain \/ stop)
    /\ pc' = IF stop THEN "join" ELSE IF pc = "top" THEN "drain" ELSE "top"
    /\ UNCHANGED <<graphVars, taken, gone, closed, saved, marker, progress, stop, left>>

\* A progress event is yielded.
SendProgress ==
    /\ pc = "drain" /\ progress > 0 /\ ~left
    /\ progress' = progress - 1
    /\ UNCHANGED <<graphVars, genVars, marker, pc, stop, left>>

NoProgress ==
    /\ pc = "drain" /\ progress = 0
    /\ pc' = "get"
    /\ UNCHANGED <<graphVars, genVars, marker, progress, stop, left>>

\* chunk_queue.get: an item, whose text is kept before it is yielded (and which
\* may give nothing to yield, as a later part of a tool's name does), ...
Get ==
    /\ pc = "get" /\ taken < put
    /\ taken' = taken + 1
    /\ pc' \in {"send", "sent"}
    /\ UNCHANGED <<graphVars, stopDrain, gone, closed, saved, marker, progress, stop, left>>

\* ... or the marker, ...
GetMarker ==
    /\ pc = "get" /\ taken = put /\ marker = "queued"
    /\ marker' = "taken"
    /\ pc' = "join"
    /\ UNCHANGED <<graphVars, genVars, progress, stop, left>>

\* ... or nothing in time.
GetTimeout ==
    /\ pc = "get" /\ Length = 0
    /\ pc' = "empty"
    /\ UNCHANGED <<graphVars, genVars, marker, progress, stop, left>>

\* Mutant of CheckDone: the queue is not looked at again.
CheckDone_Once ==
    /\ pc = "empty"
    /\ pc' = IF graph = "ended" THEN "join" ELSE "top"
    /\ UNCHANGED <<graphVars, genVars, marker, progress, stop, left>>

\* graph_done is set and, still, nothing is in the queue.
CheckDone ==
    /\ pc = "empty"
    /\ pc' = IF graph = "ended" /\ Length = 0 THEN "join" ELSE "top"
    /\ UNCHANGED <<graphVars, genVars, marker, progress, stop, left>>

Sent ==
    /\ pc = "send" /\ ~left
    /\ pc' = "sent"
    /\ UNCHANGED <<graphVars, genVars, marker, progress, stop, left>>

\* GeneratorExit at a yield of the loop.
CloseInLoop ==
    /\ left
    /\ pc = "send" \/ (pc = "drain" /\ progress > 0)
    /\ progress' = IF pc = "drain" THEN progress - 1 ELSE progress
    /\ closed' = TRUE /\ gone' = TRUE /\ stopDrain' = TRUE
    /\ pc' = "join"
    /\ UNCHANGED <<graphVars, taken, saved, marker, stop, left>>

\* Mutant of Join: without the timeout.
Join_Forever ==
    /\ pc = "join" /\ graph = "ended"
    /\ pc' = "drain2"
    /\ UNCHANGED <<graphVars, genVars, marker, progress, stop, left>>

\* graph_thread.join(timeout=5.0)
Join ==
    /\ pc = "join"
    /\ stopDrain' = (stopDrain \/ graph # "ended")
    /\ pc' = "drain2"
    /\ UNCHANGED <<graphVars, taken, gone, closed, saved, marker, progress, stop, left>>

\* What progress is left is yielded; after a GeneratorExit that is the end.
SendLeftover ==
    /\ pc = "drain2" /\ progress > 0 /\ (closed \/ ~left)
    /\ progress' = progress - 1
    /\ pc' = IF closed THEN "thrown" ELSE "drain2"
    /\ UNCHANGED <<graphVars, genVars, marker, stop, left>>

\* GeneratorExit at one of these yields leaves client_disconnected as it is.
CloseAtLeftover ==
    /\ left /\ ~closed
    /\ pc = "drain2" /\ progress > 0
    /\ progress' = progress - 1
    /\ closed' = TRUE
    /\ pc' = "judge"
    /\ UNCHANGED <<graphVars, taken, stopDrain, gone, saved, marker, stop, left>>

NoLeftover ==
    /\ pc = "drain2" /\ progress = 0
    /\ pc' = "judge"
    /\ UNCHANGED <<graphVars, genVars, marker, progress, stop, left>>

\* graph_error is raised again, and sent as an error: the answer is not saved.  If
\* the client is gone the generator goes on to yield "done" and is thrown away.
RaiseError ==
    /\ pc = "judge" /\ failed
    /\ stopDrain' = TRUE
    /\ closed' = left
    /\ pc' = IF left THEN "thrown" ELSE "end"
    /\ UNCHANGED <<graphVars, taken, gone, saved, marker, progress, stop, left>>

NoError ==
    /\ pc = "judge" /\ ~failed
    /\ stopDrain' = TRUE
    /\ pc' = "save"
    /\ UNCHANGED <<graphVars, taken, gone, closed, saved, marker, progress, stop, left>>

\* The answer, or a note that it was stopped, is saved; then, unless the client is
\* known to be gone, "final" and "done" are sent.
Save ==
    /\ pc = "save"
    /\ saved' = IF taken > 0 \/ stop THEN taken ELSE saved
    /\ pc' = IF closed /\ ~gone THEN "thrown" ELSE "end"
    /\ UNCHANGED <<graphVars, taken, stopDrain, gone, closed, marker, progress, stop, left>>

\* The client goes away.
ClientLeaves ==
    /\ MayClose /\ pc \notin {"end", "thrown"}
    /\ left' = TRUE
    /\ UNCHANGED <<graphVars, genVars, marker, progress, pc, stop>>

\* The user presses stop.
PressStop ==
    /\ MayStop /\ pc \notin {"end", "thrown"}
    /\ stop' = TRUE
    /\ UNCHANGED <<graphVars, genVars, marker, progress, pc, left>>

GraphStep == Emit \/ Put \/ PutGivesUp \/ GraphReturns \/ PutMarker \/ GraphDone \/ Report
GenStep ==
    \/ StartGraph \/ CheckStop \/ SendProgress \/ NoProgress
    \/ Get \/ GetMarker \/ GetTimeout \/ CheckDone \/ Sent
    \/ Join \/ SendLeftover \/ NoLeftover \/ RaiseError \/ NoError \/ Save
    \/ CloseAtStart \/ CloseInLoop \/ CloseAtLeftover
Client == ClientLeaves \/ PressStop

Next == GraphStep \/ GenStep \/ Client

Spec == Init /\ [][Next]_vars

-----------------------------------------------------------------------------
(* Fairness: the generator is resumed at a yield as long as the client reads,  *)
(* and closed there when it is gone; the code of the thread runs whenever it can.  How long the *)
(* graph takes to its next item is up to models and tools: FairSpec assumes    *)
(* that they return some day, SlowSpec that they may hang for ever.            *)
FairGenerator == WF_vars(GenStep)
FairThread == WF_vars(Put \/ PutGivesUp) /\ WF_vars(PutMarker) /\ WF_vars(GraphDone)

SlowSpec == Spec /\ FairGenerator /\ FairThread
FairSpec == SlowSpec /\ WF_vars(GraphReturns \/ Emit)

\* The answer that is saved is all the graph emitted, unless the user stopped it
\* or the client went away: nothing is lost between the thread and the generator.
AnswerIsWhole ==
    saved >= 0 /\ ~stop /\ ~closed => saved = put /\ graph \in {"marked", "ended"}

\* No answer is saved when the graph is known to have failed.
NoAnswerAfterError ==
    saved >= 0 => ~failed \/ stop \/ closed

\* The thread of the graph ends, whatever the client does.
GraphEnds == graph # "new" ~> graph = "ended"

\* Once the graph has returned or failed the turn ends and gives its session back.
TurnEnds == graph \in {"mark", "marked", "ended"} ~> pc \in {"end", "thrown"}

\* A stop ends the answer, even if the graph never emits another item.
StopIsServed == stop ~> pc \in {"end", "thrown"}

\* A departure is noticed with the next event that is to be sent, and ends the
\* turn even if the graph never emits another item.
DepartureIsNoticed == left /\ (progress > 0 \/ pc \in {"start", "send"}) ~> pc \in {"end", "thrown"}

\* However a turn is to end - the graph returns, the user stops it, an event can
\* not be sent because the client is gone - its generator ends, and the session
\* is free (sse_adapter.py:313-376).
EndIsServed == TurnEnds /\ StopIsServed /\ DepartureIsNoticed

\* A client that has left does not keep its session busy.  The code does not
\* keep this: while a model or a tool hangs nothing is sent, and the loop on
\* chunk_queue.get(timeout=0.1) goes round for ever (see README).
LeavingEndsTurn == left ~> pc \in {"end", "thrown"}

-----------------------------------------------------------------------------
(* The inductive invariant *)

\* The marker is put when the graph is through, behind everything else.
MarkerLast ==
    /\ marker # "no" <=> graph \in {"marked", "ended"}
    /\ taken <= put
    /\ marker = "taken" => taken = put
    /\ graph = "put" => put < MaxItems
    /\ failed => graph \in {"mark", "marked", "ended"}

\* Past the loop, unless it was cut short, everything has been taken.
Past == {"join", "drain2", "judge", "save", "end", "thrown"}
LoopComplete ==
    /\ pc = "start" => graph = "new"
    /\ pc \in Past => stop \/ closed \/ (graph \in {"marked", "ended"} /\ taken = put)
    /\ pc = "thrown" => closed
    /\ closed => left
    /\ pc = "save" => ~failed \/ stop \/ closed

\* What is saved is what was taken.
SavedIsTaken == saved >= 0 => pc \in {"end", "thrown"} /\ saved = taken

AInv == TypeOK /\ MarkerLast /\ LoopComplete /\ SavedIsTaken /\ AnswerIsWhole /\ NoAnswerAfterError
=============================================================================
