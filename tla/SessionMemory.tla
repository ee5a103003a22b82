----------------------------- MODULE SessionMemory -----------------------------
(***************************************************************************)
(* What a chat session remembers: its messages and the summary that stands *)
(* for the ones dropped (react_agent/memory_db.py, summarizer.py,          *)
(* graph/facade.py).  A turn reads the history, saves the question, calls  *)
(* the model, saves the answer and summarises when there is too much; the  *)
(* session's lock admits one turn at a time (SessionLock).  Clearing and   *)
(* deleting the session take no lock.                                      *)
(*                                                                         *)
(* A step is one database transaction or one call of the model.  Messages  *)
(* are known by their ids, which grow.                                     *)
(***************************************************************************)
EXTENDS Integers, FiniteSets

CONSTANTS
    Threshold,   \* more messages than this are summarised
    KeepLast,    \* but for the last so many
    MaxHistory,  \* how many messages the model is shown
    MaxTurns, MaxClears, MaxFails,
    ForeignKeys  \* does the database enforce them?  (PostgreSQL; SQLite as configured does not)

ASSUME MemoryAssumption ==
    /\ Threshold \in Nat /\ KeepLast \in 0 .. Threshold /\ MaxHistory \in Nat \ {0}
    /\ MaxTurns \in Nat /\ MaxClears \in Nat /\ MaxFails \in Nat
    /\ ForeignKeys \in BOOLEAN

VARIABLES
    exists,   \* the session's row
    rows,     \* its messages
    questions,  \* the messages the user wrote
    next,     \* the next id
    summary,  \* the messages [context:summary] was made of; {}: no such fact
    pc,       \* of the session's turn
    history,  \* what the turn has read
    shown,    \* the messages that the model has been shown in this turn
    snap,     \* what is being summarised
    cleared,  \* the messages the user has cleared
    quietly,  \* ... while no turn was running
    forgotten,  \* those cleared when the turn began
    removal, loadedRows, loadedSummary,  \* a deletion of the session in progress
    turns, clears, fails

turnVars   == <<history, shown, snap, forgotten, turns>>
removeVars == <<removal, loadedRows, loadedSummary>>
clearVars  == <<cleared, quietly, clears>>
vars == <<exists, rows, questions, next, summary, pc, turnVars, removeVars, clearVars, fails>>

TypeOK ==
    /\ exists \in BOOLEAN
    /\ next \in Nat
    /\ rows \in SUBSET (0 .. next - 1) /\ questions \in SUBSET (0 .. next - 1)
    /\ summary \in SUBSET (0 .. next - 1)
    /\ pc \in {"idle", "ask", "call", "answer", "count", "llm", "write", "drop"}
    /\ history \in SUBSET (0 .. next - 1) /\ shown \in SUBSET (0 .. next - 1)
    /\ snap \in SUBSET (0 .. next - 1)
    /\ cleared \in SUBSET (0 .. next - 1) 
    /\ quietly \in SUBSET cleared /\ forgotten \in SUBSET cleared
    /\ removal \in BOOLEAN
    /\ loadedRows \in SUBSET (0 .. next - 1) /\ loadedSummary \in SUBSET (0 .. next - 1)
    /\ turns \in 0 .. MaxTurns /\ clears \in 0 .. MaxClears /\ fails \in 0 .. MaxFails

Init ==
    /\ exists = TRUE
    /\ rows = {} /\ questions = {} /\ next = 0 /\ summary = {}
    /\ pc = "idle"
    /\ history = {} /\ shown = {} /\ snap = {}
    /\ cleared = {} /\ quietly = {} /\ forgotten = {}
    /\ removal = FALSE /\ loadedRows = {} /\ loadedSummary = {}
    /\ turns = 0 /\ clears = 0 /\ fails = 0

\* The last n of the messages.
Newest(messages, n) ==
    {m \in messages : Cardinality({k \in messages : k > m}) < n}

-----------------------------------------------------------------------------
(* A row that refers to the session can be written. *)
Writable == exists \/ ~ForeignKeys

\* A write that fails is logged and passed over.
Fail == fails < MaxFails /\ fails' = fails + 1

Begin ==
    /\ pc = "idle" /\ turns < MaxTurns /\ exists
    /\ turns' = turns + 1
    /\ history' = rows
    /\ forgotten' = cleared /\ shown' = {} /\ snap' = {}
    /\ pc' = "ask"
    /\ UNCHANGED <<exists, rows, questions, next, summary, removeVars, clearVars, fails>>

\* The history cannot be read, and is taken to be empty.
BeginBlind ==
    /\ pc = "idle" /\ turns < MaxTurns /\ exists /\ Fail
    /\ turns' = turns + 1
    /\ history' = {}
    /\ forgotten' = cleared /\ shown' = {} /\ snap' = {}
    /\ pc' = "ask"
    /\ UNCHANGED <<exists, rows, questions, next, summary, removeVars, clearVars>>

\* append_message, which for the assistant's part is given what there is to save.
Append ==
    IF Writable THEN rows' = rows \cup {next} /\ next' = next + 1 ELSE UNCHANGED <<rows, next>>

Ask ==
    /\ pc = "ask"
    /\ Append
    /\ questions' = IF Writable THEN questions \cup {next} ELSE questions
    /\ pc' = "call"
    /\ UNCHANGED <<exists, summary, turnVars, removeVars, clearVars, fails>>

AskFails ==
    /\ pc = "ask" /\ Fail
    /\ pc' = "call"
    /\ UNCHANGED <<exists, rows, questions, next, summary, turnVars, removeVars, clearVars>>

\* The new question takes the place of a question at the end of the history;
\* the last MaxHistory messages are left.
Prompt ==
    LET asked == {m \in questions : m \in Newest(history, 1)}
    IN  Newest(history \ asked, MaxHistory - 1)

\* agent_node, once or several times: the prompt begins with the summary there
\* is at the time.
CallModel ==
    /\ pc \in {"call", "answer"}
    /\ shown' = shown \cup Prompt \cup summary
    /\ pc' = "answer"
    /\ UNCHANGED <<exists, rows, questions, next, summary, history, snap, forgotten, turns,
                   removeVars, clearVars, fails>>

Answer ==
    /\ pc = "answer"
    /\ Append
    /\ pc' = "count"
    /\ UNCHANGED <<exists, questions, summary, turnVars, removeVars, clearVars, fails>>

\* There is no answer, or it cannot be saved.
NoAnswer ==
    /\ pc \in {"call", "answer"}
    /\ pc' = "count"
    /\ UNCHANGED <<exists, rows, questions, next, summary, turnVars, removeVars, clearVars, fails>>

-----------------------------------------------------------------------------
(* maybe_summarize *)

CountMessages ==
    /\ pc = "count"
    /\ IF Cardinality(rows) > Threshold
       THEN pc' = "llm" /\ snap' = rows \ Newest(rows, KeepLast)
       ELSE pc' = "idle" /\ UNCHANGED snap
    /\ UNCHANGED <<exists, rows, questions, next, summary, history, shown, forgotten, turns,
                   removeVars, clearVars, fails>>

CallSummarizer ==
    /\ pc = "llm"
    /\ pc' = "write"
    /\ UNCHANGED <<exists, rows, questions, next, summary, turnVars, removeVars, clearVars, fails>>

\* set_context_fact: the new summary in place of the old one.
WriteSummary ==
    /\ pc = "write"
    /\ IF Writable
       THEN summary' = snap /\ pc' = "drop"
       ELSE pc' = "idle" /\ UNCHANGED summary
    /\ UNCHANGED <<exists, rows, questions, next, turnVars, removeVars, clearVars, fails>>

\* Mutant of DropMessages: it is not done.
DropMessages_Never ==
    /\ pc = "drop"
    /\ pc' = "idle"
    /\ UNCHANGED <<exists, rows, questions, next, summary, turnVars, removeVars, clearVars, fails>>

\* Mutant of DropMessages: one message too many is dropped.
DropMessages_OneMore ==
    /\ pc = "drop"
    /\ rows' = Newest(rows, KeepLast - 1)
    /\ pc' = "idle"
    /\ UNCHANGED <<exists, questions, next, summary, turnVars, removeVars, clearVars, fails>>

\* delete_messages
DropMessages ==
    /\ pc = "drop"
    /\ rows' = Newest(rows, KeepLast)
    /\ pc' = "idle"
    /\ UNCHANGED <<exists, questions, next, summary, turnVars, removeVars, clearVars, fails>>

\* The model or the database fails: the rest is left for the next turn.
SummaryFails ==
    /\ pc \in {"count", "llm", "write", "drop"} /\ Fail
    /\ pc' = "idle"
    /\ UNCHANGED <<exists, rows, questions, next, summary, turnVars, removeVars, clearVars>>

-----------------------------------------------------------------------------
(* clear_messages and delete_session *)

\* Mutant of Clear: the messages alone are deleted.
Clear_KeepSummary ==
    /\ exists /\ clears < MaxClears
    /\ clears' = clears + 1
    /\ cleared' = cleared \cup rows \cup summary
    /\ quietly' = IF pc = "idle" THEN quietly \cup rows \cup summary ELSE quietly
    /\ rows' = {}
    /\ UNCHANGED <<exists, questions, next, summary, pc, turnVars, removeVars, fails>>

Clear ==
    /\ exists /\ clears < MaxClears
    /\ clears' = clears + 1
    /\ cleared' = cleared \cup rows \cup summary
    /\ quietly' = IF pc = "idle" THEN quietly \cup rows \cup summary ELSE quietly
    /\ rows' = {} /\ summary' = {}
    /\ UNCHANGED <<exists, questions, next, pc, turnVars, removeVars, fails>>

\* The cascade loads what the session has ...
LoadSession ==
    /\ exists /\ ~removal
    /\ removal' = TRUE /\ loadedRows' = rows /\ loadedSummary' = summary
    /\ UNCHANGED <<exists, rows, questions, next, summary, pc, turnVars, clearVars, fails>>

\* Mutant of DeleteSession: the facts are not in the cascade.
DeleteSession_KeepFacts ==
    /\ removal
    /\ removal' = FALSE
    /\ IF ForeignKeys /\ rows \ loadedRows # {}
       THEN UNCHANGED <<exists, rows, summary>>
       ELSE exists' = FALSE /\ rows' = rows \ loadedRows /\ UNCHANGED summary
    /\ UNCHANGED <<questions, next, pc, turnVars, loadedRows, loadedSummary, clearVars, fails>>

\* ... and deletes that, and the session, unless something refers to it that
\* has not been loaded.
DeleteSession ==
    /\ removal
    /\ removal' = FALSE
    /\ IF ForeignKeys /\ (rows \ loadedRows # {} \/ summary \notin {{}, loadedSummary})
       THEN UNCHANGED <<exists, rows, summary>>
       ELSE /\ exists' = FALSE
            /\ rows' = rows \ loadedRows
            /\ summary' = IF summary = loadedSummary THEN {} ELSE summary
    /\ UNCHANGED <<questions, next, pc, turnVars, loadedRows, loadedSummary, clearVars, fails>>

TurnStep ==
    \/ Begin \/ BeginBlind \/ Ask \/ AskFails \/ CallModel \/ Answer \/ NoAnswer
    \/ CountMessages \/ CallSummarizer \/ WriteSummary \/ DropMessages \/ SummaryFails

Next == TurnStep \/ Clear \/ LoadSession \/ DeleteSession

Spec == Init /\ [][Next]_vars

-----------------------------------------------------------------------------
\* A turn that begins after the user has cleared the session shows the model
\* nothing of what was cleared, neither as history nor in the summary.
ForgetsCleared == shown \cap forgotten = {}

\* What was cleared while no turn was running is never shown to the model again,
\* whatever else is cleared, summarised or deleted later, and when.
ForgetsQuietClears == pc # "idle" => shown \cap quietly = {}

\* A message that leaves the table, other than by a clear or with its session, has
\* been summarised: a summary that could not be written costs nothing.
DroppedAreSummarised ==
    [][\A m \in rows \ rows' : m \in summary' \cup cleared' \/ ~exists']_vars

\* The table does not grow beyond the threshold and a turn's two messages, but for
\* what failed summaries leave.
HistoryBounded == Cardinality(rows) <= Threshold + 2 + 2 * fails

\* A deleted session leaves nothing, even if a turn was still running.
DeletedIsGone == ~exists => rows = {} /\ summary = {}

-----------------------------------------------------------------------------
(* The inductive invariant *)

\* What has been read to be summarised is what will be dropped, if it is there
\* still.
SummaryInTime ==
    exists =>
        /\ pc \in {"llm", "write"} => rows = {} \/ snap = rows \ Newest(rows, KeepLast)
        /\ pc = "drop" => rows \ Newest(rows, KeepLast) \subseteq summary

\* Cleared messages are in no table; those cleared between turns are nowhere.
ClearedAreGone ==
    /\ rows \cap cleared = {} /\ summary \cap quietly = {}
    /\ pc # "idle" => history \cap quietly = {} /\ snap \cap quietly = {}

MInv ==
    /\ TypeOK /\ SummaryInTime /\ ClearedAreGone /\ ForgetsQuietClears
    /\ ForeignKeys => DeletedIsGone
=============================================================================
