------------------------------ MODULE AgentLoop ------------------------------
(***************************************************************************)
(* A turn of the agent: the graph of graph/graph_builder.py and its nodes   *)
(* (graph/nodes.py).  The model is asked, the tools it calls are run, and   *)
(* so on until it answers or has had its rounds and is made to answer.      *)
(* What the model is shown at first is assembled within a budget of tokens  *)
(* (memory/token_budget.py, graph/facade.py).                               *)
(*                                                                         *)
(* The calls of one round run in a pool of threads that all turns of the    *)
(* user's agent share; each is given five minutes.  A call whose time is    *)
(* over is reported as failed and stays where it is, in the queue or in its *)
(* thread.                                                                  *)
(***************************************************************************)
EXTENDS Integers, Sequences, FiniteSets, SequencesExt

CONSTANTS
    Turns,
    Histories,       \* what a session may hold when a turn begins
    SystemSize,      \* tokens of the system message
    Budget,          \* tokens of system message and history together
    KeepLastTurns,   \* but so many messages are kept whatever they cost
    MAX_HISTORY_MESSAGES,
    MaxIterations,   \* rounds of tools, as configured when the turn begins
    MaxCalls,        \* in one round
    MaxWorkers       \* threads of the pool

ASSUME LoopAssumption ==
    /\ SystemSize \in Nat /\ Budget \in Nat /\ KeepLastTurns \in Nat
    /\ MaxIterations \in [Turns -> Nat] /\ MaxWorkers \in Nat \ {0}
    /\ MaxCalls \in Nat /\ MAX_HISTORY_MESSAGES \in Nat /\ MaxCalls < MAX_HISTORY_MESSAGES
    /\ Histories \subseteq Seq([kind : {"H", "A"}, size : Nat \ {0}])

VARIABLES
    history,    \* of the session, when the turn begins
    messages,   \* of the graph's state
    iteration,  \* rounds of tools completed
    stage,      \* of the turn
    prompt,     \* what the model was shown last
    collected,  \* the answers of the round's calls so far
    steps,      \* nodes run
    queue,      \* of the pool: calls waiting for a thread
    running,    \* calls that have one
    executed    \* calls that have been executed

turnVar  == <<history, messages, iteration, stage, prompt, collected, steps>>
poolVars == <<queue, running, executed>>
loopVars == <<turnVar, poolVars>>

\* S: system, H: the user, A: the model, T: a tool.  "at": its place in the
\* conversation.
Message(kind, at) == [kind |-> kind, at |-> at, calls |-> <<>>, call |-> 0, ok |-> TRUE]

Stages == {"begin", "agent", "tools", "inline", "collect", "post_tools", "force_final", "over",
           "failed"}

LoopTypeOK ==
    /\ history \in [Turns -> Histories]
    /\ iteration \in [Turns -> Nat] /\ steps \in [Turns -> Nat]
    /\ stage \in [Turns -> Stages]
    /\ \A t \in Turns :
        /\ stage[t] \in {"collect", "inline", "tools", "force_final"} =>
                Last(messages[t]).kind = "A" /\ Last(messages[t]).calls # <<>>
        /\ stage[t] = "collect" => Len(collected[t]) <= Len(Last(messages[t]).calls)
    /\ Cardinality(running) <= MaxWorkers
    /\ running \cap executed = {} /\ ToSet(queue) \cap (running \cup executed) = {}

LoopInit ==
    /\ history \in [Turns -> Histories]
    /\ messages = [t \in Turns |-> <<>>]
    /\ iteration = [t \in Turns |-> 0] /\ steps = [t \in Turns |-> 0]
    /\ stage = [t \in Turns |-> "begin"]
    /\ prompt = [t \in Turns |-> <<>>] /\ collected = [t \in Turns |-> <<>>]
    /\ queue = <<>> /\ running = {} /\ executed = {}

-----------------------------------------------------------------------------
(* What the model is shown. *)

LastOf(s, n) == SubSeq(s, Len(s) - (IF n < Len(s) THEN n ELSE Len(s)) + 1, Len(s))

Cost(s) == FoldSeq(LAMBDA m, sum : m.size + sum, 0, s)

\* assemble_with_budget: the last messages whatever they cost, and of those
\* before them, from the newest back, as many as the budget has room for.
Assemble(h) ==
    LET tail == LastOf(h, KeepLastTurns)
        head == SubSeq(h, 1, Len(h) - Len(tail))
        fits(k) == SystemSize + Cost(LastOf(head, k)) <= Budget
        n == CHOOSE k \in 0 .. Len(head) : (k = 0 \/ fits(k)) /\ (k = Len(head) \/ ~fits(k + 1))
    IN  [i \in 1 .. n + Len(tail) |-> Len(head) - n + i]

\* _sse_adapter_build_initial: the question takes the place of a question at
\* the end of the history.
InitialMessages(h) ==
    LET kept  == [i \in DOMAIN Assemble(h) |-> Message(h[Assemble(h)[i]].kind, Assemble(h)[i])]
        asked == kept # <<>> /\ Last(kept).kind = "H"
    IN  <<Message("S", 0)>> \o
        IF asked THEN kept ELSE Append(kept, Message("H", Len(h) + 1))

\* _trim_history: the system message and the latest, from the first that is
\* not an answer to a call that is cut off.
TrimHistory_Splits(msgs) ==
    IF Len(msgs) - 1 <= MAX_HISTORY_MESSAGES THEN msgs
    ELSE <<msgs[1]>> \o LastOf(msgs, MAX_HISTORY_MESSAGES)

TrimHistory(msgs) ==
    LET recent == LastOf(msgs, MAX_HISTORY_MESSAGES)
        whole  == {i \in DOMAIN recent : \A j \in 1 .. i : recent[j].kind = "T"}
    IN  IF Len(msgs) - 1 <= MAX_HISTORY_MESSAGES THEN msgs
        ELSE <<msgs[1]>> \o SubSeq(recent, Cardinality(whole) + 1, Len(recent))

\* force_final_node: calls that will not be made are struck out, and a last
\* message asks for the answer.
FinalPrompt(msgs) ==
    TrimHistory(Append([msgs EXCEPT ![Len(msgs)].calls = <<>>], Message("H", Last(msgs).at + 1)))

-----------------------------------------------------------------------------
Go(t, s) == stage' = [stage EXCEPT ![t] = s]

Node(t) == steps' = [steps EXCEPT ![t] = @ + 1]

\* run_stream
BeginTurn(t) ==
    /\ stage[t] = "begin"
    /\ messages' = [messages EXCEPT ![t] = InitialMessages(history[t])]
    /\ Go(t, "agent")
    /\ UNCHANGED <<history, iteration, prompt, collected, steps, poolVars>>

\* should_continue
ShouldContinue_OneMore(t, calls) ==
    IF calls = <<>> THEN "over"
    ELSE IF iteration[t] > MaxIterations[t] THEN "force_final" ELSE "tools"

ShouldContinue(t, calls) ==
    IF calls = <<>> THEN "over"
    ELSE IF iteration[t] >= MaxIterations[t] THEN "force_final" ELSE "tools"

\* The calls made so far number the next ones.
Called(t) == FoldLeft(LAMBDA sum, m : sum + Len(m.calls), 0, messages[t])

\* agent_node: the model answers, with or without calls, or fails.
Agent(t) ==
    /\ stage[t] = "agent" /\ Node(t)
    /\ prompt' = [prompt EXCEPT ![t] = TrimHistory(messages[t])]
    /\ \/ \E n \in 0 .. MaxCalls :
            LET calls == [i \in 1 .. n |-> Called(t) + i]
            IN  /\ messages' = [messages EXCEPT ![t] = Append(@,
                                [Message("A", Last(@).at + 1) EXCEPT !.calls = calls])]
                /\ Go(t, ShouldContinue(t, calls))
       \/ Go(t, "failed") /\ UNCHANGED messages
    /\ UNCHANGED <<history, iteration, collected, poolVars>>

ForceFinal(t) ==
    /\ stage[t] = "force_final" /\ Node(t)
    /\ prompt' = [prompt EXCEPT ![t] = FinalPrompt(messages[t])]
    /\ \/ /\ messages' = [messages EXCEPT ![t] = Append(@, Message("A", Last(@).at + 1))]
          /\ Go(t, "over")
       \/ Go(t, "failed") /\ UNCHANGED messages
    /\ UNCHANGED <<history, iteration, collected, poolVars>>

-----------------------------------------------------------------------------
(* Tools. *)

Calls(t) == Last(messages[t]).calls

Answer(t, call, ok) ==
    [Message("T", Last(messages[t]).at + Len(collected[t]) + 1) EXCEPT !.call = call, !.ok = ok]

\* ParallelToolNode: one call is run here and now, several go to the pool.
RunTools(t) ==
    /\ stage[t] = "tools" /\ Node(t)
    /\ collected' = [collected EXCEPT ![t] = <<>>]
    /\ IF Len(Calls(t)) = 1
       THEN Go(t, "inline") /\ UNCHANGED queue
       ELSE /\ queue' = queue \o [i \in DOMAIN Calls(t) |-> <<t, Calls(t)[i]>>]
            /\ Go(t, "collect")
    /\ UNCHANGED <<history, messages, iteration, prompt, running, executed>>

RunInline(t) ==
    /\ stage[t] = "inline"
    /\ executed' = executed \cup {<<t, Calls(t)[1]>>}
    /\ collected' = [collected EXCEPT ![t] = <<Answer(t, Calls(t)[1], TRUE)>>]
    /\ Go(t, "collect")
    /\ UNCHANGED <<history, messages, iteration, prompt, steps, queue, running>>

\* The pool.
StartCall ==
    /\ queue # <<>> /\ Cardinality(running) < MaxWorkers
    /\ running' = running \cup {Head(queue)} /\ queue' = Tail(queue)
    /\ UNCHANGED <<turnVar, executed>>

EndCall(c) ==
    /\ running' = running \ {c} /\ executed' = executed \cup {c}
    /\ UNCHANGED <<turnVar, queue>>

\* futures[tcid].result(timeout=300), one call after the other.
Next1(t) == Calls(t)[Len(collected[t]) + 1]

Waits(t) == stage[t] = "collect" /\ Len(collected[t]) < Len(Calls(t))

IsDone_AnyTurn(t, call) == \E u \in Turns : <<u, call>> \in executed

IsDone(t, call) == <<t, call>> \in executed

Collect_Untimed(t) ==
    /\ Waits(t) /\ IsDone(t, Next1(t))
    /\ collected' = [collected EXCEPT ![t] = Append(@, Answer(t, Next1(t), TRUE))]
    /\ UNCHANGED <<history, messages, iteration, stage, prompt, steps, poolVars>>

Collect(t) ==
    /\ Waits(t)
    /\ collected' = [collected EXCEPT ![t] = Append(@, Answer(t, Next1(t), IsDone(t, Next1(t))))]
    /\ UNCHANGED <<history, messages, iteration, stage, prompt, steps, poolVars>>

AddAnswers(t) == messages' = [messages EXCEPT ![t] = @ \o collected[t]]

ToolsDone(t) ==
    /\ stage[t] = "collect" /\ Len(collected[t]) = Len(Calls(t))
    /\ AddAnswers(t)
    /\ Go(t, "post_tools")
    /\ UNCHANGED <<history, iteration, prompt, collected, steps, poolVars>>

\* tool_postprocess_node
PostTools(t) ==
    /\ stage[t] = "post_tools" /\ Node(t)
    /\ iteration' = [iteration EXCEPT ![t] = @ + 1]
    /\ Go(t, "agent")
    /\ UNCHANGED <<history, messages, prompt, collected, poolVars>>

TurnStep(t) ==
    \/ BeginTurn(t) \/ Agent(t) \/ ForceFinal(t)
    \/ RunTools(t) \/ RunInline(t) \/ Collect(t) \/ ToolsDone(t) \/ PostTools(t)

PoolStep == StartCall \/ \E c \in running : EndCall(c)

LoopNext == (\E t \in Turns : TurnStep(t)) \/ PoolStep

LoopFairness == \A t \in Turns : WF_loopVars(TurnStep(t))

LoopSpec == LoopInit /\ [][LoopNext]_loopVars /\ LoopFairness

-----------------------------------------------------------------------------
\* Something is in it; a message that calls tools is followed by the answers,
\* in order; and an answer has such a message before it.
IsAccepted(p) ==
    /\ p # <<>> => Len(p) > 1
    /\ \A i \in DOMAIN p :
        /\ p[i].calls # <<>> =>
            \A n \in DOMAIN p[i].calls :
                i + n \in DOMAIN p /\ p[i + n].kind = "T" /\ p[i + n].call = p[i].calls[n]
        /\ p[i].kind = "T" => \E j \in 1 .. i - 1 : \E n \in DOMAIN p[j].calls : j + n = i

(* The provider accepts every prompt: there is something in it, an answer    *)
(* of a tool follows the message that calls it, and every call is answered,  *)
(* in order, before anything else is said - whatever has been cut off        *)
(* (nodes.py:36-41), timed out, or is asked for when the rounds are over.    *)
PromptIsAccepted == \A t \in Turns : IsAccepted(prompt[t])

HasNoGap(p) == \A i \in 2 .. Len(p) - 1 : p[i + 1].at = p[i].at + 1

(* What the model is shown has no gap: from some message of the session on,  *)
(* all of them, although history is dropped by cost in one place and by      *)
(* number in another (token_budget.py:127-137, nodes.py:52-60).              *)
PromptHasNoGap == \A t \in Turns : HasNoGap(prompt[t])

(* What the model is shown is a conversation: complete in itself, and all of *)
(* the session from somewhere on (token_budget.py:91-141, nodes.py:29-60).   *)
PromptIsWhole == PromptIsAccepted /\ PromptHasNoGap

(* What is reported as a call's success is the success of that call of that  *)
(* turn, though turns share the pool and calls outlive their round.          *)
SuccessWasExecuted ==
    \A t \in Turns : \A i \in DOMAIN messages[t] :
        messages[t][i].kind = "T" /\ messages[t][i].ok => <<t, messages[t][i].call>> \in executed

\* sse_adapter.py:89
RecursionLimit(t) == Max({MaxIterations[t] * 5 + 15, 50})

(* The rounds are counted right: no more of them than allowed, and the       *)
(* graph's own limit of steps, which would turn the answer into an error, is *)
(* never what ends a turn.                                                   *)
RoundsAreBounded ==
    \A t \in Turns : iteration[t] <= MaxIterations[t] /\ steps[t] <= RecursionLimit(t)

(* A turn that ends has an answer, and its answer calls no tool.             *)
AnswerIsFinal ==
    \A t \in Turns : stage[t] = "over" =>
        Last(messages[t]).kind = "A" /\ Last(messages[t]).calls = <<>>

(* The messages tell what has happened: successes are of calls executed, and *)
(* a turn that is over leaves no call open (nodes.py:128-164, 216-231).      *)
MessagesAreTrue == SuccessWasExecuted /\ AnswerIsFinal

(* A turn ends although tools in the pool hang for ever, its own and those   *)
(* of other turns.                                                           *)
EveryTurnEnds == \A t \in Turns : stage[t] = "agent" ~> stage[t] \in {"over", "failed"}

(* The question is in every prompt.  It is not, when the rounds since have   *)
(* said more than MAX_HISTORY_MESSAGES.                                      *)
QuestionIsShown ==
    \A t \in Turns : prompt[t] # <<>> =>
        \E i \in DOMAIN prompt[t] : prompt[t][i].kind = "H" /\ prompt[t][i].at >= Len(history[t])
=============================================================================
