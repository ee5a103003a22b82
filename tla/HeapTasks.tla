------------------------------ MODULE HeapTasks ------------------------------
(***************************************************************************)
(* Long queries on a parsed heap dump.  The query service (external) runs   *)
(* each as a task; whoever asked polls the task until it ends.  Four        *)
(* programs poll, each with rules of its own: the analysis page             *)
(* (task-poller.js) and the workbench (mat-workbench.js), both through the  *)
(* proxy (app/routes/heapdump_proxy.py), which remembers whose task it is,  *)
(* and the tools mat_leak_suspects and mat_diagnose_oom (mat_tools.py),     *)
(* which ask the service themselves.                                        *)
(*                                                                         *)
(* A result is what it says of the dump: "leaks", or "clear" when nothing   *)
(* is suspect.  The service keeps a result only as long as it has memory.   *)
(***************************************************************************)
EXTENDS Integers, Sequences, FiniteSets, SequencesExt

CONSTANTS
    Analysed,  \* the parsed reports
    Pages, Workbenches, LeakTools, OomTools,   \* who asks
    MaxTasks,  \* how many queries are submitted
    MaxTries,  \* how often a task is polled (600, 60, 50 times, for 180 s)
    MaxHeapFaults
CONSTANT Nobody

Proxied == Pages \cup Workbenches
Askers  == Proxied \cup LeakTools \cup OomTools

ASSUME HeapAssumption ==
    /\ MaxTasks \in Nat /\ MaxTries \in Nat \ {0} /\ MaxHeapFaults \in Nat
    /\ Nobody \notin Analysed
    /\ Pages \cap Workbenches = {} /\ LeakTools \cap OomTools = {}
    /\ Proxied \cap (LeakTools \cup OomTools) = {}

VARIABLES
    alive,   \* the reports not deleted
    tasks,   \* of the service: the report asked about, how it stands, the
             \* result it holds, and what was found
    owner,   \* _TASK_OWNER: the report under which a task may be asked for
    asker,   \* what each asker is doing
    heapFaults

heapVars == <<alive, tasks, owner, asker, heapFaults>>

Found    == {"leaks", "clear"}
Ended    == {"DONE", "FAILED", "CANCELLED"}
Told     == Ended \cup {"NOT_FOUND"}
Statuses == Told \cup {"RUNNING"}

NoReply == [status |-> "", result |-> "none"]
Idle    == [pc |-> "idle", report |-> Nobody, task |-> 0, tries |-> 0, reply |-> NoReply,
            answer |-> "none"]

HeapTypeOK ==
    /\ alive \subseteq Analysed
    /\ \A t \in DOMAIN tasks :
        /\ tasks[t].report \in Analysed /\ tasks[t].status \in Statuses
        /\ tasks[t].result # "none" => tasks[t].status = "DONE" /\ tasks[t].result = tasks[t].found
        /\ owner[t] \in {Nobody, tasks[t].report}
    /\ DOMAIN owner = DOMAIN tasks
    /\ \A c \in Askers :
        /\ asker[c].pc \in {"idle", "submitted", "polling", "heard", "over"}
        /\ asker[c].tries \in 0 .. MaxTries - 1
        /\ asker[c].answer # "none" <=> asker[c].pc = "over"

HeapInit ==
    /\ alive = Analysed /\ tasks = <<>> /\ owner = <<>>
    /\ asker = [c \in Askers |-> Idle]
    /\ heapFaults = 0

HeapFault == heapFaults < MaxHeapFaults /\ heapFaults' = heapFaults + 1

-----------------------------------------------------------------------------
(* The query service. *)

Finish(t) ==
    /\ tasks[t].status = "RUNNING"
    /\ \/ \E f \in Found :
            tasks' = [tasks EXCEPT ![t].status = "DONE", ![t].result = f, ![t].found = f]
       \/ tasks' = [tasks EXCEPT ![t].status = "FAILED"]
    /\ UNCHANGED <<alive, owner, asker, heapFaults>>

\* A result is softly referenced: memory runs short and it is gone.
Evict(t) ==
    /\ tasks[t].result # "none"
    /\ tasks' = [tasks EXCEPT ![t].result = "none"]
    /\ UNCHANGED <<alive, owner, asker, heapFaults>>

ServiceRestarts ==
    /\ tasks # <<>> /\ HeapFault
    /\ tasks' = [t \in DOMAIN tasks |->
                    [tasks[t] EXCEPT !.status = "NOT_FOUND", !.result = "none"]]
    /\ UNCHANGED <<alive, owner, asker>>

\* What GET /tasks/{id} may come to: a task the service does not know has the
\* status NOT_FOUND, or is a 404; a request may fail.
Replies(t) ==
    {[status |-> tasks[t].status, result |-> tasks[t].result]} \cup
    (IF tasks[t].status = "NOT_FOUND" THEN {[status |-> "404", result |-> "none"]} ELSE {})

-----------------------------------------------------------------------------
(* Submitting. *)

End(c, answer) == asker' = [asker EXCEPT ![c].pc = "over", ![c].answer = answer]

\* _prep, _load_report: the report must be there; then POST to the service.
Submit(c, r) ==
    /\ asker[c].pc = "idle" /\ r \in alive /\ Len(tasks) < MaxTasks
    /\ tasks' = Append(tasks, [report |-> r, status |-> "RUNNING", result |-> "none",
                               found |-> "none"])
    /\ owner' = Append(owner, Nobody)
    /\ asker' = [asker EXCEPT ![c] =
                    [@ EXCEPT !.pc = "submitted", !.report = r, !.task = Len(tasks) + 1]]
    /\ UNCHANGED <<alive, heapFaults>>

\* _track_task, for those that ask through the proxy.
Track(t, r) == owner' = [owner EXCEPT ![t] = r]

Accept(c) ==
    /\ asker[c].pc = "submitted"
    /\ IF c \in Proxied THEN Track(asker[c].task, asker[c].report) ELSE UNCHANGED owner
    /\ asker' = [asker EXCEPT ![c].pc = "polling"]
    /\ UNCHANGED <<alive, tasks, heapFaults>>

\* The answer to the submission never arrives; the task runs all the same.
AcceptLost(c) ==
    /\ asker[c].pc = "submitted" /\ HeapFault
    /\ End(c, "error")
    /\ UNCHANGED <<alive, tasks, owner>>

-----------------------------------------------------------------------------
(* Polling. *)

\* _check_task_owner: a task nobody is known to own may be asked for by all.
Authorised(r, t) == owner[t] \in {Nobody, r}

\* A request that cannot be answered: refused by the proxy, or lost.
Unanswered(c) ==
    \/ /\ c \in Proxied
       /\ asker[c].report \notin alive \/ ~Authorised(asker[c].report, asker[c].task)
       /\ UNCHANGED heapFaults
    \/ HeapFault

Ask(c) ==
    /\ asker[c].pc = "polling"
    /\ \/ /\ c \in Proxied => asker[c].report \in alive /\ Authorised(asker[c].report, asker[c].task)
          /\ \E reply \in Replies(asker[c].task) :
                asker' = [asker EXCEPT ![c].pc = "heard", ![c].reply = reply]
          /\ UNCHANGED heapFaults
       \/ /\ Unanswered(c)
          /\ asker' = [asker EXCEPT ![c].pc = "heard",
                                    ![c].reply = [status |-> "ERROR", result |-> "none"]]
    /\ UNCHANGED <<alive, tasks, owner>>

Untrack_UnlessLost(c) ==
    IF c \in Proxied /\ asker[c].reply.status \in Ended
    THEN owner' = [owner EXCEPT ![asker[c].task] = Nobody] ELSE UNCHANGED owner

\* The proxy forgets the owner when it passes on how a task ended.  A 404 is
\* raised before it comes to that.
Untrack(c) ==
    IF c \in Proxied /\ asker[c].reply.status \in Told
    THEN owner' = [owner EXCEPT ![asker[c].task] = Nobody] ELSE UNCHANGED owner

Again(c, givenUp) ==
    IF asker[c].tries + 1 < MaxTries
    THEN asker' = [asker EXCEPT ![c].pc = "polling", ![c].tries = @ + 1]
    ELSE End(c, givenUp)

Holds(reply) == reply.result # "none"

\* task-poller.js: everything but a running task ends the poll.
PageHears(c) ==
    LET reply == asker[c].reply
    IN  CASE reply.status = "RUNNING" -> Again(c, "error")
          [] reply.status = "DONE" /\ Holds(reply) -> End(c, reply.result)
          [] OTHER -> End(c, "error")

\* The workbench: no result leaves the page as it is, and what is neither an
\* end nor a result is polled again, refusals too; when the server cannot be
\* reached, fetch throws.
WorkbenchHears(c) ==
    LET reply == asker[c].reply
    IN  CASE reply.status = "ERROR" -> Again(c, "nothing") \/ End(c, "error")
          [] reply.status = "DONE" /\ Holds(reply) -> End(c, reply.result)
          [] reply.status \in Ended /\ ~Holds(reply) -> End(c, "nothing")
          [] OTHER -> Again(c, "nothing")

\* _poll_done: an error is passed over, and what is not running has ended.
\* _format_leak_suspects_result knows one status, FAILED, which is also what
\* mat_leak_suspects sets when it gives up; no result is an empty one.
LeakToolHears(c) ==
    LET reply == asker[c].reply
    IN  CASE reply.status \in {"RUNNING", "404", "ERROR"} -> Again(c, "error")
          [] reply.status = "FAILED" -> End(c, "error")
          [] OTHER -> End(c, IF Holds(reply) THEN reply.result ELSE "clear")

OomToolHears_IgnoresEviction(c) ==
    LET reply == asker[c].reply
    IN  CASE reply.status \in {"RUNNING", "NOT_FOUND"} -> Again(c, "error")
          [] reply.status = "DONE" -> End(c, IF Holds(reply) THEN reply.result ELSE "clear")
          [] OTHER -> End(c, "error")

\* _poll_task: an error ends the poll; a status it does not know does not.
OomToolHears(c) ==
    LET reply == asker[c].reply
    IN  CASE reply.status \in {"RUNNING", "NOT_FOUND"} -> Again(c, "error")
          [] reply.status = "DONE" /\ Holds(reply) -> End(c, reply.result)
          [] OTHER -> End(c, "error")

Hear(c) ==
    /\ asker[c].pc = "heard"
    /\ Untrack(c)
    /\ \/ c \in Pages /\ PageHears(c)
       \/ c \in Workbenches /\ WorkbenchHears(c)
       \/ c \in LeakTools /\ LeakToolHears(c)
       \/ c \in OomTools /\ OomToolHears(c)
    /\ UNCHANGED <<alive, tasks, heapFaults>>

-----------------------------------------------------------------------------
(* What comes between. *)

\* proxy_task_cancel, under report r; an unknown task counts as cancelled.
CancelTask(r, t) ==
    /\ r \in alive /\ Authorised(r, t)
    /\ tasks' = [tasks EXCEPT ![t].status = IF @ = "RUNNING" THEN "CANCELLED" ELSE @]
    /\ owner' = [owner EXCEPT ![t] = Nobody]
    /\ tasks' # tasks \/ owner' # owner
    /\ UNCHANGED <<alive, asker, heapFaults>>

DeleteDump(r) ==
    /\ r \in alive
    /\ alive' = alive \ {r}
    /\ UNCHANGED <<tasks, owner, asker, heapFaults>>

\* _TASK_OWNER is in memory.  The tools run in the server, and a request that
\* is under way fails; a page goes on polling.
ServerRestarts ==
    /\ tasks # <<>> /\ HeapFault
    /\ owner' = [t \in DOMAIN owner |-> Nobody]
    /\ asker' = [c \in Askers |->
                    IF asker[c].pc \in {"submitted", "heard"}
                       \/ (asker[c].pc = "polling" /\ c \notin Proxied)
                    THEN [asker[c] EXCEPT !.pc = "over", !.answer = "error"] ELSE asker[c]]
    /\ UNCHANGED <<alive, tasks>>

AskerStep(c) == Accept(c) \/ Ask(c) \/ Hear(c)

HeapNext ==
    \/ \E c \in Askers : AskerStep(c) \/ AcceptLost(c) \/ \E r \in Analysed : Submit(c, r)
    \/ \E t \in DOMAIN tasks : Finish(t) \/ Evict(t) \/ \E r \in Analysed : CancelTask(r, t)
    \/ \E r \in Analysed : DeleteDump(r)
    \/ ServiceRestarts
    \/ ServerRestarts

HeapFairness == \A c \in Askers : WF_heapVars(AskerStep(c))

HeapSpec == HeapInit /\ [][HeapNext]_heapVars /\ HeapFairness

-----------------------------------------------------------------------------
Shows(c) == asker[c].pc = "over" /\ asker[c].answer \in Found

(* Whoever is shown a result is shown it of a query that has ended: neither  *)
(* the limit of tries (mat_tools.py:667) nor a lost reply makes a running    *)
(* query one that found nothing.                                             *)
NoResultOfRunning ==
    \A c \in Askers : Shows(c) => tasks[asker[c].task].status # "RUNNING"

(* What the pages and mat_diagnose_oom show is what the query found, of the  *)
(* report they asked about: an evicted, cancelled, failed or forgotten query *)
(* shows nothing (mat_tools.py:203, task-poller.js:40).                      *)
ShownWasFound ==
    \A c \in Askers \ LeakTools : Shows(c) =>
        /\ tasks[asker[c].task].found = asker[c].answer
        /\ tasks[asker[c].task].report = asker[c].report

(* No result is made up of a query that gave none (mat_leak_suspects with a   *)
(* service that loses tasks is another matter: see AllClearIsTrue).          *)
NothingMadeUp == NoResultOfRunning /\ ShownWasFound

(* Who has been told through the proxy how a query ended leaves no entry in  *)
(* _TASK_OWNER (heapdump_proxy.py:730), whatever restarts and cancels came   *)
(* in between.                                                               *)
ToldIsForgotten ==
    \A c \in Proxied : asker[c].pc = "over" /\ asker[c].reply.status \in Told
        => owner[asker[c].task] = Nobody

(* Whoever asks is told something in the end, though the service restarts,   *)
(* loses the task or never ends it.                                          *)
EveryQueryEnds == \A c \in Askers : asker[c].pc = "submitted" ~> asker[c].pc = "over"

(* An all-clear of mat_leak_suspects is a query's finding.  It is not: a     *)
(* cancelled, forgotten or evicted query is reported as "No obvious leak     *)
(* suspects".                                                                *)
AllClearIsTrue ==
    \A c \in LeakTools : asker[c].pc = "over" /\ asker[c].answer = "clear"
        => tasks[asker[c].task].found = "clear"

=============================================================================
