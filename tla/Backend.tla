------------------------------- MODULE Backend -------------------------------
(***************************************************************************)
(* Five parts of the server that share no state: long queries on a heap     *)
(* dump, turns of the agent, the texts of reports, the cached agent and a   *)
(* session's facts.  A behaviour is one of one part; the others stay as     *)
(* they start.                                                              *)
(***************************************************************************)
EXTENDS HeapTasks, AgentLoop, ReportStore, AgentCache, SessionFacts

VARIABLE part   \* which of the five

backendVars == <<part, heapVars, loopVars, storeVars, cacheVars, factVars>>

ASSUME NewSession == <<>> \in Histories

NoTurns == history = [t \in Turns |-> <<>>] /\ LoopInit
NoChats == cached = NoAgent /\ CacheInit

BackendInit ==
    /\ HeapInit /\ StoreInit /\ FactsInit
    /\ \/ part \in {"queries", "reports", "facts"} /\ NoTurns /\ NoChats
       \/ part = "turns" /\ LoopInit /\ NoChats
       \/ part = "agents" /\ NoTurns /\ CacheInit

Only(name, others) == part = name /\ UNCHANGED <<part, others>>

OnlyQueries == Only("queries", <<loopVars, storeVars, cacheVars, factVars>>)
OnlyTurns   == Only("turns", <<heapVars, storeVars, cacheVars, factVars>>)
OnlyReports == Only("reports", <<heapVars, loopVars, cacheVars, factVars>>)
OnlyAgents  == Only("agents", <<heapVars, loopVars, storeVars, factVars>>)
OnlyFacts   == Only("facts", <<heapVars, loopVars, storeVars, cacheVars>>)

BackendNext ==
    \/ HeapNext /\ OnlyQueries
    \/ LoopNext /\ OnlyTurns
    \/ StoreNext /\ OnlyReports
    \/ CacheNext /\ OnlyAgents
    \/ FactsNext /\ OnlyFacts

\* HeapFairness and LoopFairness, of the part that moves.
BackendFairness ==
    /\ \A c \in Askers : WF_backendVars(AskerStep(c) /\ OnlyQueries)
    /\ \A t \in Turns : WF_backendVars(TurnStep(t) /\ OnlyTurns)

BackendSpec == BackendInit /\ [][BackendNext]_backendVars /\ BackendFairness

-----------------------------------------------------------------------------
(* Types of the five.                                                        *)
BackendTypeOK == HeapTypeOK /\ LoopTypeOK /\ StoreTypeOK /\ CacheTypeOK /\ FactsTypeOK

(* Whoever waits is answered: for a query, though the service loses or never *)
(* ends it (mat_tools.py:660, task-poller.js:27), and for a turn, though its *)
(* tools hang (nodes.py:216).                                                *)
EveryoneIsAnswered == EveryQueryEnds /\ EveryTurnEnds
=============================================================================
