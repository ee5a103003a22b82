------------------------------ MODULE AgentCache ------------------------------
(***************************************************************************)
(* The agent that answers the user is built from the configuration and the  *)
(* skills in the database and kept (app/core/helpers.py, state.py).  Saving *)
(* the configuration (app/routes/config.py) builds the next one outside the *)
(* lock and swaps it in; changing a skill (app/routes/skills.py) drops the  *)
(* one there is; whoever needs an agent and finds none builds it under the  *)
(* lock.  There is one user.                                                *)
(*                                                                         *)
(* A step is one transaction, or what is done under the lock in one go.     *)
(* What is stored is known by a number that grows with every change.        *)
(***************************************************************************)
EXTENDS Integers, FiniteSetsExt

CONSTANTS
    Saves,    \* requests that save the configuration
    Changes,  \* requests that create, change or delete a skill
    Chats,    \* requests that need the agent
    Overlap   \* may a save run beside other saves and changes?
CONSTANT NoAgent

ASSUME CacheAssumption == Overlap \in BOOLEAN /\ NoAgent \notin Chats

VARIABLES
    config, skills,  \* in the database
    cached,    \* _AGENTS[user]
    locked,    \* who holds _AGENTS_LOCK: a chat that builds, or nobody
    save, change, chat  \* the requests

cacheVars == <<config, skills, cached, locked, save, change, chat>>

Agent0 == [config |-> 0, skills |-> 0]

CacheTypeOK ==
    /\ config \in Nat /\ skills \in Nat
    /\ cached # NoAgent => cached.config <= config /\ cached.skills <= skills
    /\ locked \in Chats \cup {NoAgent}
    /\ locked # NoAgent => chat[locked].pc \in {"read", "skills", "store"} /\ cached = NoAgent
    /\ \A s \in Saves : save[s].pc \in {"idle", "read", "skills", "swap", "over"}
    /\ \A c \in Changes : change[c].pc \in {"idle", "drop", "over"}
    /\ \A c \in Chats : chat[c].pc \in {"idle", "get", "read", "skills", "store", "over"}

CacheInit ==
    /\ config = 0 /\ skills = 0
    /\ cached \in {NoAgent, Agent0} /\ locked = NoAgent
    /\ save = [s \in Saves |-> [pc |-> "idle", stored |-> 0, agent |-> Agent0]]
    /\ change = [c \in Changes |-> [pc |-> "idle", stored |-> 0]]
    /\ chat = [c \in Chats |-> [pc |-> "idle", agent |-> Agent0, config |-> 0, skills |-> 0]]

Quiet == /\ \A s \in Saves : save[s].pc \in {"idle", "over"}
         /\ \A c \in Changes : change[c].pc \in {"idle", "over"}

-----------------------------------------------------------------------------
(* put_config *)

\* update_user_config merges the patch under the user manager's lock.
SaveConfig(s) ==
    /\ save[s].pc = "idle" /\ (Overlap \/ Quiet)
    /\ config' = config + 1
    /\ save' = [save EXCEPT ![s].pc = "read", ![s].stored = config + 1]
    /\ UNCHANGED <<skills, cached, locked, change, chat>>

\* _build_agent, first the configuration and then the skills.
ReadConfig(s) ==
    /\ save[s].pc = "read"
    /\ save' = [save EXCEPT ![s].pc = "skills", ![s].agent.config = config]
    /\ UNCHANGED <<config, skills, cached, locked, change, chat>>

ReadSkills(s) ==
    /\ save[s].pc = "skills"
    /\ save' = [save EXCEPT ![s].pc = "swap", ![s].agent.skills = skills]
    /\ UNCHANGED <<config, skills, cached, locked, change, chat>>

Swap(s) ==
    /\ save[s].pc = "swap" /\ locked = NoAgent
    /\ cached' = save[s].agent
    /\ save' = [save EXCEPT ![s].pc = "over"]
    /\ UNCHANGED <<config, skills, locked, change, chat>>

-----------------------------------------------------------------------------
(* create_skill, update_skill, delete_skill *)

ChangeSkill(c) ==
    /\ change[c].pc = "idle" /\ (Overlap \/ \A s \in Saves : save[s].pc \in {"idle", "over"})
    /\ skills' = skills + 1
    /\ change' = [change EXCEPT ![c].pc = "drop", ![c].stored = skills + 1]
    /\ UNCHANGED <<config, cached, locked, save, chat>>

\* _invalidate_agent waits for the lock.
DropAgent_Unlocked(c) ==
    /\ change[c].pc = "drop"
    /\ cached' = NoAgent
    /\ change' = [change EXCEPT ![c].pc = "over"]
    /\ UNCHANGED <<config, skills, locked, save, chat>>

DropAgent(c) ==
    /\ change[c].pc = "drop" /\ locked = NoAgent
    /\ cached' = NoAgent
    /\ change' = [change EXCEPT ![c].pc = "over"]
    /\ UNCHANGED <<config, skills, locked, save, chat>>

-----------------------------------------------------------------------------
(* _get_agent *)

\* What the requests that are over have stored is what this one must see.
StoredBefore(requests) ==
    Max({0} \cup {requests[r].stored : r \in {q \in DOMAIN requests : requests[q].pc = "over"}})

BeginChat(c) ==
    /\ chat[c].pc = "idle"
    /\ chat' = [chat EXCEPT ![c] = [@ EXCEPT
            !.pc = "get", !.config = StoredBefore(save), !.skills = StoredBefore(change)]]
    /\ UNCHANGED <<config, skills, cached, locked, save, change>>

GetAgent(c) ==
    /\ chat[c].pc = "get" /\ locked = NoAgent
    /\ IF cached # NoAgent
       THEN chat' = [chat EXCEPT ![c].pc = "over", ![c].agent = cached] /\ UNCHANGED locked
       ELSE chat' = [chat EXCEPT ![c].pc = "read"] /\ locked' = c
    /\ UNCHANGED <<config, skills, cached, save, change>>

ReadConfigLocked(c) ==
    /\ chat[c].pc = "read"
    /\ chat' = [chat EXCEPT ![c].pc = "skills", ![c].agent.config = config]
    /\ UNCHANGED <<config, skills, cached, locked, save, change>>

ReadSkillsLocked(c) ==
    /\ chat[c].pc = "skills"
    /\ chat' = [chat EXCEPT ![c].pc = "store", ![c].agent.skills = skills]
    /\ UNCHANGED <<config, skills, cached, locked, save, change>>

StoreAgent(c) ==
    /\ chat[c].pc = "store"
    /\ cached' = chat[c].agent /\ locked' = NoAgent
    /\ chat' = [chat EXCEPT ![c].pc = "over"]
    /\ UNCHANGED <<config, skills, save, change>>

SaveStep(s) == SaveConfig(s) \/ ReadConfig(s) \/ ReadSkills(s) \/ Swap(s)
ChangeStep(c) == ChangeSkill(c) \/ DropAgent(c)
ChatStep(c) == BeginChat(c) \/ GetAgent(c) \/ ReadConfigLocked(c) \/ ReadSkillsLocked(c)
               \/ StoreAgent(c)

CacheNext ==
    \/ \E s \in Saves : SaveStep(s)
    \/ \E c \in Changes : ChangeStep(c)
    \/ \E c \in Chats : ChatStep(c)

CacheSpec == CacheInit /\ [][CacheNext]_cacheVars

-----------------------------------------------------------------------------
(* Who asks for the agent after a save or a change is over gets one that     *)
(* has what was stored, although an agent may have been half built, under    *)
(* the lock, when it was stored (helpers.py:369, config.py:58-68).  With     *)
(* Overlap it is not so: two saves may swap in the reverse order, and a save *)
(* may bring back the skills it has read before a change.                    *)
SavedIsUsed ==
    \A c \in Chats : chat[c].pc = "over" =>
        /\ chat[c].agent.config >= chat[c].config
        /\ chat[c].agent.skills >= chat[c].skills
=============================================================================
