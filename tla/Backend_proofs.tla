---------------------------- MODULE Backend_proofs ----------------------------
(***************************************************************************)
(* The five parts of Backend, about which more can be said than TLC can try:*)
(* queries on a heap dump, the texts of reports, the cached agent, a         *)
(* session's facts, and, from AgentLoop_proofs, turns.  Each has an invariant *)
(* of its own; as they share no state, what holds of each holds of all of    *)
(* them together.                                                            *)
(***************************************************************************)
EXTENDS Backend, AgentLoop_proofs

(* Queries.  What makes the properties inductive: askers have tasks of their *)
(* own, what has ended stays ended, and a result that has been heard is what *)
(* was found.                                                                *)

Results == Found \cup {"none"}
ATask  == [report : Analysed, status : Statuses, result : Results, found : Results]
AReply == [status : Statuses \cup {"", "404", "ERROR"}, result : Results]
AnAsker == [pc : {"idle", "submitted", "polling", "heard", "over"},
            report : Analysed \cup {Nobody}, task : Nat, tries : 0 .. MaxTries - 1,
            reply : AReply, answer : Results \cup {"error", "nothing"}]

TasksTyped ==
    /\ alive \subseteq Analysed
    /\ tasks \in Seq(ATask) /\ owner \in Seq(Analysed \cup {Nobody}) /\ Len(owner) = Len(tasks)
    /\ asker \in [Askers -> AnAsker]

\* A result is held of a query that is done, and is what it has found.
HeldWasFound ==
    \A t \in 1 .. Len(tasks) :
        tasks[t].result # "none" => tasks[t].status = "DONE" /\ tasks[t].result = tasks[t].found

OwnedByReport == \A t \in 1 .. Len(tasks) : owner[t] \in {Nobody, tasks[t].report}

\* What asker c holds, of the tasks: of its own only what they have come to.
Asked(c, a, ts) ==
    /\ a.pc = "idle" => a = Idle
    /\ a.pc # "idle" => a.task \in 1 .. Len(ts) /\ ts[a.task].report = a.report
    /\ a.pc = "submitted" => a.reply = NoReply
    /\ a.pc = "heard" =>
        /\ a.reply.status # ""
        /\ a.reply.status \in Told => ts[a.task].status # "RUNNING"
        /\ a.reply.result # "none" => a.reply.status = "DONE" /\ ts[a.task].found = a.reply.result
    /\ a.pc = "over" /\ a.answer \in Found =>
        /\ ts[a.task].status # "RUNNING"
        /\ c \notin LeakTools => ts[a.task].found = a.answer
    /\ a.answer # "none" <=> a.pc = "over"

EachAsked == \A c \in Askers : Asked(c, asker[c], tasks)

\* Who asks has a task nobody else asks about.
OwnTask ==
    \A c, d \in Askers :
        c # d /\ asker[c].pc # "idle" /\ asker[d].pc # "idle" => asker[c].task # asker[d].task

\* Who has been told, by the proxy, has no entry.
Forgotten ==
    \A c \in Proxied :
        asker[c].pc \in {"polling", "over"} /\ asker[c].reply.status \in Told =>
            owner[asker[c].task] = Nobody

HeapInv == TasksTyped /\ HeldWasFound /\ OwnedByReport /\ EachAsked /\ OwnTask /\ Forgotten

\* What may become of tasks: what has ended has ended, and found what it found.
Later(ts, us) ==
    /\ Len(ts) <= Len(us)
    /\ \A t \in 1 .. Len(ts) :
        /\ us[t].report = ts[t].report
        /\ ts[t].status # "RUNNING" => us[t].status # "RUNNING" /\ us[t].found = ts[t].found

(* What an asker holds of its task stays true of it. *)
LEMMA StillAsked ==
    ASSUME NEW ts, NEW us, Len(ts) \in Nat, Len(us) \in Nat, Later(ts, us),
           NEW c, NEW a, Asked(c, a, ts),
           a.pc = "heard" /\ a.reply.result # "none" => a.reply.status \in Told
    PROVE  Asked(c, a, us)
<1>1. CASE a.pc = "idle"
  BY <1>1 DEF Asked
<1>2. CASE a.pc # "idle"
  <2>1. /\ a.task \in 1 .. Len(us) /\ us[a.task].report = ts[a.task].report
        /\ ts[a.task].status # "RUNNING" =>
                us[a.task].status # "RUNNING" /\ us[a.task].found = ts[a.task].found
    <3>1. a.task \in 1 .. Len(ts)
      BY <1>2 DEF Asked
    <3>2. a.task \in 1 .. Len(us)
      BY <3>1 DEF Later
    <3>3. QED
      BY <3>1, <3>2 DEF Later
  <2>2. QED
    BY <1>2, <2>1 DEF Asked
<1>3. QED
  BY <1>1, <1>2

(* A function on 1 .. n into S is a sequence over S. *)
LEMMA AllOf ==
    ASSUME NEW S, NEW n \in Nat, NEW f, f = [i \in 1 .. n |-> f[i]], \A i \in 1 .. n : f[i] \in S
    PROVE  f \in Seq(S) /\ Len(f) = n
<1>1. f \in [1 .. n -> S]
  OBVIOUS
<1>2. QED
  BY <1>1


(* Nobody has asked. *)
LEMMA HeapInvAtFirst == HeapInit => HeapInv
<1> SUFFICES ASSUME HeapInit PROVE HeapInv
  OBVIOUS
<1>1. Len(<<>>) = 0 /\ <<>> \in Seq(ATask) /\ <<>> \in Seq(Analysed \cup {Nobody})
  OBVIOUS
<1>2. Idle \in AnAsker
  BY HeapAssumption DEF Idle, AnAsker, AReply, NoReply, Results, Found
<1>3. \A c \in Askers : asker[c] = Idle
  BY DEF HeapInit
<1>4. EachAsked
  <2>1. Idle.pc = "idle" /\ Idle.answer = "none"
    BY DEF Idle
  <2>2. \A c \in Askers : Asked(c, Idle, tasks)
    BY <2>1, Zenon DEF Asked
  <2>3. QED
    BY <1>3, <2>2 DEF EachAsked
<1>5. TasksTyped /\ HeldWasFound /\ OwnedByReport
  BY <1>1, <1>2 DEF HeapInit, TasksTyped, HeldWasFound, OwnedByReport
<1>6. OwnTask /\ Forgotten
  BY <1>3 DEF OwnTask, Forgotten, Idle, Proxied, Askers
<1>7. QED
  BY <1>4, <1>5, <1>6 DEF HeapInv

(* Tasks and owners, one by one. *)
LEMMA TaskTyped ==
    ASSUME TasksTyped
    PROVE  /\ Len(tasks) \in Nat /\ DOMAIN tasks = 1 .. Len(tasks) /\ DOMAIN owner = 1 .. Len(tasks)
           /\ \A t \in 1 .. Len(tasks) : tasks[t] \in ATask /\ owner[t] \in Analysed \cup {Nobody}
BY ElementOfSeq, LenProperties DEF TasksTyped

(* One place of a sequence is set. *)
LEMMA SetPlace ==
    ASSUME NEW S, NEW s \in Seq(S), NEW t \in 1 .. Len(s), NEW x \in S
    PROVE  /\ [s EXCEPT ![t] = x] \in Seq(S) /\ Len([s EXCEPT ![t] = x]) = Len(s)
           /\ [s EXCEPT ![t] = x][t] = x
           /\ \A u \in 1 .. Len(s) : u # t => [s EXCEPT ![t] = x][u] = s[u]
BY ExceptSeq

(* Who has heard a result has been told that the query is done. *)
LEMMA HeardOfTask ==
    ASSUME TasksTyped, EachAsked, NEW c \in Askers, asker[c].pc = "heard",
           asker[c].reply.result # "none"
    PROVE  asker[c].reply.status \in Told
BY DEF EachAsked, Asked, Told, Ended

(* Only the service's tasks and the owners move. *)
LEMMA TasksMove ==
    ASSUME HeapInv, UNCHANGED <<alive, asker>>,
           tasks' \in Seq(ATask), owner' \in Seq(Analysed \cup {Nobody}), Len(tasks') = Len(tasks), Len(owner') = Len(tasks),
           Later(tasks, tasks'),
           \A t \in 1 .. Len(tasks) :
              /\ owner'[t] \in {Nobody, owner[t]}
              /\ tasks'[t].result # "none" =>
                    tasks'[t].status = "DONE" /\ tasks'[t].result = tasks'[t].found
    PROVE  HeapInv'
<1> USE DEF HeapInv
<1>1. TasksTyped'
  BY DEF TasksTyped
<1>2. HeldWasFound'
  BY DEF HeldWasFound
<1>3. OwnedByReport'
  BY DEF OwnedByReport, Later
<1>4. EachAsked'
  <2> SUFFICES ASSUME NEW c \in Askers PROVE Asked(c, asker[c], tasks')
    BY DEF EachAsked
  <2>1. Len(tasks) \in Nat
    BY TaskTyped
  <2>2. QED
    BY <2>1, HeardOfTask, StillAsked DEF EachAsked
<1>5. OwnTask'
  BY DEF OwnTask
<1>6. Forgotten'
  <2> SUFFICES ASSUME NEW c \in Proxied, asker[c].pc \in {"polling", "over"},
                      asker[c].reply.status \in Told
               PROVE  owner'[asker[c].task] = Nobody
    BY DEF Forgotten
  <2>1. c \in Askers
    BY DEF Askers
  <2>2. asker[c].task \in 1 .. Len(tasks)
    BY <2>1 DEF EachAsked, Asked
  <2>3. QED
    BY <2>2 DEF Forgotten
<1>7. QED
  BY <1>1, <1>2, <1>3, <1>4, <1>5, <1>6

(* One asker moves, and perhaps its task's owner with it. *)
LEMMA AskerMoves ==
    ASSUME HeapInv, UNCHANGED <<alive, tasks>>, NEW c \in Askers, asker[c].pc # "idle",
           NEW a \in AnAsker, asker' = [asker EXCEPT ![c] = a],
           a.pc # "idle", a.task = asker[c].task, Asked(c, a, tasks),
           NEW o, o = owner[a.task] \/ o = Nobody \/ (asker[c].pc = "submitted" /\ o = a.report),
           owner' = [owner EXCEPT ![a.task] = o],
           c \in Proxied /\ a.pc \in {"polling", "over"} /\ a.reply.status \in Told => o = Nobody
    PROVE  HeapInv'
<1> USE DEF HeapInv
<1>1. a.task \in 1 .. Len(tasks) /\ tasks[a.task].report = a.report
  BY DEF Asked
<1>2. o \in {Nobody, tasks[a.task].report} /\ o \in Analysed \cup {Nobody}
  <2>1. tasks[a.task].report \in Analysed
    BY <1>1, TaskTyped DEF ATask
  <2>2. QED
    BY <1>1, <2>1 DEF OwnedByReport
<1>3. /\ owner' \in Seq(Analysed \cup {Nobody}) /\ Len(owner') = Len(tasks)
      /\ owner'[a.task] = o
      /\ \A u \in 1 .. Len(tasks) : u # a.task => owner'[u] = owner[u]
  BY <1>1, <1>2, SetPlace DEF TasksTyped
<1>4. TasksTyped'
  BY <1>3 DEF TasksTyped
<1>5. HeldWasFound'
  BY DEF HeldWasFound
<1>6. OwnedByReport'
  BY <1>1, <1>2, <1>3 DEF OwnedByReport
<1>7. asker'[c] = a /\ \A d \in Askers : d # c => asker'[d] = asker[d]
  BY DEF TasksTyped
<1>8. EachAsked'
  BY <1>7 DEF EachAsked
<1>9. OwnTask'
  BY <1>7 DEF OwnTask
<1>10. Forgotten'
  <2> SUFFICES ASSUME NEW d \in Proxied, asker'[d].pc \in {"polling", "over"},
                      asker'[d].reply.status \in Told
               PROVE  owner'[asker'[d].task] = Nobody
    BY DEF Forgotten
  <2>1. d \in Askers
    BY DEF Askers
  <2>2. CASE d = c
    BY <1>3, <1>7, <2>2
  <2>3. CASE d # c
    <3>1. asker[d].task \in 1 .. Len(tasks) /\ asker[d].task # a.task
      BY <1>7, <2>1, <2>3 DEF EachAsked, Asked, OwnTask
    <3>2. QED
      BY <1>3, <1>7, <2>1, <2>3, <3>1 DEF Forgotten
  <2>4. QED
    BY <2>2, <2>3
<1>11. QED
  BY <1>4, <1>5, <1>6, <1>8, <1>9, <1>10

(* An entry set to what it is. *)
LEMMA OwnerStays ==
    ASSUME TasksTyped, NEW t \in 1 .. Len(tasks)
    PROVE  owner = [owner EXCEPT ![t] = owner[t]]
BY TaskTyped DEF TasksTyped


(* What asker c does when its answer comes: again, or no more. *)
LEMMA AskerHears ==
    ASSUME HeapInv, NEW c \in Askers, Hear(c)
    PROVE  \E pc \in {"polling", "over"}, tries \in 0 .. MaxTries - 1,
              answer \in Results \cup {"error", "nothing"} :
              /\ asker' = [asker EXCEPT ![c] =
                              [@ EXCEPT !.pc = pc, !.tries = tries, !.answer = answer]]
              /\ answer # "none" <=> pc = "over"
              /\ answer \in Found =>
                    /\ asker[c].reply.status \in Told
                    /\ c \notin LeakTools => answer = asker[c].reply.result
<1> USE DEF HeapInv
<1> DEFINE Moves(pc, tries, answer) ==
              asker' = [asker EXCEPT ![c] =
                              [@ EXCEPT !.pc = pc, !.tries = tries, !.answer = answer]]
           Ends(answer) == End(c, answer)
           reply == asker[c].reply
<1>1. /\ asker \in [Askers -> AnAsker] /\ asker[c].tries \in 0 .. MaxTries - 1
      /\ asker[c].answer = "none" /\ asker[c].pc = "heard" /\ MaxTries \in Nat
      /\ reply \in AReply
  BY HeapAssumption DEF TasksTyped, AnAsker, EachAsked, Asked, Hear
<1>2. ASSUME NEW answer, Ends(answer) PROVE Moves("over", asker[c].tries, answer)
  BY <1>1, <1>2 DEF End, AnAsker
<1>3. ASSUME NEW g, Again(c, g)
      PROVE  \/ \E tries \in 0 .. MaxTries - 1 : Moves("polling", tries, "none")
             \/ Ends(g)
  <2>1. CASE asker[c].tries + 1 < MaxTries
    <3>1. asker[c].tries + 1 \in 0 .. MaxTries - 1
      BY <1>1, <2>1
    <3>2. Moves("polling", asker[c].tries + 1, "none")
      BY <1>1, <1>3, <2>1 DEF Again, AnAsker
    <3>3. QED
      BY <3>1, <3>2
  <2>2. CASE ~(asker[c].tries + 1 < MaxTries)
    BY <1>3, <2>2 DEF Again
  <2>3. QED
    BY <2>1, <2>2
<1>4. \/ \E tries \in 0 .. MaxTries - 1 : Moves("polling", tries, "none")
      \/ Ends("error") \/ Ends("nothing")
      \/ \E answer \in Found : /\ Ends(answer) /\ reply.status \in Told
                               /\ c \notin LeakTools => answer = reply.result
  <2> HIDE DEF Moves, Ends
  <2>0. Holds(reply) => reply.result \in Found
    BY <1>1 DEF Holds, AReply, Results
  <2>1. CASE c \in Pages /\ PageHears(c)
    BY <1>3, <2>0, <2>1 DEF PageHears, Ends, Told, Ended
  <2>2. CASE c \in Workbenches /\ WorkbenchHears(c)
    BY <1>3, <2>0, <2>2 DEF WorkbenchHears, Ends, Told, Ended
  <2>3. CASE c \in LeakTools /\ LeakToolHears(c)
    <3>1. CASE reply.status \in {"RUNNING", "404", "ERROR"}
      BY <1>3, <2>3, <3>1 DEF LeakToolHears, Ends
    <3>2. CASE reply.status = "FAILED"
      BY <2>3, <3>2 DEF LeakToolHears, Ends
    <3>3. CASE reply.status \notin {"RUNNING", "404", "ERROR", "FAILED"}
      <4>1. reply.status # ""
        BY <1>1 DEF EachAsked, Asked
      <4>2. reply.status \in Told
        BY <1>1, <3>3, <4>1 DEF AReply, Statuses, Told, Ended
      <4>3. QED
        BY <2>0, <2>3, <3>3, <4>2 DEF LeakToolHears, Ends, Found
    <3>4. QED
      BY <3>1, <3>2, <3>3
  <2>4. CASE c \in OomTools /\ OomToolHears(c)
    BY <1>3, <2>0, <2>4 DEF OomToolHears, Ends, Told, Ended
  <2>5. QED
    BY <2>1, <2>2, <2>3, <2>4 DEF Hear
<1>5. CASE \E tries \in 0 .. MaxTries - 1 : Moves("polling", tries, "none")
  <2>1. "none" \in Results \cup {"error", "nothing"} /\ "none" \notin Found
    BY DEF Results, Found
  <2> HIDE DEF Moves
  <2>2. PICK tries \in 0 .. MaxTries - 1 : Moves("polling", tries, "none")
    BY <1>5
  <2>3. QED
    BY <2>1, <2>2 DEF Moves
<1>6. ASSUME NEW answer \in Found \cup {"error", "nothing"}, Ends(answer),
             answer \in Found => /\ reply.status \in Told
                                 /\ c \notin LeakTools => answer = reply.result
      PROVE  \E pc \in {"polling", "over"}, tries \in 0 .. MaxTries - 1,
                a \in Results \cup {"error", "nothing"} :
                /\ Moves(pc, tries, a)
                /\ a # "none" <=> pc = "over"
                /\ a \in Found => /\ reply.status \in Told
                                  /\ c \notin LeakTools => a = reply.result
  <2>1. Moves("over", asker[c].tries, answer)
    BY <1>2, <1>6
  <2>2. answer \in Results \cup {"error", "nothing"} /\ answer # "none"
    BY <1>6 DEF Results, Found
  <2> HIDE DEF Moves, Ends
  <2>3. QED
    BY <1>1, <1>6, <2>1, <2>2
<1>7. QED
  <2>1. "error" \notin Found /\ "nothing" \notin Found
    BY DEF Found
  <2> HIDE DEF Ends
  <2>2. QED
    BY <1>4, <1>5, <1>6, <2>1

(* Every step of an asker, of the service and of what comes between keeps the *)
(* invariant, restarts included.                                              *)
LEMMA HeapInvKept == HeapInv /\ [HeapNext]_heapVars => HeapInv'
<1> SUFFICES ASSUME HeapInv, [HeapNext]_heapVars PROVE HeapInv'
  OBVIOUS
<1> USE DEF HeapInv
<1>0. /\ Len(tasks) \in Nat /\ DOMAIN tasks = 1 .. Len(tasks) /\ DOMAIN owner = 1 .. Len(tasks)
      /\ \A t \in 1 .. Len(tasks) : tasks[t] \in ATask /\ owner[t] \in Analysed \cup {Nobody}
      /\ tasks \in Seq(ATask) /\ owner \in Seq(Analysed \cup {Nobody}) /\ Len(owner) = Len(tasks)
      /\ asker \in [Askers -> AnAsker]
  BY TaskTyped DEF TasksTyped
<1>1. ASSUME NEW c \in Askers, NEW r \in Analysed, Submit(c, r) PROVE HeapInv'
  <2> DEFINE n == Len(tasks) + 1
             x == [report |-> r, status |-> "RUNNING", result |-> "none", found |-> "none"]
             a == [asker[c] EXCEPT !.pc = "submitted", !.report = r, !.task = n]
  <2>1. x \in ATask /\ Nobody \in Analysed \cup {Nobody}
    BY DEF ATask, Statuses, Results
  <2>2. /\ tasks' = Append(tasks, x) /\ owner' = Append(owner, Nobody)
        /\ asker' = [asker EXCEPT ![c] = a] /\ UNCHANGED alive /\ asker[c].pc = "idle"
    BY <1>0, <1>1 DEF Submit
  <2>3. x.result = "none" /\ x.report = r
    OBVIOUS
  <2>4. asker[c] = Idle
    BY <2>2 DEF EachAsked, Asked
  <2>5. /\ a \in AnAsker /\ a.pc = "submitted" /\ a.task = n /\ a.report = r /\ a.reply = NoReply
        /\ a.answer = "none"
    <3>1. n \in Nat /\ asker[c] \in AnAsker
      BY <1>0
    <3> HIDE DEF n
    <3>2. a \in AnAsker /\ a.pc = "submitted" /\ a.task = n /\ a.report = r
      BY <3>1 DEF AnAsker
    <3>3. a.reply = asker[c].reply /\ a.answer = asker[c].answer
      BY <3>1 DEF AnAsker
    <3>4. QED
      BY <2>4, <3>2, <3>3 DEF Idle
  <2> HIDE DEF x, a
  <2>6. /\ tasks' \in Seq(ATask) /\ Len(tasks') = n /\ tasks'[n] = x
        /\ \A t \in 1 .. Len(tasks) : tasks'[t] = tasks[t]
    BY <1>0, <2>1, <2>2, AppendProperties
  <2>7. /\ owner' \in Seq(Analysed \cup {Nobody}) /\ Len(owner') = n /\ owner'[n] = Nobody
        /\ \A t \in 1 .. Len(tasks) : owner'[t] = owner[t]
    BY <1>0, <2>1, <2>2, AppendProperties
  <2>8. \A t \in 1 .. n : t \in 1 .. Len(tasks) \/ t = n
    BY <1>0
  <2>9. asker'[c] = a /\ \A d \in Askers : d # c => asker'[d] = asker[d]
    BY <1>0, <2>2
  <2>10. TasksTyped'
    BY <1>0, <2>2, <2>5, <2>6, <2>7 DEF TasksTyped
  <2>11. HeldWasFound' /\ OwnedByReport'
    BY <2>3, <2>6, <2>7, <2>8 DEF HeldWasFound, OwnedByReport
  <2>12. EachAsked'
    <3> SUFFICES ASSUME NEW d \in Askers PROVE Asked(d, asker'[d], tasks')
      BY DEF EachAsked
    <3>1. CASE d = c
      <4>1. n \in 1 .. Len(tasks') /\ tasks'[n].report = r
        BY <1>0, <2>3, <2>6
      <4> HIDE DEF n
      <4>2. Asked(c, a, tasks')
        BY <2>5, <4>1, Zenon DEF Asked
      <4>3. QED
        BY <2>9, <3>1, <4>2
    <3>2. CASE d # c
      <4>1. Later(tasks, tasks')
        BY <1>0, <2>6 DEF Later
      <4>2. Len(tasks') \in Nat
        BY <1>0, <2>6
      <4>3. QED
        BY <1>0, <2>9, <3>2, <4>1, <4>2, StillAsked, HeardOfTask DEF EachAsked
    <3>3. QED
      BY <3>1, <3>2
  <2>13. ASSUME NEW d \in Askers, asker[d].pc # "idle"
         PROVE  asker[d].task \in 1 .. Len(tasks) /\ asker[d].task # n
    <3>1. asker[d].task \in 1 .. Len(tasks)
      BY <2>13 DEF EachAsked, Asked
    <3>2. QED
      BY <1>0, <3>1
  <2>14. OwnTask'
    BY <2>5, <2>9, <2>13 DEF OwnTask
  <2>15. Forgotten'
    <3> SUFFICES ASSUME NEW d \in Proxied, asker'[d].pc \in {"polling", "over"},
                        asker'[d].reply.status \in Told
                 PROVE  owner'[asker'[d].task] = Nobody
      BY DEF Forgotten
    <3>1. d \in Askers /\ d # c
      BY <2>5, <2>9 DEF Askers
    <3>2. QED
      BY <2>7, <2>9, <2>13, <3>1 DEF Forgotten
  <2>16. QED
    BY <2>10, <2>11, <2>12, <2>14, <2>15
<1>2. ASSUME NEW t \in DOMAIN tasks, Finish(t) PROVE HeapInv'
  <2> DEFINE Same(x) == /\ tasks' = [tasks EXCEPT ![t] = x] /\ x \in ATask
                        /\ x.report = tasks[t].report /\ x.status # "RUNNING"
                        /\ x.result # "none" => x.status = "DONE" /\ x.result = x.found
  <2>1. \E x : Same(x)
    <3>1. ASSUME NEW f \in Found,
                 tasks' = [tasks EXCEPT ![t].status = "DONE", ![t].result = f, ![t].found = f]
          PROVE  Same([tasks[t] EXCEPT !.status = "DONE", !.result = f, !.found = f])
      BY <1>0, <3>1 DEF ATask, Statuses, Results, Told, Ended
    <3>2. ASSUME tasks' = [tasks EXCEPT ![t].status = "FAILED"]
          PROVE  Same([tasks[t] EXCEPT !.status = "FAILED"])
      <4>1. tasks[t].result = "none"
        BY <1>0, <1>2 DEF Finish, HeldWasFound
      <4>2. QED
        BY <1>0, <3>2, <4>1 DEF ATask, Statuses, Told, Ended
    <3> HIDE DEF Same
    <3>3. QED
      BY <1>2, <3>1, <3>2 DEF Finish
  <2>2. PICK x : Same(x)
    BY <2>1
  <2>3. UNCHANGED <<alive, owner, asker>> /\ tasks[t].status = "RUNNING" /\ t \in 1 .. Len(tasks)
    BY <1>0, <1>2 DEF Finish
  <2>4. /\ tasks' \in Seq(ATask) /\ Len(tasks') = Len(tasks) /\ tasks'[t] = x
        /\ \A u \in 1 .. Len(tasks) : u # t => tasks'[u] = tasks[u]
    BY <1>0, <2>2, <2>3, SetPlace
  <2>5. Later(tasks, tasks')
    BY <1>0, <2>2, <2>3, <2>4 DEF Later
  <2>6. QED
    BY <1>0, <2>2, <2>3, <2>4, <2>5, TasksMove DEF HeldWasFound
<1>3. ASSUME NEW t \in DOMAIN tasks, Evict(t) PROVE HeapInv'
  <2> DEFINE x == [tasks[t] EXCEPT !.result = "none"]
  <2>1. /\ x \in ATask /\ x.report = tasks[t].report /\ x.result = "none"
        /\ x.status = tasks[t].status /\ x.found = tasks[t].found
    BY <1>0 DEF ATask, Results
  <2>2. tasks' = [tasks EXCEPT ![t] = x] /\ UNCHANGED <<alive, owner, asker>> /\ t \in 1 .. Len(tasks)
    BY <1>0, <1>3 DEF Evict
  <2> HIDE DEF x
  <2>3. /\ tasks' \in Seq(ATask) /\ Len(tasks') = Len(tasks) /\ tasks'[t] = x
        /\ \A u \in 1 .. Len(tasks) : u # t => tasks'[u] = tasks[u]
    BY <1>0, <2>1, <2>2, SetPlace
  <2>4. Later(tasks, tasks')
    BY <1>0, <2>1, <2>2, <2>3 DEF Later
  <2>5. QED
    BY <1>0, <2>1, <2>2, <2>3, <2>4, TasksMove DEF HeldWasFound
<1>4. ASSUME NEW r \in Analysed, NEW t \in DOMAIN tasks, CancelTask(r, t) PROVE HeapInv'
  <2> DEFINE x == [tasks[t] EXCEPT !.status = IF @ = "RUNNING" THEN "CANCELLED" ELSE @]
  <2>1. /\ x \in ATask /\ x.report = tasks[t].report /\ x.result = tasks[t].result
        /\ x.status # "RUNNING" /\ x.found = tasks[t].found
        /\ tasks[t].status # "RUNNING" => x.status = tasks[t].status
    BY <1>0 DEF ATask, Statuses, Told, Ended
  <2>2. /\ tasks' = [tasks EXCEPT ![t] = x] /\ owner' = [owner EXCEPT ![t] = Nobody]
        /\ UNCHANGED <<alive, asker>> /\ t \in 1 .. Len(tasks)
    BY <1>0, <1>4 DEF CancelTask
  <2> HIDE DEF x
  <2>3. /\ tasks' \in Seq(ATask) /\ Len(tasks') = Len(tasks) /\ tasks'[t] = x
        /\ \A u \in 1 .. Len(tasks) : u # t => tasks'[u] = tasks[u]
    BY <1>0, <2>1, <2>2, SetPlace
  <2>4. /\ owner' \in Seq(Analysed \cup {Nobody}) /\ Len(owner') = Len(tasks) /\ owner'[t] = Nobody
        /\ \A u \in 1 .. Len(tasks) : u # t => owner'[u] = owner[u]
    <3>1. Nobody \in Analysed \cup {Nobody}
      OBVIOUS
    <3>2. QED
      BY <1>0, <2>2, <3>1, SetPlace
  <2>5. Later(tasks, tasks')
    BY <1>0, <2>1, <2>2, <2>3 DEF Later
  <2>6. ASSUME NEW u \in 1 .. Len(tasks)
        PROVE  /\ owner'[u] \in {Nobody, owner[u]}
               /\ tasks'[u].result # "none" => tasks'[u].status = "DONE" /\ tasks'[u].result = tasks'[u].found
    <3>1. tasks[u].result # "none" => tasks[u].status = "DONE" /\ tasks[u].result = tasks[u].found
      BY DEF HeldWasFound
    <3>2. QED
      BY <2>1, <2>3, <2>4, <3>1
  <2>7. QED
    BY <2>2, <2>3, <2>4, <2>5, <2>6, TasksMove
<1>5. ASSUME ServiceRestarts PROVE HeapInv'
  <2>1. /\ tasks' = [t \in 1 .. Len(tasks) |->
                        [tasks[t] EXCEPT !.status = "NOT_FOUND", !.result = "none"]]
        /\ UNCHANGED <<alive, owner, asker>>
    BY <1>0, <1>5 DEF ServiceRestarts
  <2>2. \A t \in 1 .. Len(tasks) :
            /\ tasks'[t] \in ATask /\ tasks'[t].report = tasks[t].report
            /\ tasks'[t].status = "NOT_FOUND" /\ tasks'[t].result = "none"
            /\ tasks'[t].found = tasks[t].found
    BY <1>0, <2>1 DEF ATask, Statuses, Told, Results
  <2>3. tasks' \in Seq(ATask) /\ Len(tasks') = Len(tasks)
    <3>1. tasks' = [t \in 1 .. Len(tasks) |-> tasks'[t]]
      BY <2>1
    <3>2. QED
      BY <1>0, <2>2, <3>1, AllOf
  <2>4. Later(tasks, tasks')
    BY <1>0, <2>2, <2>3 DEF Later
  <2>5. QED
    BY <1>0, <2>1, <2>2, <2>3, <2>4, TasksMove
<1>6. ASSUME NEW c \in Askers, Accept(c) PROVE HeapInv'
  <2> DEFINE a == [asker[c] EXCEPT !.pc = "polling"]
             o == IF c \in Proxied THEN a.report ELSE owner[a.task]
  <2>1. Asked(c, asker[c], tasks) /\ asker[c] \in AnAsker /\ asker[c].pc = "submitted"
    BY <1>0, <1>6 DEF EachAsked, Accept
  <2>2. /\ a \in AnAsker /\ a.pc = "polling" /\ a.task = asker[c].task /\ a.report = asker[c].report
        /\ a.reply = asker[c].reply /\ a.answer = asker[c].answer
    BY <2>1 DEF AnAsker
  <2>3. a.task \in 1 .. Len(tasks) /\ Asked(c, a, tasks) /\ a.reply.status \notin Told
    <3> HIDE DEF a
    <3>1. asker[c].reply.status = "" /\ "" \notin Told
      <4>1. asker[c].reply = NoReply
        BY <2>1 DEF Asked
      <4>2. NoReply.status = ""
        BY DEF NoReply
      <4>3. "" \notin Told
        BY DEF Told, Ended
      <4>4. QED
        BY <4>1, <4>2, <4>3
    <3>2. asker[c].task \in 1 .. Len(tasks) /\ tasks[asker[c].task].report = asker[c].report
      BY <2>1 DEF Asked
    <3>3. QED
      BY <2>1, <2>2, <3>1, <3>2 DEF Asked, Told, Ended
  <2>4. /\ asker' = [asker EXCEPT ![c] = a] /\ owner' = [owner EXCEPT ![a.task] = o]
        /\ UNCHANGED <<alive, tasks>>
    <3>1. owner = [owner EXCEPT ![a.task] = owner[a.task]]
      BY <2>3, OwnerStays
    <3>2. QED
      BY <1>0, <1>6, <2>2, <3>1 DEF Accept, Track
  <2>5. o = owner[a.task] \/ o = Nobody \/ (asker[c].pc = "submitted" /\ o = a.report)
    BY <2>1
  <2> HIDE DEF a, o
  <2>6. QED
    BY <2>1, <2>2, <2>3, <2>4, <2>5, AskerMoves
<1>7. ASSUME NEW c \in Askers, AcceptLost(c) PROVE HeapInv'
  <2> DEFINE a == [asker[c] EXCEPT !.pc = "over", !.answer = "error"]
  <2>1. Asked(c, asker[c], tasks) /\ asker[c] \in AnAsker /\ asker[c].pc = "submitted"
    BY <1>0, <1>7 DEF EachAsked, AcceptLost
  <2>2. /\ a \in AnAsker /\ a.pc = "over" /\ a.task = asker[c].task /\ a.report = asker[c].report
        /\ a.reply = asker[c].reply /\ a.answer = "error"
    BY <2>1 DEF AnAsker
  <2>3. a.task \in 1 .. Len(tasks) /\ Asked(c, a, tasks) /\ a.reply.status \notin Told
    <3> HIDE DEF a
    <3>1. asker[c].reply.status = "" /\ "" \notin Told
      <4>1. asker[c].reply = NoReply
        BY <2>1 DEF Asked
      <4>2. NoReply.status = ""
        BY DEF NoReply
      <4>3. "" \notin Told
        BY DEF Told, Ended
      <4>4. QED
        BY <4>1, <4>2, <4>3
    <3>2. asker[c].task \in 1 .. Len(tasks) /\ tasks[asker[c].task].report = asker[c].report
      BY <2>1 DEF Asked
    <3>3. QED
      BY <2>1, <2>2, <3>1, <3>2 DEF Asked, Told, Ended, Found
  <2>4. /\ asker' = [asker EXCEPT ![c] = a] /\ owner' = [owner EXCEPT ![a.task] = owner[a.task]]
        /\ UNCHANGED <<alive, tasks>>
    BY <1>0, <1>7, <2>3, OwnerStays DEF AcceptLost, End
  <2> HIDE DEF a
  <2>5. QED
    BY <2>1, <2>2, <2>3, <2>4, AskerMoves
<1>8. ASSUME NEW c \in Askers, Ask(c) PROVE HeapInv'
  <2> DEFINE t == asker[c].task
  <2>1. /\ Asked(c, asker[c], tasks) /\ asker[c] \in AnAsker /\ asker[c].pc = "polling"
        /\ t \in 1 .. Len(tasks)
    BY <1>0, <1>8 DEF EachAsked, Asked, Ask
  <2>2. \E reply \in AReply :
            /\ asker' = [asker EXCEPT ![c].pc = "heard", ![c].reply = reply]
            /\ reply.status # "" /\ (reply.status \in Told => tasks[t].status # "RUNNING")
            /\ reply.result # "none" => reply.status = "DONE" /\ tasks[t].found = reply.result
    <3> DEFINE Right(reply) ==
                  /\ reply.status # "" /\ (reply.status \in Told => tasks[t].status # "RUNNING")
                  /\ reply.result # "none" => reply.status = "DONE" /\ tasks[t].found = reply.result
    <3>1. ASSUME NEW reply \in Replies(t) PROVE reply \in AReply /\ Right(reply)
      <4> DEFINE x == [status |-> tasks[t].status, result |-> tasks[t].result]
                 y == [status |-> "404", result |-> "none"]
      <4>1. tasks[t] \in ATask /\ (tasks[t].result # "none" => tasks[t].status = "DONE" /\ tasks[t].result = tasks[t].found)
        BY <1>0, <2>1 DEF HeldWasFound
      <4>2. x \in AReply /\ Right(x)
        BY <4>1 DEF ATask, AReply, Statuses, Told, Ended
      <4>3. y \in AReply /\ Right(y)
        BY DEF AReply, Told, Ended, Results
      <4>4. reply = x \/ reply = y
        BY <3>1 DEF Replies
      <4>5. QED
        BY <4>2, <4>3, <4>4
    <3>2. [status |-> "ERROR", result |-> "none"] \in AReply /\ Right([status |-> "ERROR", result |-> "none"])
      BY DEF AReply, Told, Ended, Results
    <3>3. \/ \E reply \in Replies(t) : asker' = [asker EXCEPT ![c].pc = "heard", ![c].reply = reply]
          \/ asker' = [asker EXCEPT ![c].pc = "heard", ![c].reply = [status |-> "ERROR", result |-> "none"]]
      BY <1>8 DEF Ask
    <3> HIDE DEF t
    <3>4. QED
      BY <3>1, <3>2, <3>3
  <2>3. PICK reply \in AReply :
            /\ asker' = [asker EXCEPT ![c].pc = "heard", ![c].reply = reply]
            /\ reply.status # "" /\ (reply.status \in Told => tasks[t].status # "RUNNING")
            /\ reply.result # "none" => reply.status = "DONE" /\ tasks[t].found = reply.result
    BY <2>2
  <2> DEFINE a == [asker[c] EXCEPT !.pc = "heard", !.reply = reply]
  <2>4. /\ a \in AnAsker /\ a.pc = "heard" /\ a.task = t /\ a.report = asker[c].report
        /\ a.reply = reply /\ a.answer = asker[c].answer
    BY <2>1 DEF AnAsker
  <2>5. a.task \in 1 .. Len(tasks) /\ Asked(c, a, tasks)
    <3> HIDE DEF a
    <3>1. QED
      BY <2>1, <2>3, <2>4 DEF Asked
  <2>6. /\ asker' = [asker EXCEPT ![c] = a] /\ owner' = [owner EXCEPT ![a.task] = owner[a.task]]
        /\ UNCHANGED <<alive, tasks>>
    BY <1>0, <1>8, <2>3, <2>5, OwnerStays DEF Ask
  <2> HIDE DEF a
  <2>7. QED
    BY <2>1, <2>4, <2>5, <2>6, AskerMoves
<1>9. ASSUME NEW c \in Askers, Hear(c) PROVE HeapInv'
  <2> DEFINE t == asker[c].task
             reply == asker[c].reply
  <2>1. /\ Asked(c, asker[c], tasks) /\ asker[c] \in AnAsker /\ asker[c].pc = "heard"
        /\ t \in 1 .. Len(tasks) /\ UNCHANGED <<alive, tasks>>
    BY <1>0, <1>9 DEF EachAsked, Asked, Hear
  <2>2. PICK pc \in {"polling", "over"}, tries \in 0 .. MaxTries - 1,
             answer \in Results \cup {"error", "nothing"} :
              /\ asker' = [asker EXCEPT ![c] =
                              [@ EXCEPT !.pc = pc, !.tries = tries, !.answer = answer]]
              /\ answer # "none" <=> pc = "over"
              /\ answer \in Found =>
                    /\ reply.status \in Told
                    /\ c \notin LeakTools => answer = reply.result
    BY <1>9, AskerHears
  <2> DEFINE a == [asker[c] EXCEPT !.pc = pc, !.tries = tries, !.answer = answer]
             o == IF c \in Proxied /\ reply.status \in Told THEN Nobody ELSE owner[t]
  <2>3. /\ a \in AnAsker /\ a.pc = pc /\ a.task = t /\ a.report = asker[c].report
        /\ a.reply = reply /\ a.answer = answer
    BY <2>1, <2>2 DEF AnAsker
  <2>4. a.task \in 1 .. Len(tasks) /\ Asked(c, a, tasks)
    <3>1. c \notin LeakTools /\ answer \in Found => tasks[t].found = answer
      BY <2>1, <2>2 DEF Asked, Found
    <3> HIDE DEF a
    <3>2. QED
      BY <2>1, <2>2, <2>3, <3>1 DEF Asked
  <2>5. asker' = [asker EXCEPT ![c] = a] /\ owner' = [owner EXCEPT ![a.task] = o]
    <3>1. owner = [owner EXCEPT ![t] = owner[t]]
      BY <2>1, OwnerStays
    <3>2. QED
      BY <1>0, <1>9, <2>2, <2>3, <3>1 DEF Hear, Untrack
  <2>6. /\ o = owner[a.task] \/ o = Nobody \/ (asker[c].pc = "submitted" /\ o = a.report)
        /\ c \in Proxied /\ a.pc \in {"polling", "over"} /\ a.reply.status \in Told => o = Nobody
    BY <2>3
  <2> HIDE DEF a, o
  <2>7. QED
    BY <2>1, <2>2, <2>3, <2>4, <2>5, <2>6, AskerMoves
<1>10. ASSUME NEW r \in Analysed, DeleteDump(r) PROVE HeapInv'
  <2>1. UNCHANGED <<tasks, owner, asker>> /\ alive' \subseteq Analysed
    BY <1>10 DEF DeleteDump, TasksTyped
  <2>2. QED
    BY <2>1 DEF TasksTyped, HeldWasFound, OwnedByReport, EachAsked, OwnTask, Forgotten
<1>11. ASSUME ServerRestarts PROVE HeapInv'
  <2>1. /\ owner' = [t \in 1 .. Len(tasks) |-> Nobody] /\ UNCHANGED <<alive, tasks>>
        /\ asker' = [c \in Askers |->
                        IF asker[c].pc \in {"submitted", "heard"}
                           \/ (asker[c].pc = "polling" /\ c \notin Proxied)
                        THEN [asker[c] EXCEPT !.pc = "over", !.answer = "error"] ELSE asker[c]]
    BY <1>0, <1>11 DEF ServerRestarts
  <2>2. owner' \in Seq(Analysed \cup {Nobody}) /\ Len(owner') = Len(tasks)
    <3>1. owner' = [t \in 1 .. Len(tasks) |-> owner'[t]] /\ \A t \in 1 .. Len(tasks) : owner'[t] \in Analysed \cup {Nobody}
      BY <2>1
    <3>2. QED
      BY <1>0, <3>1, AllOf
  <2>3. ASSUME NEW c \in Askers
        PROVE  /\ asker'[c] \in AnAsker /\ Asked(c, asker'[c], tasks)
               /\ asker'[c].task = asker[c].task /\ (asker'[c].pc = "idle" <=> asker[c].pc = "idle")
    <3> DEFINE a == [asker[c] EXCEPT !.pc = "over", !.answer = "error"]
    <3>1. asker[c] \in AnAsker /\ Asked(c, asker[c], tasks)
      BY <1>0 DEF EachAsked
    <3>2. /\ a \in AnAsker /\ a.pc = "over" /\ a.task = asker[c].task /\ a.report = asker[c].report
          /\ a.reply = asker[c].reply /\ a.answer = "error"
      BY <3>1 DEF AnAsker
    <3>3. asker[c].pc # "idle" => Asked(c, a, tasks)
      <4> HIDE DEF a
      <4>1. QED
        BY <3>1, <3>2 DEF Asked, Found
    <3>4. asker'[c] = asker[c] \/ (asker[c].pc # "idle" /\ asker'[c] = a)
      BY <2>1
    <3> HIDE DEF a
    <3>5. QED
      BY <3>1, <3>2, <3>3, <3>4
  <2>4. asker' \in [Askers -> AnAsker]
    BY <2>1, <2>3
  <2>5. TasksTyped'
    BY <2>1, <2>2, <2>4 DEF TasksTyped
  <2>6. HeldWasFound' /\ OwnedByReport'
    BY <2>1 DEF HeldWasFound, OwnedByReport
  <2>7. EachAsked'
    BY <2>1, <2>3 DEF EachAsked
  <2>8. OwnTask'
    BY <2>3 DEF OwnTask
  <2>9. Forgotten'
    <3> SUFFICES ASSUME NEW c \in Proxied, asker'[c].pc \in {"polling", "over"}
                 PROVE  owner'[asker'[c].task] = Nobody
      BY DEF Forgotten
    <3>1. asker'[c].task \in 1 .. Len(tasks)
      BY <2>3 DEF Asked, Askers
    <3>2. QED
      BY <2>1, <3>1
  <2>10. QED
    BY <2>5, <2>6, <2>7, <2>8, <2>9
<1>12. CASE UNCHANGED heapVars
  BY <1>12 DEF heapVars, TasksTyped, HeldWasFound, OwnedByReport, EachAsked, OwnTask, Forgotten
<1>13. QED
  BY <1>1, <1>2, <1>3, <1>4, <1>5, <1>6, <1>7, <1>8, <1>9, <1>10, <1>11, <1>12
     DEF HeapNext, AskerStep

(* The invariant of the queries, in every reachable state. *)
THEOREM HeapInvariance == HeapSpec => []HeapInv
BY HeapInvAtFirst, HeapInvKept, PTL DEF HeapSpec

(* What the invariant says of the answers. *)
LEMMA HeapInvMeans == HeapInv => NothingMadeUp /\ ToldIsForgotten /\ HeapTypeOK
<1> SUFFICES ASSUME HeapInv PROVE NothingMadeUp /\ ToldIsForgotten /\ HeapTypeOK
  OBVIOUS
<1>1. \A c \in Askers : Asked(c, asker[c], tasks) /\ asker[c] \in AnAsker
  BY DEF HeapInv, EachAsked, TasksTyped
<1>2. NoResultOfRunning
  BY <1>1 DEF NoResultOfRunning, Shows, Asked
<1>3. ShownWasFound
  BY <1>1 DEF ShownWasFound, Shows, Asked
<1>4. ToldIsForgotten
  BY DEF HeapInv, Forgotten, ToldIsForgotten
<1>5. HeapTypeOK
  <2>1. /\ DOMAIN tasks = 1 .. Len(tasks) /\ DOMAIN owner = 1 .. Len(tasks)
        /\ \A t \in 1 .. Len(tasks) : tasks[t] \in ATask
    BY TaskTyped DEF HeapInv
  <2>2. \A t \in DOMAIN tasks :
          /\ tasks[t].report \in Analysed /\ tasks[t].status \in Statuses
          /\ tasks[t].result # "none" => tasks[t].status = "DONE" /\ tasks[t].result = tasks[t].found
          /\ owner[t] \in {Nobody, tasks[t].report}
    BY <2>1 DEF HeapInv, ATask, HeldWasFound, OwnedByReport
  <2>3. \A c \in Askers :
          /\ asker[c].pc \in {"idle", "submitted", "polling", "heard", "over"}
          /\ asker[c].tries \in 0 .. MaxTries - 1
          /\ asker[c].answer # "none" <=> asker[c].pc = "over"
    BY <1>1 DEF AnAsker, Asked
  <2>4. QED
    BY <2>1, <2>2, <2>3 DEF HeapInv, TasksTyped, HeapTypeOK
<1>6. QED
  BY <1>2, <1>3, <1>4, <1>5 DEF NothingMadeUp

(* However many ask and whatever the service loses: nobody is shown a result   *)
(* of a query that is still running, and pages and mat_diagnose_oom show what  *)
(* the query found of their report (mat_tools.py:203, 667, task-poller.js:40). *)
THEOREM NothingEverMadeUp == HeapSpec => []NothingMadeUp
BY HeapInvariance, HeapInvMeans, PTL

(* Who has been told how a query ended leaves no entry in _TASK_OWNER          *)
(* (heapdump_proxy.py:730), whatever cancels and restarts came in between.     *)
THEOREM ToldAlwaysForgotten == HeapSpec => []ToldIsForgotten
BY HeapInvariance, HeapInvMeans, PTL

-----------------------------------------------------------------------------
(* Texts of reports: rows, files and records stay in step, for any number of *)
(* uploads and removals and any faults.  What makes the properties inductive: *)
(* a sweep has read expired records only, and a report that somebody deletes *)
(* has been stored and will not be stored again.                             *)

Stored        == {"save", "record", "unsaved", "done"}
UploadStages  == Stored \cup {"idle", "sweep", "parse", "store", "failed"}
RemovalStages == {"idle", "row", "file", "done", "missed"}

StoreTyped ==
    /\ upload \in [Uploads -> UploadStages]
    /\ sweeping \in [Uploads -> SUBSET Uploads]
    /\ removal \in [Removals -> [pc : RemovalStages, of : Uploads \cup {NoUpload}]]
    /\ rows \subseteq Uploads /\ files \subseteq Uploads /\ records \subseteq Uploads

SweepsExpired   == \A u \in Uploads : sweeping[u] \subseteq expired
RowsAreStored   == \A u \in rows : upload[u] \in Stored
FoundWasStored  ==
    \A d \in Removals : removal[d].pc # "idle" =>
        removal[d].of \in Uploads /\ upload[removal[d].of] \in Stored
DeletedHasNoRow ==
    \A d \in Removals : removal[d].pc \in {"file", "done"} => removal[d].of \notin rows

StoreInv ==
    /\ StoreTyped /\ SweepsExpired /\ RowsAreStored /\ FoundWasStored /\ DeletedHasNoRow
    /\ LiveReportHasText /\ EveryFileHasRecord /\ DeletedOnce

(* Nothing is stored. *)
LEMMA InitStoreInv == StoreInit => StoreInv
BY DEF StoreInit, StoreInv, StoreTyped, UploadStages, Stored, RemovalStages, SweepsExpired,
       RowsAreStored, FoundWasStored, DeletedHasNoRow, LiveReportHasText, EveryFileHasRecord,
       DeletedOnce

(* An upload keeps the invariant: it stores its row and its file once. *)
LEMMA UploadKeeps ==
    ASSUME StoreInv, NEW u \in Uploads, UploadStep(u) PROVE StoreInv'
<1> USE DEF StoreInv, StoreTyped, UploadStages, Stored, RemovalStages, SweepsExpired, RowsAreStored,
            FoundWasStored, DeletedHasNoRow, LiveReportHasText, EveryFileHasRecord, DeletedOnce,
            GoTo
<1>1. CASE BeginUpload(u)
  BY <1>1 DEF BeginUpload
<1>2. CASE Sweep(u)
  BY <1>2 DEF Sweep
<1>3. CASE Parse(u)
  BY <1>3 DEF Parse
<1>4. CASE StoreReport(u)
  BY <1>4 DEF StoreReport
<1>5. CASE SaveText(u)
  BY <1>5 DEF SaveText
<1>6. CASE AddRecord(u)
  BY <1>6 DEF AddRecord
<1>7. QED
  BY <1>1, <1>2, <1>3, <1>4, <1>5, <1>6 DEF UploadStep

(* A removal keeps it: the row goes first, and only one removal takes it. *)
LEMMA RemovalKeeps ==
    ASSUME StoreInv, NEW d \in Removals, RemovalStep(d) PROVE StoreInv'
<1> USE DEF StoreInv, StoreTyped, UploadStages, Stored, RemovalStages, SweepsExpired, RowsAreStored,
            FoundWasStored, DeletedHasNoRow, LiveReportHasText, EveryFileHasRecord, DeletedOnce,
            Remover
<1>1. ASSUME NEW u \in Uploads, FindReport(d, u) PROVE StoreInv'
  BY <1>1 DEF FindReport
<1>2. CASE DeleteRow(d)
  BY <1>2 DEF DeleteRow
<1>3. CASE DeleteText(d)
  BY <1>3 DEF DeleteText, RemoveText
<1>4. QED
  BY <1>1, <1>2, <1>3 DEF RemovalStep

(* So do the deletion of the session and the passing of thirty days. *)
LEMMA SessionKeeps ==
    ASSUME StoreInv,
           SeeReports \/ DropSession \/ SessionGone
             \/ \E u \in Uploads : Expire(u) \/ DropText(u)
    PROVE  StoreInv'
<1> USE DEF StoreInv, StoreTyped, SweepsExpired, RowsAreStored, FoundWasStored, DeletedHasNoRow,
            LiveReportHasText, EveryFileHasRecord, DeletedOnce
<1>1. CASE SeeReports
  BY <1>1 DEF SeeReports
<1>2. CASE DropSession
  BY <1>2 DEF DropSession
<1>3. CASE SessionGone
  BY <1>3 DEF SessionGone
<1>4. ASSUME NEW u \in Uploads, Expire(u) PROVE StoreInv'
  BY <1>4 DEF Expire
<1>5. ASSUME NEW u \in Uploads, DropText(u) PROVE StoreInv'
  BY <1>5 DEF DropText, RemoveText
<1>6. QED
  BY <1>1, <1>2, <1>3, <1>4, <1>5

(* Every step keeps the invariant. *)
LEMMA StoreInvKept == StoreInv /\ [StoreNext]_storeVars => StoreInv'
<1> SUFFICES ASSUME StoreInv, [StoreNext]_storeVars PROVE StoreInv'
  OBVIOUS
<1>1. CASE StoreNext
  BY <1>1, UploadKeeps, RemovalKeeps, SessionKeeps DEF StoreNext
<1>2. CASE UNCHANGED storeVars
  BY <1>2 DEF storeVars, StoreInv, StoreTyped, SweepsExpired, RowsAreStored, FoundWasStored,
              DeletedHasNoRow, LiveReportHasText, EveryFileHasRecord, DeletedOnce
<1>3. QED
  BY <1>1, <1>2

(* The invariant holds in every reachable state. *)
THEOREM StoreInvariance == StoreSpec => []StoreInv
BY InitStoreInv, StoreInvKept, PTL DEF StoreSpec

(* The types of the three places. *)
LEMMA StoreTypeAtFirst == StoreInit => StoreTypeOK
BY DEF StoreInit, StoreTypeOK

LEMMA StoreTypeKept == StoreInv /\ StoreTypeOK /\ [StoreNext]_storeVars => StoreTypeOK'
<1> SUFFICES ASSUME StoreInv, StoreTypeOK, [StoreNext]_storeVars PROVE StoreTypeOK'
  OBVIOUS
<1> USE DEF StoreInv, StoreTyped, UploadStages, Stored, RemovalStages, FoundWasStored, StoreTypeOK
<1>1. ASSUME NEW u \in Uploads, UploadStep(u) PROVE StoreTypeOK'
  BY <1>1 DEF UploadStep, BeginUpload, Sweep, Parse, StoreReport, SaveText, AddRecord, GoTo
<1>2. ASSUME NEW d \in Removals, RemovalStep(d) PROVE StoreTypeOK'
  BY <1>2 DEF RemovalStep, FindReport, DeleteRow, DeleteText, RemoveText, Remover
<1>3. ASSUME NEW u \in Uploads, Expire(u) \/ DropText(u) PROVE StoreTypeOK'
  BY <1>3 DEF Expire, DropText, RemoveText
<1>4. CASE SeeReports \/ DropSession \/ SessionGone
  BY <1>4 DEF SeeReports, DropSession, SessionGone
<1>5. CASE UNCHANGED storeVars
  BY <1>5 DEF storeVars
<1>6. QED
  BY <1>1, <1>2, <1>3, <1>4, <1>5 DEF StoreNext

(* A report in the list has its text until it expires (helpers.py:483,       *)
(* memory_db.py:149), and no file is left that no record will ever expire    *)
(* (gc_reports.py:187-201), however many uploads sweep and removals remove.  *)
THEOREM PlacesStayInStep == StoreSpec => []PlacesAgree
BY StoreInvariance, PTL DEF StoreInv, PlacesAgree

(* One request deletes a report (memory_db.py:682), however many ask.        *)
THEOREM DeletedByOne == StoreSpec => []DeletedOnce
BY StoreInvariance, PTL DEF StoreInv

(* Where foreign keys are enforced, a session that is gone has no reports    *)
(* (memory_db.py:129, 496).                                                  *)
THEOREM NoOrphanReports ==
    ASSUME KeepsForeignKeys PROVE StoreSpec => []NoReportWithoutSession
<1>1. StoreInit => NoReportWithoutSession
  BY DEF StoreInit, NoReportWithoutSession
<1>2. NoReportWithoutSession /\ [StoreNext]_storeVars => NoReportWithoutSession'
  BY DEF NoReportWithoutSession, StoreNext, storeVars, UploadStep, BeginUpload, Sweep, Parse,
         StoreReport, SaveText, AddRecord, RemovalStep, FindReport, DeleteRow, DeleteText,
         SeeReports, DropSession, SessionGone, Expire, DropText, GoTo
<1>3. QED
  BY <1>1, <1>2, PTL DEF StoreSpec

-----------------------------------------------------------------------------
(* The cached agent. *)

Agents == [config : Nat, skills : Nat]

ASave   == [pc : {"idle", "read", "skills", "swap", "over"}, stored : Nat, agent : Agents]
AChange == [pc : {"idle", "drop", "over"}, stored : Nat]
AChat   == [pc : {"idle", "get", "read", "skills", "store", "over"}, agent : Agents,
            config : Nat, skills : Nat]

CacheTyped ==
    /\ config \in Nat /\ skills \in Nat
    /\ cached # NoAgent => cached \in Agents
    /\ save \in [Saves -> ASave] /\ change \in [Changes -> AChange] /\ chat \in [Chats -> AChat]
    /\ locked \in Chats \cup {NoAgent}

\* No request has stored what is not there yet.
StoredIsThere ==
    /\ \A s \in Saves : save[s].stored <= config
    /\ \A c \in Changes : change[c].stored <= skills

\* Who builds an agent under the lock holds it.
OneBuilder ==
    \A c \in Chats : chat[c].pc \in {"read", "skills", "store"} <=> locked = c

\* A save that is under way is alone.
SavesAlone ==
    \A s \in Saves : save[s].pc \notin {"idle", "over"} =>
        /\ \A r \in Saves : r # s => save[r].pc \in {"idle", "over"}
        /\ \A c \in Changes : change[c].pc \in {"idle", "over"}

\* So what it has read is what is stored still.
SaveIsRecent ==
    \A s \in Saves :
        /\ save[s].pc \in {"skills", "swap"} => save[s].agent.config = config
        /\ save[s].pc = "swap" => save[s].agent.skills = skills

\* n is not older than what a save, or a change, that is over has stored.
HasConfig(n) == \A s \in Saves : save[s].pc = "over" => save[s].stored <= n
HasSkills(n) == \A c \in Changes : change[c].pc = "over" => change[c].stored <= n

\* The agent that is kept has what was stored, and so has, as far as it has
\* been built, the one that will be: who holds the lock keeps saves and changes
\* from being over.
KeptIsRecent == cached # NoAgent => HasConfig(cached.config) /\ HasSkills(cached.skills)

BuiltIsRecent ==
    \A c \in Chats :
        /\ chat[c].pc \in {"skills", "store"} => HasConfig(chat[c].agent.config)
        /\ chat[c].pc = "store" => HasSkills(chat[c].agent.skills)

\* What a chat must see, a request that is over has stored.
WasStored ==
    \A c \in Chats : 
        /\ \/ chat[c].config = 0
           \/ \E s \in Saves : save[s].pc = "over" /\ save[s].stored = chat[c].config
        /\ \/ chat[c].skills = 0
           \/ \E k \in Changes : change[k].pc = "over" /\ change[k].stored = chat[c].skills

CacheInv ==
    /\ CacheTyped /\ StoredIsThere /\ OneBuilder /\ SavesAlone /\ SaveIsRecent /\ KeptIsRecent
    /\ BuiltIsRecent /\ WasStored /\ SavedIsUsed

(* Nobody has saved, and nobody asks. *)
LEMMA CacheInvAtFirst == CacheInit => CacheInv
BY CacheAssumption DEF CacheInit, CacheInv, Agents, ASave, AChange, AChat, Agent0, CacheTyped,
   StoredIsThere, OneBuilder, SavesAlone, SaveIsRecent,
   KeptIsRecent, HasConfig, HasSkills, BuiltIsRecent, WasStored, SavedIsUsed


(* One value of a function is set. *)
LEMMA InRange ==
    ASSUME NEW S, NEW R, NEW f \in [S -> R], NEW x \in S, NEW v \in R
    PROVE  [f EXCEPT ![x] = v] \in [S -> R]
OBVIOUS

(* A set of naturals that is bounded has a greatest element. *)
LEMMA Greatest ==
    ASSUME NEW S \in SUBSET Nat, S # {}, NEW b \in Nat, \A x \in S : x <= b
    PROVE  Max(S) \in S /\ \A x \in S : Max(S) >= x
<1> DEFINE T == {b - x : x \in S}
<1>1. T \in SUBSET Nat /\ T # {}
  <2>1. \A x \in S : b - x \in Nat
    OBVIOUS
  <2>2. QED
    BY <2>1
<1>2. PICK y \in T : \A z \in T : y <= z
  <2> HIDE DEF T
  <2>1. QED
    BY <1>1, Least
<1>3. PICK m \in S : y = b - m
  OBVIOUS
<1>4. \A x \in S : m >= x
  <2> SUFFICES ASSUME NEW x \in S PROVE m >= x
    OBVIOUS
  <2>1. b - x \in T /\ m \in Nat /\ x \in Nat
    OBVIOUS
  <2>2. b - m <= b - x
    BY <1>2, <1>3, <2>1
  <2>3. QED
    BY <2>1, <2>2
<1>5. QED
  BY <1>4 DEF Max

(* What is stored before is nothing, or what some request has stored. *)
LEMMA StoredBeforeIsOne ==
    ASSUME NEW Q, NEW f, DOMAIN f = Q, \A q \in Q : f[q].stored \in Nat,
           NEW b \in Nat, \A q \in Q : f[q].stored <= b
    PROVE  /\ StoredBefore(f) \in Nat
           /\ \/ StoredBefore(f) = 0
              \/ \E q \in Q : f[q].pc = "over" /\ f[q].stored = StoredBefore(f)
<1> DEFINE S == {0} \cup {f[r].stored : r \in {q \in DOMAIN f : f[q].pc = "over"}}
<1>1. S \in SUBSET Nat /\ S # {} /\ \A x \in S : x <= b
  OBVIOUS
<1>2. Max(S) \in S
  <2> HIDE DEF S
  <2>1. QED
    BY <1>1, Greatest
<1>3. StoredBefore(f) = Max(S)
  BY DEF StoredBefore
<1>4. QED
  BY <1>1, <1>2, <1>3

(* The types are kept, whether or not saves wait. *)
LEMMA CacheTypedKept ==
    ASSUME CacheTyped, StoredIsThere, [CacheNext]_cacheVars PROVE CacheTyped'
<1>1. ASSUME NEW s \in Saves, SaveConfig(s) PROVE CacheTyped'
  <2>1. [save[s] EXCEPT !.pc = "read", !.stored = config + 1] \in ASave
    <3>1. config + 1 \in Nat /\ save[s] \in ASave
      BY DEF CacheTyped
    <3>2. QED
      BY <3>1, Zenon DEF ASave
  <2>2. save' = [save EXCEPT ![s] = [save[s] EXCEPT !.pc = "read", !.stored = config + 1]]
    BY <1>1 DEF CacheTyped, SaveConfig
  <2>3. save' \in [Saves -> ASave]
    BY <2>1, <2>2, InRange DEF CacheTyped
  <2>4. QED
    BY <1>1, <2>3 DEF CacheTyped, SaveConfig
<1>2. ASSUME NEW s \in Saves, ReadConfig(s) PROVE CacheTyped'
  <2>1. [save[s] EXCEPT !.pc = "skills", !.agent.config = config] \in ASave
    BY DEF CacheTyped, ASave, Agents
  <2>2. save' = [save EXCEPT ![s] = [save[s] EXCEPT !.pc = "skills", !.agent.config = config]]
    BY <1>2 DEF CacheTyped, ReadConfig
  <2>3. save' \in [Saves -> ASave]
    BY <2>1, <2>2, InRange DEF CacheTyped
  <2>4. QED
    BY <1>2, <2>3 DEF CacheTyped, ReadConfig
<1>3. ASSUME NEW s \in Saves, ReadSkills(s) PROVE CacheTyped'
  <2>1. [save[s] EXCEPT !.pc = "swap", !.agent.skills = skills] \in ASave
    BY DEF CacheTyped, ASave, Agents
  <2>2. save' = [save EXCEPT ![s] = [save[s] EXCEPT !.pc = "swap", !.agent.skills = skills]]
    BY <1>3 DEF CacheTyped, ReadSkills
  <2>3. save' \in [Saves -> ASave]
    BY <2>1, <2>2, InRange DEF CacheTyped
  <2>4. QED
    BY <1>3, <2>3 DEF CacheTyped, ReadSkills
<1>4. ASSUME NEW s \in Saves, Swap(s) PROVE CacheTyped'
  <2>1. [save[s] EXCEPT !.pc = "over"] \in ASave
    BY DEF CacheTyped, ASave, Agents
  <2>2. save' = [save EXCEPT ![s] = [save[s] EXCEPT !.pc = "over"]]
    BY <1>4 DEF CacheTyped, Swap
  <2>3. save' \in [Saves -> ASave]
    BY <2>1, <2>2, InRange DEF CacheTyped
  <2>4. QED
    BY <1>4, <2>3 DEF CacheTyped, Swap, ASave
<1>5. ASSUME NEW c \in Changes, ChangeSkill(c) PROVE CacheTyped'
  <2>1. [change[c] EXCEPT !.pc = "drop", !.stored = skills + 1] \in AChange
    <3>1. skills + 1 \in Nat /\ change[c] \in AChange
      BY DEF CacheTyped
    <3>2. QED
      BY <3>1 DEF AChange
  <2>2. change' = [change EXCEPT ![c] = [change[c] EXCEPT !.pc = "drop", !.stored = skills + 1]]
    BY <1>5 DEF CacheTyped, ChangeSkill
  <2>3. change' \in [Changes -> AChange]
    BY <2>1, <2>2, InRange DEF CacheTyped
  <2>4. QED
    BY <1>5, <2>3 DEF CacheTyped, ChangeSkill
<1>6. ASSUME NEW c \in Changes, DropAgent(c) PROVE CacheTyped'
  <2>1. [change[c] EXCEPT !.pc = "over"] \in AChange
    BY DEF CacheTyped, AChange, Agents
  <2>2. change' = [change EXCEPT ![c] = [change[c] EXCEPT !.pc = "over"]]
    BY <1>6 DEF CacheTyped, DropAgent
  <2>3. change' \in [Changes -> AChange]
    BY <2>1, <2>2, InRange DEF CacheTyped
  <2>4. QED
    BY <1>6, <2>3 DEF CacheTyped, DropAgent
<1>7. ASSUME NEW c \in Chats, BeginChat(c) PROVE CacheTyped'
  <2>1. [chat[c] EXCEPT !.pc = "get", !.config = StoredBefore(save), !.skills = StoredBefore(change)] \in AChat
    <3>1. StoredBefore(save) \in Nat /\ StoredBefore(change) \in Nat
      <4>1. /\ DOMAIN save = Saves /\ DOMAIN change = Changes
            /\ \A s \in Saves : save[s].stored \in Nat
            /\ \A k \in Changes : change[k].stored \in Nat
        BY DEF CacheTyped, ASave, AChange
      <4>2. QED
        BY <4>1, StoredBeforeIsOne DEF CacheTyped, StoredIsThere
    <3>2. QED
      BY <3>1 DEF CacheTyped, AChat
  <2>2. chat' = [chat EXCEPT ![c] = [chat[c] EXCEPT !.pc = "get", !.config = StoredBefore(save), !.skills = StoredBefore(change)]]
    BY <1>7 DEF CacheTyped, BeginChat
  <2>3. chat' \in [Chats -> AChat]
    BY <2>1, <2>2, InRange DEF CacheTyped
  <2>4. QED
    BY <1>7, <2>3 DEF CacheTyped, BeginChat
<1>8. ASSUME NEW c \in Chats, GetAgent(c) PROVE CacheTyped'
  <2>1. /\ [chat[c] EXCEPT !.pc = "read"] \in AChat
        /\ cached # NoAgent => [chat[c] EXCEPT !.pc = "over", !.agent = cached] \in AChat
    BY DEF CacheTyped, AChat
  <2>2. \/ chat' = [chat EXCEPT ![c] = [chat[c] EXCEPT !.pc = "read"]]
        \/ cached # NoAgent /\ chat' = [chat EXCEPT ![c] = [chat[c] EXCEPT !.pc = "over", !.agent = cached]]
    BY <1>8 DEF CacheTyped, GetAgent
  <2>3. chat' \in [Chats -> AChat]
    BY <2>1, <2>2, InRange DEF CacheTyped
  <2>4. QED
    BY <1>8, <2>3 DEF CacheTyped, GetAgent
<1>9. ASSUME NEW c \in Chats, ReadConfigLocked(c) PROVE CacheTyped'
  <2>1. [chat[c] EXCEPT !.pc = "skills", !.agent.config = config] \in AChat
    BY DEF CacheTyped, AChat, Agents
  <2>2. chat' = [chat EXCEPT ![c] = [chat[c] EXCEPT !.pc = "skills", !.agent.config = config]]
    BY <1>9 DEF CacheTyped, ReadConfigLocked
  <2>3. chat' \in [Chats -> AChat]
    BY <2>1, <2>2, InRange DEF CacheTyped
  <2>4. QED
    BY <1>9, <2>3 DEF CacheTyped, ReadConfigLocked
<1>10. ASSUME NEW c \in Chats, ReadSkillsLocked(c) PROVE CacheTyped'
  <2>1. [chat[c] EXCEPT !.pc = "store", !.agent.skills = skills] \in AChat
    BY DEF CacheTyped, AChat, Agents
  <2>2. chat' = [chat EXCEPT ![c] = [chat[c] EXCEPT !.pc = "store", !.agent.skills = skills]]
    BY <1>10 DEF CacheTyped, ReadSkillsLocked
  <2>3. chat' \in [Chats -> AChat]
    BY <2>1, <2>2, InRange DEF CacheTyped
  <2>4. QED
    BY <1>10, <2>3 DEF CacheTyped, ReadSkillsLocked
<1>11. ASSUME NEW c \in Chats, StoreAgent(c) PROVE CacheTyped'
  <2>1. [chat[c] EXCEPT !.pc = "over"] \in AChat
    BY DEF CacheTyped, AChat, Agents
  <2>2. chat' = [chat EXCEPT ![c] = [chat[c] EXCEPT !.pc = "over"]]
    BY <1>11 DEF CacheTyped, StoreAgent
  <2>3. chat' \in [Chats -> AChat]
    BY <2>1, <2>2, InRange DEF CacheTyped
  <2>4. QED
    BY <1>11, <2>3 DEF CacheTyped, StoreAgent, AChat
<1>12. CASE UNCHANGED cacheVars
  BY <1>12 DEF cacheVars, CacheTyped
<1>13. QED
  BY <1>1, <1>2, <1>3, <1>4, <1>5, <1>6, <1>7, <1>8, <1>9, <1>10, <1>11, <1>12 DEF CacheNext,
     SaveStep, ChangeStep, ChatStep

(* Where saves wait for one another and for changes, every step keeps it. *)
LEMMA CacheInvKept == ASSUME ~Overlap PROVE CacheInv /\ [CacheNext]_cacheVars => CacheInv'
<1> SUFFICES ASSUME CacheInv, [CacheNext]_cacheVars PROVE CacheInv'
  OBVIOUS
<1> USE DEF HasConfig, HasSkills, CacheInv
<1>0. NoAgent \notin Chats /\ ~Overlap
  BY CacheAssumption
<1>1. ASSUME NEW s \in Saves, SaveConfig(s) PROVE CacheInv'
  <2>1. CacheTyped'
    BY CacheTypedKept
  <2>2. StoredIsThere'
    BY <1>0, <1>1 DEF CacheTyped, ASave, AChange, AChat, Agents, StoredIsThere, SaveConfig, Quiet
  <2>3. SavesAlone'
    BY <1>0, <1>1 DEF CacheTyped, ASave, AChange, AChat, Agents, SavesAlone, SaveConfig, Quiet
  <2>4. SaveIsRecent'
    BY <1>0, <1>1 DEF CacheTyped, ASave, AChange, AChat, Agents, SaveIsRecent, SaveConfig,
       Quiet, SavesAlone
  <2>5. OneBuilder' /\ KeptIsRecent' /\ BuiltIsRecent' /\ WasStored' /\ SavedIsUsed'
    <3>1. /\ UNCHANGED <<cached, locked, change, chat>>
          /\ \A r \in Saves : save[r].pc = "over" <=> save'[r].pc = "over"
          /\ \A r \in Saves : save[r].pc = "over" => save'[r].stored = save[r].stored
      BY <1>1 DEF CacheTyped, ASave, SaveConfig
    <3>2. OneBuilder' /\ SavedIsUsed'
      BY <3>1 DEF OneBuilder, SavedIsUsed
    <3>3. KeptIsRecent' /\ BuiltIsRecent'
      BY <3>1 DEF KeptIsRecent, BuiltIsRecent
    <3>4. WasStored'
      BY <3>1 DEF WasStored
    <3>5. QED
      BY <3>2, <3>3, <3>4
  <2>6. QED
    BY <2>1, <2>2, <2>3, <2>4, <2>5
<1>2. ASSUME NEW s \in Saves, ReadConfig(s) PROVE CacheInv'
  <2>1. CacheTyped'
    BY CacheTypedKept
  <2>2. SavesAlone'
    BY <1>0, <1>2 DEF CacheTyped, ASave, AChange, AChat, Agents, SavesAlone, ReadConfig
  <2>3. SaveIsRecent'
    BY <1>0, <1>2 DEF CacheTyped, ASave, AChange, AChat, Agents, SaveIsRecent, ReadConfig
  <2>4. StoredIsThere' /\ OneBuilder' /\ KeptIsRecent' /\ BuiltIsRecent'
        /\ WasStored' /\ SavedIsUsed'
    BY <1>2 DEF CacheTyped, ASave, AChange, AChat, Agents, ReadConfig, StoredIsThere,
       OneBuilder, KeptIsRecent, BuiltIsRecent, WasStored, SavedIsUsed
  <2>5. QED
    BY <2>1, <2>2, <2>3, <2>4
<1>3. ASSUME NEW s \in Saves, ReadSkills(s) PROVE CacheInv'
  <2>1. CacheTyped'
    BY CacheTypedKept
  <2>2. SavesAlone'
    BY <1>0, <1>3 DEF CacheTyped, ASave, AChange, AChat, Agents, SavesAlone, ReadSkills
  <2>3. SaveIsRecent'
    BY <1>0, <1>3 DEF CacheTyped, ASave, AChange, AChat, Agents, SaveIsRecent, ReadSkills
  <2>4. StoredIsThere' /\ OneBuilder' /\ KeptIsRecent' /\ BuiltIsRecent'
        /\ WasStored' /\ SavedIsUsed'
    BY <1>3 DEF CacheTyped, ASave, AChange, AChat, Agents, ReadSkills, StoredIsThere,
       OneBuilder, KeptIsRecent, BuiltIsRecent, WasStored, SavedIsUsed
  <2>5. QED
    BY <2>1, <2>2, <2>3, <2>4
<1>4. ASSUME NEW s \in Saves, Swap(s) PROVE CacheInv'
  <2>1. CacheTyped'
    BY CacheTypedKept
  <2>2. SavesAlone'
    BY <1>0, <1>4 DEF CacheTyped, ASave, AChange, AChat, Agents, SavesAlone, Swap
  <2>3. KeptIsRecent'
    BY <1>0, <1>4 DEF CacheTyped, ASave, AChange, AChat, Agents, KeptIsRecent, Swap,
       SaveIsRecent, StoredIsThere
  <2>4. BuiltIsRecent'
    BY <1>0, <1>4 DEF CacheTyped, ASave, AChange, AChat, Agents, BuiltIsRecent, Swap, OneBuilder
  <2>5. WasStored'
    BY <1>0, <1>4 DEF CacheTyped, ASave, AChange, AChat, Agents, WasStored, Swap
  <2>6. StoredIsThere' /\ OneBuilder' /\ SaveIsRecent' /\ SavedIsUsed'
    BY <1>4 DEF CacheTyped, ASave, AChange, AChat, Agents, Swap, StoredIsThere, OneBuilder,
       SaveIsRecent, SavedIsUsed
  <2>7. QED
    BY <2>1, <2>2, <2>3, <2>4, <2>5, <2>6
<1>5. ASSUME NEW c \in Changes, ChangeSkill(c) PROVE CacheInv'
  <2>1. CacheTyped'
    BY CacheTypedKept
  <2>2. StoredIsThere'
    BY <1>0, <1>5 DEF CacheTyped, ASave, AChange, AChat, Agents, StoredIsThere, ChangeSkill
  <2>3. SavesAlone'
    BY <1>0, <1>5 DEF CacheTyped, ASave, AChange, AChat, Agents, SavesAlone, ChangeSkill
  <2>4. SaveIsRecent'
    BY <1>0, <1>5 DEF CacheTyped, ASave, AChange, AChat, Agents, SaveIsRecent, ChangeSkill,
       SavesAlone
  <2>5. OneBuilder' /\ KeptIsRecent' /\ BuiltIsRecent' /\ WasStored'
        /\ SavedIsUsed'
    BY <1>5 DEF CacheTyped, ASave, AChange, AChat, Agents, ChangeSkill, OneBuilder,
       KeptIsRecent, BuiltIsRecent, WasStored, SavedIsUsed
  <2>6. QED
    BY <2>1, <2>2, <2>3, <2>4, <2>5
<1>6. ASSUME NEW c \in Changes, DropAgent(c) PROVE CacheInv'
  <2>1. CacheTyped'
    BY CacheTypedKept
  <2>2. KeptIsRecent'
    BY <1>0, <1>6 DEF CacheTyped, ASave, AChange, AChat, Agents, KeptIsRecent, DropAgent
  <2>3. BuiltIsRecent'
    BY <1>0, <1>6 DEF CacheTyped, ASave, AChange, AChat, Agents, BuiltIsRecent, DropAgent,
       OneBuilder
  <2>4. WasStored'
    BY <1>0, <1>6 DEF CacheTyped, ASave, AChange, AChat, Agents, WasStored, DropAgent
  <2>5. StoredIsThere' /\ OneBuilder' /\ SavesAlone' /\ SaveIsRecent'
        /\ SavedIsUsed'
    BY <1>6 DEF CacheTyped, ASave, AChange, AChat, Agents, DropAgent, StoredIsThere, OneBuilder,
       SavesAlone, SaveIsRecent, SavedIsUsed
  <2>6. QED
    BY <2>1, <2>2, <2>3, <2>4, <2>5
<1>7. ASSUME NEW c \in Chats, BeginChat(c) PROVE CacheInv'
  <2>1. CacheTyped'
    BY CacheTypedKept
  <2>2. WasStored'
    <3>1. /\ \/ StoredBefore(save) = 0
             \/ \E s \in Saves : save[s].pc = "over" /\ save[s].stored = StoredBefore(save)
          /\ \/ StoredBefore(change) = 0
             \/ \E k \in Changes : change[k].pc = "over" /\ change[k].stored = StoredBefore(change)
      <4>1. /\ DOMAIN save = Saves /\ DOMAIN change = Changes
            /\ \A s \in Saves : save[s].stored \in Nat
            /\ \A k \in Changes : change[k].stored \in Nat
        BY DEF CacheTyped, ASave, AChange
      <4>2. QED
        BY <4>1, StoredBeforeIsOne DEF CacheTyped, StoredIsThere
    <3>2. ASSUME NEW d \in Chats
          PROVE  \/ chat'[d].config = chat[d].config /\ chat'[d].skills = chat[d].skills
                 \/ chat'[d].config = StoredBefore(save) /\ chat'[d].skills = StoredBefore(change)
      BY <1>7 DEF BeginChat, CacheTyped, AChat
    <3>3. QED
      BY <1>7, <3>1, <3>2 DEF WasStored, BeginChat
  <2>3. OneBuilder'
    BY <1>0, <1>7 DEF CacheTyped, ASave, AChange, AChat, Agents, OneBuilder, BeginChat
  <2>4. BuiltIsRecent'
    BY <1>0, <1>7 DEF CacheTyped, ASave, AChange, AChat, Agents, BuiltIsRecent, BeginChat
  <2>5. SavedIsUsed'
    BY <1>0, <1>7 DEF CacheTyped, ASave, AChange, AChat, Agents, SavedIsUsed, BeginChat
  <2>6. StoredIsThere' /\ SavesAlone' /\ SaveIsRecent' /\ KeptIsRecent'
    BY <1>7 DEF CacheTyped, ASave, AChange, AChat, Agents, BeginChat, StoredIsThere, SavesAlone,
       SaveIsRecent, KeptIsRecent
  <2>7. QED
    BY <2>1, <2>2, <2>3, <2>4, <2>5, <2>6
<1>8. ASSUME NEW c \in Chats, GetAgent(c) PROVE CacheInv'
  <2>1. CacheTyped'
    BY CacheTypedKept
  <2>2. OneBuilder'
    BY <1>0, <1>8 DEF CacheTyped, ASave, AChange, AChat, Agents, OneBuilder, GetAgent
  <2>3. BuiltIsRecent'
    BY <1>0, <1>8 DEF CacheTyped, ASave, AChange, AChat, Agents, BuiltIsRecent, GetAgent,
       OneBuilder
  <2>4. SavedIsUsed'
    <3> SUFFICES ASSUME NEW d \in Chats, chat'[d].pc = "over"
                 PROVE  /\ chat'[d].agent.config >= chat'[d].config
                        /\ chat'[d].agent.skills >= chat'[d].skills
      BY DEF SavedIsUsed
    <3>1. CASE d # c \/ cached = NoAgent
      BY <1>8, <3>1 DEF GetAgent, SavedIsUsed, CacheTyped, AChat
    <3>2. CASE d = c /\ cached # NoAgent
      <4>1. /\ chat'[c].agent = cached /\ chat'[c].config = chat[c].config
            /\ chat'[c].skills = chat[c].skills
        BY <1>8, <3>2 DEF GetAgent, CacheTyped, AChat
      <4>2. cached.config \in Nat /\ cached.skills \in Nat
        BY <3>2 DEF CacheTyped, Agents
      <4>3. cached.config >= chat[c].config
        BY <3>2, <4>2 DEF KeptIsRecent, WasStored, CacheTyped, ASave
      <4>4. cached.skills >= chat[c].skills
        BY <3>2, <4>2 DEF KeptIsRecent, WasStored, CacheTyped, AChange
      <4>5. QED
        BY <3>2, <4>1, <4>3, <4>4
    <3>3. QED
      BY <3>1, <3>2
  <2>5. StoredIsThere' /\ SavesAlone' /\ SaveIsRecent' /\ KeptIsRecent'
        /\ WasStored'
    BY <1>8 DEF CacheTyped, ASave, AChange, AChat, Agents, GetAgent, StoredIsThere, SavesAlone,
       SaveIsRecent, KeptIsRecent, WasStored
  <2>6. QED
    BY <2>1, <2>2, <2>3, <2>4, <2>5
<1>9. ASSUME NEW c \in Chats, ReadConfigLocked(c) PROVE CacheInv'
  <2>1. CacheTyped'
    BY CacheTypedKept
  <2>2. OneBuilder'
    BY <1>0, <1>9 DEF CacheTyped, ASave, AChange, AChat, Agents, OneBuilder, ReadConfigLocked
  <2>3. BuiltIsRecent'
    BY <1>0, <1>9 DEF CacheTyped, ASave, AChange, AChat, Agents, BuiltIsRecent,
       ReadConfigLocked, StoredIsThere
  <2>4. StoredIsThere' /\ SavesAlone' /\ SaveIsRecent' /\ KeptIsRecent'
        /\ WasStored' /\ SavedIsUsed'
    BY <1>9 DEF CacheTyped, ASave, AChange, AChat, Agents, ReadConfigLocked, StoredIsThere,
       SavesAlone, SaveIsRecent, KeptIsRecent, WasStored, SavedIsUsed
  <2>5. QED
    BY <2>1, <2>2, <2>3, <2>4
<1>10. ASSUME NEW c \in Chats, ReadSkillsLocked(c) PROVE CacheInv'
  <2>1. CacheTyped'
    BY CacheTypedKept
  <2>2. OneBuilder'
    BY <1>0, <1>10 DEF CacheTyped, ASave, AChange, AChat, Agents, OneBuilder, ReadSkillsLocked
  <2>3. BuiltIsRecent'
    BY <1>0, <1>10 DEF CacheTyped, ASave, AChange, AChat, Agents, BuiltIsRecent,
       ReadSkillsLocked, StoredIsThere
  <2>4. StoredIsThere' /\ SavesAlone' /\ SaveIsRecent' /\ KeptIsRecent'
        /\ WasStored' /\ SavedIsUsed'
    BY <1>10 DEF CacheTyped, ASave, AChange, AChat, Agents, ReadSkillsLocked, StoredIsThere,
       SavesAlone, SaveIsRecent, KeptIsRecent, WasStored, SavedIsUsed
  <2>5. QED
    BY <2>1, <2>2, <2>3, <2>4
<1>11. ASSUME NEW c \in Chats, StoreAgent(c) PROVE CacheInv'
  <2>1. CacheTyped'
    BY CacheTypedKept
  <2>2. OneBuilder'
    BY <1>0, <1>11 DEF CacheTyped, ASave, AChange, AChat, Agents, OneBuilder, StoreAgent
  <2>3. KeptIsRecent'
    BY <1>0, <1>11 DEF CacheTyped, ASave, AChange, AChat, Agents, KeptIsRecent, StoreAgent,
       BuiltIsRecent
  <2>4. BuiltIsRecent'
    BY <1>0, <1>11 DEF CacheTyped, ASave, AChange, AChat, Agents, BuiltIsRecent, StoreAgent,
       OneBuilder
  <2>5. SavedIsUsed'
    BY <1>0, <1>11 DEF CacheTyped, ASave, AChange, AChat, Agents, SavedIsUsed, StoreAgent,
       BuiltIsRecent, WasStored
  <2>6. StoredIsThere' /\ SavesAlone' /\ SaveIsRecent' /\ WasStored'
    BY <1>11 DEF CacheTyped, ASave, AChange, AChat, Agents, StoreAgent, StoredIsThere,
       SavesAlone, SaveIsRecent, WasStored
  <2>7. QED
    BY <2>1, <2>2, <2>3, <2>4, <2>5, <2>6
<1>12. CASE UNCHANGED cacheVars
  BY <1>12 DEF cacheVars, CacheTyped, StoredIsThere, OneBuilder, SavesAlone, SaveIsRecent,
     KeptIsRecent, BuiltIsRecent, WasStored, SavedIsUsed
<1>13. QED
  BY <1>1, <1>2, <1>3, <1>4, <1>5, <1>6, <1>7, <1>8, <1>9, <1>10, <1>11, <1>12 DEF CacheNext,
     SaveStep, ChangeStep, ChatStep

(* Whoever asks for the agent after a save or a change is over gets one that   *)
(* has it (helpers.py:369, config.py:58-68), for any number of requests, where *)
(* saves do not overlap: the run and AgentCache say what happens when they do. *)
THEOREM SavedAlwaysUsed == ASSUME ~Overlap PROVE CacheSpec => []SavedIsUsed
BY CacheInvAtFirst, CacheInvKept, PTL DEF CacheSpec, CacheInv

\* No agent is ahead of what is stored, and none is kept while one is built.
NotAhead(a) == a.config <= config /\ a.skills <= skills

NoneAhead ==
    /\ cached # NoAgent => NotAhead(cached) /\ locked = NoAgent
    /\ \A s \in Saves : NotAhead(save[s].agent)
    /\ \A c \in Chats : NotAhead(chat[c].agent)

CacheSound == CacheTyped /\ StoredIsThere /\ OneBuilder /\ NoneAhead

LEMMA CacheSoundAtFirst == CacheInit => CacheSound
BY CacheAssumption DEF CacheInit, CacheSound, Agents, ASave, AChange, AChat, Agent0, CacheTyped,
   StoredIsThere, OneBuilder, NoneAhead, NotAhead

(* Saves may overlap: every step keeps so much. *)
LEMMA CacheSoundKept == CacheSound /\ [CacheNext]_cacheVars => CacheSound'
<1> SUFFICES ASSUME CacheSound, [CacheNext]_cacheVars PROVE CacheSound'
  OBVIOUS
<1>0. NoAgent \notin Chats /\ CacheTyped'
  BY CacheAssumption, CacheTypedKept DEF CacheSound
<1> USE DEF CacheSound, CacheTyped, ASave, AChange, AChat, Agents
<1>1. ASSUME NEW s \in Saves, SaveStep(s) PROVE CacheSound'
  <2>1. CASE SaveConfig(s)
    BY <1>0, <2>1 DEF SaveConfig, StoredIsThere, OneBuilder, NoneAhead, NotAhead
  <2>2. CASE ReadConfig(s)
    BY <1>0, <2>2 DEF ReadConfig, StoredIsThere, OneBuilder, NoneAhead, NotAhead
  <2>3. CASE ReadSkills(s)
    BY <1>0, <2>3 DEF ReadSkills, StoredIsThere, OneBuilder, NoneAhead, NotAhead
  <2>4. CASE Swap(s)
    BY <1>0, <2>4 DEF Swap, StoredIsThere, OneBuilder, NoneAhead, NotAhead
  <2>5. QED
    BY <1>1, <2>1, <2>2, <2>3, <2>4 DEF SaveStep
<1>2. ASSUME NEW c \in Changes, ChangeStep(c) PROVE CacheSound'
  <2>1. CASE ChangeSkill(c)
    BY <1>0, <2>1 DEF ChangeSkill, StoredIsThere, OneBuilder, NoneAhead, NotAhead
  <2>2. CASE DropAgent(c)
    BY <1>0, <2>2 DEF DropAgent, StoredIsThere, OneBuilder, NoneAhead, NotAhead
  <2>3. QED
    BY <1>2, <2>1, <2>2 DEF ChangeStep
<1>3. ASSUME NEW c \in Chats, ChatStep(c) PROVE CacheSound'
  <2>0. StoredIsThere'
    BY <1>3 DEF ChatStep, BeginChat, GetAgent, ReadConfigLocked, ReadSkillsLocked, StoreAgent,
       StoredIsThere
  <2>1. CASE BeginChat(c)
    BY <1>0, <2>0, <2>1 DEF BeginChat, OneBuilder, NoneAhead, NotAhead
  <2>2. CASE GetAgent(c)
    BY <1>0, <2>0, <2>2 DEF GetAgent, OneBuilder, NoneAhead, NotAhead
  <2>3. CASE ReadConfigLocked(c)
    BY <1>0, <2>0, <2>3 DEF ReadConfigLocked, OneBuilder, NoneAhead, NotAhead
  <2>4. CASE ReadSkillsLocked(c)
    BY <1>0, <2>0, <2>4 DEF ReadSkillsLocked, OneBuilder, NoneAhead, NotAhead
  <2>5. CASE StoreAgent(c)
    BY <1>0, <2>0, <2>5 DEF StoreAgent, OneBuilder, NoneAhead, NotAhead
  <2>6. QED
    BY <1>3, <2>1, <2>2, <2>3, <2>4, <2>5 DEF ChatStep
<1>4. CASE UNCHANGED cacheVars
  BY <1>4 DEF cacheVars, StoredIsThere, OneBuilder, NoneAhead, NotAhead
<1>5. QED
  BY <1>1, <1>2, <1>3, <1>4 DEF CacheNext

LEMMA CacheSoundMeans == CacheSound => CacheTypeOK
BY CacheAssumption DEF CacheSound, CacheTyped, OneBuilder, NoneAhead, NotAhead, ASave, AChange,
   AChat, CacheTypeOK

-----------------------------------------------------------------------------
(* Facts. *)

(* To put a place behind others keeps them places. *)
LEMMA SortTyped ==
    ASSUME NEW D, NEW s \in Seq(D), NEW i \in D
    PROVE  Sort(s, i) \in Seq(D)
<1> DEFINE worse == {k \in DOMAIN s : ~Better(facts[i], facts[s[k]])}
<1>1. Cardinality(worse) \in Nat
  <2>1. DOMAIN s = 1 .. Len(s) /\ IsFiniteSet(1 .. Len(s))
    BY FS_Interval
  <2>2. IsFiniteSet(worse)
    BY <2>1, FS_Subset
  <2> QED BY <2>2, FS_CardinalityType
<1> DEFINE c == 1 + Cardinality(worse)
<1>2. c \in Nat /\ c >= 1
  BY <1>1
<1>2a. Cardinality(worse) <= Len(s)
  <2>1. IsFiniteSet(1 .. Len(s)) /\ Cardinality(1 .. Len(s)) = Len(s) /\ worse \subseteq 1 .. Len(s)
    <3>1. Len(s) \in Nat /\ 1 \in Int /\ DOMAIN s = 1 .. Len(s)
      OBVIOUS
    <3>2. IsFiniteSet(1 .. Len(s)) /\ Cardinality(1 .. Len(s)) = Len(s)
      BY <3>1, FS_Interval
    <3> QED BY <3>1, <3>2
  <2> QED BY <2>1, FS_Subset
<1>3. SubSeq(s, 1, c - 1) \in Seq(D) /\ SubSeq(s, c, Len(s)) \in Seq(D)
  <2>1. c <= Len(s) + 1 /\ Len(s) \in Nat
    <3> HIDE DEF worse
    <3> QED BY <1>1, <1>2a
  <2> HIDE DEF c
  <2> QED BY <1>2, <2>1
<1>4. Sort(s, i) = SubSeq(s, 1, c - 1) \o <<i>> \o SubSeq(s, c, Len(s))
  BY DEF Sort, InsertAt
<1> QED
  <2> HIDE DEF c
  <2> QED BY <1>3, <1>4

(* Every row costs something. *)
LEMMA CostTyped ==
    ASSUME facts \in Seq(Row)
    PROVE  \A a \in DOMAIN facts : FactSize[facts[a].says] \in Nat
<1>1. \A a \in DOMAIN facts : facts[a] \in Row
  OBVIOUS
<1>2. \A r \in Row : FactSize[r.says] \in Nat
  BY FactsAssumption DEF Row
<1> QED BY <1>1, <1>2

(* A fold from the left, step by step: here of the ranking, below of the rows  *)
(* that are facts, of the costs and of the choice.                             *)
LEMMA RankedUp ==
    ASSUME facts \in Seq(Row)
    PROVE  \E f \in [0 .. Len([i \in DOMAIN facts |-> i]) -> Seq(DOMAIN facts)] :
                /\ f[0] = <<>>
                /\ \A k \in 1 .. Len([i \in DOMAIN facts |-> i]) :
                        f[k] = Sort(f[k - 1], ([i \in DOMAIN facts |-> i])[k])
                /\ Ranked = f[Len([i \in DOMAIN facts |-> i])]
<1> DEFINE seq == [i \in DOMAIN facts |-> i]
           n == Len(seq)
           S == Seq(DOMAIN facts)
           step == [x \in S \X (1 .. n) |-> Sort(x[1], seq[x[2]])]
           it == CHOOSE it : it = [s \in SUBSET DOMAIN seq |->
                    IF s = {} THEN <<>> ELSE LET x == Max(s) IN Sort(it[s \ {x}], seq[x])]
<1>1. Ranked = it[DOMAIN seq]
  BY DEF Ranked, FoldLeft, MapThenFoldSet
<1>2. DOMAIN seq = 1 .. n /\ n \in Nat /\ \A k \in 1 .. n : seq[k] \in DOMAIN facts
  OBVIOUS
<1>3. <<>> \in S /\ \A x \in S, a \in DOMAIN facts : Sort(x, a) \in S
  BY SortTyped
<1>4. step \in [S \X (1 .. n) -> S]
  BY <1>2, <1>3
<1>5. PICK g \in [Places(n) -> S] : Folds(g, n, <<>>, step)
  <2> HIDE DEF n, S, step
  <2> QED BY <1>2, <1>3, <1>4, FoldDefined
<1>6. it = [s \in SUBSET DOMAIN seq |->
                IF s = {} THEN <<>> ELSE LET x == Max(s) IN Sort(it[s \ {x}], seq[x])]
  <2>1. ASSUME NEW s \in Places(n), s # {}
        PROVE  g[s] = Sort(g[s \ {Max(s)}], seq[Max(s)])
    <3>1. Max(s) \in 1 .. n /\ s \ {Max(s)} \in Places(n)
      BY <1>2, <2>1, GreatestIsOne DEF Places
    <3>2. g[s] = step[<<g[s \ {Max(s)}], Max(s)>>] /\ g[s \ {Max(s)}] \in S
      BY <1>5, <2>1, <3>1 DEF Folds
    <3> HIDE DEF S
    <3> QED BY <1>2, <3>1, <3>2
  <2>2. g[{}] = <<>>
    BY <1>5 DEF Folds, Places
  <2>3. g = [s \in SUBSET DOMAIN seq |->
              IF s = {} THEN <<>> ELSE LET x == Max(s) IN Sort(g[s \ {x}], seq[x])]
    <3> HIDE DEF S, seq
    <3> QED BY <1>2, <1>5, <2>1, <2>2 DEF Places
  <2> QED BY <2>3
<1> HIDE DEF it
<1>7. it[{}] = <<>> /\ \A k \in 1 .. n : it[1 .. k] = Sort(it[1 .. (k - 1)], seq[k])
  <2>1. it[{}] = <<>>
    BY <1>6
  <2>2. ASSUME NEW k \in 1 .. n PROVE it[1 .. k] = Sort(it[1 .. (k - 1)], seq[k])
    <3>1. k \in 1 .. k /\ k \in Nat \ {0} /\ 1 .. k \in SUBSET DOMAIN seq
      BY <1>2
    <3>2. Max(1 .. k) = k /\ (1 .. k) \ {k} = 1 .. (k - 1)
      BY <3>1, UpTo
    <3> QED BY <1>6, <3>1, <3>2
  <2> QED BY <2>1, <2>2
<1> HIDE DEF S, n, seq, step
<1>8. \A k \in 0 .. n : it[1 .. k] \in S
  <2>1. it[{}] \in S /\ \A k \in 1 .. n : it[1 .. (k - 1)] \in S => it[1 .. k] \in S
    BY <1>2, <1>3, <1>7
  <2> QED BY <1>2, <2>1, FoldTyped
<1> DEFINE f == [k \in 0 .. n |-> it[1 .. k]]
<1>9. f \in [0 .. n -> S] /\ f[0] = <<>> /\ f[n] = Ranked
  <2>1. 1 .. 0 = {}
    OBVIOUS
  <2> QED BY <1>1, <1>2, <1>7, <1>8, <2>1
<1>10. \A k \in 1 .. n : f[k] = Sort(f[k - 1], seq[k])
  BY <1>2, <1>7
<1> HIDE DEF f
<1> QED BY <1>9, <1>10 DEF S, n, seq

LEMMA OnlyFactsUp ==
    ASSUME NEW texts \in Seq(Row)
    PROVE  \E f \in [0 .. Len(texts) -> Seq({r \in Row : IsFact(r)})] :
                /\ f[0] = <<>>
                /\ \A k \in 1 .. Len(texts) : f[k] = Keep(f[k - 1], texts[k])
                /\ OnlyFactsOf(texts) = f[Len(texts)]
<1> DEFINE seq == texts
           n == Len(seq)
           S == Seq({r \in Row : IsFact(r)})
           step == [x \in S \X (1 .. n) |-> Keep(x[1], seq[x[2]])]
           it == CHOOSE it : it = [s \in SUBSET DOMAIN seq |->
                    IF s = {} THEN <<>> ELSE LET x == Max(s) IN Keep(it[s \ {x}], seq[x])]
<1>1. OnlyFactsOf(texts) = it[DOMAIN seq]
  BY DEF OnlyFactsOf, FoldLeft, MapThenFoldSet
<1>2. DOMAIN seq = 1 .. n /\ n \in Nat /\ \A k \in 1 .. n : seq[k] \in Row
  OBVIOUS
<1>3. <<>> \in S /\ \A x \in S, a \in Row : Keep(x, a) \in S
  BY DEF Keep
<1>4. step \in [S \X (1 .. n) -> S]
  BY <1>2, <1>3
<1>5. PICK g \in [Places(n) -> S] : Folds(g, n, <<>>, step)
  <2> HIDE DEF n, S, step
  <2> QED BY <1>2, <1>3, <1>4, FoldDefined
<1>6. it = [s \in SUBSET DOMAIN seq |->
                IF s = {} THEN <<>> ELSE LET x == Max(s) IN Keep(it[s \ {x}], seq[x])]
  <2>1. ASSUME NEW s \in Places(n), s # {}
        PROVE  g[s] = Keep(g[s \ {Max(s)}], seq[Max(s)])
    <3>1. Max(s) \in 1 .. n /\ s \ {Max(s)} \in Places(n)
      BY <1>2, <2>1, GreatestIsOne DEF Places
    <3>2. g[s] = step[<<g[s \ {Max(s)}], Max(s)>>] /\ g[s \ {Max(s)}] \in S
      BY <1>5, <2>1, <3>1 DEF Folds
    <3> HIDE DEF S
    <3> QED BY <1>2, <3>1, <3>2
  <2>2. g[{}] = <<>>
    BY <1>5 DEF Folds, Places
  <2>3. g = [s \in SUBSET DOMAIN seq |->
              IF s = {} THEN <<>> ELSE LET x == Max(s) IN Keep(g[s \ {x}], seq[x])]
    <3> HIDE DEF S, seq
    <3> QED BY <1>2, <1>5, <2>1, <2>2 DEF Places
  <2> QED BY <2>3
<1> HIDE DEF it
<1>7. it[{}] = <<>> /\ \A k \in 1 .. n : it[1 .. k] = Keep(it[1 .. (k - 1)], seq[k])
  <2>1. it[{}] = <<>>
    BY <1>6
  <2>2. ASSUME NEW k \in 1 .. n PROVE it[1 .. k] = Keep(it[1 .. (k - 1)], seq[k])
    <3>1. k \in 1 .. k /\ k \in Nat \ {0} /\ 1 .. k \in SUBSET DOMAIN seq
      BY <1>2
    <3>2. Max(1 .. k) = k /\ (1 .. k) \ {k} = 1 .. (k - 1)
      BY <3>1, UpTo
    <3> QED BY <1>6, <3>1, <3>2
  <2> QED BY <2>1, <2>2
<1> HIDE DEF S, n, seq, step
<1>8. \A k \in 0 .. n : it[1 .. k] \in S
  <2>1. it[{}] \in S /\ \A k \in 1 .. n : it[1 .. (k - 1)] \in S => it[1 .. k] \in S
    BY <1>2, <1>3, <1>7
  <2> QED BY <1>2, <2>1, FoldTyped
<1> DEFINE f == [k \in 0 .. n |-> it[1 .. k]]
<1>9. f \in [0 .. n -> S] /\ f[0] = <<>> /\ f[n] = OnlyFactsOf(texts)
  <2>1. 1 .. 0 = {}
    OBVIOUS
  <2> QED BY <1>1, <1>2, <1>7, <1>8, <2>1
<1>10. \A k \in 1 .. n : f[k] = Keep(f[k - 1], seq[k])
  BY <1>2, <1>7
<1> HIDE DEF f
<1> QED BY <1>9, <1>10 DEF S, n, seq

LEMMA CostsUp ==
    ASSUME facts \in Seq(Row), NEW places \in Seq(DOMAIN facts)
    PROVE  \E f \in [0 .. Len(places) -> Nat] :
                /\ f[0] = 0
                /\ \A k \in 1 .. Len(places) : f[k] = f[k - 1] + FactSize[facts[places[k]].says]
                /\ Costs(places) = f[Len(places)]
<1> DEFINE seq == places
           n == Len(seq)
           S == Nat
           step == [x \in S \X (1 .. n) |-> x[1] + FactSize[facts[seq[x[2]]].says]]
           it == CHOOSE it : it = [s \in SUBSET DOMAIN seq |->
                    IF s = {} THEN 0 ELSE LET x == Max(s) IN it[s \ {x}] + FactSize[facts[seq[x]].says]]
<1>1. Costs(places) = it[DOMAIN seq]
  BY DEF Costs, FoldLeft, MapThenFoldSet
<1>2. DOMAIN seq = 1 .. n /\ n \in Nat /\ \A k \in 1 .. n : seq[k] \in DOMAIN facts
  OBVIOUS
<1>3. 0 \in S /\ \A x \in S, a \in DOMAIN facts : x + FactSize[facts[a].says] \in S
  BY CostTyped
<1>4. step \in [S \X (1 .. n) -> S]
  BY <1>2, <1>3
<1>5. PICK g \in [Places(n) -> S] : Folds(g, n, 0, step)
  <2> HIDE DEF n, S, step
  <2> QED BY <1>2, <1>3, <1>4, FoldDefined
<1>6. it = [s \in SUBSET DOMAIN seq |->
                IF s = {} THEN 0 ELSE LET x == Max(s) IN it[s \ {x}] + FactSize[facts[seq[x]].says]]
  <2>1. ASSUME NEW s \in Places(n), s # {}
        PROVE  g[s] = g[s \ {Max(s)}] + FactSize[facts[seq[Max(s)]].says]
    <3>1. Max(s) \in 1 .. n /\ s \ {Max(s)} \in Places(n)
      BY <1>2, <2>1, GreatestIsOne DEF Places
    <3>2. g[s] = step[<<g[s \ {Max(s)}], Max(s)>>] /\ g[s \ {Max(s)}] \in S
      BY <1>5, <2>1, <3>1 DEF Folds
    <3> HIDE DEF S
    <3> QED BY <1>2, <3>1, <3>2
  <2>2. g[{}] = 0
    BY <1>5 DEF Folds, Places
  <2>3. g = [s \in SUBSET DOMAIN seq |->
              IF s = {} THEN 0 ELSE LET x == Max(s) IN g[s \ {x}] + FactSize[facts[seq[x]].says]]
    <3> HIDE DEF S, seq
    <3> QED BY <1>2, <1>5, <2>1, <2>2 DEF Places
  <2> QED BY <2>3
<1> HIDE DEF it
<1>7. it[{}] = 0 /\ \A k \in 1 .. n : it[1 .. k] = it[1 .. (k - 1)] + FactSize[facts[seq[k]].says]
  <2>1. it[{}] = 0
    BY <1>6
  <2>2. ASSUME NEW k \in 1 .. n PROVE it[1 .. k] = it[1 .. (k - 1)] + FactSize[facts[seq[k]].says]
    <3>1. k \in 1 .. k /\ k \in Nat \ {0} /\ 1 .. k \in SUBSET DOMAIN seq
      BY <1>2
    <3>2. Max(1 .. k) = k /\ (1 .. k) \ {k} = 1 .. (k - 1)
      BY <3>1, UpTo
    <3> QED BY <1>6, <3>1, <3>2
  <2> QED BY <2>1, <2>2
<1> HIDE DEF S, n, seq, step
<1>8. \A k \in 0 .. n : it[1 .. k] \in S
  <2>1. it[{}] \in S /\ \A k \in 1 .. n : it[1 .. (k - 1)] \in S => it[1 .. k] \in S
    BY <1>2, <1>3, <1>7
  <2> QED BY <1>2, <2>1, FoldTyped
<1> DEFINE f == [k \in 0 .. n |-> it[1 .. k]]
<1>9. f \in [0 .. n -> S] /\ f[0] = 0 /\ f[n] = Costs(places)
  <2>1. 1 .. 0 = {}
    OBVIOUS
  <2> QED BY <1>1, <1>2, <1>7, <1>8, <2>1
<1>10. \A k \in 1 .. n : f[k] = f[k - 1] + FactSize[facts[seq[k]].says]
  <2> SUFFICES ASSUME NEW k \in 1 .. n
               PROVE  f[k] = f[k - 1] + FactSize[facts[seq[k]].says]
    BY <1>2
  <2>1. k \in 0 .. n /\ k - 1 \in 0 .. n
    BY <1>2
  <2>2. f[k] = it[1 .. k] /\ f[k - 1] = it[1 .. (k - 1)]
    BY <2>1
  <2> QED BY <1>7, <2>2
<1> HIDE DEF f
<1> QED BY <1>9, <1>10 DEF S, n, seq

(* One place more costs so much more. *)
LEMMA CostsAppended ==
    ASSUME facts \in Seq(Row), NEW places \in Seq(DOMAIN facts), NEW i \in DOMAIN facts
    PROVE  /\ Costs(places) \in Nat
           /\ Costs(Append(places, i)) = Costs(places) + FactSize[facts[i].says]
<1> DEFINE n == Len(places)
           more == Append(places, i)
<1>1. /\ n \in Nat /\ more \in Seq(DOMAIN facts) /\ Len(more) = n + 1 /\ more[n + 1] = i
      /\ \A k \in 1 .. n : more[k] = places[k]
  OBVIOUS
<1>2. PICK f \in [0 .. n -> Nat] :
        /\ f[0] = 0
        /\ \A k \in 1 .. n : f[k] = f[k - 1] + FactSize[facts[places[k]].says]
        /\ Costs(places) = f[n]
  BY CostsUp
<1>3. PICK g \in [0 .. n + 1 -> Nat] :
        /\ g[0] = 0
        /\ \A k \in 1 .. n + 1 : g[k] = g[k - 1] + FactSize[facts[more[k]].says]
        /\ Costs(more) = g[n + 1]
  <2> HIDE DEF more
  <2> QED BY <1>1, CostsUp
<1> HIDE DEF n, more
<1> DEFINE P == {k \in 0 .. n : g[k] = f[k]}
<1>4. 0 \in P
  BY <1>1, <1>2, <1>3
<1>5. ASSUME NEW k \in 1 .. n, k - 1 \in P PROVE k \in P
  <2>1. k \in 0 .. n /\ k \in 1 .. n + 1 /\ more[k] = places[k] /\ g[k - 1] = f[k - 1]
    BY <1>1, <1>5
  <2>2. g[k] = g[k - 1] + FactSize[facts[more[k]].says]
    BY <1>3, <2>1
  <2>3. f[k] = f[k - 1] + FactSize[facts[places[k]].says]
    BY <1>2
  <2> QED BY <2>1, <2>2, <2>3
<1>6. n \in P
  <2>1. n \in 0 .. n
    BY <1>1
  <2> HIDE DEF P
  <2> QED BY <1>1, <1>4, <1>5, <2>1, Upwards
<1>7. g[n + 1] = g[n] + FactSize[facts[i].says]
  BY <1>1, <1>3
<1> QED BY <1>1, <1>2, <1>3, <1>6, <1>7 DEF more

(* What is taken fits. *)
LEMMA TakeFits ==
    ASSUME facts \in Seq(Row), NEW took \in Seq(DOMAIN facts), Costs(took) <= FactBudget,
           NEW i \in DOMAIN facts
    PROVE  Take(took, i) \in Seq(DOMAIN facts) /\ Costs(Take(took, i)) <= FactBudget
<1>1. /\ Costs(took) \in Nat /\ FactSize[facts[i].says] \in Nat /\ FactBudget \in Nat
      /\ Costs(Append(took, i)) = Costs(took) + FactSize[facts[i].says]
  BY CostsAppended, CostTyped, FactsAssumption
<1>2. CASE Costs(took) + FactSize[facts[i].says] > FactBudget
  BY <1>2 DEF Take
<1>3. CASE ~(Costs(took) + FactSize[facts[i].says] > FactBudget)
  <2>1. Take(took, i) = Append(took, i)
    BY <1>3 DEF Take
  <2>2. Append(took, i) \in Seq(DOMAIN facts)
    OBVIOUS
  <2>3. Costs(took) + FactSize[facts[i].says] <= FactBudget
    BY <1>1, <1>3
  <2> QED BY <1>1, <2>1, <2>2, <2>3
<1> QED BY <1>2, <1>3

(* To take nothing fits. *)
LEMMA NothingCosts ==
    ASSUME facts \in Seq(Row)
    PROVE  <<>> \in {t \in Seq(DOMAIN facts) : Costs(t) <= FactBudget}
<1>1. <<>> \in Seq(DOMAIN facts) /\ Len(<<>>) = 0
  OBVIOUS
<1>2. Costs(<<>>) = 0
  BY <1>1, CostsUp
<1> QED BY <1>1, <1>2, FactsAssumption

LEMMA ChoiceUp ==
    ASSUME facts \in Seq(Row), Ranked \in Seq(DOMAIN facts)
    PROVE  \E f \in [0 .. Len(Ranked) -> {t \in Seq(DOMAIN facts) : Costs(t) <= FactBudget}] :
                /\ f[0] = <<>>
                /\ \A k \in 1 .. Len(Ranked) : f[k] = Take(f[k - 1], Ranked[k])
                /\ Choice = f[Len(Ranked)]
<1> DEFINE seq == Ranked
           n == Len(seq)
           S == {t \in Seq(DOMAIN facts) : Costs(t) <= FactBudget}
           step == [x \in S \X (1 .. n) |-> Take(x[1], seq[x[2]])]
           it == CHOOSE it : it = [s \in SUBSET DOMAIN seq |->
                    IF s = {} THEN <<>> ELSE LET x == Max(s) IN Take(it[s \ {x}], seq[x])]
<1>1. Choice = it[DOMAIN seq]
  BY DEF Choice, FoldLeft, MapThenFoldSet
<1>2. DOMAIN seq = 1 .. n /\ n \in Nat /\ \A k \in 1 .. n : seq[k] \in DOMAIN facts
  OBVIOUS
<1>3. <<>> \in S /\ \A x \in S, a \in DOMAIN facts : Take(x, a) \in S
  BY NothingCosts, TakeFits
<1>4. step \in [S \X (1 .. n) -> S]
  BY <1>2, <1>3
<1>5. PICK g \in [Places(n) -> S] : Folds(g, n, <<>>, step)
  <2> HIDE DEF n, S, step
  <2> QED BY <1>2, <1>3, <1>4, FoldDefined
<1>6. it = [s \in SUBSET DOMAIN seq |->
                IF s = {} THEN <<>> ELSE LET x == Max(s) IN Take(it[s \ {x}], seq[x])]
  <2>1. ASSUME NEW s \in Places(n), s # {}
        PROVE  g[s] = Take(g[s \ {Max(s)}], seq[Max(s)])
    <3>1. Max(s) \in 1 .. n /\ s \ {Max(s)} \in Places(n)
      BY <1>2, <2>1, GreatestIsOne DEF Places
    <3>2. g[s] = step[<<g[s \ {Max(s)}], Max(s)>>] /\ g[s \ {Max(s)}] \in S
      BY <1>5, <2>1, <3>1 DEF Folds
    <3> HIDE DEF S
    <3> QED BY <1>2, <3>1, <3>2
  <2>2. g[{}] = <<>>
    BY <1>5 DEF Folds, Places
  <2>3. g = [s \in SUBSET DOMAIN seq |->
              IF s = {} THEN <<>> ELSE LET x == Max(s) IN Take(g[s \ {x}], seq[x])]
    <3> HIDE DEF S, seq
    <3> QED BY <1>2, <1>5, <2>1, <2>2 DEF Places
  <2> QED BY <2>3
<1> HIDE DEF it
<1>7. it[{}] = <<>> /\ \A k \in 1 .. n : it[1 .. k] = Take(it[1 .. (k - 1)], seq[k])
  <2>1. it[{}] = <<>>
    BY <1>6
  <2>2. ASSUME NEW k \in 1 .. n PROVE it[1 .. k] = Take(it[1 .. (k - 1)], seq[k])
    <3>1. k \in 1 .. k /\ k \in Nat \ {0} /\ 1 .. k \in SUBSET DOMAIN seq
      BY <1>2
    <3>2. Max(1 .. k) = k /\ (1 .. k) \ {k} = 1 .. (k - 1)
      BY <3>1, UpTo
    <3> QED BY <1>6, <3>1, <3>2
  <2> QED BY <2>1, <2>2
<1> HIDE DEF S, n, seq, step
<1>8. \A k \in 0 .. n : it[1 .. k] \in S
  <2>1. it[{}] \in S /\ \A k \in 1 .. n : it[1 .. (k - 1)] \in S => it[1 .. k] \in S
    BY <1>2, <1>3, <1>7
  <2> QED BY <1>2, <2>1, FoldTyped
<1> DEFINE f == [k \in 0 .. n |-> it[1 .. k]]
<1>9. f \in [0 .. n -> S] /\ f[0] = <<>> /\ f[n] = Choice
  <2>1. 1 .. 0 = {}
    OBVIOUS
  <2> QED BY <1>1, <1>2, <1>7, <1>8, <2>1
<1>10. \A k \in 1 .. n : f[k] = Take(f[k - 1], seq[k])
  BY <1>2, <1>7
<1> HIDE DEF f
<1> QED BY <1>9, <1>10 DEF S, n, seq

(* What is chosen are rows there are, and it fits. *)
LEMMA ChoiceTyped ==
    ASSUME facts \in Seq(Row)
    PROVE  Choice \in Seq(DOMAIN facts) /\ FactsFitBudget
<1>1. Ranked \in Seq(DOMAIN facts)
  <2>1. Len([i \in DOMAIN facts |-> i]) \in Nat
    OBVIOUS
  <2> DEFINE n == Len([i \in DOMAIN facts |-> i])
             S == Seq(DOMAIN facts)
  <2>2. \E f \in [0 .. n -> S] : Ranked = f[n]
    BY RankedUp, Zenon
  <2> HIDE DEF n, S
  <2>3. Ranked \in S
    BY <2>1, <2>2 DEF n
  <2> QED BY <2>3 DEF S
<1>2. Len(Ranked) \in 0 .. Len(Ranked)
  BY <1>1
<1>3. Choice \in {t \in Seq(DOMAIN facts) : Costs(t) <= FactBudget}
  BY <1>1, <1>2, ChoiceUp
<1> QED BY <1>3 DEF FactsFitBudget

(* Rows that are no context are facts. *)
LEMMA OnlyFactsTyped ==
    ASSUME NEW texts \in Seq(Row)
    PROVE  OnlyFactsOf(texts) \in Seq({r \in Row : IsFact(r)})
<1>1. Len(texts) \in 0 .. Len(texts)
  OBVIOUS
<1> QED BY <1>1, OnlyFactsUp

(* So is what is listed. *)
LEMMA ListedTyped ==
    ASSUME facts \in Seq(Row), NEW places \in Seq(DOMAIN facts)
    PROVE  Listed(places) \in Seq(Facts)
<1> DEFINE texts == [k \in DOMAIN places |-> facts[places[k]]]
<1>1. texts \in Seq(Row)
  OBVIOUS
<1>2. OnlyFactsOf(texts) \in Seq({r \in Row : IsFact(r)})
  <2> HIDE DEF texts
  <2> QED BY <1>1, OnlyFactsTyped
<1>3. \A r \in {r \in Row : IsFact(r)} : r.says \in Facts
  BY DEF Row, IsFact
<1>4. \A q \in Seq({r \in Row : IsFact(r)}) : Said(q) \in Seq(Facts)
  <2> DEFINE R == {r \in Row : IsFact(r)}
  <2> HIDE DEF R
  <2>1. \A r \in R : r.says \in Facts
    BY <1>3 DEF R
  <2>2. ASSUME NEW q \in Seq(R) PROVE Said(q) \in Seq(Facts)
    <3>1. Len(q) \in Nat /\ DOMAIN q = 1 .. Len(q) /\ \A i \in 1 .. Len(q) : q[i] \in R
      OBVIOUS
    <3>2. Said(q) = [i \in 1 .. Len(q) |-> q[i].says]
      BY <3>1 DEF Said
    <3>3. \A i \in 1 .. Len(q) : q[i].says \in Facts
      BY <2>1, <3>1
    <3> DEFINE w == [i \in 1 .. Len(q) |-> q[i].says]
    <3>4. w \in [1 .. Len(q) -> Facts]
      BY <3>3
    <3>5. w \in Seq(Facts)
      <4> HIDE DEF w
      <4> QED BY <3>1, <3>4
    <3> QED BY <3>2, <3>5
  <2> QED BY <2>2 DEF R
<1> QED BY <1>2, <1>4 DEF Listed

-----------------------------------------------------------------------------
\* At most one of these rows is the summary.
AtMostOne(texts) == \A i, j \in DOMAIN texts : ~IsFact(texts[i]) /\ ~IsFact(texts[j]) => i = j

HoldsSummary(texts) == \E i \in DOMAIN texts : texts[i].says = Summary

LEMMA HasSummaryIs == HasSummary <=> HoldsSummary(facts)
BY DEF HasSummary, HoldsSummary, Said, ToSet

(* What a row is made of. *)
LEMMA RowIs ==
    ASSUME NEW r \in Row
    PROVE  /\ r.says \in Facts \cup {Summary} /\ r.days \in 0 .. MaxDays /\ r.reads \in 0 .. MaxReads
           /\ r = [says |-> r.says, days |-> r.days, reads |-> r.reads]
BY DEF Row

\* The rows are the same, read or older.
LEMMA RowsAge ==
    ASSUME NEW texts \in Seq(Row), NEW later, DOMAIN later = DOMAIN texts,
           \A i \in DOMAIN texts : later[i] \in Row /\ later[i].says = texts[i].says,
           later = [i \in DOMAIN texts |-> later[i]]
    PROVE  /\ later \in Seq(Row)
           /\ AtMostOne(texts) => AtMostOne(later)
           /\ HoldsSummary(texts) => HoldsSummary(later)
<1>1. later \in Seq(Row)
  <2>1. Len(texts) \in Nat /\ DOMAIN texts = 1 .. Len(texts)
    OBVIOUS
  <2>2. later \in [1 .. Len(texts) -> Row]
    BY <2>1
  <2> QED BY <2>1, <2>2
<1> QED BY <1>1 DEF AtMostOne, HoldsSummary, IsFact

(* To be chosen changes no text. *)
LEMMA ChooseAges ==
    ASSUME FactsTypeOK, Choose
    PROVE  /\ facts' \in Seq(Row) /\ AtMostOne(facts')
           /\ HoldsSummary(facts) => HoldsSummary(facts')
<1> DEFINE chosen == ToSet(Choice)
           read(r) == [r EXCEPT !.days = 0, !.reads = IF @ < MaxReads THEN @ + 1 ELSE @]
<1>1. facts \in Seq(Row) /\ AtMostOne(facts)
  BY DEF FactsTypeOK, AtMostOne
<1>2. facts' = [i \in DOMAIN facts |-> IF i \in chosen THEN read(facts[i]) ELSE facts[i]]
  BY DEF Choose
<1>3. ASSUME NEW r \in Row PROVE read(r) \in Row /\ read(r).says = r.says
  <2> DEFINE m == IF r.reads < MaxReads THEN r.reads + 1 ELSE r.reads
  <2>1. m \in 0 .. MaxReads /\ 0 \in 0 .. MaxDays
    BY RowIs, FactsAssumption
  <2>2. read(r) = [says |-> r.says, days |-> 0, reads |-> m]
    <3> DEFINE d == [r EXCEPT !.days = 0]
    <3>1. d = [says |-> r.says, days |-> 0, reads |-> r.reads]
      BY DEF Row
    <3>2. read(r) = [d EXCEPT !.reads = m]
      BY <3>1
    <3> HIDE DEF m, d
    <3>3. [d EXCEPT !.reads = m] = [says |-> r.says, days |-> 0, reads |-> m]
      BY <3>1
    <3> QED BY <3>2, <3>3
  <2> HIDE DEF m, read
  <2> QED BY <2>1, <2>2, RowIs DEF Row
<1> HIDE DEF chosen, read
<1>4. \A i \in DOMAIN facts : facts[i] \in Row
  BY <1>1
<1>5. DOMAIN facts' = DOMAIN facts /\ \A i \in DOMAIN facts :
        facts'[i] \in Row /\ facts'[i].says = facts[i].says
  BY <1>2, <1>3, <1>4
<1>6. facts' = [i \in DOMAIN facts |-> facts'[i]]
  BY <1>2
<1> QED BY <1>1, <1>5, <1>6, RowsAge

(* Nor does a day. *)
LEMMA DayAges ==
    ASSUME FactsTypeOK, DayPasses
    PROVE  /\ facts' \in Seq(Row) /\ AtMostOne(facts')
           /\ HoldsSummary(facts) => HoldsSummary(facts')
<1> DEFINE older(r) == [r EXCEPT !.days = IF @ < MaxDays THEN @ + 1 ELSE @]
<1>1. facts \in Seq(Row) /\ AtMostOne(facts)
  BY DEF FactsTypeOK, AtMostOne
<1>2. facts' = [i \in DOMAIN facts |-> older(facts[i])]
  BY DEF DayPasses
<1>3. \A r \in Row : older(r) \in Row /\ older(r).says = r.says
  BY FactsAssumption DEF Row
<1> HIDE DEF older
<1>4. \A i \in DOMAIN facts : facts[i] \in Row
  BY <1>1
<1>5. DOMAIN facts' = DOMAIN facts /\ \A i \in DOMAIN facts :
        facts'[i] \in Row /\ facts'[i].says = facts[i].says
  BY <1>2, <1>3, <1>4
<1>6. facts' = [i \in DOMAIN facts |-> facts'[i]]
  BY <1>2
<1> QED BY <1>1, <1>5, <1>6, RowsAge

\* A row is written behind rows.
LEMMA RowWritten ==
    ASSUME NEW texts \in Seq(Row), NEW f \in Facts \cup {Summary}
    PROVE  /\ Append(texts, New(f)) \in Seq(Row)
           /\ HoldsSummary(texts) \/ f = Summary => HoldsSummary(Append(texts, New(f)))
           /\ AtMostOne(texts) /\ (f = Summary => ~HoldsSummary(texts)) => AtMostOne(Append(texts, New(f)))
<1> DEFINE n == Len(texts)
           more == Append(texts, New(f))
<1>1. New(f) \in Row /\ New(f).says = f
  BY FactsAssumption DEF Row, New
<1>2. /\ n \in Nat /\ DOMAIN texts = 1 .. n /\ more \in Seq(Row) /\ DOMAIN more = 1 .. n + 1
      /\ more[n + 1] = New(f) /\ \A k \in 1 .. n : more[k] = texts[k]
  BY <1>1
<1> HIDE DEF n, more
<1>3. HoldsSummary(texts) \/ f = Summary => HoldsSummary(more)
  BY <1>1, <1>2 DEF HoldsSummary
<1>4. ASSUME AtMostOne(texts), f = Summary => ~HoldsSummary(texts)
      PROVE  AtMostOne(more)
  <2>1. \A i \in 1 .. n + 1 : ~IsFact(more[i]) =>
          \/ i = n + 1 /\ f = Summary
          \/ i \in 1 .. n /\ ~IsFact(texts[i]) /\ f # Summary
    BY <1>1, <1>2, <1>4 DEF IsFact, HoldsSummary
  <2> QED BY <1>2, <1>4, <2>1 DEF AtMostOne
<1> QED BY <1>2, <1>3, <1>4 DEF more

\* A row of facts is taken out of rows.
LEMMA RowRemoved ==
    ASSUME NEW texts \in Seq(Row), NEW i \in DOMAIN texts, IsFact(texts[i])
    PROVE  /\ RemoveAt(texts, i) \in Seq(Row)
           /\ HoldsSummary(texts) => HoldsSummary(RemoveAt(texts, i))
           /\ AtMostOne(texts) => AtMostOne(RemoveAt(texts, i))
<1> DEFINE n == Len(texts)
           rest == RemoveAt(texts, i)
<1>1. n \in Nat /\ i \in 1 .. n /\ DOMAIN texts = 1 .. n
  OBVIOUS
<1>2. rest \in Seq(Row) /\ DOMAIN rest = 1 .. n - 1
  BY <1>1 DEF RemoveAt
<1>3. \A k \in 1 .. n - 1 : rest[k] = IF k < i THEN texts[k] ELSE texts[k + 1]
  <2> DEFINE l == SubSeq(texts, 1, i - 1)
             r == SubSeq(texts, i + 1, n)
  <2>1. /\ l \in Seq(Row) /\ Len(l) = i - 1 /\ \A k \in 1 .. i - 1 : l[k] = texts[k]
        /\ r \in Seq(Row) /\ Len(r) = n - i /\ \A k \in 1 .. n - i : r[k] = texts[i + k]
    BY <1>1
  <2>2. rest = l \o r
    BY DEF RemoveAt
  <2> HIDE DEF l, r, rest, n
  <2> SUFFICES ASSUME NEW k \in 1 .. n - 1
               PROVE  rest[k] = IF k < i THEN texts[k] ELSE texts[k + 1]
    OBVIOUS
  <2>3. CASE k < i
    BY <1>1, <2>1, <2>2, <2>3
  <2>4. CASE ~(k < i)
    <3>1. k - (i - 1) \in 1 .. n - i /\ i + (k - (i - 1)) = k + 1
      BY <1>1, <2>4
    <3>2. rest[k] = r[k - (i - 1)]
      BY <1>1, <2>1, <2>2, <2>4
    <3> QED BY <2>1, <2>4, <3>1, <3>2
  <2> QED BY <2>3, <2>4
<1> HIDE DEF n, rest
<1>4. ASSUME HoldsSummary(texts) PROVE HoldsSummary(rest)
  <2>1. PICK j \in 1 .. n : texts[j].says = Summary
    BY <1>1, <1>4 DEF HoldsSummary
  <2>2. j # i
    BY <2>1 DEF IsFact
  <2>3. CASE j < i
    BY <1>1, <1>2, <1>3, <2>1, <2>3 DEF HoldsSummary
  <2>4. CASE j > i
    <3>1. j - 1 \in 1 .. n - 1 /\ ~(j - 1 < i) /\ (j - 1) + 1 = j
      BY <1>1, <2>4
    <3>2. rest[j - 1] = texts[j]
      BY <1>3, <3>1
    <3> QED BY <1>2, <2>1, <3>1, <3>2 DEF HoldsSummary
  <2> QED BY <1>1, <2>2, <2>3, <2>4
<1>5. ASSUME AtMostOne(texts) PROVE AtMostOne(rest)
  <2> DEFINE at(k) == IF k < i THEN k ELSE k + 1
  <2>1. \A k \in 1 .. n - 1 : at(k) \in 1 .. n /\ rest[k] = texts[at(k)]
    BY <1>1, <1>3
  <2>2. \A k, l \in 1 .. n - 1 : at(k) = at(l) => k = l
    BY <1>1
  <2> HIDE DEF at
  <2> QED BY <1>1, <1>2, <1>5, <2>1, <2>2 DEF AtMostOne
<1> QED BY <1>2, <1>4, <1>5 DEF rest

(* The summary replaces the one before. *)
LEMMA SummaryWritten ==
    ASSUME FactsTypeOK, SetSummary
    PROVE  facts' \in Seq(Row) /\ AtMostOne(facts') /\ HoldsSummary(facts')
<1> DEFINE rest == OnlyFactsOf(facts)
<1>1. rest \in Seq({r \in Row : IsFact(r)})
  BY OnlyFactsTyped DEF FactsTypeOK
<1> HIDE DEF rest
<1>2. rest \in Seq(Row) /\ \A k \in DOMAIN rest : IsFact(rest[k])
  BY <1>1
<1>3. AtMostOne(rest) /\ ~HoldsSummary(rest)
  BY <1>2 DEF AtMostOne, HoldsSummary, IsFact
<1>4. facts' = Append(rest, New(Summary))
  BY DEF SetSummary, rest
<1> QED BY <1>2, <1>3, <1>4, RowWritten

\* What a step does to the rows.
StillHolds ==
    /\ facts' \in Seq(Row) /\ AtMostOne(facts')
    /\ HoldsSummary(facts) => HoldsSummary(facts')

LEMMA FactsStep ==
    ASSUME FactsTypeOK, [FactsNext]_factVars
    PROVE  StillHolds
<1> USE DEF StillHolds
<1>1. facts \in Seq(Row) /\ AtMostOne(facts) /\ adding \in [Adders -> Facts \cup {NoFact}]
  BY DEF FactsTypeOK, AtMostOne
<1>2. CASE UNCHANGED facts
  BY <1>1, <1>2
<1>3. ASSUME NEW a \in Adders, InsertFact(a) PROVE StillHolds
  <2>1. adding[a] \in Facts /\ facts' = Append(facts, New(adding[a]))
    BY <1>1, <1>3 DEF InsertFact
  <2>2. adding[a] # Summary
    BY <2>1, FactsAssumption
  <2> QED BY <1>1, <2>1, <2>2, RowWritten
<1>4. ASSUME NEW n \in DOMAIN shown, RemoveFact(n) PROVE StillHolds
  <2>1. PICK i \in Visible(n) : facts' = RemoveAt(facts, i)
    BY <1>4 DEF RemoveFact
  <2>2. i \in DOMAIN facts /\ IsFact(facts[i])
    BY DEF Visible
  <2> QED BY <1>1, <2>1, <2>2, RowRemoved
<1>5. CASE SetSummary
  BY <1>5, SummaryWritten
<1>6. CASE Choose
  BY <1>6, ChooseAges
<1>7. CASE DayPasses
  BY <1>7, DayAges
<1> QED BY <1>2, <1>3, <1>4, <1>5, <1>6, <1>7
    DEF FactsNext, factVars, FindFact, ReadForPrompt, ShowFacts

(* And what it does to the rest. *)
LEMMA FactsTypeKept ==
    ASSUME FactsTypeOK, [FactsNext]_factVars
    PROVE  FactsTypeOK'
<1>1. facts' \in Seq(Row) /\ AtMostOne(facts')
  BY FactsStep DEF StillHolds
<1>2. /\ facts \in Seq(Row)
      /\ adding \in [Adders -> Facts \cup {NoFact}] /\ shown \in Seq(Facts)
  BY DEF FactsTypeOK
<1>3. adding' \in [Adders -> Facts \cup {NoFact}]
  BY <1>2 DEF FactsNext, factVars, InsertFact, FindFact, SetSummary, ReadForPrompt, ShowFacts,
              DayPasses, RemoveFact
<1>4. Listed(Choice) \in Seq(Facts) /\ Listed([i \in DOMAIN facts |-> i]) \in Seq(Facts)
  <2>1. Choice \in Seq(DOMAIN facts) /\ [i \in DOMAIN facts |-> i] \in Seq(DOMAIN facts)
    BY <1>2, ChoiceTyped
  <2> QED BY <1>2, <2>1, ListedTyped
<1>5. \/ shown' = shown \/ shown' = <<>>
      \/ shown' = Listed(Choice) \/ shown' = Listed([i \in DOMAIN facts |-> i])
  BY DEF FactsNext, factVars, InsertFact, FindFact, SetSummary, ReadForPrompt, ShowFacts,
              DayPasses, RemoveFact
<1>6. shown' \in Seq(Facts)
  <2>1. <<>> \in Seq(Facts)
    OBVIOUS
  <2> QED BY <1>2, <1>4, <1>5, <2>1, Zenon
<1> QED BY <1>1, <1>3, <1>6 DEF FactsTypeOK, AtMostOne

(* There are no facts. *)
LEMMA FactsAtFirst == FactsInit => FactsTypeOK
BY DEF FactsInit, FactsTypeOK

(* What the user and the summariser write is kept as rows, and the summary  *)
(* as one of them only, whatever has been chosen, aged or deleted.           *)
THEOREM FactsInvariance == FactsSpec => []FactsTypeOK
BY FactsAtFirst, FactsTypeKept, PTL DEF FactsSpec

(* The facts a prompt is given fit into the budget, in whatever order the    *)
(* scores have put them (facts.py:67-76).                                    *)
THEOREM FactsAlwaysFit == FactsSpec => []FactsFitBudget
<1>1. FactsTypeOK => FactsFitBudget
  BY ChoiceTyped DEF FactsTypeOK
<1> QED BY <1>1, FactsInvariance, PTL

(* No step loses the summary. *)
LEMMA SummaryStays == FactsTypeOK /\ [FactsNext]_factVars => [HasSummary => HasSummary']_factVars
<1> SUFFICES ASSUME FactsTypeOK, [FactsNext]_factVars, HasSummary PROVE HasSummary'
  OBVIOUS
<1>1. HoldsSummary(facts)
  BY HasSummaryIs
<1>2. HoldsSummary(facts')
  BY <1>1, FactsStep DEF StillHolds
<1>3. HasSummary' <=> HoldsSummary(facts')
  BY DEF HasSummary, HoldsSummary, Said, ToSet
<1> QED BY <1>2, <1>3

(* Once there is a summary there is one: no deletion of a fact, by whatever  *)
(* place in the list, deletes it (memory_db.py:486).                         *)
THEOREM SummaryAlwaysKept == FactsSpec => SummaryIsKept
BY SummaryStays, FactsInvariance, PTL DEF FactsSpec, SummaryIsKept

-----------------------------------------------------------------------------
(* All of them. *)

(* Each part starts as it does alone. *)
LEMMA PartsAtFirst == BackendInit => HeapInit /\ LoopInit /\ StoreInit /\ CacheInit /\ FactsInit
BY DEF BackendInit, NoTurns, NoChats

(* A step of the server is a step of a part, or leaves it alone. *)
LEMMA PartsStep ==
    [BackendNext]_backendVars =>
        /\ [HeapNext]_heapVars /\ [LoopNext]_loopVars
        /\ [StoreNext]_storeVars /\ [CacheNext]_cacheVars /\ [FactsNext]_factVars
BY DEF BackendNext, backendVars, Only, OnlyQueries, OnlyTurns, OnlyReports, OnlyAgents, OnlyFacts

\* The invariants of the five, whether or not saves overlap.
PartsInv ==
    /\ HeapInv
    /\ TalkInv /\ RInv /\ PoolInv
    /\ StoreInv /\ StoreTypeOK
    /\ CacheSound
    /\ FactsTypeOK

(* They hold at first and are kept together. *)
LEMMA PartsInvAtFirst == BackendInit => PartsInv
BY PartsAtFirst, HeapInvAtFirst, TalkAtFirst, CountedAtFirst, PoolAtFirst, InitStoreInv,
   StoreTypeAtFirst, CacheSoundAtFirst, FactsAtFirst DEF PartsInv

LEMMA PartsInvKept == PartsInv /\ [BackendNext]_backendVars => PartsInv'
<1> SUFFICES ASSUME PartsInv, [BackendNext]_backendVars PROVE PartsInv'
  OBVIOUS
<1> USE PartsStep DEF PartsInv
<1>1. HeapInv'
  BY HeapInvKept
<1>2. TalkInv' /\ RInv'
  BY TalkKept, CountKept
<1>3. PoolInv'
  BY <1>2, PoolKept
<1>4. StoreInv' /\ StoreTypeOK'
  BY StoreInvKept, StoreTypeKept
<1>5. CacheSound'
  BY CacheSoundKept
<1>6. FactsTypeOK'
  BY FactsTypeKept
<1> QED BY <1>1, <1>2, <1>3, <1>4, <1>5, <1>6

THEOREM PartsInvariance == BackendSpec => []PartsInv
BY PartsInvAtFirst, PartsInvKept, PTL DEF BackendSpec

(* The types of the five, and what they say of the pool that turns share, of  *)
(* the agent that is kept and of the summary, for any number of askers,       *)
(* turns, uploads, saves and facts.                                          *)
THEOREM BackendTypeCorrect == BackendSpec => []BackendTypeOK
<1>1. PartsInv => BackendTypeOK
  BY HeapInvMeans, LoopIsTyped, CacheSoundMeans DEF PartsInv, BackendTypeOK
<1> QED BY <1>1, PartsInvariance, PTL

(* The server keeps what its parts promise, for any number of askers, turns,  *)
(* uploads, removals and facts: no step of one part disturbs the state of     *)
(* another.                                                                  *)
THEOREM PartsHoldTogether ==
    BackendSpec => /\ [](NothingMadeUp /\ ToldIsForgotten)
                   /\ [](PromptIsWhole /\ MessagesAreTrue /\ RoundsAreBounded)
                   /\ [](PlacesAgree /\ DeletedOnce)
                   /\ []FactsFitBudget /\ SummaryIsKept
<1>1. PartsInv => NothingMadeUp /\ ToldIsForgotten
  BY HeapInvMeans DEF PartsInv
<1>2. PartsInv => PromptIsWhole /\ MessagesAreTrue /\ RoundsAreBounded
  BY TalkIsWhole, TalkIsTrue, CountIsBounded DEF PartsInv
<1>3. PartsInv => PlacesAgree /\ DeletedOnce
  BY DEF PartsInv, StoreInv, PlacesAgree
<1>4. PartsInv => FactsFitBudget
  BY ChoiceTyped DEF PartsInv, FactsTypeOK
<1>5. PartsInv /\ [BackendNext]_backendVars => [HasSummary => HasSummary']_factVars
  BY PartsStep, SummaryStays DEF PartsInv
<1> QED
  BY <1>1, <1>2, <1>3, <1>4, <1>5, PartsInvariance, PTL DEF BackendSpec, SummaryIsKept

(* With one save at a time, whoever asks for the agent gets what was saved.   *)
THEOREM AgentStaysRecent == ASSUME ~Overlap PROVE BackendSpec => []SavedIsUsed
<1>1. BackendInit => CacheInv
  BY PartsAtFirst, CacheInvAtFirst
<1>2. CacheInv /\ [BackendNext]_backendVars => CacheInv'
  BY PartsStep, CacheInvKept
<1>3. CacheInv => SavedIsUsed
  BY DEF CacheInv
<1>4. QED
  BY <1>1, <1>2, <1>3, PTL DEF BackendSpec
=============================================================================
