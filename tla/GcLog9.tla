-------------------------------- MODULE GcLog9 --------------------------------
(***************************************************************************)
(* Parsing the unified GC log of Java 9 and later (react_agent/gc_analyzer/ *)
(* jdk9).  The virtual machine writes the lines of its cycles, and where    *)
(* they are concurrent the lines of one come between those of another; the  *)
(* parser reads a line at a time and puts together what has the same number *)
(* GC(n).  A step of the model writes a line and reads it.                  *)
(*                                                                         *)
(* A line is [tag, type, says, heap, timed, holds]: its tag (start, gc,     *)
(* phases, other), its text up to the figures and the words of it that      *)
(* matter, its heap figures ("before->after(total)", "before%->after%" or   *)
(* "no"), whether it ends in milliseconds, and whether the machine writes   *)
(* nothing else before the next line of the cycle (it stands still).        *)
(***************************************************************************)
EXTENDS Integers, Sequences, SequencesExt, FiniteSets, FiniteSetsExt

CONSTANT Logs9   \* what a machine may write: sequences of cycles

ASSUME Log9Assumption ==
    \A log \in Logs9 :
        /\ Len(log) \in Nat /\ DOMAIN log = 1 .. Len(log)
        /\ \A n \in DOMAIN log : Len(log[n]) \in Nat /\ DOMAIN log[n] = 1 .. Len(log[n])

VARIABLES
    cycles,      \* the cycles of this log; its n-th is GC(n)
    written,     \* lines of it: pairs of a cycle and a line of it, in order
    clocked,     \* the lines tell the time since the start
    by_key,      \* events in the order their keys were first seen
    startOf,     \* [number -> line of its last start, 0 if none]
    zgcHeap,     \* [number -> line of its last summary in percent]
    totalHeap,   \* [number -> line of its last heap change with a total]
    stage9       \* reading, events, starts, heaps, done

log9Vars == <<cycles, written, clocked, by_key, startOf, zgcHeap, totalHeap, stage9>>

Log9Init ==
    /\ cycles \in Logs9
    /\ clocked \in BOOLEAN
    /\ written = <<>> /\ by_key = <<>> /\ stage9 = "reading"
    /\ startOf = [n \in DOMAIN cycles |-> 0]
    /\ zgcHeap = [n \in DOMAIN cycles |-> 0]
    /\ totalHeap = [n \in DOMAIN cycles |-> 0]

------------------------------------------------------------------------------
(* What a line says, in the order in which the words decide.                 *)
Classify(says) ==
    CASE says \cap {"full", "major"} # {} \/ {"collection", "fullCause"} \subseteq says -> "Full"
      [] "mixed" \in says -> "Mixed"
      [] "minor" \in says \/ ("young" \in says /\ "generation" \notin says) -> "Young"
      [] says \cap {"mark start", "mark end", "relocate start", "relocate end"} # {} -> "ZGC"
      [] \/ says \cap {"degenerated", "final roots", "init mark", "final mark",
                       "init update refs", "final update refs", "concurrent marking"} # {}
         \/ {"concurrent", "cleanup"} \subseteq says /\ "for next mark" \notin says -> "Shenandoah"
      [] "remark" \in says -> "Remark"
      [] "concurrent" \in says -> "Concurrent"
      [] "cleanup" \in says -> "Cleanup"
      [] "initial mark" \in says -> "InitialMark"
      [] OTHER -> "Other"

(* An event: heap and pauses are lines its figures are of (heap 0: none).    *)
Event9(n, k, l, heap, pauses) ==
    [id |-> n, at |-> k, cat |-> Classify(l.says), type |-> l.type, heap |-> heap, pauses |-> pauses]
Key(e) == <<e.id, e.cat, e.type>>
Place(events, e) == SelectInSeq(events, LAMBDA o : Key(o) = Key(e))

Enter(events, e) == IF Place(events, e) = 0 THEN Append(events, e) ELSE events
(* What has a heap replaces what has the same key: of two lines of the same  *)
(* text the last stays.                                                      *)
Overwrite(events, e) ==
    IF Place(events, e) = 0 THEN Append(events, e) ELSE [events EXCEPT ![Place(events, e)] = e]

(* The tag is asked only of a line without heap.                             *)
IsPhase(l) == l.timed /\ l.tag \in {"gc", "phases"} /\ l.says \cap {"pause", "concurrent"} # {}

ReadStart(n, k, l) ==
    /\ l.tag = "start"
    /\ startOf' = [startOf EXCEPT ![n] = k]
    /\ UNCHANGED <<by_key, zgcHeap, totalHeap>>

ReadMain(n, k, l) ==
    /\ l.tag # "start" /\ l.heap = "total" /\ l.timed
    /\ by_key' = Overwrite(by_key, Event9(n, k, l, k, {k}))
    /\ totalHeap' = [totalHeap EXCEPT ![n] = k]
    /\ UNCHANGED <<startOf, zgcHeap>>

(* The summary of a ZGC cycle is an event only of a full collection.         *)
ReadSummary(n, k, l) ==
    /\ l.tag # "start" /\ l.heap = "percent"
    /\ by_key' = IF Classify(l.says) = "Full" THEN Enter(by_key, Event9(n, k, l, k, {})) ELSE by_key
    /\ zgcHeap' = [zgcHeap EXCEPT ![n] = k]
    /\ UNCHANGED <<startOf, totalHeap>>

ReadOther(n, k, l) ==
    /\ l.tag # "start" /\ l.heap = "no"
    /\ by_key' = IF IsPhase(l) THEN Enter(by_key, Event9(n, k, l, 0, {k})) ELSE by_key
    /\ UNCHANGED <<startOf, zgcHeap, totalHeap>>

------------------------------------------------------------------------------
(* The machine: who may write next.  Numbers are given in the order of       *)
(* starting.                                                                 *)
WrittenOf(n) == Cardinality({k \in DOMAIN written : written[k][1] = n})
Begun == {n \in DOMAIN cycles : WrittenOf(n) > 0}
NextOf(n) == cycles[n][WrittenOf(n) + 1]
LineAt(k) == cycles[written[k][1]][written[k][2]]
MayWrite(n) ==
    /\ WrittenOf(n) < Len(cycles[n])
    /\ \A m \in 1 .. n - 1 : m \in Begun
    /\ written # <<>> /\ LineAt(Len(written)).holds => written[Len(written)][1] = n

ReadLine9 ==
    \E n \in DOMAIN cycles :
        /\ stage9 = "reading" /\ MayWrite(n)
        /\ written' = Append(written, <<n, WrittenOf(n) + 1>>)
        /\ LET k == Len(written) + 1
           IN  \/ ReadStart(n, k, NextOf(n)) \/ ReadMain(n, k, NextOf(n))
               \/ ReadSummary(n, k, NextOf(n)) \/ ReadOther(n, k, NextOf(n))
        /\ UNCHANGED <<cycles, clocked, stage9>>

------------------------------------------------------------------------------
(* After the last line.                                                      *)

(* ZGC: a full collection takes the sum of the pauses of its number.         *)
PausesOf(n) == UNION {e.pauses : e \in {o \in ToSet(by_key) : o.id = n /\ o.cat = "ZGC"}}
SumPauses ==
    /\ stage9 = "reading" /\ \A n \in DOMAIN cycles : WrittenOf(n) = Len(cycles[n])
    /\ stage9' = "events"
    /\ by_key' = [i \in DOMAIN by_key |->
                    IF by_key[i].cat = "Full" /\ \E o \in ToSet(by_key) : o.id = by_key[i].id /\ o.cat = "ZGC"
                    THEN [by_key[i] EXCEPT !.pauses = PausesOf(by_key[i].id)] ELSE by_key[i]]
    /\ UNCHANGED <<cycles, written, clocked, startOf, zgcHeap, totalHeap>>

(* Sorted by time and number; without times by number alone.  The sort is    *)
(* stable.                                                                   *)
Time9(e) == IF clocked THEN e.at ELSE 0
Before9(events, i, j) ==
    \/ Time9(events[i]) < Time9(events[j])
    \/ Time9(events[i]) = Time9(events[j]) /\ events[i].id < events[j].id
    \/ Time9(events[i]) = Time9(events[j]) /\ events[i].id = events[j].id /\ i <= j
SortedEvents(events) ==
    LET rank(i) == Cardinality({j \in DOMAIN events : Before9(events, j, i)})
    IN  [r \in DOMAIN events |-> events[CHOOSE i \in DOMAIN events : rank(i) = r]]
SortEvents ==
    /\ stage9 = "events"
    /\ stage9' = "starts"
    /\ by_key' = SortedEvents(by_key)
    /\ UNCHANGED <<cycles, written, clocked, startOf, zgcHeap, totalHeap>>

(* Then every event gets the time of the last start of its number, and the   *)
(* list is not sorted again.                                                 *)
StartTime(n) == startOf[n]
ApplyStarts ==
    /\ stage9 = "starts"
    /\ stage9' = "heaps"
    /\ by_key' = [i \in DOMAIN by_key |->
                    IF StartTime(by_key[i].id) = 0 THEN by_key[i]
                    ELSE [by_key[i] EXCEPT !.at = StartTime(by_key[i].id)]]
    /\ UNCHANGED <<cycles, written, clocked, startOf, zgcHeap, totalHeap>>

(* What has no heap of its own gets that of the summary of its number, else  *)
(* that of its last heap change.                                             *)
Backfilled_AnyCycle(e) ==
    IF e.heap = 0 /\ \E n \in DOMAIN zgcHeap : zgcHeap[n] # 0 THEN Max({zgcHeap[n] : n \in DOMAIN zgcHeap})
    ELSE IF e.heap = 0 THEN totalHeap[e.id] ELSE e.heap
Backfilled(e) ==
    IF e.heap # 0 THEN e.heap
    ELSE IF zgcHeap[e.id] # 0 THEN zgcHeap[e.id] ELSE totalHeap[e.id]
BackfillHeaps ==
    /\ stage9 = "heaps"
    /\ stage9' = "done"
    /\ by_key' = [i \in DOMAIN by_key |-> [by_key[i] EXCEPT !.heap = Backfilled(by_key[i])]]
    /\ UNCHANGED <<cycles, written, clocked, startOf, zgcHeap, totalHeap>>

Log9Next == ReadLine9 \/ SumPauses \/ SortEvents \/ ApplyStarts \/ BackfillHeaps
Log9Spec == Log9Init /\ [][Log9Next]_log9Vars

------------------------------------------------------------------------------
CycleOf(k) == written[k][1]
LinesOf(n) == {k \in DOMAIN written : CycleOf(k) = n}

(* The lines that report a pause or a concurrent phase.                      *)
Reports9 ==
    {k \in DOMAIN written :
        LineAt(k).tag # "start" /\ (IsPhase(LineAt(k)) \/ LineAt(k).heap = "total")}
(* The text of a line occurs once in its cycle.  Where it does not (the      *)
(* second cleanup of a Shenandoah cycle, the end of marking of ZGC when it    *)
(* is tried again) the code keeps one of the two.                            *)
OnceInCycle(k) ==
    \A j \in Reports9 : CycleOf(j) = CycleOf(k) /\ LineAt(j).type = LineAt(k).type => j = k
(* One cycle is over before the other begins.                                *)
Apart(m, n) == \A j \in LinesOf(m), k \in LinesOf(n) : j < k

(* The lines of the logs are worded as the machine words them: what begins   *)
(* has no figures yet, a summary in percent is no phase, and the words of a  *)
(* line that reports something say what it is.                               *)
Worded ==
    \A machine \in Logs9 : \A n \in DOMAIN machine : \A i \in DOMAIN machine[n] :
        LET l == machine[n][i]
        IN  /\ l.tag = "start" => l.heap = "no"
            /\ l.heap = "percent" => ~IsPhase(l)
            /\ l.tag # "start" /\ (IsPhase(l) \/ l.heap = "total") => Classify(l.says) = l.is

(* Types.                                                                    *)
Log9TypeOK ==
    /\ stage9 \in {"reading", "events", "starts", "heaps", "done"}
    /\ \A i \in DOMAIN by_key :
         /\ by_key[i].id \in DOMAIN cycles
         /\ by_key[i].at \in DOMAIN written
         /\ by_key[i].heap \in 0 .. Len(written)
         /\ by_key[i].pauses \subseteq DOMAIN written
    /\ \A i, j \in DOMAIN by_key : i # j => Key(by_key[i]) # Key(by_key[j])

(* Every pause and every concurrent phase a line reports is in the list,     *)
(* once, with the category of the collection it is of, however the cycles    *)
(* were interleaved.                                                         *)
EveryPhaseInList ==
    stage9 # "reading" =>
        \A k \in Reports9 :
            OnceInCycle(k) =>
                \E i \in DOMAIN by_key :
                    /\ by_key[i].id = CycleOf(k) /\ by_key[i].type = LineAt(k).type
                    /\ by_key[i].cat = LineAt(k).is
                    /\ by_key[i].cat # "Full" => by_key[i].pauses = {k}

(* The pause of a full collection of ZGC is all the pauses of its own cycle, *)
(* of both generations, and of no other.                                     *)
FullPauseIsSum ==
    stage9 = "done" =>
        \A i \in DOMAIN by_key :
            LET own == {k \in LinesOf(by_key[i].id) \cap Reports9 : LineAt(k).is = "ZGC"}
            IN  by_key[i].cat = "Full" /\ own # {} /\ (\A k \in own : OnceInCycle(k))
                => by_key[i].pauses = own

(* The heap of an event was printed by its own cycle, and an event of a      *)
(* cycle that printed one has one.                                           *)
HeapOfOwnCycle ==
    stage9 = "done" =>
        \A i \in DOMAIN by_key :
            LET printed == {k \in LinesOf(by_key[i].id) : LineAt(k).heap # "no"}
            IN  by_key[i].heap \in (IF printed = {} THEN {0} ELSE printed)

(* Cycles that do not overlap are in the list one after the other, with      *)
(* times that say so; the trend of the heap and the search for the manual    *)
(* collection before a Full GC read the list in its order.                   *)
CyclesInOrder ==
    stage9 = "done" =>
        \A i, j \in DOMAIN by_key :
            by_key[i].id < by_key[j].id /\ Apart(by_key[i].id, by_key[j].id)
            => i < j /\ by_key[i].at < by_key[j].at

(* What the machine wrote of a cycle is what is reported of it, though other *)
(* cycles came in between (jdk9/__init__.py).                                *)
Log9IsReported == EveryPhaseInList /\ FullPauseIsSum /\ HeapOfOwnCycle /\ CyclesInOrder

(* jdk9/__init__.py: "overwrite uptime with GC start time": no event is dated *)
(* after the line that reports it.  The code does not keep this: a cycle      *)
(* with several starts gives all its events the last.                        *)
StartsBeforeItEnds ==
    stage9 = "done" =>
        \A i \in DOMAIN by_key : by_key[i].cat # "Full" => \A k \in by_key[i].pauses : by_key[i].at <= k
=============================================================================
