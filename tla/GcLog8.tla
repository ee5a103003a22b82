-------------------------------- MODULE GcLog8 --------------------------------
(***************************************************************************)
(* Parsing the GC log of a Java 8 virtual machine (react_agent/             *)
(* gc_analyzer/jdk8).  First a state machine groups the lines into events   *)
(* (preprocess_state.py), then a loop classifies each group and takes its   *)
(* figures (jdk8/__init__.py).                                              *)
(*                                                                         *)
(* A line is what the recognisers see of it: its marks, the brackets it     *)
(* leaves open, and the block it belongs to.  A block is all the virtual    *)
(* machine writes for one collection (or a header, a safepoint, ...); it    *)
(* is torn if the machine was killed while writing it and another appended  *)
(* to the same file.                                                        *)
(*                                                                         *)
(*   ts, indented  begins with a time stamp, with a blank                   *)
(*   open          [GC , [Full GC  or [CMS-concurrent-  somewhere           *)
(*   full          [Full GC  at the start                                   *)
(*   heapBefore, heapAfter, brace    the heap blocks                        *)
(*   safepoint, times                Application time: and the like, [Times:*)
(*   secs, close   ", X secs", "secs]"                                      *)
(*   heap, detail  A->B(C), the Heap: part of a G1 detail line              *)
(*   concurrent, dedup, cms, markStart, remark, pause, cleanup   phases     *)
(*   phases        of a remark, printed with their times before its own     *)
(*   mixed, initialMark   of a G1 pause                                     *)
(***************************************************************************)
EXTENDS Integers, Sequences, SequencesExt

CONSTANTS
    Logs8,      \* the logs: sequences of blocks
    LookAhead,  \* how far a Full GC looks for its figures: 8
    Window      \* lines that are searched for signs of Java 8: 200

ASSUME Log8Assumption ==
    /\ LookAhead \in Nat /\ Window \in Nat
    \* Logs are sequences of blocks, and blocks of lines.
    /\ \A g \in Logs8 :
        /\ g \in Seq(ToSet(g))
        /\ \A b \in ToSet(g) : b.lines \in Seq(ToSet(b.lines))

VARIABLES
    blocks,    \* what the virtual machine wrote
    text,      \* its lines
    pos,       \* lines read
    st,        \* state of the machine
    cur,       \* the lines of the event in progress
    depth,     \* brackets it has open
    raw,       \* the groups
    at,        \* the group to be classified, 0 while reading
    events8,   \* the result
    gens,      \* names of generations seen
    collector8

log8Vars == <<blocks, text, pos, st, cur, depth, raw, at, events8, gens, collector8>>

------------------------------------------------------------------------------
(* Which format?  The text is taken for Java 8 if one of its first lines     *)
(* looks like it: flags that only Java 8 prints, an event, a generation or a  *)
(* CMS phase.                                                                *)
Jdk8Marks == {"flags", "cms"} \cup {"PSYoungGen", "ParOldGen", "ParNew", "DefNew", "Tenured", "CMS"}
IsJdk8(lines) ==
    \E i \in DOMAIN lines :
        /\ i <= Window
        /\ \/ lines[i].marks \cap Jdk8Marks # {}
           \/ "open" \in lines[i].marks /\ ("ts" \in lines[i].marks \/ "indented" \notin lines[i].marks)

(* The lines of a block carry its number.                                    *)
Numbered(n, block) ==
    [i \in DOMAIN block.lines |->
        [marks |-> block.lines[i].marks, delta |-> block.lines[i].delta, block |-> n]]

Log8Init ==
    /\ blocks \in Logs8
    /\ text = FlattenSeq([n \in DOMAIN blocks |-> Numbered(n, blocks[n])])
    /\ pos = 0
    /\ st = IF IsJdk8(text) THEN "SEEKING" ELSE "JDK9"
    /\ cur = <<>> /\ depth = 0 /\ raw = <<>>
    /\ at = 0 /\ events8 = <<>> /\ gens = {} /\ collector8 = "None"

------------------------------------------------------------------------------
(* The state machine.  In each state the recognisers are tried in an order;  *)
(* the first that sees its mark decides.                                     *)

Line == text[pos + 1]
Sees(m) ==
    CASE m = "fresh" -> "open" \in Line.marks /\ "indented" \notin Line.marks
      [] m = "more"  -> "ts" \notin Line.marks
      [] OTHER       -> m \in Line.marks

Order_CloseFirst ==
    [SEEKING        |-> <<"heapBefore", "heapAfter", "open", "safepoint">>,
     IN_HEAP_BEFORE |-> <<"open", "brace">>,
     IN_HEAP_AFTER  |-> <<"brace">>,
     IN_EVENT       |-> <<"close", "fresh", "times", "heapAfter", "heapBefore", "safepoint", "more">>]
Order ==
    [SEEKING        |-> <<"heapBefore", "heapAfter", "open", "safepoint">>,
     IN_HEAP_BEFORE |-> <<"open", "brace">>,
     IN_HEAP_AFTER  |-> <<"brace">>,
     IN_EVENT       |-> <<"fresh", "times", "close", "heapAfter", "heapBefore", "safepoint", "more">>]

FirstOf(order, Test(_), otherwise) ==
    LET fit == {i \in DOMAIN order : Test(order[i])}
    IN  IF fit = {} THEN otherwise ELSE order[Min(fit)]
Class == FirstOf(Order[st], Sees, "other")

(* Groups are only added with something in them.                             *)
Emit(lines) == raw' = IF lines = <<>> THEN raw ELSE Append(raw, lines)
Holds(lines) ==
    /\ cur' = lines
    /\ depth' = IF lines = <<>> THEN 0 ELSE Head(lines).delta

EnterHeapBlock ==
    /\ st = "SEEKING" /\ Class \in {"heapBefore", "heapAfter"}
    /\ st' = IF Class = "heapBefore" THEN "IN_HEAP_BEFORE" ELSE "IN_HEAP_AFTER"
    /\ UNCHANGED <<cur, depth, raw>>

OpenEvent ==
    /\ st \in {"SEEKING", "IN_HEAP_BEFORE"} /\ Class = "open"
    /\ st' = "IN_EVENT"
    /\ Holds(<<Line>>)
    /\ UNCHANGED raw

(* A line that is no event is a group of its own: flags are read from it.    *)
Standalone ==
    /\ st = "SEEKING" /\ Class = "other"
    /\ Emit(<<Line>>)
    /\ UNCHANGED <<st, cur, depth>>

Ignore ==
    /\ \/ st = "SEEKING" /\ Class = "safepoint"
       \/ st \in {"IN_HEAP_BEFORE", "IN_HEAP_AFTER"} /\ Class = "other"
    /\ UNCHANGED <<st, cur, depth, raw>>

LeaveHeapBlock ==
    /\ st \in {"IN_HEAP_BEFORE", "IN_HEAP_AFTER"} /\ Class = "brace"
    /\ Emit(cur)
    /\ Holds(<<>>)
    /\ st' = "SEEKING"

(* While brackets are open even a new event belongs to the one in progress:  *)
(* a G1 Full GC may have concurrent phases inside.                           *)
Belongs == Class \in {"times", "more"} \/ (Class = "fresh" /\ depth > 0)
Continue ==
    /\ st = "IN_EVENT" /\ Belongs
    /\ cur' = Append(cur, Line)
    /\ depth' = depth + Line.delta
    /\ UNCHANGED <<st, raw>>

Reopen ==
    /\ st = "IN_EVENT" /\ Class = "fresh" /\ ~Belongs
    /\ Emit(cur)
    /\ Holds(<<Line>>)
    /\ UNCHANGED st

CloseEvent ==
    /\ st = "IN_EVENT" /\ Class = "close"
    /\ Emit(Append(cur, Line))
    /\ Holds(<<>>)
    /\ st' = "SEEKING"

(* The event stays open over the block that follows it.                      *)
Suspend ==
    /\ st = "IN_EVENT" /\ Class = "heapAfter"
    /\ st' = "IN_HEAP_AFTER"
    /\ UNCHANGED <<cur, depth, raw>>

(* Any other line ends the event and is itself dropped.                      *)
Interrupt ==
    /\ st = "IN_EVENT" /\ Class \in {"heapBefore", "safepoint", "other"}
    /\ Emit(cur)
    /\ Holds(<<>>)
    /\ st' = IF Class = "heapBefore" THEN "IN_HEAP_BEFORE" ELSE "SEEKING"

ReadLine ==
    /\ at = 0 /\ st # "JDK9" /\ pos < Len(text)
    /\ pos' = pos + 1
    /\ \/ EnterHeapBlock \/ OpenEvent \/ Standalone \/ Ignore \/ LeaveHeapBlock
       \/ Continue \/ Reopen \/ CloseEvent \/ Suspend \/ Interrupt
    /\ UNCHANGED <<blocks, text, at, events8, gens, collector8>>

EndOfText ==
    /\ at = 0 /\ st # "JDK9" /\ pos = Len(text)
    /\ Emit(cur)
    /\ cur' = <<>>
    /\ at' = 1
    /\ UNCHANGED <<blocks, text, pos, st, depth, events8, gens, collector8>>

------------------------------------------------------------------------------
(* Classification.  What a group says is what its lines say.                 *)

Says8(g, m) == \E k \in DOMAIN g : m \in g[k].marks
Generations == {"PSYoungGen", "ParOldGen", "ParNew", "DefNew", "Tenured", "CMS"}
GenerationsOf(g) == {m \in Generations : Says8(g, m)}

(* The block whose figure is taken: the last heap change, the first time     *)
(* after it (the first of all if there is none), else the first [Times:.     *)
LastHeap(g) == SelectLastInSeq(g, LAMBDA l : "heap" \in l.marks)
HeapOf(g) == IF LastHeap(g) = 0 THEN 0 ELSE g[LastHeap(g)].block
FirstTime(g, from) ==
    LET k == SelectInSubSeq(g, from, Len(g), LAMBDA l : "secs" \in l.marks)
        t == SelectInSeq(g, LAMBDA l : "times" \in l.marks)
    IN  IF k > 0 THEN g[k].block ELSE IF t > 0 THEN g[t].block ELSE 0
TimeOf(g) == FirstTime(g, IF LastHeap(g) = 0 THEN 1 ELSE LastHeap(g))
FirstWith(g, m) == g[SelectInSeq(g, LAMBDA l : m \in l.marks)]

(* An event: its category, the block its time stamp is of, the blocks its    *)
(* heap and its pause are of (0: of none; -n: of a phase inside block n), and *)
(* whether its text names G1 (that of a phase and of a remark is not kept).  *)
Event8(cat, g, heap, time) ==
    [cat |-> cat, block |-> Head(g).block, heap |-> heap, time |-> time,
     g1 |-> cat \notin {"Concurrent", "Remark"} /\ Says8(g, "g1")]

(* A line without time stamp counts if it begins with an event; a group      *)
(* without event is passed over.                                             *)
IsGc(g) ==
    /\ "ts" \in Head(g).marks \/ ("open" \in Head(g).marks /\ "cms" \notin Head(g).marks)
    /\ Says8(g, "open")

(* The branches of the loop, in their order.                                 *)
Applies(g, seen, branch) ==
    CASE branch = "full"         -> "full" \in Head(g).marks
      [] branch = "concurrent"   -> Says8(g, "concurrent") /\ HeapOf(g) = 0
      [] branch = "remark"       -> Says8(g, "remark") /\ HeapOf(g) = 0
      [] branch = "generational" -> seen # {} \/ HeapOf(g) # 0
      [] OTHER                   -> Says8(g, branch)
Branches == <<"full", "concurrent", "dedup", "cms", "markStart", "remark", "pause", "cleanup", "generational">>
BranchOf(g, seen) == FirstOf(Branches, LAMBDA b : Applies(g, seen, b), "none")

G1Category(g) ==
    LET marks == FirstWith(g, "pause").marks
    IN  IF "initialMark" \in marks THEN "InitialMark"
        ELSE IF "mixed" \in marks THEN "Mixed" ELSE "Young"

(* The heap of a G1 pause may stand in a detail line, of this group or of a  *)
(* later one that has no time stamp.                                         *)
DetailOf(g) ==
    LET k == SelectInSeq(g, LAMBDA l : "detail" \in l.marks) IN IF k = 0 THEN 0 ELSE g[k].block
LaterDetail(i) ==
    LET j == SelectInSubSeq(raw, i + 1, Len(raw),
                            LAMBDA g : Head(g).marks \cap {"ts", "times"} # {} \/ DetailOf(g) # 0)
    IN  IF j = 0 \/ "ts" \in Head(raw[j]).marks THEN 0 ELSE DetailOf(raw[j])
PauseHeap(i) ==
    IF HeapOf(raw[i]) # 0 THEN HeapOf(raw[i])
    ELSE IF DetailOf(raw[i]) # 0 THEN DetailOf(raw[i]) ELSE LaterDetail(i)

(* A generational collection is full if it says so, collects the CMS         *)
(* generation, or failed to promote.                                         *)
IsFull(g) == Says8(g, "full") \/ Says8(g, "CMS") \/ Says8(g, "promotionFailed")

Collector(names) ==
    IF names \cap {"PSYoungGen", "ParOldGen", "ParNew"} # {} THEN "Parallel"
    ELSE IF names \cap {"DefNew", "Tenured"} # {} THEN "Serial"
    ELSE IF "CMS" \in names THEN "CMS" ELSE "None"
First(a, b) == IF a # "None" THEN a ELSE b

Group == raw[at]
Seen == gens \cup GenerationsOf(Group)

Pass(next, new) ==
    /\ at' = next
    /\ events8' = events8 \o new
    /\ UNCHANGED <<blocks, text, pos, st, cur, depth, raw>>

SkipGroup ==
    /\ ~IsGc(Group)
    /\ Pass(at + 1, <<>>)
    /\ UNCHANGED <<gens, collector8>>

(* A Full GC without figures takes the first heap change of one of the next  *)
(* groups, be it that of a generation, if any time is closed after it; this  *)
(* group is then consumed, with those between.  A time it prints is the      *)
(* pause, or else that of the group that opened it.  Where there is none the *)
(* Full GC is dropped.                                                       *)
FirstHeap(g) == SelectInSeq(g, LAMBDA l : "heap" \in l.marks)
FirstHeapOf(g) ==
    LET l == g[FirstHeap(g)]
    IN  IF l.marks \cap (Generations \cup {"promotionFailed"}) = {} THEN l.block ELSE 0
ClosingGroup(i) ==
    SelectInSubSeq(raw, i + 1, IF i + LookAhead - 1 < Len(raw) THEN i + LookAhead - 1 ELSE Len(raw),
                   LAMBDA g : /\ FirstHeap(g) # 0
                              /\ \E k \in FirstHeap(g) .. Len(g) : g[k].marks \cap {"close", "times"} # {})
ClosingTime(g) ==
    LET k == SelectInSeq(g, LAMBDA l : {"secs", "close"} \subseteq l.marks)
    IN  IF k = 0 THEN TimeOf(Group) ELSE g[k].block
FullGc ==
    LET j == ClosingGroup(at)
    IN  /\ BranchOf(Group, Seen) = "full"
        /\ IF HeapOf(Group) # 0
           THEN Pass(at + 1, <<Event8("Full", Group, HeapOf(Group), TimeOf(Group))>>)
           ELSE IF j # 0
           THEN Pass(j + 1, <<Event8("Full", Group, FirstHeapOf(raw[j]), ClosingTime(raw[j]))>>)
           ELSE Pass(at + 1, <<>>)
        /\ UNCHANGED collector8

Concurrent ==
    LET phase == FirstWith(Group, BranchOf(Group, Seen))
    IN  /\ BranchOf(Group, Seen) \in {"concurrent", "cms"}
        /\ Pass(at + 1, <<Event8("Concurrent", Group, 0, IF "secs" \in phase.marks THEN phase.block ELSE 0)>>)
        /\ UNCHANGED collector8

(* String deduplication prints a heap change that is not one of the heap.    *)
Deduplication ==
    /\ BranchOf(Group, Seen) = "dedup"
    /\ Pass(at + 1, <<Event8("Concurrent", Group, 0, TimeOf(Group))>>)
    /\ UNCHANGED collector8

(* The start of marking with a heap change is taken for a mixed collection.  *)
MarkStart ==
    /\ BranchOf(Group, Seen) = "markStart"
    /\ Pass(at + 1, <<Event8("Mixed", Group, HeapOf(Group), TimeOf(Group))>>)
    /\ collector8' = First(collector8, "G1")

(* The first time of a remark is taken; where its phases are printed that is *)
(* the time of the first of them.                                            *)
Remark ==
    LET remark == FirstWith(Group, "remark")
    IN  /\ BranchOf(Group, Seen) = "remark"
        /\ Pass(at + 1, <<Event8("Remark", Group, 0, IF "phases" \in remark.marks THEN -remark.block ELSE remark.block)>>)
        /\ UNCHANGED collector8

G1Pause ==
    /\ BranchOf(Group, Seen) = "pause"
    /\ Pass(at + 1, <<Event8(G1Category(Group), Group, PauseHeap(at), TimeOf(Group))>>)
    /\ collector8' = First(collector8, "G1")

Cleanup ==
    /\ BranchOf(Group, Seen) = "cleanup"
    /\ Pass(at + 1, <<Event8("Cleanup", Group, FirstWith(Group, "cleanup").block, TimeOf(Group))>>)
    /\ UNCHANGED collector8

(* Young and full collections of the other collectors; without a heap change *)
(* (the pauses of CMS) there is no event.  What is no Full GC by name is one *)
(* by what it did only once the log has named a generation.                  *)
Generational ==
    LET full == IF Seen = {} THEN Says8(Group, "full") ELSE IsFull(Group)
    IN  /\ BranchOf(Group, Seen) = "generational"
        /\ Pass(at + 1, IF HeapOf(Group) = 0 THEN <<>>
                        ELSE <<Event8(IF full THEN "Full" ELSE "Young",
                                      Group, HeapOf(Group), TimeOf(Group))>>)
        /\ collector8' = First(collector8, Collector(Seen))

NoBranch ==
    /\ BranchOf(Group, Seen) = "none"
    /\ Pass(at + 1, <<>>)
    /\ UNCHANGED collector8

ClassifyGroup ==
    /\ at \in DOMAIN raw
    /\ \/ SkipGroup
       \/ /\ IsGc(Group)
          /\ gens' = Seen
          /\ \/ FullGc \/ Concurrent \/ Deduplication \/ MarkStart \/ Remark \/ G1Pause \/ Cleanup
             \/ Generational \/ NoBranch

(* The flags of the command line: CMS overrides what was inferred, the       *)
(* others fill in; then the generations, and at last what an event says.     *)
Flag(f) == \E i \in DOMAIN raw : Says8(raw[i], f)
Flagged(f, c) == IF Flag(f) THEN c ELSE "None"
LastGuess ==
    IF events8 = <<>> THEN "None"
    ELSE IF \E e \in ToSet(events8) : e.g1 THEN "G1" ELSE "Unknown"
InferCollector ==
    /\ at = Len(raw) + 1
    /\ at' = at + 1
    /\ collector8' =
         First(Flagged("UseCMS", "CMS"), First(collector8,
         First(Flagged("UseG1", "G1"), First(Flagged("UseParallel", "Parallel"),
         First(Flagged("UseSerial", "Serial"), First(Collector(gens), LastGuess))))))
    /\ UNCHANGED <<blocks, text, pos, st, cur, depth, raw, events8, gens>>

Log8Next == ReadLine \/ EndOfText \/ ClassifyGroup \/ InferCollector
Log8Spec == Log8Init /\ [][Log8Next]_log8Vars

------------------------------------------------------------------------------
(* What the parser owes its reader.  A block says what it is: its category   *)
(* ("none" for what is no collection), whether it prints its heap and its    *)
(* time, and whether it is torn.                                             *)

Finished8 == st = "JDK9" \/ at = Len(raw) + 2

(* A block can be read if it is whole and no block that is torn before it    *)
(* left a bracket or a heap block open.                                      *)
LeftOpen(b) ==
    \/ FoldSeq(LAMBDA l, d : l.delta + d, 0, b.lines) > 0
    \/ /\ \E i \in DOMAIN b.lines : "heapAfter" \in b.lines[i].marks
       /\ \A i \in DOMAIN b.lines : "brace" \notin b.lines[i].marks
Readable(n) == ~blocks[n].torn /\ \A t \in 1 .. n - 1 : blocks[t].torn => ~LeftOpen(blocks[t])

(* The log gives itself away early enough.                                   *)
Announced == IsJdk8(SelectSeq(text, LAMBDA l : l.block = 1))

Of8(n) == SelectSeq(events8, LAMBDA e : e.block = n)
IsTrue(n) ==
    /\ Len(Of8(n)) = IF blocks[n].cat = "none" THEN 0 ELSE 1
    /\ \A e \in ToSet(Of8(n)) : e.cat = blocks[n].cat
(* The time a block is charged with: its own, or where it is a remark that   *)
(* prints its phases that of the first of them.                              *)
PhaseFirst(n) == \E l \in ToSet(blocks[n].lines) : {"remark", "phases"} \subseteq l.marks
TimeGiven(n) == IF ~blocks[n].time THEN 0 ELSE IF PhaseFirst(n) THEN -n ELSE n
HasOwnFigures(n) ==
    \A e \in ToSet(Of8(n)) :
        /\ e.heap = (IF blocks[n].heap THEN n ELSE 0)
        /\ e.time = TimeGiven(n)

(* Types.                                                                    *)
Log8TypeOK ==
    /\ st \in {"SEEKING", "IN_HEAP_BEFORE", "IN_HEAP_AFTER", "IN_EVENT", "JDK9"}
    /\ pos \in 0 .. Len(text)
    /\ at \in 0 .. Len(raw) + 2
    /\ \A i \in DOMAIN raw : raw[i] # <<>>
    /\ st = "IN_EVENT" /\ at = 0 => cur # <<>>
    /\ collector8 \in {"None", "Unknown", "G1", "Parallel", "Serial", "CMS"}
    /\ \A i \in DOMAIN events8 : events8[i].block \in DOMAIN blocks

(* Every collection gives one event, of its category, in the order of the    *)
(* log, whatever is printed around and inside it: heap blocks, notes of the  *)
(* size policy, concurrent phases, safepoints, a machine killed and started  *)
(* again.                                                                    *)
EveryCollectionOnce ==
    Finished8 /\ Announced =>
        /\ \A n \in DOMAIN blocks : Readable(n) => IsTrue(n)
        /\ \A i, j \in DOMAIN events8 : i < j => events8[i].block < events8[j].block

(* Its heap and its time are from its own block and no other's, though they  *)
(* may stand many lines below its time stamp.  The time is the whole pause   *)
(* except in a remark that prints its phases (PauseIsWhole).                 *)
OwnFigures == Finished8 => \A n \in DOMAIN blocks : Readable(n) => HasOwnFigures(n)

(* No heap change is counted for two events, torn or not: a Full GC that     *)
(* takes the figures of a later group takes them away from it.               *)
NoFigureTwice ==
    \A i, j \in DOMAIN events8 : i # j /\ events8[i].heap # 0 => events8[i].heap # events8[j].heap

(* The flags stand in the first block, which is nothing else, and name the   *)
(* collector that wrote the log: no line is marked as another would mark it. *)
UseFlag == [G1 |-> "UseG1", CMS |-> "UseCMS", Parallel |-> "UseParallel", Serial |-> "UseSerial"]
OwnMarks(c) ==
    CASE c = "G1"       -> {"pause", "markStart"}
      [] c = "Parallel" -> {"PSYoungGen", "ParOldGen"}
      [] c = "Serial"   -> {"DefNew", "Tenured"}
      [] OTHER          -> {"ParNew", "CMS"}
TellTales == Generations \cup {"pause", "markStart"} \cup {UseFlag[c] : c \in DOMAIN UseFlag}
FlagsFirst ==
    \A g \in Logs8, c \in DOMAIN UseFlag :
        /\ \A b \in ToSet(g) : b.by = c
        /\ g # <<>>
        /\ \E l \in ToSet(g[1].lines) : "flags" \in l.marks
        => /\ \A l \in ToSet(g[1].lines) :
                /\ l.marks \subseteq {"flags", UseFlag[c]}
                /\ "flags" \in l.marks => UseFlag[c] \in l.marks
           /\ \A b \in ToSet(g) : \A l \in ToSet(b.lines) :
                l.marks \cap TellTales \subseteq OwnMarks(c) \cup {UseFlag[c]}

(* The collector is the one the command line names, not the one the young    *)
(* generation suggests (ParNew is what CMS uses).                            *)
CollectorOfFlags ==
    Finished8 /\ st # "JDK9" =>
        \A c \in {"G1", "CMS", "Parallel", "Serial"} :
            /\ \A n \in DOMAIN blocks : blocks[n].by = c
            /\ \E i \in DOMAIN text : text[i].block = 1 /\ "flags" \in text[i].marks
            => collector8 = c

(* What the machine wrote of a collection is what is reported of it, and is  *)
(* reported once (jdk8/__init__.py, preprocess_state.py); but for the remark *)
(* of which the first phase is reported.                                     *)
Log8IsReported == EveryCollectionOnce /\ OwnFigures /\ NoFigureTwice /\ CollectorOfFlags

(* base_parser.py, at _RE_REMARK: "[GC remark ... , X.XXXXXXX secs]", the    *)
(* time at the end, is the pause.  The code does not keep this: the pattern  *)
(* takes the first time it meets, that of the first phase.                   *)
PauseIsWhole ==
    Finished8 => \A n \in DOMAIN blocks : Readable(n) =>
                     \A e \in ToSet(Of8(n)) : e.time = (IF blocks[n].time THEN n ELSE 0)

(* base_parser.py: "a single bad line must not kill the whole parse": after  *)
(* a torn block and the one that follows it all is read again.  The code     *)
(* does not keep this: open brackets swallow every later event.              *)
NoLineKillsTheRest ==
    Finished8 /\ Announced =>
        \A n \in DOMAIN blocks :
            (\A t \in DOMAIN blocks : blocks[t].torn => n < t \/ n > t + 1) => IsTrue(n)
=============================================================================
