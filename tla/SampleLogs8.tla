----------------------------- MODULE SampleLogs8 -----------------------------
(* The blocks a Java 8 virtual machine writes, taken from the logs under     *)
(* src/_tests.  After a header any two of them follow, or three of the short *)
(* ones (CMS: two after a young collection); without one up to three of a    *)
(* few; and a log that breaks off in a block and is written on.              *)
EXTENDS Integers, Sequences, SequencesExt

L(marks, delta) == [marks |-> marks, delta |-> delta]
Block(by, cat, heap, time, lines) ==
    [by |-> by, cat |-> cat, heap |-> heap, time |-> time, lines |-> lines, torn |-> FALSE]
Head8(c, flag) == Block(c, "none", FALSE, FALSE, <<L({}, 0), L({"flags", flag}, 0)>>)
Cut(b, n) == [b EXCEPT !.lines = SubSeq(@, 1, n), !.torn = TRUE]

Event8L(marks) == L({"ts", "open"} \cup marks, 0)
Fig == {"heap", "secs", "close"}
Single(c, cat, marks) == Block(c, cat, TRUE, TRUE, <<Event8L(Fig \cup marks)>>)
Indented(marks) == L({"indented"} \cup marks, 0)
Quiet(c) == Block(c, "none", FALSE, FALSE, <<L({"ts", "safepoint"}, 0), L({"ts", "safepoint"}, 0)>>)

(* {Heap before GC ... Heap after GC ... }                                   *)
InHeapBlock(b) ==
    [b EXCEPT !.lines = <<L({"heapBefore"}, 0), Indented({})>> \o @
                          \o <<L({"heapAfter"}, 0), Indented({}), L({"brace"}, 0)>>]

PsYoung == Single("Parallel", "Young", {"PSYoungGen"})
PsFull  == Single("Parallel", "Full", {"full", "PSYoungGen", "ParOldGen"})
Adaptive(b, full) ==
    [b EXCEPT !.lines = <<L({"ts", "open"} \cup full, 1), L({}, 0),
                          L({"PSYoungGen"} \cup Fig, -1)>>]
Parallels == {PsYoung, PsFull, Adaptive(PsYoung, {}), Adaptive(PsFull, {"full"}), Quiet("Parallel"),
              InHeapBlock(PsYoung), InHeapBlock(Adaptive(PsYoung, {}))}
ParallelCuts == {Cut(Adaptive(PsYoung, {}), 1), Cut(Adaptive(PsFull, {"full"}), 2),
                 Cut(InHeapBlock(PsYoung), 2), Cut(InHeapBlock(PsYoung), 4)}

Serials == {Single("Serial", "Young", {"DefNew"}), Single("Serial", "Full", {"full", "Tenured"})}

ParNew  == Single("CMS", "Young", {"ParNew"})
Failed  == Single("CMS", "Full", {"CMS", "promotionFailed"})
NoRoom  == Single("CMS", "Full", {"promotionFailed"})
Phase(c, marks, time) == Block(c, "Concurrent", FALSE, time, <<Event8L(marks)>>)
(* The initial mark and the remark of CMS print no heap change and give no   *)
(* event.                                                                    *)
CmsPause == Block("CMS", "none", FALSE, FALSE, <<Event8L({"secs", "close"})>>)
Cmses == {ParNew, Failed, NoRoom, Single("CMS", "Full", {"full", "CMS"}), InHeapBlock(ParNew),
          Phase("CMS", {"cms"}, FALSE), Phase("CMS", {"cms", "secs", "close"}, TRUE), Quiet("CMS"), CmsPause}

Details == <<Indented({}), Indented({"open"}), Indented({"detail"}), Indented({"times"})>>
Pause(cat, marks) ==
    Block("G1", cat, TRUE, TRUE, <<Event8L({"pause", "secs", "close"} \cup marks)>> \o Details)
G1Young == Pause("Young", {})
G1Full  == Block("G1", "Full", TRUE, TRUE,
                 <<Event8L({"full"} \cup Fig), Indented({"detail"}), Indented({"times"})>>)
G1FullMarking ==
    [G1Full EXCEPT !.lines = <<L({"ts", "open", "full", "concurrent"}, 1),
                               Event8L({"concurrent", "secs", "close"}),
                               Event8L({"concurrent", "markStart"}),
                               L({"indented"} \cup Fig, -1),
                               Indented({"detail"}), Indented({"times"})>>]
MarkMixed == Block("G1", "Mixed", TRUE, TRUE,
                   <<L({"ts", "open", "concurrent", "markStart"} \cup Fig, -1)>>)
Dedup == Block("G1", "Concurrent", FALSE, TRUE, <<Event8L({"dedup"} \cup Fig)>>)
G1Remark == Block("G1", "Remark", FALSE, TRUE,
                  <<Event8L({"remark", "secs", "close"}), Indented({"times"})>>)
(* The remark of jdk8_g1_sample.txt prints the times of its phases first.    *)
PhasedRemark == Block("G1", "Remark", FALSE, TRUE,
                      <<Event8L({"remark", "phases", "secs", "close"}), Indented({"times"})>>)
G1Cleanup == Block("G1", "Cleanup", TRUE, TRUE, <<Event8L({"cleanup"} \cup Fig), Indented({"times"})>>)
(* With -XX:+PrintAdaptiveSizePolicy indented lines with time stamps cut the *)
(* pause off from its time, which is lost.                                   *)
Ergonomics == Block("G1", "Young", TRUE, FALSE,
                    <<L({"ts", "open", "pause"}, 1), Indented({"ts"}), L({"secs", "close"}, -1)>> \o Details)
G1s == {G1Young, Ergonomics, Pause("Mixed", {"mixed"}), Pause("InitialMark", {"initialMark"}),
        InHeapBlock(G1Young), G1Full, G1FullMarking, MarkMixed, Dedup, G1Remark,
        PhasedRemark, G1Cleanup,
        Phase("G1", {"concurrent", "markStart"}, FALSE), Phase("G1", {"concurrent", "secs", "close"}, TRUE),
        Quiet("G1")}
G1Cuts == {Cut(G1Young, 1), Cut(G1Young, 3), Cut(G1FullMarking, 1), Cut(G1FullMarking, 3)}

Restarted(h, some, cuts) ==
    {<<h, a, t, h, b, c>> : a \in some, t \in cuts, b \in some, c \in some}
Few(s) == {b \in s : Len(b.lines) \in {1, 3, 5}}

After(h, some) == {<<h>> \o s : s \in BoundedSeq(some, 2)} \cup {<<h, a, b, c>> : a, b, c \in Few(some)}
MCLogs8 ==
    After(Head8("Parallel", "UseParallel"), Parallels)
      \cup After(Head8("Serial", "UseSerial"), Serials)
      \cup {<<Head8("CMS", "UseCMS"), ParNew>> \o s : s \in BoundedSeq(Cmses, 2)}
      \cup After(Head8("G1", "UseG1"), G1s)
      \cup BoundedSeq({Quiet("G1"), G1Young, G1Full, Dedup}, 3)
      \cup BoundedSeq({Quiet("CMS"), ParNew, Failed, Phase("CMS", {"cms"}, FALSE)}, 3)
      \cup Restarted(Head8("Parallel", "UseParallel"), Few(Parallels), ParallelCuts)
      \cup Restarted(Head8("G1", "UseG1"), {G1Young, G1Full, Dedup}, G1Cuts)
=============================================================================
