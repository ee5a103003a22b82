----------------------------- MODULE SampleLogs9 -----------------------------
(* The cycles of the collectors, taken from the logs under src/_tests, and   *)
(* the logs of up to three of them that one machine may write.               *)
EXTENDS Sequences

L(tag, type, is, says, heap, timed, holds) ==
    [tag |-> tag, type |-> type, is |-> is, says |-> says, heap |-> heap, timed |-> timed, holds |-> holds]
Start(type) == L("start", type, "none", {}, "no", FALSE, TRUE)
Note(type) == L("other", type, "none", {"concurrent"}, "no", TRUE, TRUE)
Main(type, is, says) == L("gc", type, is, says, "total", TRUE, FALSE)
Phase(tag, type, is, says) == L(tag, type, is, says, "no", TRUE, FALSE)
Summary(type, says) == L("gc", type, "none", says, "percent", FALSE, FALSE)
Stw(type, is, says) == <<Start(type), Main(type, is, says)>>

Young == Stw("Pause Young", "Young", {"pause", "young"})
Mixed == Stw("Pause Young (Mixed)", "Mixed", {"pause", "young", "mixed"})
Full9 == Stw("Pause Full (System.gc())", "Full", {"pause", "full", "fullCause"})
Marking ==
    <<Phase("gc", "Concurrent Mark Cycle", "none", {"concurrent"})>>
      \o Stw("Pause Remark", "Remark", {"pause", "remark"})
      \o Stw("Pause Cleanup", "Cleanup", {"pause", "cleanup"})
      \o <<Phase("gc", "Concurrent Mark Cycle", "Concurrent", {"concurrent"})>>
G1Marking == [Marking EXCEPT ![1].timed = FALSE]
(* A young collection of Serial that finds it has to be a full one.          *)
NestedYoung == <<L("start", "Pause Young", "none", {}, "no", FALSE, FALSE), Main("Pause Young", "Young", {"pause", "young"})>>
CmsInitial == Stw("Pause Initial Mark", "InitialMark", {"pause", "initial mark"})

Shenandoah ==
    Stw("Concurrent cleanup", "Shenandoah", {"concurrent", "cleanup"})
ShenandoahCycle(last) ==
    <<Start("Pause Init Mark"), Phase("gc", "Pause Init Mark", "Shenandoah", {"pause", "init mark"}),
      Start("Concurrent weak roots"), Phase("gc", "Concurrent weak roots", "Concurrent", {"concurrent"})>>
      \o Shenandoah \o last
Degenerated == Stw("Pause Degenerated GC", "Shenandoah", {"pause", "degenerated"})

ZPhase(g, what) == Phase("phases", g \o "Pause " \o what, "ZGC", IF g = "" THEN {"pause", what} ELSE {"pause", what, "generation"})
ZConc(g) == Phase("phases", g \o "Concurrent Mark", "Concurrent",
                  IF g = "" THEN {"concurrent"} ELSE {"concurrent", "generation"})
ZCycle(again) ==
    <<Start("GC"), ZPhase("", "mark start"), Note("Concurrent Mark"), ZConc(""), ZPhase("", "mark end")>>
      \o again \o <<ZPhase("", "relocate start"), Summary("GC (Warmup)", {"collection"})>>
ZFull ==
    <<Start("GC"), ZPhase("", "mark start"), ZPhase("", "mark end"),
      Summary("GC (System.gc())", {"collection", "fullCause"})>>
ZMinor ==
    <<Phase("gc", "Minor", "none", {"minor"}), ZPhase("y: ", "mark start"), ZConc("y: "),
      Summary("Minor", {"minor"})>>
ZMinorCycle == [ZMinor EXCEPT ![1].timed = FALSE]
ZMajor ==
    <<ZPhase("Y: ", "mark start"), ZConc("Y: "), ZPhase("O: ", "mark end"),
      Summary("Major", {"major"})>>

MCLogs9 ==
    {<<a, b, c>> : a \in {Young, Mixed}, b \in {G1Marking, Full9}, c \in {Young, Mixed, Full9}}
      \cup {<<G1Marking, Young, Mixed>>, <<G1Marking, Full9, G1Marking>>}
      \cup {<<NestedYoung, Full9, Young>>, <<CmsInitial, Young, G1Marking>>}
      \cup {<<ShenandoahCycle(x), y>> : x \in {<<>>, Shenandoah}, y \in {Degenerated, ShenandoahCycle(<<>>)}}
      \cup {<<ZCycle(x), y>> : x \in {<<>>, <<ZPhase("", "mark end")>>}, y \in {ZFull, ZCycle(<<>>)}}
      \cup {<<ZMajor, ZMinorCycle, ZMinorCycle>>, <<ZMinorCycle, ZMajor, ZMinorCycle>>}
=============================================================================
