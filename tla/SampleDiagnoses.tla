--------------------------- MODULE SampleDiagnoses ---------------------------
(* Logs for GcDiagnosis: short mixes of a few collections that differ in who *)
(* asked for them and what they free, and longer ones at the thresholds.     *)
EXTENDS Integers, Sequences, SequencesExt, TLC

Event == [cat |-> "Young", cause |-> "", body |-> {}, before |-> 500, after |-> 100,
          total |-> 1000, pause |-> 5, at |-> 0, conc |-> FALSE]
Young == Event
Slow  == [Event EXCEPT !.pause = 60, !.after = 450]
Evac  == [Event EXCEPT !.body = {"evacuation failure", "g1 humongous allocation"}]
Mark  == [Event EXCEPT !.cat = "Concurrent", !.conc = TRUE, !.pause = 900]
Untimed == [Event EXCEPT !.pause = 0]
Full(cause, before, after) ==
    [Event EXCEPT !.cat = "Full", !.cause = cause, !.body = {"full"}, !.pause = 400,
                  !.before = before, !.after = after]
Asked   == Full("system.gc()", 400, 396)
Dumped  == [Full("", 990, 985) EXCEPT !.body = {"full", "heap dump initiated gc"}]
Stuck   == Full("g1 compaction pause", 960, 948)
Slack   == Full("g1 evacuation pause", 1000, 955)
Emptied == Full("g1 evacuation pause", 900, 300)
Unnamed == [Emptied EXCEPT !.body = {}]
Meta    == Full("metadata gc threshold", 500, 495)
Failed  == Full("allocation failure", 1000, 860)
FailedB == [Full("ergonomics", 1000, 900) EXCEPT !.body = {"full", "allocation failure"}]
Sparse  == [Full("concurrent mode failure", 600, 200) EXCEPT !.body = {"promotion failed"}]
Mixed(before) == [Event EXCEPT !.cat = "Mixed", !.before = before, !.after = before - 45, !.pause = 310]
Remark(pause) == [Event EXCEPT !.cat = "Remark", !.pause = pause]
Zgc(pause)    == [Event EXCEPT !.cat = "ZGC", !.pause = pause]
Stall   == [Zgc(1) EXCEPT !.cause = "allocation stall"]
Broken  == [Zgc(1) EXCEPT !.body = {"concurrent cycle failure"}]

(* One event every gap seconds; the log begins at first.                     *)
Timed(c, evs, first, gap) ==
    [collector |-> c, first |-> first, last |-> first + Len(evs) * gap,
     events |-> [i \in DOMAIN evs |-> [evs[i] EXCEPT !.at = first + i * gap]]]
Times(n, e) == [i \in 1 .. n |-> e]

FullMixes == BoundedSeq({Asked, Stuck, Slack, Meta, Failed}, 4)
             \cup {s \o Times(2, Asked) : s \in BoundedSeq({Stuck, Slack, Meta, Dumped}, 3)}
             \cup {<<Sparse, Sparse>> \o s : s \in BoundedSeq({Asked, Sparse, FailedB}, 2)}
Thresholds ==
    { <<"G1", Times(30, Evac), 1>>, <<"G1", Times(10, Evac) \o <<Slow>>, 1>>, <<"G1", Times(3, Evac), 9>>,
      <<"G1", <<Unnamed, Emptied>>, 9>>, <<"G1", Times(5, Slack), 20>>, <<"G1", Times(5, Asked), 2>>,
      <<"G1", <<Mixed(900), Mixed(920), Mixed(999)>>, 5>>, <<"G1", Times(3, Mixed(990)), 5>>,
      <<"G1", <<Mixed(950), Mixed(960), Mixed(970), Stuck, Stuck>> \o Times(1, Asked), 7>>,
      <<"CMS", <<Remark(600), Remark(400), Young>>, 30>>, <<"CMS", <<Remark(1500)>>, 70>>,
      <<"CMS", <<Remark(300), Mark, Full("", 900, 300), Slow>>, 1>>,
      <<"G1", <<Mark, Untimed, Mark, Untimed, Mark, Untimed>>, 2>>,
      <<"Z", <<Zgc(1), Stall>>, 3>>, <<"Z", <<Zgc(9), Broken>> \o Times(3, Slack), 3>>,
      <<"Z", <<Zgc(2), Zgc(1)>>, 3>>, <<"Shenandoah", Times(4, Young), 1>>,
      <<"Parallel", Times(4, Slow), 1>>, <<"Parallel", Times(4, Slow), 2>>,
      <<"Parallel", Times(3, Full("", 950, 900)) \o Times(3, Young), 1>>,
      <<"Serial", Times(3, Meta) \o Times(3, Young), 40>>, <<"Serial", Times(3, FailedB), 40>> }

MCLogs ==
    {Timed(c, s, 0, 7) : c \in {"G1", "CMS", "Z"}, s \in FullMixes}
      \cup {Timed(t[1], t[2], 0, t[3]) : t \in Thresholds}
Busy  == Timed("Parallel", Times(4, Young), 100, 1)
Quiet == Timed("Parallel", <<Young>>, 5, 50)
MCUploads == "d1" :> (MCLogs \cup {Busy, Quiet}) @@ "d2" :> {Busy, Quiet}
MCDiagnoses == {"d1", "d2"}
=============================================================================
