------------------------------ MODULE GcDiagnosis ------------------------------
(***************************************************************************)
(* What is said of a parsed GC log (react_agent/gc_analyzer/                *)
(* compute_stats.py): twenty rules give findings, the findings two risks,   *)
(* a root cause, evidence and recommendations.                              *)
(*                                                                         *)
(* A log is a record: the collector, the uptimes of its first and last      *)
(* line, and the events.  Of an event's text only the phrases the rules     *)
(* look for are kept: cause is one of them or "", body the set of those in  *)
(* the raw lines.  Sizes are in MB, pauses in ms, uptimes in seconds; a     *)
(* ratio is compared after multiplying out, and only the reclaim of one     *)
(* event is rounded, down to per mille.                                     *)
(*                                                                         *)
(* gc_reports.py runs compute_stats in a thread of a pool, so two logs may  *)
(* be diagnosed at a time.  They share one module variable,                 *)
(* _HEALTHY_HIGH_FREQ, and the steps below are the places between which     *)
(* threads may switch.                                                      *)
(***************************************************************************)
EXTENDS Integers, Sequences, SequencesExt

CONSTANTS
    Diagnoses,    \* the threads of the pool
    Uploads,      \* for each the logs it may be given
    MaxLogs,      \* how many each is given (bound)
    SampleLimit,  \* points of the series: 200
    TopLimit      \* worst pauses that are always among them: 10

ASSUME DiagnosisAssumption ==
    /\ MaxLogs \in Nat /\ SampleLimit \in Nat \ {0} /\ TopLimit \in Nat
    /\ \A d \in Diagnoses : \A l \in Uploads[d] :
         /\ l = [collector |-> l.collector, first |-> l.first, last |-> l.last, events |-> l.events]
         /\ l.events \in Seq(ToSet(l.events)) /\ l.first \in Int /\ l.last \in Int
         /\ \A i \in DOMAIN l.events :
              /\ l.events[i].before \in Int /\ l.events[i].after \in Int /\ l.events[i].total \in Int
              /\ l.events[i].pause \in Int /\ l.events[i].at \in Int

VARIABLES
    log,      \* the log of each diagnosis
    pc,       \* where its thread is
    given,    \* how many logs it has had
    findings, \* the findings of the rules
    verdict,  \* what it returns
    healthy,  \* _HEALTHY_HIGH_FREQ["young"], or none
    alone     \* no other thread took a step since it began (history)

gcVars == <<log, pc, given, findings, verdict, healthy, alone>>

------------------------------------------------------------------------------
(* Events.                                                                   *)

Text(e) == e.body \cup {e.cause}
Says(e, phrases) == Text(e) \cap phrases # {}

ManualPhrases == {"system.gc()", "heap dump initiated gc", "heap inspection",
                  "jvmti forcegc", "whitebox initiated gc"}
IsManualFullGc(e) == Says(e, ManualPhrases)
IsJvmInternalFullGc(e) == Says(e, {"metadata gc threshold", "last ditch collection"})

EventsAt(evs, places) ==
    [n \in 1 .. Cardinality(places) |->
        evs[CHOOSE i \in places : Cardinality({j \in places : j <= i}) = n]]
Select(evs, Test(_)) == EventsAt(evs, {i \in DOMAIN evs : Test(evs[i])})
Count(evs, Test(_)) == Cardinality({i \in DOMAIN evs : Test(evs[i])})
Of(evs, categories) == Select(evs, LAMBDA e : e.cat \in categories)
SumOf(evs, Value(_)) == MapThenSumSet(LAMBDA i : Value(evs[i]), DOMAIN evs)
Paused(evs) == Select(evs, LAMBDA e : e.pause > 0 /\ ~e.conc)
PauseSum(evs) == SumOf(Paused(evs), LAMBDA e : e.pause)

(* The mean pause compared with ms; 0 where nothing paused.                  *)
AvgPauseAtLeast(evs, ms) ==
    IF Paused(evs) = <<>> THEN ms <= 0 ELSE PauseSum(evs) >= ms * Len(Paused(evs))

Duration(l) == IF l.last > l.first THEN l.last - l.first ELSE 0

(* The share of the time not spent in pauses is below p per mille.  It is    *)
(* unknown for a log of no duration.                                         *)
ThroughputBelow(l, p) ==
    Duration(l) > 0 /\ PauseSum(l.events) > (1000 - p) * Duration(l)

(* Percentile p of the pauses, in hundredths of a ms (linear interpolation). *)
Percentile(evs, p) ==
    LET s == SortSeq([i \in 1 .. Len(Paused(evs)) |-> Paused(evs)[i].pause], <)
        k == (Len(s) - 1) * p
        lo == k \div 100 + 1
        hi == IF lo < Len(s) THEN lo + 1 ELSE lo
    IN  IF s = <<>> THEN 0 ELSE s[lo] * 100 + (s[hi] - s[lo]) * (k % 100)

(* How much of the heap an event freed, per mille.                           *)
Reclaimed(e) == ((e.before - e.after) * 1000) \div e.before
Measured(evs) == Select(evs, LAMBDA e : e.before > 0 /\ e.after >= 0)
ReclaimSum(evs) == SumOf(Measured(evs), Reclaimed)

(* Slope of values against their index, compared with a bound:               *)
(* slope < -bound  and  slope > bound, both sides multiplied out.            *)
SlopeTop(v) == MapThenSumSet(LAMBDA i : (2 * i - Len(v) - 1) * v[i], DOMAIN v)
SlopeBottom(v) == MapThenSumSet(LAMBDA i : (2 * i - Len(v) - 1) ^ 2, DOMAIN v)
SlopeBelow(v, bound) == 2 * SlopeTop(v) < bound * SlopeBottom(v)
SlopeAboveHalf(v) == 4 * SlopeTop(v) > SlopeBottom(v)

------------------------------------------------------------------------------
(* The rules.  A finding is a rule and its severity.                         *)

Finding(rule, severity) == {[rule |-> rule, severity |-> severity]}
Graded(rule, n, min, high) ==
    IF n < min THEN {} ELSE Finding(rule, IF n >= high THEN "high" ELSE "medium")

RuleThroughputLow(l) ==
    CASE ThroughputBelow(l, 900) -> Finding("throughput_low", "high")
      [] ThroughputBelow(l, 950) /\ ~ThroughputBelow(l, 900) -> Finding("throughput_low", "medium")
      [] OTHER -> {}

RuleStwTimeRatioHigh(l) ==
    CASE ThroughputBelow(l, 900) -> Finding("stw_time_ratio_high", "high")
      [] ThroughputBelow(l, 950) /\ ~ThroughputBelow(l, 900) -> Finding("stw_time_ratio_high", "medium")
      [] OTHER -> {}

(* Young collections: the rate alone is no finding.                          *)
PerMinuteAtLeast(l, n, rate) == n * 60 >= rate * Duration(l)
YoungJudged(l) ==
    /\ Duration(l) > 0
    /\ l.collector \notin {"Z", "Shenandoah", "Epsilon"}
    /\ Len(Of(l.events, {"Young"})) >= 3
HealthyYoung(l) ==
    LET young == Of(l.events, {"Young"})
    IN  /\ YoungJudged(l)
        /\ PerMinuteAtLeast(l, Len(young), 60)
        /\ ~AvgPauseAtLeast(young, 10)
        /\ Measured(young) # <<>>
        /\ ReclaimSum(young) >= 500 * Len(Measured(young))
RuleYoungGcFrequency(l) ==
    LET young == Of(l.events, {"Young"})
        atLeast(rate) == PerMinuteAtLeast(l, Len(young), rate)
        strained(ms, p) == AvgPauseAtLeast(young, ms) \/ ThroughputBelow(l, p)
    IN  IF ~YoungJudged(l) \/ HealthyYoung(l) \/ ~atLeast(30) \/ ~strained(30, 970) THEN {}
        ELSE Finding("gc_frequency_high",
                     IF atLeast(60) /\ strained(50, 950) THEN "high" ELSE "medium")

(* The figures the healthy note shows.                                       *)
HealthyFigures(l) ==
    LET young == Of(l.events, {"Young"})
    IN  [count |-> Len(young), time |-> Duration(l), pause |-> PauseSum(young),
         reclaim |-> ReclaimSum(young)]

(* Full collections: those somebody asked for and those the JVM runs for its *)
(* metadata do not count; a bad throughput or a good reclaim silences it.    *)
RuleFullGcFrequency(l) ==
    LET full == Of(l.events, {"Full"})
        real == Select(full, LAMBDA e : ~IsManualFullGc(e) /\ ~IsJvmInternalFullGc(e))
    IN  IF \/ Duration(l) = 0 \/ Len(real) < 3
           \/ Len(real) * 300 < Duration(l)
           \/ ThroughputBelow(l, 900)
           \/ ReclaimSum(real) > 500 * Len(Measured(real))
        THEN {}
        ELSE Finding("gc_frequency_high", IF Len(real) >= 5 THEN "high" ELSE "medium")

RuleGcFrequencyHigh(l) == RuleYoungGcFrequency(l) \cup RuleFullGcFrequency(l)

(* A collection somebody asked for meets a heap under no pressure, so it     *)
(* says nothing about what can be reclaimed.                                 *)
ReclaimLowEvents_All(l, c) == Measured(Of(l.events, {c}))
ReclaimLowEvents(l, c) ==
    Select(Measured(Of(l.events, {c})), LAMBDA e : ~(c = "Full" /\ IsManualFullGc(e)))
RuleReclaimLow(l) ==
    UNION { LET evs == ReclaimLowEvents(l, c)
                ratios == [i \in 1 .. Len(evs) |-> Reclaimed(evs[i])]
                sum == ReclaimSum(evs)
            IN  IF Len(evs) < 3 \/ sum >= 50 * Len(evs) THEN {}
                ELSE Finding("reclaim_low",
                             IF sum <= 20 * Len(evs) \/ SlopeBelow(ratios, -2) THEN "high" ELSE "medium")
            : c \in {"Full", "Mixed"} }

RuleExplicitGcCalled(l) ==
    Graded("explicit_gc_called",
           Count(Of(l.events, {"Full"}), LAMBDA e : Says(e, {"system.gc()"})), 1, 3)

(* The limits of one pause, by category; the first three categories of the   *)
(* log with an offender are named.                                           *)
PauseLimit ==
    [Young |-> [medium |-> 200, high |-> 500], Mixed |-> [medium |-> 300, high |-> 500],
     Remark |-> [medium |-> 100, high |-> 200], Cleanup |-> [medium |-> 100, high |-> 200],
     InitialMark |-> [medium |-> 200, high |-> 500], Full |-> [medium |-> 1000, high |-> 3000],
     ZGC |-> [medium |-> 1, high |-> 5], Shenandoah |-> [medium |-> 100, high |-> 200]]
RuleSinglePauseLong(l) ==
    LET evs == Select(Paused(l.events), LAMBDA e : e.cat \in DOMAIN PauseLimit)
        over(c, grade) == \E e \in ToSet(evs) : e.cat = c /\ e.pause > PauseLimit[c][grade]
        first(c) == CHOOSE i \in DOMAIN evs : evs[i].cat = c /\ \A j \in 1 .. i - 1 : evs[j].cat # c
        offenders == {c \in DOMAIN PauseLimit : over(c, "medium")}
        named == {c \in offenders : Cardinality({d \in offenders : first(d) < first(c)}) < 3}
    IN  UNION {Finding("single_pause_long", IF over(c, "high") THEN "high" ELSE "medium") : c \in named}

(* Full collections of G1 and of CMS.  The loop that counts the manual ones  *)
(* stops at the first that shows one of the signals.                         *)
ManualBefore(full, signals) ==
    LET stop == SelectInSeq(full, LAMBDA e : Says(e, signals))
    IN  Count(IF stop = 0 THEN full ELSE SubSeq(full, 1, stop), IsManualFullGc)
FullGcSeverity(full, signals) ==
    IF Len(full) >= 3 /\ ManualBefore(full, signals) < Len(full) THEN "high" ELSE "medium"
RuleG1FullGc(l) ==
    LET full == Of(l.events, {"Full"})
    IN  IF full = <<>> THEN {}
        ELSE Finding("g1_full_gc", FullGcSeverity(full, {"to-space exhausted", "evacuation failure"}))
RuleCmsFullGc(l) ==
    LET full == Of(l.events, {"Full"})
    IN  IF full = <<>> THEN {}
        ELSE Finding("cms_full_gc", FullGcSeverity(full, {"concurrent mode failure"}))

RuleG1MixedIneffective(l) ==
    LET mixed == Select(Of(l.events, {"Mixed"}), LAMBDA e : e.before > 0)
    IN  IF Len(mixed) >= 3 /\ SlopeAboveHalf([i \in 1 .. Len(mixed) |-> mixed[i].before])
        THEN Finding("g1_mixed_ineffective", "medium") ELSE {}
RuleG1CompactionPause(l) ==
    Graded("g1_compaction_pause",
           Count(Of(l.events, {"Full", "Mixed"}), LAMBDA e : Says(e, {"g1 compaction pause"})), 1, 3)
RuleEvacuationFailure(l) ==
    Graded("evacuation_failure",
           Count(Of(l.events, {"Young", "Mixed"}), LAMBDA e : Says(e, {"evacuation failure"})), 3, 10)
RuleG1HumongousAllocation(l) ==
    Graded("g1_humongous_allocation",
           Count(Of(l.events, {"Young", "Mixed"}), LAMBDA e : Says(e, {"g1 humongous allocation"})), 10, 30)

(* A full collection for a failed allocation that leaves the heap full.      *)
LeavesAtLeast(e, percent) == e.total > 0 /\ e.after * 100 >= percent * e.total
RuleAllocFailureFull(l) ==
    IF \E e \in ToSet(l.events) :
         e.cat = "Full" /\ Says(e, {"allocation failure"}) /\ e.after > 0 /\ LeavesAtLeast(e, 85)
    THEN Finding("alloc_failure_full", "high") ELSE {}

SomeEvent(evs, phrases, rule) ==
    IF \E e \in ToSet(evs) : Says(e, phrases) THEN Finding(rule, "high") ELSE {}
RuleCmsConcurrentModeFailure(l) ==
    SomeEvent(Of(l.events, {"Full"}), {"concurrent mode failure"}, "cms_concurrent_mode_failure")
RuleCmsPromotionFailed(l) ==
    SomeEvent(Of(l.events, {"Full"}), {"promotion failed"}, "cms_promotion_failed")
(* Stall counters that are all zero are not the phrase "allocation stall".   *)
RuleZgcAllocationStall(l) ==
    SomeEvent(l.events, {"allocation stall"}, "zgc_allocation_stall")
RuleZgcConcurrentCycleFailure(l) ==
    SomeEvent(l.events, {"concurrent cycle failure"}, "zgc_concurrent_cycle_failure")

PercentileRule(l, c, p, medium, high, rule) ==
    LET hundredths == Percentile(Of(l.events, {c}), p)
    IN  IF hundredths <= medium * 100 THEN {}
        ELSE Finding(rule, IF hundredths > high * 100 THEN "high" ELSE "medium")
RuleCmsRemarkTooLong(l) == PercentileRule(l, "Remark", 95, 500, 1000, "cms_remark_too_long")
RuleZgcPauseExceedsTarget(l) == PercentileRule(l, "ZGC", 99, 1, 5, "zgc_pause_exceeds_target")

(* Collections for metadata, unless the last of them is within a minute of   *)
(* the first event: the JVM was starting.                                    *)
RuleMetaspacePressure(l) ==
    LET meta == Select(Of(l.events, {"Full"}), IsJvmInternalFullGc)
        times(evs) == {evs[i].at : i \in DOMAIN evs}
    IN  IF Len(meta) < 3 \/ Max(times(meta)) - Min(times(l.events)) <= 60 THEN {}
        ELSE Finding("metaspace_pressure", "medium")

(* The heap is far from full after full collections nobody asked for.        *)
RuleCmsFragmentation(l) ==
    LET full == Select(Of(l.events, {"Full"}), LAMBDA e : e.total > 0 /\ ~IsManualFullGc(e))
        left == SumOf(full, LAMBDA e : (e.after * 1000) \div e.total)
    IN  IF Len(full) < 3 \/ left >= 700 * Len(full) THEN {}
        ELSE Finding("cms_fragmentation", "medium")

(* RULES: those of the log's collector and those of every collector.         *)
CollectorRules(l) ==
    CASE l.collector = "G1" ->
           RuleG1FullGc(l) \cup RuleG1MixedIneffective(l) \cup RuleG1CompactionPause(l)
             \cup RuleG1HumongousAllocation(l)
      [] l.collector = "CMS" ->
           RuleCmsFullGc(l) \cup RuleCmsConcurrentModeFailure(l) \cup RuleCmsPromotionFailed(l)
             \cup RuleCmsRemarkTooLong(l) \cup RuleCmsFragmentation(l)
      [] l.collector = "Z" ->
           RuleZgcAllocationStall(l) \cup RuleZgcPauseExceedsTarget(l)
             \cup RuleZgcConcurrentCycleFailure(l)
      [] OTHER -> {}
Findings(l) ==
    CollectorRules(l) \cup RuleEvacuationFailure(l) \cup RuleThroughputLow(l)
      \cup RuleStwTimeRatioHigh(l) \cup RuleGcFrequencyHigh(l) \cup RuleReclaimLow(l)
      \cup RuleAllocFailureFull(l) \cup RuleExplicitGcCalled(l) \cup RuleSinglePauseLong(l)
      \cup RuleMetaspacePressure(l)

------------------------------------------------------------------------------
(* From findings to risks, root cause, evidence and recommendations.         *)

LeakRules == {"g1_mixed_ineffective", "cms_fragmentation", "reclaim_low"}
OomRules  == {"alloc_failure_full", "reclaim_low"}
Fired(fs) == {f.rule : f \in fs}
FiredHigh(fs) == {f.rule : f \in {g \in fs : g.severity = "high"}}

(* One scale for both; "low" needs a medium finding that is none.            *)
Rank == [none |-> 0, low |-> 1, medium |-> 2, high |-> 3]
RiskOf(fs, rules) ==
    CASE FiredHigh(fs) \cap rules # {} -> "high"
      [] FiredHigh(fs) \cap rules = {} /\ Fired(fs) \cap rules # {} -> "medium"
      [] OTHER -> "none"
(* Full collections, or what each collector does instead of them, together   *)
(* with a heap that cannot be reclaimed.                                     *)
EscalatingRules == {"g1_full_gc", "zgc_allocation_stall", "zgc_concurrent_cycle_failure",
                    "cms_concurrent_mode_failure", "cms_promotion_failed"}
OomRisk(fs) ==
    IF "reclaim_low" \in Fired(fs) /\ FiredHigh(fs) \cap EscalatingRules # {}
    THEN "high" ELSE RiskOf(fs, OomRules)
LeakRisk_OnlyIfLess(fs) ==
    IF Rank[OomRisk(fs)] > Rank[RiskOf(fs, LeakRules)] THEN "none" ELSE RiskOf(fs, LeakRules)
LeakRisk(fs) ==
    IF OomRisk(fs) # "none" /\ Rank[OomRisk(fs)] >= Rank[RiskOf(fs, LeakRules)]
    THEN "none" ELSE RiskOf(fs, LeakRules)

RootCause(fs) ==
    CASE OomRisk(fs) \in {"high", "medium"} -> "oom"
      [] OomRisk(fs) \notin {"high", "medium"} /\ LeakRisk(fs) \in {"high", "medium"} -> "leak"
      [] OTHER -> IF fs # {} THEN "performance" ELSE "healthy"

EvidenceRules ==
    [oom |-> {"reclaim_low", "alloc_failure_full", "g1_full_gc"},
     leak |-> {"g1_mixed_ineffective", "reclaim_low", "cms_fragmentation"},
     performance |->
       {"throughput_low", "gc_frequency_high", "stw_time_ratio_high", "single_pause_long",
        "cms_remark_too_long", "cms_concurrent_mode_failure", "cms_promotion_failed",
        "g1_compaction_pause", "evacuation_failure", "zgc_allocation_stall",
        "zgc_concurrent_cycle_failure"},
     healthy |-> {}]
Evidence(fs) == {f \in fs : f.rule \in EvidenceRules[RootCause(fs)]}

(* The event a banner points at: the earliest full collection that alone     *)
(* foretells running out of memory, else the first of three within a minute; *)
(* of several at one time the one that comes first in the log.               *)
OomReason(e) ==
    CASE e.cause = "allocation failure" /\ LeavesAtLeast(e, 85) -> "allocation failure"
      [] ~(e.cause = "allocation failure" /\ LeavesAtLeast(e, 85)) /\ LeavesAtLeast(e, 95) -> "full"
      [] OTHER -> IF {"g1 evacuation pause", "full"} \subseteq Text(e) THEN "g1" ELSE "none"
OomCandidates(l) ==
    LET at(i) == l.events[i].at
        earlier(i, j) == at(i) < at(j) \/ (at(i) = at(j) /\ i < j)
        first(S) == {l.events[i] : i \in {k \in S : \A j \in S \ {k} : earlier(k, j)}}
        full == {i \in DOMAIN l.events : l.events[i].cat = "Full"}
        direct == {i \in full : OomReason(l.events[i]) # "none"}
        burst == {i \in full : LeavesAtLeast(l.events[i], 85)}
        soon(i) == {j \in burst : earlier(i, j) /\ at(j) - at(i) <= 60}
        cascade == {i \in burst : Cardinality(soon(i)) >= 2}
    IN  IF direct # {} THEN first(direct) ELSE first(cascade)

(* Advice: its tier, what it says, and the rules it is attributed to.        *)
Advice(condition, tier, action, by) ==
    IF condition THEN {[tier |-> tier, action |-> action, by |-> by]} ELSE {}
OomAdvice(c, fired) ==
    LET dumpRules == {"reclaim_low", "cms_full_gc"} \cup EscalatingRules
        cms == {"cms_concurrent_mode_failure", "cms_promotion_failed"}
        zgc == {"zgc_allocation_stall", "zgc_concurrent_cycle_failure"}
    IN  Advice(fired \cap dumpRules # {}, "immediate", "dump the heap", fired \cap dumpRules)
          \cup Advice(fired \cap dumpRules # {}, "immediate", "look for unbounded collections", fired \cap dumpRules)
          \cup Advice("g1_full_gc" \in fired /\ c = "G1", "short_term", "look for humongous objects", {"g1_full_gc"})
          \cup Advice("alloc_failure_full" \in fired, "short_term", "look at allocations", {"alloc_failure_full"})
          \cup Advice(fired \cap cms # {}, "tuning", "give CMS more room", fired \cap cms)
          \cup Advice(fired \cap zgc # {}, "tuning", "give ZGC more room", fired \cap zgc)
          \cup Advice(c = "G1", "tuning", "start Mixed GC earlier", {"g1_full_gc", "reclaim_low"})
          \cup Advice(c # "G1" /\ "reclaim_low" \in fired, "tuning", "larger heap", {"reclaim_low"})
LeakAdvice(fired) ==
    Advice(fired \cap LeakRules # {}, "immediate", "dump the heap", fired \cap LeakRules)
      \cup Advice(fired \cap LeakRules # {}, "short_term", "look for unbounded collections", fired \cap LeakRules)
      \cup Advice("cms_fragmentation" \in fired, "tuning", "compact", {"cms_fragmentation"})
PerformanceAdvice(fs) ==
    LET has(rule) == rule \in Fired(fs)
        medium(rule) == [rule |-> rule, severity |-> "medium"] \in fs
        high(rule) == [rule |-> rule, severity |-> "high"] \in fs
    IN  Advice(has("explicit_gc_called"), "tuning", "disable explicit GC", {"explicit_gc_called"})
          \cup Advice(has("metaspace_pressure"), "tuning", "larger metaspace", {"metaspace_pressure"})
          \cup Advice(has("gc_frequency_high"), "tuning", "size the young generation", {"gc_frequency_high"})
          \cup Advice(has("zgc_pause_exceeds_target"), "tuning", "tune ZGC", {"zgc_pause_exceeds_target"})
          \cup Advice(has("cms_remark_too_long"), "tuning", "tune remark", {"cms_remark_too_long"})
          \cup Advice(high("throughput_low"), "profiling", "profile allocations", {"throughput_low"})
          \cup Advice(medium("gc_frequency_high"), "tuning", "watch allocations", {"gc_frequency_high"})
          \cup Advice(medium("throughput_low"), "profiling", "judge allocations", {"throughput_low"})
          \cup Advice(medium("stw_time_ratio_high"), "tuning", "tune the collector", {"stw_time_ratio_high"})
Recommendations(c, fs) ==
    CASE RootCause(fs) = "oom" -> OomAdvice(c, Fired(fs))
      [] RootCause(fs) = "leak" -> LeakAdvice(Fired(fs))
      [] RootCause(fs) = "performance" -> PerformanceAdvice(fs)
      [] OTHER -> {}

------------------------------------------------------------------------------
(* What is drawn: a sample of the events and always the worst pauses, and    *)
(* the number of events in each of the equal parts of the log's time.        *)

TopPauses(evs) ==
    LET paused == {i \in DOMAIN evs : ~evs[i].conc /\ evs[i].pause > 0}
        before(i) == {j \in paused : evs[j].pause > evs[i].pause \/ (evs[j].pause = evs[i].pause /\ j < i)}
    IN  {i \in paused : Cardinality(before(i)) < TopLimit}
SampleStep(evs) == Max({1, Len(evs) \div SampleLimit})
Sampled(evs) == {i \in DOMAIN evs : (i - 1) % SampleStep(evs) = 0 /\ ~evs[i].conc}
Series_SampleOnly(evs) == Sampled(evs)
Series(evs) == Sampled(evs) \cup TopPauses(evs)

BucketCount(l) == Min({20, Max({5, Len(l.events) \div 50})})
InBucket(l, i, e) ==
    /\ e.at * BucketCount(l) >= (i - 1) * Duration(l)
    /\ IF i = BucketCount(l) THEN e.at * BucketCount(l) <= i * Duration(l)
                             ELSE e.at * BucketCount(l) < i * Duration(l)
FrequencySeries(l) ==
    IF Duration(l) = 0 THEN <<>>
    ELSE [i \in 1 .. BucketCount(l) |-> Count(l.events, LAMBDA e : InBucket(l, i, e))]

------------------------------------------------------------------------------
(* The threads.                                                              *)

none == [no |-> "value"]
Verdict(l, fs, note) ==
    [oom |-> OomRisk(fs), leak |-> LeakRisk(fs), cause |-> RootCause(fs), evidence |-> Evidence(fs),
     candidates |-> OomCandidates(l), advice |-> Recommendations(l.collector, fs), note |-> note]

GcInit ==
    /\ log = [d \in Diagnoses |-> none]
    /\ pc = [d \in Diagnoses |-> "idle"]
    /\ given = [d \in Diagnoses |-> 0]
    /\ findings = [d \in Diagnoses |-> {}]
    /\ verdict = [d \in Diagnoses |-> none]
    /\ healthy = none
    /\ alone = [d \in Diagnoses |-> TRUE]

Upload(d) ==
    /\ pc[d] = "idle" /\ given[d] < MaxLogs
    /\ \E l \in Uploads[d] : log' = [log EXCEPT ![d] = l]
    /\ given' = [given EXCEPT ![d] = @ + 1]
    /\ pc' = [pc EXCEPT ![d] = "parsed"]
    /\ UNCHANGED <<findings, verdict, healthy, alone>>

Running(d) == pc[d] \in {"rules", "judge", "annotate"}

ResetHealthyHighFreq_Keep(d) ==
    /\ pc[d] = "parsed"
    /\ alone' = [x \in Diagnoses |-> IF x = d THEN \A y \in Diagnoses \ {d} : ~Running(y)
                                     ELSE alone[x] /\ ~Running(x)]
    /\ pc' = [pc EXCEPT ![d] = "rules"]
    /\ UNCHANGED <<log, given, findings, verdict, healthy>>
ResetHealthyHighFreq(d) ==
    /\ pc[d] = "parsed"
    /\ healthy' = none
    /\ alone' = [x \in Diagnoses |-> IF x = d THEN \A y \in Diagnoses \ {d} : ~Running(y)
                                     ELSE alone[x] /\ ~Running(x)]
    /\ pc' = [pc EXCEPT ![d] = "rules"]
    /\ UNCHANGED <<log, given, findings, verdict>>

RunRules(d) ==
    /\ pc[d] = "rules"
    /\ findings' = [findings EXCEPT ![d] = Findings(log[d])]
    /\ healthy' = IF HealthyYoung(log[d]) THEN HealthyFigures(log[d]) ELSE healthy
    /\ pc' = [pc EXCEPT ![d] = "judge"]
    /\ UNCHANGED <<log, given, verdict, alone>>

(* The annotation is looked up once to see whether there is one and a second *)
(* time to write it into the summary.                                        *)
Judge(d) ==
    /\ pc[d] = "judge"
    /\ IF findings[d] = {} /\ healthy # none
       THEN /\ pc' = [pc EXCEPT ![d] = "annotate"]
            /\ UNCHANGED verdict
       ELSE /\ pc' = [pc EXCEPT ![d] = "done"]
            /\ verdict' = [verdict EXCEPT ![d] = Verdict(log[d], findings[d], none)]
    /\ UNCHANGED <<log, given, findings, healthy, alone>>

Annotate(d) ==
    /\ pc[d] = "annotate"
    /\ IF healthy = none
       THEN /\ pc' = [pc EXCEPT ![d] = "KeyError"]
            /\ UNCHANGED verdict
       ELSE /\ pc' = [pc EXCEPT ![d] = "done"]
            /\ verdict' = [verdict EXCEPT ![d] = Verdict(log[d], findings[d], healthy)]
    /\ UNCHANGED <<log, given, findings, healthy, alone>>

Answer(d) ==
    /\ pc[d] \in {"done", "KeyError"}
    /\ pc' = [pc EXCEPT ![d] = "idle"]
    /\ log' = [log EXCEPT ![d] = none]
    /\ findings' = [findings EXCEPT ![d] = {}]
    /\ verdict' = [verdict EXCEPT ![d] = none]
    /\ UNCHANGED <<given, healthy, alone>>

GcNext ==
    \E d \in Diagnoses :
      \/ Upload(d) \/ ResetHealthyHighFreq(d) \/ RunRules(d)
      \/ Judge(d) \/ Annotate(d) \/ Answer(d)

GcSpec == GcInit /\ [][GcNext]_gcVars

------------------------------------------------------------------------------
(* Properties.                                                               *)

GcTypeOK ==
    /\ \A d \in Diagnoses : log[d] \in Uploads[d] \cup {none}
    /\ pc \in [Diagnoses -> {"idle", "parsed", "rules", "judge", "annotate", "done", "KeyError"}]
    /\ given \in [Diagnoses -> 0 .. MaxLogs]
    /\ alone \in [Diagnoses -> BOOLEAN]
    /\ \A d \in Diagnoses : \A f \in findings[d] : f.severity \in {"medium", "high"}

Done(d) == pc[d] = "done"

(* Leak and OOM are successive states of a heap: no report announces both,   *)
(* whichever rules fire together (_rollup_risks).                            *)
LeakXorOom ==
    \A d \in Diagnoses : Done(d) => verdict[d].leak = "none" \/ verdict[d].oom = "none"

(* A banner that points at a failed allocation stands over a report whose    *)
(* OOM risk is high: the search for candidates and the rules, written apart, *)
(* agree (_detect_oom_candidates, _rule_alloc_failure_full, _rollup_risks).  *)
BannerIsBacked ==
    \A d \in Diagnoses : Done(d) =>
      \A e \in verdict[d].candidates :
        OomReason(e) = "allocation failure" => verdict[d].oom = "high" /\ verdict[d].cause = "oom"

(* No event that somebody asked for tells of a failure as well.              *)
FailurePhrases == {"allocation failure", "to-space exhausted", "evacuation failure",
                   "concurrent mode failure", "promotion failed", "allocation stall",
                   "concurrent cycle failure"}
AskedIsNoFailure ==
    \A d \in Diagnoses : \A l \in Uploads[d] : \A i \in DOMAIN l.events :
      IsManualFullGc(l.events[i]) => ~Says(l.events[i], FailurePhrases)

(* Collections somebody asked for raise no alarm "just because someone ran   *)
(* jmap" (_rule_g1_full_gc): with all of them taken out of the log, the      *)
(* risks are the same.                                                       *)
WithoutManual(l) ==
    [l EXCEPT !.events = Select(@, LAMBDA e : ~(e.cat = "Full" /\ IsManualFullGc(e)))]
ManualRaisesNoAlarm ==
    \A d \in Diagnoses : Done(d) =>
      LET without == Findings(WithoutManual(log[d]))
      IN  verdict[d].oom = OomRisk(without) /\ verdict[d].leak = LeakRisk(without)

(* What they do raise: in a log of G1 with three full collections, of which  *)
(* one at least nobody asked for, the three count as sustained, whoever      *)
(* asked for the others, and a heap that cannot be reclaimed is a high risk. *)
(* But for that, the risks are those of the log without them: no other rule  *)
(* nor the sum of all lets a collection somebody asked for count.            *)
MixedFull(l) ==
    LET full == Of(l.events, {"Full"})
    IN  l.collector = "G1" /\ Len(full) >= 3 /\ \E e \in ToSet(full) : ~IsManualFullGc(e)
ManualCountsOnlyMixed ==
    \A d \in Diagnoses : Done(d) =>
      LET without == Findings(WithoutManual(log[d]))
          raised == MixedFull(log[d]) /\ "reclaim_low" \in Fired(without)
      IN  /\ verdict[d].oom = IF raised THEN "high" ELSE OomRisk(without)
          /\ verdict[d].leak = LeakRisk(without)

(* An alarm can be explained: a report of OOM or a leak shows at least one   *)
(* finding as its evidence, and only a log without findings is healthy.      *)
AlarmHasEvidence ==
    \A d \in Diagnoses : Done(d) =>
      /\ verdict[d].cause \in {"oom", "leak"} => verdict[d].evidence # {}
      /\ verdict[d].cause = "healthy" <=> findings[d] = {}

(* Except for the general advice on G1, advice is attributed to rules that   *)
(* have fired, and to one at least (_generate_recommendations).              *)
AdviceIsAttributed ==
    \A d \in Diagnoses : Done(d) =>
      \A a \in verdict[d].advice :
        a.action # "start Mixed GC earlier" => a.by # {} /\ a.by \subseteq Fired(findings[d])

(* What a report announces is backed by its findings: the banner, the risks, *)
(* the evidence and the advice, which five functions derive on their own     *)
(* (compute_stats.py:1596-1700).                                             *)
VerdictIsBacked == LeakXorOom /\ BannerIsBacked /\ AlarmHasEvidence /\ AdviceIsAttributed

(* A diagnosis that no other overlaps ends, and its summary has the note on  *)
(* a healthy high frequency if its own log deserves it, with the figures of  *)
(* that log, whatever was diagnosed before.                                  *)
NoteIsOwnWhenAlone ==
    \A d \in Diagnoses : alone[d] =>
      /\ pc[d] # "KeyError"
      /\ Done(d) => verdict[d].note = IF findings[d] = {} /\ HealthyYoung(log[d])
                                      THEN HealthyFigures(log[d]) ELSE none

(* The same with others running: "each diagnosis is independent"             *)
(* (_diagnose_memory).                                                       *)
DiagnosesAreIndependent ==
    \A d \in Diagnoses :
      /\ pc[d] # "KeyError"
      /\ Done(d) => verdict[d].note = IF findings[d] = {} /\ HealthyYoung(log[d])
                                      THEN HealthyFigures(log[d]) ELSE none

(* However few points are drawn, the longest pauses are (compute_stats).     *)
SeriesShowsWorst ==
    \A d \in Diagnoses : Done(d) =>
      LET evs == log[d].events
      IN  \A i \in DOMAIN evs \ Series(evs) :
            evs[i].conc \/ evs[i].pause <= 0
              \/ Cardinality({j \in Series(evs) : evs[j].pause >= evs[i].pause}) >= TopLimit

(* Without the worst pauses, the points drawn are SampleLimit at most:       *)
(* "at most 200 points" (compute_stats.py:2177).                             *)
SeriesKeepsLimit ==
    \A d \in Diagnoses : Done(d) =>
      Cardinality(Sampled(log[d].events)) <= SampleLimit

(* The parts of the log's time hold every event between 0 and the log's      *)
(* duration once: none is lost or counted twice on a border.                 *)
BucketsCountAll ==
    \A d \in Diagnoses : Done(d) =>
      LET s == FrequencySeries(log[d])
          within(e) == 0 <= e.at /\ e.at <= Duration(log[d])
      IN  s # <<>> => SumFunctionOnSet(s, DOMAIN s) = Count(log[d].events, within)

(* They hold every event of the log, which is what the trend is drawn of     *)
(* (compute_stats.py:2232), also when the JVM ran before the log's first     *)
(* line.                                                                     *)
BucketsCoverLog ==
    \A d \in Diagnoses : Done(d) =>
      LET s == FrequencySeries(log[d])
      IN  s # <<>> => SumFunctionOnSet(s, DOMAIN s) = Len(log[d].events)

(* The charts leave out neither the worst pauses nor an event on a border.   *)
ChartsShowAll == SeriesShowsWorst /\ BucketsCountAll
=============================================================================
