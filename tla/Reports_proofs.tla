---------------------------- MODULE Reports_proofs ----------------------------
(***************************************************************************)
(* Theorems about the four reports, for any number of threads and any       *)
(* uploads: what a diagnosis announces is backed by its findings and what   *)
(* it draws by its events; the events of a GC log of either format are in   *)
(* the order of the log, those of a unified log with their own figures;     *)
(* the threads of a dump are its own, and the figures fit them.             *)
(*                                                                         *)
(* Sums and flattened lists are proved from the functions they are defined  *)
(* by; what was selected of a list is known by the places it was at.        *)
(***************************************************************************)
EXTENDS Reports, FiniteSetTheorems, SequenceTheorems, TLAPS

------------------------------------------------------------------------------
(* What the rules may say.                                                   *)

(* A finding of rule is of one of two severities.                            *)
Saying(fs, rule) == \A f \in fs : f.rule = rule /\ f.severity \in {"medium", "high"}
Quietly(fs, rule) == \A f \in fs : f.rule = rule /\ f.severity = "medium"

(* Rules that are graded by a number.                                        *)
LEMMA GradedSays ==
    ASSUME NEW rule, NEW n, NEW min, NEW high
    PROVE  Saying(Graded(rule, n, min, high), rule)
BY DEF Saying, Graded, Finding

LEMMA PercentileSays ==
    ASSUME NEW l, NEW c, NEW p, NEW medium, NEW high, NEW rule
    PROVE  Saying(PercentileRule(l, c, p, medium, high, rule), rule)
BY DEF Saying, PercentileRule, Finding

LEMMA SomeEventSays ==
    ASSUME NEW evs, NEW phrases, NEW rule
    PROVE  Saying(SomeEvent(evs, phrases, rule), rule)
BY DEF Saying, SomeEvent, Finding

LEMMA SeveritySays ==
    ASSUME NEW full, NEW signals
    PROVE  FullGcSeverity(full, signals) \in {"medium", "high"}
BY DEF FullGcSeverity

(* The two rules that never raise more than a warning.                       *)
LEMMA QuietRules ==
    ASSUME NEW l
    PROVE  /\ Quietly(RuleG1MixedIneffective(l), "g1_mixed_ineffective")
           /\ Quietly(RuleCmsFragmentation(l), "cms_fragmentation")
<1>1. Quietly(RuleG1MixedIneffective(l), "g1_mixed_ineffective")
  BY DEF Quietly, RuleG1MixedIneffective, Finding
<1>2. Quietly(RuleCmsFragmentation(l), "cms_fragmentation")
  <2> DEFINE full == Select(Of(l.events, {"Full"}), LAMBDA e : e.total > 0 /\ ~IsManualFullGc(e))
  <2> DEFINE left == SumOf(full, LAMBDA e : (e.after * 1000) \div e.total)
  <2>1. RuleCmsFragmentation(l) =
          IF Len(full) < 3 \/ left >= 700 * Len(full) THEN {} ELSE Finding("cms_fragmentation", "medium")
    BY DEF RuleCmsFragmentation
  <2> HIDE DEF full, left
  <2>2. QED
    BY <2>1 DEF Quietly, Finding
<1>3. QED
  BY <1>1, <1>2

LEMMA FullSays ==
    ASSUME NEW l
    PROVE  Saying(RuleG1FullGc(l), "g1_full_gc")
<1> DEFINE severity == FullGcSeverity(Of(l.events, {"Full"}), {"to-space exhausted", "evacuation failure"})
<1>1. RuleG1FullGc(l) \subseteq Finding("g1_full_gc", severity)
  BY DEF RuleG1FullGc
<1>2. severity \in {"medium", "high"}
  BY SeveritySays
<1> HIDE DEF severity
<1> QED BY <1>1, <1>2 DEF Saying, Finding

LEMMA CollectorRulesSay ==
    ASSUME NEW l, NEW f \in CollectorRules(l)
    PROVE  /\ f.severity \in {"medium", "high"}
           /\ f.rule \in {"g1_mixed_ineffective", "cms_fragmentation"} => f.severity = "medium"
<1>1. Saying(RuleG1FullGc(l), "g1_full_gc")
  BY FullSays
<1>2. Saying(RuleCmsFullGc(l), "cms_full_gc")
  <2> DEFINE severity == FullGcSeverity(Of(l.events, {"Full"}), {"concurrent mode failure"})
  <2>1. RuleCmsFullGc(l) \subseteq Finding("cms_full_gc", severity)
    BY DEF RuleCmsFullGc
  <2>2. severity \in {"medium", "high"}
    BY SeveritySays
  <2> HIDE DEF severity
  <2>3. QED
    BY <2>1, <2>2 DEF Saying, Finding
<1>3. Saying(RuleG1CompactionPause(l), "g1_compaction_pause")
  BY GradedSays DEF RuleG1CompactionPause
<1>4. Saying(RuleG1HumongousAllocation(l), "g1_humongous_allocation")
  BY GradedSays DEF RuleG1HumongousAllocation
<1>5. /\ Saying(RuleCmsConcurrentModeFailure(l), "cms_concurrent_mode_failure")
      /\ Saying(RuleCmsPromotionFailed(l), "cms_promotion_failed")
  BY SomeEventSays DEF RuleCmsConcurrentModeFailure, RuleCmsPromotionFailed
<1>6. /\ Saying(RuleZgcAllocationStall(l), "zgc_allocation_stall")
      /\ Saying(RuleZgcConcurrentCycleFailure(l), "zgc_concurrent_cycle_failure")
  BY SomeEventSays DEF RuleZgcAllocationStall, RuleZgcConcurrentCycleFailure
<1>7. /\ Saying(RuleCmsRemarkTooLong(l), "cms_remark_too_long")
      /\ Saying(RuleZgcPauseExceedsTarget(l), "zgc_pause_exceeds_target")
  BY PercentileSays DEF RuleCmsRemarkTooLong, RuleZgcPauseExceedsTarget
<1>8. CASE l.collector = "G1"
  BY <1>1, <1>3, <1>4, <1>8, QuietRules DEF CollectorRules, Saying, Quietly
<1>9. CASE l.collector = "CMS"
  BY <1>2, <1>5, <1>7, <1>9, QuietRules DEF CollectorRules, Saying, Quietly
<1>10. CASE l.collector = "Z"
  BY <1>6, <1>7, <1>10 DEF CollectorRules, Saying
<1>11. CASE l.collector \notin {"G1", "CMS", "Z"}
  BY <1>11 DEF CollectorRules
<1>12. QED
  BY <1>8, <1>9, <1>10, <1>11

(* A long pause is named by category.                                        *)
LEMMA PauseSays ==
    ASSUME NEW l
    PROVE  Saying(RuleSinglePauseLong(l), "single_pause_long")
<1> DEFINE evs == Select(Paused(l.events), LAMBDA e : e.cat \in DOMAIN PauseLimit)
<1> DEFINE over(c, grade) == \E e \in ToSet(evs) : e.cat = c /\ e.pause > PauseLimit[c][grade]
<1> DEFINE first(c) == CHOOSE i \in DOMAIN evs : evs[i].cat = c /\ \A j \in 1 .. i - 1 : evs[j].cat # c
<1> DEFINE offenders == {c \in DOMAIN PauseLimit : over(c, "medium")}
<1> DEFINE named == {c \in offenders : Cardinality({d \in offenders : first(d) < first(c)}) < 3}
<1> DEFINE Said(c) == Finding("single_pause_long", IF over(c, "high") THEN "high" ELSE "medium")
<1>1. RuleSinglePauseLong(l) = UNION {Said(c) : c \in named}
  BY DEF RuleSinglePauseLong
<1>2. ASSUME NEW c PROVE Saying(Said(c), "single_pause_long")
  <2> HIDE DEF over
  <2>1. QED
    BY DEF Saying, Finding
<1> HIDE DEF Said, named
<1>3. QED
  BY <1>1, <1>2 DEF Saying

(* Every finding has one of two severities, and the two quiet rules one.     *)
LEMMA FindingsSay ==
    ASSUME NEW l, NEW f \in Findings(l)
    PROVE  /\ f.severity \in {"medium", "high"}
           /\ f.rule \in {"g1_mixed_ineffective", "cms_fragmentation"} => f.severity = "medium"
<1>1. /\ Saying(RuleThroughputLow(l), "throughput_low")
      /\ Saying(RuleStwTimeRatioHigh(l), "stw_time_ratio_high")
  BY DEF Saying, RuleThroughputLow, RuleStwTimeRatioHigh, Finding
<1>2. Saying(RuleYoungGcFrequency(l), "gc_frequency_high")
  BY DEF Saying, RuleYoungGcFrequency, Finding
<1>3. Saying(RuleFullGcFrequency(l), "gc_frequency_high")
  BY DEF Saying, RuleFullGcFrequency, Finding
<1>4. Saying(RuleReclaimLow(l), "reclaim_low")
  BY DEF Saying, RuleReclaimLow, Finding
<1>5. Saying(RuleAllocFailureFull(l), "alloc_failure_full")
  <2> DEFINE some == \E e \in ToSet(l.events) :
         e.cat = "Full" /\ Says(e, {"allocation failure"}) /\ e.after > 0 /\ LeavesAtLeast(e, 85)
  <2>1. RuleAllocFailureFull(l) = IF some THEN Finding("alloc_failure_full", "high") ELSE {}
    BY DEF RuleAllocFailureFull
  <2> HIDE DEF some
  <2>2. QED
    BY <2>1 DEF Saying, Finding
<1>6. /\ Saying(RuleEvacuationFailure(l), "evacuation_failure")
      /\ Saying(RuleExplicitGcCalled(l), "explicit_gc_called")
  BY GradedSays DEF RuleEvacuationFailure, RuleExplicitGcCalled
<1>7. Saying(RuleMetaspacePressure(l), "metaspace_pressure")
  BY DEF Saying, RuleMetaspacePressure, Finding
<1>8. \/ f \in CollectorRules(l)
      \/ f \in RuleEvacuationFailure(l) \cup RuleExplicitGcCalled(l) \cup RuleMetaspacePressure(l)
      \/ f \in RuleThroughputLow(l) \cup RuleStwTimeRatioHigh(l) \cup RuleYoungGcFrequency(l)
      \/ f \in RuleFullGcFrequency(l) \cup RuleReclaimLow(l) \cup RuleAllocFailureFull(l)
      \/ f \in RuleSinglePauseLong(l)
  BY DEF Findings, RuleGcFrequencyHigh
<1>9. QED
  BY <1>1, <1>2, <1>3, <1>4, <1>5, <1>6, <1>7, <1>8, PauseSays, CollectorRulesSay DEF Saying

------------------------------------------------------------------------------
(* From findings to what is announced.                                       *)

(* Severities of findings that the rules may give.                           *)
Given(fs) ==
    \A f \in fs : /\ f.severity \in {"medium", "high"}
                  /\ f.rule \in {"g1_mixed_ineffective", "cms_fragmentation"} => f.severity = "medium"

LEMMA RisksAreLevels ==
    ASSUME NEW fs
    PROVE  /\ \A rules : RiskOf(fs, rules) \in {"none", "medium", "high"}
           /\ OomRisk(fs) \in {"none", "medium", "high"}
           /\ LeakRisk(fs) \in {"none", "medium", "high"}
BY DEF RiskOf, OomRisk, LeakRisk

(* A leak as grave as high is a reclaim of nothing, which is an OOM as grave.*)
LEMMA OneRiskAtMost ==
    ASSUME NEW fs, Given(fs)
    PROVE  LeakRisk(fs) = "none" \/ OomRisk(fs) = "none"
<1>1. SUFFICES ASSUME OomRisk(fs) # "none"
               PROVE  Rank[OomRisk(fs)] >= Rank[RiskOf(fs, LeakRules)]
  BY DEF LeakRisk
<1>2. CASE OomRisk(fs) = "high"
  BY <1>2, RisksAreLevels DEF Rank
<1>3. CASE OomRisk(fs) # "high"
  <2>1. OomRisk(fs) = "medium" /\ RiskOf(fs, OomRules) = "medium"
    BY <1>1, <1>3, RisksAreLevels DEF OomRisk
  <2>2. "reclaim_low" \notin FiredHigh(fs)
    BY <2>1 DEF RiskOf, OomRules
  <2>3. FiredHigh(fs) \cap {"g1_mixed_ineffective", "cms_fragmentation"} = {}
    BY DEF Given, FiredHigh
  <2>4. RiskOf(fs, LeakRules) # "high"
    BY <2>2, <2>3 DEF RiskOf, LeakRules
  <2>5. QED
    BY <2>1, <2>4, RisksAreLevels DEF Rank
<1>4. QED
  BY <1>2, <1>3

LEMMA CauseHasEvidence ==
    ASSUME NEW fs
    PROVE  /\ RootCause(fs) \in {"oom", "leak"} => Evidence(fs) # {}
           /\ RootCause(fs) = "healthy" <=> fs = {}
<1>1. CASE RootCause(fs) = "oom"
  <2>1. Fired(fs) \cap {"reclaim_low", "alloc_failure_full"} # {}
    BY <1>1 DEF RootCause, OomRisk, RiskOf, OomRules, Fired, FiredHigh
  <2>2. \E f \in fs : f.rule \in EvidenceRules["oom"]
    BY <2>1 DEF Fired, EvidenceRules
  <2>3. QED
    BY <1>1, <2>2 DEF Evidence
<1>2. CASE RootCause(fs) = "leak"
  <2>1. RiskOf(fs, LeakRules) \in {"medium", "high"}
    BY <1>2 DEF RootCause, LeakRisk
  <2>2. Fired(fs) \cap LeakRules # {}
    BY <2>1 DEF RiskOf, Fired, FiredHigh
  <2>3. \E f \in fs : f.rule \in EvidenceRules["leak"]
    BY <2>2 DEF Fired, LeakRules, EvidenceRules
  <2>4. QED
    BY <1>2, <2>3 DEF Evidence
<1>3. CASE fs = {}
  BY <1>3 DEF RootCause, LeakRisk, OomRisk, RiskOf, Fired, FiredHigh
<1>4. RootCause(fs) = "healthy" => fs = {}
  BY DEF RootCause
<1>5. QED
  BY <1>1, <1>2, <1>3, <1>4

(* What is attributed to rules names some, and only such as have fired.      *)
Attributed(advice, fired) ==
    \A a \in advice : a.action # "start Mixed GC earlier" => a.by # {} /\ a.by \subseteq fired

LEMMA AdviceIsFor ==
    ASSUME NEW fired, NEW condition, NEW tier, NEW action, NEW by,
           condition /\ action # "start Mixed GC earlier" => by # {} /\ by \subseteq fired
    PROVE  Attributed(Advice(condition, tier, action, by), fired)
<1>1. SUFFICES ASSUME NEW a \in Advice(condition, tier, action, by), a.action # "start Mixed GC earlier"
               PROVE  a.by # {} /\ a.by \subseteq fired
  BY DEF Attributed
<1>2. a = [tier |-> tier, action |-> action, by |-> by] /\ condition
  BY DEF Advice
<1>3. a.by = by /\ a.action = action
  BY <1>2
<1>4. QED
  BY <1>1, <1>2, <1>3

LEMMA OomAdviceAttributed ==
    ASSUME NEW c, NEW fired
    PROVE  Attributed(OomAdvice(c, fired), fired)
<1> DEFINE dumpRules == {"reclaim_low", "cms_full_gc"} \cup EscalatingRules
<1> DEFINE cms == {"cms_concurrent_mode_failure", "cms_promotion_failed"}
<1> DEFINE zgc == {"zgc_allocation_stall", "zgc_concurrent_cycle_failure"}
<1>1. /\ Attributed(Advice(fired \cap dumpRules # {}, "immediate", "dump the heap", fired \cap dumpRules), fired)
      /\ Attributed(Advice(fired \cap dumpRules # {}, "immediate", "look for unbounded collections",
                           fired \cap dumpRules), fired)
  BY AdviceIsFor
<1>2. Attributed(Advice("g1_full_gc" \in fired /\ c = "G1", "short_term", "look for humongous objects",
                        {"g1_full_gc"}), fired)
  BY AdviceIsFor
<1>3. Attributed(Advice("alloc_failure_full" \in fired, "short_term", "look at allocations",
                        {"alloc_failure_full"}), fired)
  BY AdviceIsFor
<1>4. /\ Attributed(Advice(fired \cap cms # {}, "tuning", "give CMS more room", fired \cap cms), fired)
      /\ Attributed(Advice(fired \cap zgc # {}, "tuning", "give ZGC more room", fired \cap zgc), fired)
  BY AdviceIsFor
<1>5. Attributed(Advice(c = "G1", "tuning", "start Mixed GC earlier", {"g1_full_gc", "reclaim_low"}), fired)
  BY AdviceIsFor
<1>6. Attributed(Advice(c # "G1" /\ "reclaim_low" \in fired, "tuning", "larger heap", {"reclaim_low"}), fired)
  BY AdviceIsFor
<1>7. QED
  BY <1>1, <1>2, <1>3, <1>4, <1>5, <1>6 DEF OomAdvice, Attributed

LEMMA LeakAdviceAttributed ==
    ASSUME NEW fired
    PROVE  Attributed(LeakAdvice(fired), fired)
<1>1. /\ Attributed(Advice(fired \cap LeakRules # {}, "immediate", "dump the heap", fired \cap LeakRules), fired)
      /\ Attributed(Advice(fired \cap LeakRules # {}, "short_term", "look for unbounded collections",
                           fired \cap LeakRules), fired)
      /\ Attributed(Advice("cms_fragmentation" \in fired, "tuning", "compact", {"cms_fragmentation"}), fired)
  BY AdviceIsFor
<1>2. QED
  BY <1>1 DEF LeakAdvice, Attributed

LEMMA PerformanceAdviceAttributed ==
    ASSUME NEW fs
    PROVE  Attributed(PerformanceAdvice(fs), Fired(fs))
<1> DEFINE has(rule) == rule \in Fired(fs)
<1> DEFINE medium(rule) == [rule |-> rule, severity |-> "medium"] \in fs
<1> DEFINE high(rule) == [rule |-> rule, severity |-> "high"] \in fs
<1>1. ASSUME NEW rule, NEW tier, NEW action
      PROVE  /\ Attributed(Advice(has(rule), tier, action, {rule}), Fired(fs))
             /\ Attributed(Advice(medium(rule), tier, action, {rule}), Fired(fs))
             /\ Attributed(Advice(high(rule), tier, action, {rule}), Fired(fs))
  <2>1. medium(rule) \/ high(rule) => rule \in Fired(fs)
    BY DEF Fired
  <2>2. {rule} # {} /\ (rule \in Fired(fs) => {rule} \subseteq Fired(fs))
    OBVIOUS
  <2>3. QED
    BY <2>1, <2>2, AdviceIsFor
<1>2. QED
  BY <1>1 DEF PerformanceAdvice, Attributed

LEMMA AdviceAttributed ==
    ASSUME NEW c, NEW fs
    PROVE  Attributed(Recommendations(c, fs), Fired(fs))
<1>1. Attributed({}, Fired(fs))
  BY DEF Attributed
<1>2. QED
  BY <1>1, OomAdviceAttributed, LeakAdviceAttributed,
     PerformanceAdviceAttributed DEF Recommendations

LEMMA ShareIsPositive ==
    ASSUME NEW after \in Int, NEW total \in Int, total > 0, after * 100 >= 85 * total
    PROVE  after > 0
OBVIOUS

(* A failed allocation that the banner points at is one that the rule finds. *)
LEMMA BannerAgrees ==
    ASSUME NEW d \in Diagnoses, NEW l \in Uploads[d],
           NEW e \in OomCandidates(l), OomReason(e) = "allocation failure"
    PROVE  OomRisk(Findings(l)) = "high" /\ RootCause(Findings(l)) = "oom"
<1>1. PICK i \in DOMAIN l.events : e = l.events[i] /\ e.cat = "Full"
  BY DEF OomCandidates
<1>2. e.cause = "allocation failure" /\ LeavesAtLeast(e, 85)
  BY DEF OomReason
<1>3. e.after > 0
  <2>1. e.after \in Int /\ e.total \in Int
    BY <1>1, DiagnosisAssumption
  <2>2. e.total > 0 /\ e.after * 100 >= 85 * e.total
    BY <1>2 DEF LeavesAtLeast
  <2>3. QED
    BY <2>1, <2>2, ShareIsPositive
<1>4. e \in ToSet(l.events) /\ Says(e, {"allocation failure"})
  BY <1>1, <1>2 DEF ToSet, Says, Text
<1>5. [rule |-> "alloc_failure_full", severity |-> "high"] \in Findings(l)
  <2>1. RuleAllocFailureFull(l) = Finding("alloc_failure_full", "high")
    BY <1>1, <1>2, <1>3, <1>4 DEF RuleAllocFailureFull
  <2>2. QED
    BY <2>1 DEF Findings, Finding
<1>6. "alloc_failure_full" \in FiredHigh(Findings(l))
  <2> DEFINE f == [rule |-> "alloc_failure_full", severity |-> "high"]
  <2>1. f \in {g \in Findings(l) : g.severity = "high"} /\ f.rule = "alloc_failure_full"
    BY <1>5
  <2>2. QED
    BY <2>1 DEF FiredHigh
<1>7. OomRisk(Findings(l)) = "high"
  BY <1>6 DEF OomRisk, RiskOf, OomRules
<1>8. QED
  BY <1>7 DEF RootCause

------------------------------------------------------------------------------
(* The threads.                                                              *)

(* The variables of the threads are functions.                               *)
ThreadsTyped ==
    /\ pc \in [Diagnoses -> {"idle", "parsed", "rules", "judge", "annotate", "done", "KeyError"}]
    /\ given \in [Diagnoses -> 0 .. MaxLogs]
    /\ alone \in [Diagnoses -> BOOLEAN]
    /\ log = [d \in Diagnoses |-> log[d]]
    /\ findings = [d \in Diagnoses |-> findings[d]]
    /\ verdict = [d \in Diagnoses |-> verdict[d]]

(* What a thread holds is of its own log.                                    *)
OfItsLog(d) ==
    /\ log[d] \in Uploads[d] \cup {none}
    /\ pc[d] # "idle" => log[d] \in Uploads[d]
    /\ pc[d] \in {"judge", "annotate", "done", "KeyError"} => findings[d] = Findings(log[d])
    /\ pc[d] \in {"idle", "parsed", "rules"} => findings[d] = {}
    /\ pc[d] = "done" => \E note : verdict[d] = Verdict(log[d], findings[d], note)

(* What a thread that none overlaps finds in the shared annotation.          *)
Note(d) == IF HealthyYoung(log[d]) THEN HealthyFigures(log[d]) ELSE none
OwnNote(d) ==
    /\ Running(d) => \A y \in Diagnoses \ {d} : ~Running(y)
    /\ pc[d] = "rules" => healthy = none
    /\ pc[d] \in {"judge", "annotate"} => healthy = Note(d)
    /\ pc[d] = "annotate" => findings[d] = {} /\ HealthyYoung(log[d])
    /\ pc[d] # "KeyError"
    /\ pc[d] = "done" => verdict[d].note = IF findings[d] = {} THEN Note(d) ELSE none

GcInv ==
    /\ ThreadsTyped
    /\ \A d \in Diagnoses : OfItsLog(d)
    /\ \A d \in Diagnoses : alone[d] => OwnNote(d)

(* The figures of a note are no empty note.                                  *)
LEMMA FiguresAreSome ==
    ASSUME NEW l
    PROVE  HealthyFigures(l) # none
<1>1. DOMAIN none = {"no"}
  BY DEF none
<1>2. DOMAIN HealthyFigures(l) = {"count", "time", "pause", "reclaim"}
  BY DEF HealthyFigures
<1>3. "no" # "count"
  OBVIOUS
<1>4. QED
  BY <1>1, <1>2, <1>3

LEMMA NoteOfVerdict ==
    ASSUME NEW l, NEW fs, NEW note
    PROVE  Verdict(l, fs, note).note = note
BY DEF Verdict

LEMMA GcInvInit == GcInit => GcInv
<1> SUFFICES ASSUME GcInit
             PROVE  GcInv
  OBVIOUS
<1>1. ThreadsTyped
  BY DiagnosisAssumption DEF GcInit, ThreadsTyped
<1>2. ASSUME NEW d \in Diagnoses PROVE OfItsLog(d)
  BY DEF GcInit, OfItsLog
<1>3. ASSUME NEW d \in Diagnoses PROVE OwnNote(d)
  BY DEF GcInit, OwnNote, Running
<1>4. QED
  BY <1>1, <1>2, <1>3 DEF GcInv

(* A step of a thread.                                                       *)
LEMMA UploadKeepsInv ==
    ASSUME GcInv, NEW d \in Diagnoses, Upload(d)
    PROVE  GcInv'
<1>1. ThreadsTyped'
  <2>1. given[d] + 1 \in 0 .. MaxLogs
    BY DiagnosisAssumption DEF GcInv, ThreadsTyped, Upload
  <2>2. QED
    BY <2>1 DEF GcInv, ThreadsTyped, Upload
<1>2. ASSUME NEW x \in Diagnoses PROVE OfItsLog(x)'
  <2>1. PICK l \in Uploads[d] : log' = [log EXCEPT ![d] = l]
    BY DEF Upload
  <2>2. CASE x = d
    BY <2>1, <2>2 DEF GcInv, ThreadsTyped, Upload, OfItsLog
  <2>3. CASE x # d
    BY <2>1, <2>3 DEF GcInv, ThreadsTyped, Upload, OfItsLog
  <2>4. QED
    BY <2>2, <2>3
<1>3. ASSUME NEW x \in Diagnoses, alone'[x] PROVE OwnNote(x)'
  BY <1>3 DEF GcInv, ThreadsTyped, Upload, OwnNote, Running, Note
<1>4. QED
  BY <1>1, <1>2, <1>3 DEF GcInv

LEMMA ResetKeepsInv ==
    ASSUME GcInv, NEW d \in Diagnoses, ResetHealthyHighFreq(d)
    PROVE  GcInv'
<1>1. ThreadsTyped'
  BY DEF GcInv, ThreadsTyped, ResetHealthyHighFreq
<1>2. ASSUME NEW x \in Diagnoses PROVE OfItsLog(x)'
  BY DEF GcInv, ThreadsTyped, ResetHealthyHighFreq, OfItsLog
<1>3. ASSUME NEW x \in Diagnoses, alone'[x] PROVE OwnNote(x)'
  BY <1>3 DEF GcInv, ThreadsTyped, ResetHealthyHighFreq, OwnNote, Running, Note
<1>4. QED
  BY <1>1, <1>2, <1>3 DEF GcInv

LEMMA RulesKeepInv ==
    ASSUME GcInv, NEW d \in Diagnoses, RunRules(d)
    PROVE  GcInv'
<1>1. ThreadsTyped'
  BY DEF GcInv, ThreadsTyped, RunRules
<1>2. ASSUME NEW x \in Diagnoses PROVE OfItsLog(x)'
  BY DEF GcInv, ThreadsTyped, RunRules, OfItsLog
<1>3. ASSUME NEW x \in Diagnoses, alone'[x] PROVE OwnNote(x)'
  BY <1>3 DEF GcInv, ThreadsTyped, RunRules, OwnNote, Running, Note
<1>4. QED
  BY <1>1, <1>2, <1>3 DEF GcInv

LEMMA JudgeKeepsInv ==
    ASSUME GcInv, NEW d \in Diagnoses, Judge(d)
    PROVE  GcInv'
<1>1. ThreadsTyped'
  BY DEF GcInv, ThreadsTyped, Judge
<1>2. ASSUME NEW x \in Diagnoses PROVE OfItsLog(x)'
  BY DEF GcInv, ThreadsTyped, Judge, OfItsLog
<1>3. ASSUME NEW x \in Diagnoses, alone'[x] PROVE OwnNote(x)'
  BY <1>3, FiguresAreSome, NoteOfVerdict DEF GcInv, ThreadsTyped, Judge, OwnNote, Running, Note
<1>4. QED
  BY <1>1, <1>2, <1>3 DEF GcInv

LEMMA AnnotateKeepsInv ==
    ASSUME GcInv, NEW d \in Diagnoses, Annotate(d)
    PROVE  GcInv'
<1>1. ThreadsTyped'
  BY DEF GcInv, ThreadsTyped, Annotate
<1>2. ASSUME NEW x \in Diagnoses PROVE OfItsLog(x)'
  BY DEF GcInv, ThreadsTyped, Annotate, OfItsLog
<1>3. ASSUME NEW x \in Diagnoses, alone'[x] PROVE OwnNote(x)'
  BY <1>3, FiguresAreSome, NoteOfVerdict DEF GcInv, ThreadsTyped, Annotate, OwnNote, Running, Note
<1>4. QED
  BY <1>1, <1>2, <1>3 DEF GcInv

LEMMA AnswerKeepsInv ==
    ASSUME GcInv, NEW d \in Diagnoses, Answer(d)
    PROVE  GcInv'
<1>1. ThreadsTyped'
  BY DEF GcInv, ThreadsTyped, Answer
<1>2. ASSUME NEW x \in Diagnoses PROVE OfItsLog(x)'
  BY DEF GcInv, ThreadsTyped, Answer, OfItsLog
<1>3. ASSUME NEW x \in Diagnoses, alone'[x] PROVE OwnNote(x)'
  BY <1>3 DEF GcInv, ThreadsTyped, Answer, OwnNote, Running, Note
<1>4. QED
  BY <1>1, <1>2, <1>3 DEF GcInv

LEMMA StepKeepsInv == GcInv /\ [GcNext]_gcVars => GcInv'
<1>1. SUFFICES ASSUME GcInv, [GcNext]_gcVars
               PROVE  GcInv'
  OBVIOUS
<1>2. CASE GcNext
  BY <1>1, <1>2, UploadKeepsInv, ResetKeepsInv, RulesKeepInv, JudgeKeepsInv, AnnotateKeepsInv,
     AnswerKeepsInv DEF GcNext
<1>3. CASE UNCHANGED gcVars
  BY <1>1, <1>3 DEF gcVars, GcInv, ThreadsTyped, OfItsLog, OwnNote, Running, Note
<1>4. QED
  BY <1>1, <1>2, <1>3

(* The invariant in the composition: the other three reports share no state. *)
THEOREM GcInvariance == ReportsSpec => []GcInv
<1>1. ReportsInit => GcInv
  BY GcInvInit DEF ReportsInit
<1>2. [ReportsNext]_reportsVars => [GcNext]_gcVars
  BY DEF ReportsNext, reportsVars, gcVars
<1>3. GcInv /\ [ReportsNext]_reportsVars => GcInv'
  BY <1>2, StepKeepsInv
<1>4. QED
  BY <1>1, <1>3, PTL DEF ReportsSpec

(* Types of the diagnosis.                                                   *)
THEOREM GcTypeCorrect == ReportsSpec => []GcTypeOK
<1>1. GcInv => GcTypeOK
  <2>1. SUFFICES ASSUME GcInv, NEW d \in Diagnoses, NEW f \in findings[d]
                 PROVE  f.severity \in {"medium", "high"}
    BY DEF GcInv, ThreadsTyped, OfItsLog, GcTypeOK
  <2>2. findings[d] = {} \/ findings[d] = Findings(log[d])
    BY <2>1 DEF GcInv, ThreadsTyped, OfItsLog
  <2>3. QED
    BY <2>1, <2>2, FindingsSay
<1>2. QED
  BY <1>1, GcInvariance, PTL

(* A diagnosis that no other overlaps ends, and its summary has the note on  *)
(* a healthy high frequency if its own log deserves it, with the figures of  *)
(* that log (compute_stats, _HEALTHY_HIGH_FREQ).                             *)
THEOREM NoteIsOwn == ReportsSpec => []NoteIsOwnWhenAlone
<1>1. GcInv => NoteIsOwnWhenAlone
  BY DEF GcInv, OwnNote, Note, NoteIsOwnWhenAlone, Done
<1>2. QED
  BY <1>1, GcInvariance, PTL

(* What a report announces is backed by its findings: it has no leak beside  *)
(* an OOM, its banner agrees with its risk, its alarm shows evidence, and    *)
(* its advice is attributed to rules that fired (_rollup_risks,              *)
(* _detect_oom_candidates, _generate_recommendations).                       *)
THEOREM AnnouncedIsBacked == ReportsSpec => []VerdictIsBacked
<1>1. ASSUME GcInv, NEW d \in Diagnoses, Done(d)
      PROVE  /\ log[d] \in Uploads[d] /\ findings[d] = Findings(log[d])
             /\ \E note : verdict[d] = Verdict(log[d], findings[d], note)
  BY <1>1 DEF GcInv, OfItsLog, Done
<1>2. ASSUME GcInv, NEW d \in Diagnoses, Done(d)
      PROVE  /\ verdict[d].oom = OomRisk(findings[d]) /\ verdict[d].leak = LeakRisk(findings[d])
             /\ verdict[d].cause = RootCause(findings[d]) /\ verdict[d].evidence = Evidence(findings[d])
             /\ verdict[d].candidates = OomCandidates(log[d])
             /\ verdict[d].advice = Recommendations(log[d].collector, findings[d])
  <2>1. PICK note : verdict[d] = Verdict(log[d], findings[d], note)
    BY <1>1, <1>2
  <2>2. QED
    BY <2>1 DEF Verdict
<1>3. GcInv => LeakXorOom
  <2>1. ASSUME GcInv, NEW d \in Diagnoses, Done(d) PROVE Given(findings[d])
    BY <1>1, <2>1, FindingsSay DEF Given
  <2>2. QED
    BY <1>2, <2>1, OneRiskAtMost DEF LeakXorOom
<1>4. GcInv => BannerIsBacked
  BY <1>1, <1>2, BannerAgrees DEF BannerIsBacked
<1>5. GcInv => AlarmHasEvidence
  BY <1>2, CauseHasEvidence DEF AlarmHasEvidence
<1>6. GcInv => AdviceIsAttributed
  BY <1>2, AdviceAttributed DEF AdviceIsAttributed, Attributed
<1>7. GcInv => VerdictIsBacked
  BY <1>3, <1>4, <1>5, <1>6 DEF VerdictIsBacked
<1>8. QED
  BY <1>7, GcInvariance, PTL

------------------------------------------------------------------------------
(* Unified logs: the list of events, from the lines in whatever order.       *)

(* A set of naturals that is not empty has a least element.                  *)
LEMMA Least ==
    ASSUME NEW S \in SUBSET Nat, S # {}
    PROVE  \E x \in S : \A y \in S : x <= y
<1>1. PICK s \in S : TRUE
  OBVIOUS
<1> DEFINE T == {0 .. x : x \in S \cap (0 .. s)}
<1> DEFINE R == StrictSubsetOrdering(0 .. s)
<1>2. IsWellFoundedOn(R, SUBSET (0 .. s))
  <2>1. IsFiniteSet(0 .. s)
    BY <1>1, FS_Interval
  <2> QED BY <2>1, FS_StrictSubsetOrderingWellFounded, FS_FiniteSubsetsOfFinite
<1>3. T \subseteq SUBSET (0 .. s) /\ T # {}
  <2>1. s \in Nat /\ s \in S \cap (0 .. s)
    BY <1>1
  <2>2. ASSUME NEW x \in S \cap (0 .. s) PROVE 0 .. x \subseteq 0 .. s
    BY <2>1
  <2>3. T \subseteq SUBSET (0 .. s)
    BY <2>2, Zenon
  <2>4. 0 .. s \in T
    BY <2>1, Zenon
  <2> QED BY <2>3, <2>4, Zenon
<1>4. \A A, B \in SUBSET (0 .. s) : <<A, B>> \in R <=> A \subseteq B /\ A # B
  BY DEF StrictSubsetOrdering
<1>5. \E X \in T : \A Y \in T : ~(<<Y, X>> \in R)
  <2> HIDE DEF R, T
  <2> QED BY <1>2, <1>3, WFMin
<1>6. PICK x \in S \cap (0 .. s) : \A Y \in T : ~(<<Y, 0 .. x>> \in R)
  BY <1>5
<1>7. ASSUME NEW y \in S, y < x PROVE FALSE
  <2>1. y \in 0 .. s /\ y \in Nat /\ x \in Nat
    BY <1>7, <1>1
  <2>2. 0 .. y \in T
    BY <2>1
  <2>3. 0 .. y \subseteq 0 .. x /\ x \in 0 .. x /\ x \notin 0 .. y
    BY <2>1, <1>7
  <2>4. <<0 .. y, 0 .. x>> \in R
    <3>1. 0 .. y \in SUBSET (0 .. s) /\ 0 .. x \in SUBSET (0 .. s) /\ 0 .. y # 0 .. x
      BY <2>1, <2>2, <2>3, <1>3, <1>6
    <3> HIDE DEF R
    <3> QED BY <1>4, <2>3, <3>1
  <2> QED BY <2>2, <2>4, <1>6
<1> QED BY <1>6, <1>7

\* Sorting puts every event somewhere, and none before one it should follow.
Sorts(p, events) ==
    /\ p \in [DOMAIN events -> DOMAIN events]
    /\ SortedEvents(events) = [r \in DOMAIN events |-> events[p[r]]]
    /\ \A r, s \in DOMAIN events : r # s => p[r] # p[s]
    /\ \A i \in DOMAIN events : \E r \in DOMAIN events : p[r] = i
    /\ \A r, s \in DOMAIN events : r < s => Before9(events, p[r], p[s])

(* The ranks of the events are a permutation: an order that is total and     *)
(* tells any two apart gives each its own.                                    *)
LEMMA Sorting ==
    ASSUME NEW events, NEW n \in Nat, DOMAIN events = 1 .. n,
           \A i \in 1 .. n : events[i].id \in Int /\ events[i].at \in Int
    PROVE  \E p : Sorts(p, events)
<1> DEFINE B(i, j) == Before9(events, i, j)
<1> DEFINE upTo(i) == {j \in 1 .. n : B(j, i)}
<1> DEFINE rank == [i \in 1 .. n |-> Cardinality(upTo(i))]
<1>0. IsFiniteSet(1 .. n) /\ Cardinality(1 .. n) = n
  <2>1. IsFiniteSet(1 .. n) /\ Cardinality(1 .. n) = IF 1 > n THEN 0 ELSE n - 1 + 1
    BY FS_Interval
  <2> QED BY <2>1
<1>1. \A i \in 1 .. n : Time9(events[i]) \in Int /\ events[i].id \in Int
  BY DEF Time9
<1>2. /\ \A i, j \in 1 .. n : B(i, j) \/ B(j, i)
      /\ \A i, j \in 1 .. n : B(i, j) /\ B(j, i) => i = j
      /\ \A i, j, k \in 1 .. n : B(i, j) /\ B(j, k) => B(i, k)
  BY <1>1 DEF Before9
<1> HIDE DEF B
<1>3. \A i \in 1 .. n : IsFiniteSet(upTo(i)) /\ Cardinality(upTo(i)) \in 1 .. n
  <2> TAKE i \in 1 .. n
  <2>1. upTo(i) \in SUBSET (1 .. n) /\ i \in upTo(i)
    BY <1>2
  <2>2. IsFiniteSet(upTo(i)) /\ Cardinality(upTo(i)) <= n
    BY <2>1, <1>0, FS_Subset
  <2>3. Cardinality(upTo(i)) \in Nat /\ Cardinality(upTo(i)) # 0
    BY <2>1, <2>2, FS_CardinalityType, FS_EmptySet
  <2> QED BY <2>2, <2>3
<1>4. \A i, j \in 1 .. n : i # j /\ B(i, j) => rank[i] < rank[j]
  <2> SUFFICES ASSUME NEW i \in 1 .. n, NEW j \in 1 .. n, i # j, B(i, j) PROVE rank[i] < rank[j]
    OBVIOUS
  <2>1. upTo(i) \in SUBSET upTo(j) /\ j \in upTo(j) /\ j \notin upTo(i)
    BY <1>2
  <2>2. Cardinality(upTo(i)) <= Cardinality(upTo(j)) /\ Cardinality(upTo(i)) # Cardinality(upTo(j))
    BY <2>1, <1>3, FS_Subset
  <2>3. Cardinality(upTo(i)) < Cardinality(upTo(j))
    <3> HIDE DEF upTo
    <3> QED BY <2>2, <1>3
  <2> QED BY <2>3
<1>5. rank \in [1 .. n -> 1 .. n] /\ \A i, j \in 1 .. n : i # j => rank[i] # rank[j]
  <2>1. rank \in [1 .. n -> 1 .. n]
    BY <1>3
  <2> HIDE DEF rank, upTo
  <2>2. \A i \in 1 .. n : rank[i] \in Nat
    BY <2>1
  <2>3. \A i, j \in 1 .. n : i # j /\ B(i, j) => rank[i] # rank[j]
    BY <1>4, <2>2
  <2>4. \A i, j \in 1 .. n : i # j => rank[i] # rank[j]
    BY <1>2, <2>3
  <2> QED BY <2>1, <2>4
<1>6. \A r \in 1 .. n : \E i \in 1 .. n : rank[i] = r
  <2> HIDE DEF rank
  <2>1. rank \in Injection(1 .. n, 1 .. n)
    BY <1>5 DEF Injection, IsInjective
  <2>2. rank \in Surjection(1 .. n, 1 .. n)
    BY <2>1, <1>0, FS_Injection
  <2> QED BY <2>2 DEF Surjection
<1> DEFINE p == [r \in 1 .. n |-> CHOOSE i \in 1 .. n : rank[i] = r]
<1>7. SortedEvents(events) = [r \in DOMAIN events |-> events[p[r]]]
  <2>1. \A i \in DOMAIN events : rank[i] = Cardinality({j \in DOMAIN events : Before9(events, j, i)})
    BY DEF B
  <2>2. SortedEvents(events) =
          [r \in DOMAIN events |->
             events[CHOOSE i \in DOMAIN events : Cardinality({j \in DOMAIN events : Before9(events, j, i)}) = r]]
    BY DEF SortedEvents
  <2> HIDE DEF rank
  <2>3. \A r : (CHOOSE i \in DOMAIN events : Cardinality({j \in DOMAIN events : Before9(events, j, i)}) = r)
              = (CHOOSE i \in DOMAIN events : rank[i] = r)
    BY <2>1
  <2>4. \A r \in DOMAIN events : p[r] = (CHOOSE i \in DOMAIN events : rank[i] = r)
    OBVIOUS
  <2> DEFINE c(r) == CHOOSE i \in DOMAIN events : Cardinality({j \in DOMAIN events : Before9(events, j, i)}) = r
  <2>5. \A r \in DOMAIN events : p[r] = c(r)
    BY <2>3, <2>4
  <2>6. SortedEvents(events) = [r \in DOMAIN events |-> events[c(r)]]
    BY <2>2
  <2> HIDE DEF p, c
  <2> QED BY <2>5, <2>6
<1>8. \A r \in 1 .. n : p[r] \in 1 .. n /\ rank[p[r]] = r
  <2> HIDE DEF rank
  <2> QED BY <1>6
<1>9. Sorts(p, events)
  <2> HIDE DEF p, rank
  <2>1. p \in [1 .. n -> 1 .. n]
    <3> USE DEF p
    <3> QED BY <1>8
  <2>2. \A r, s \in 1 .. n : r # s => p[r] # p[s]
    BY <1>8
  <2>3. \A i \in 1 .. n : \E r \in 1 .. n : p[r] = i
    BY <1>5, <1>8
  <2>4. \A r, s \in 1 .. n : r < s => B(p[r], p[s])
    <3> SUFFICES ASSUME NEW r \in 1 .. n, NEW s \in 1 .. n, r < s, ~B(p[r], p[s]) PROVE FALSE
      OBVIOUS
    <3>1. B(p[s], p[r]) /\ p[s] # p[r]
      BY <1>2, <1>8, <2>2
    <3> QED BY <3>1, <1>4, <1>8
  <2> QED BY <1>7, <2>1, <2>2, <2>3, <2>4 DEF Sorts, B
<1> QED BY <1>9

------------------------------------------------------------------------------
\* The lines of an event, other than summaries.
Told == {k \in Reports9 : LineAt(k).heap # "percent"}
\* Those of the pauses of ZGC in a cycle.
ZLines(n) == {k \in Told : CycleOf(k) = n /\ Classify(LineAt(k).says) = "ZGC"}

\* What an event says is said by lines of its own cycle.
IsOwn(e) ==
    /\ e = [id |-> e.id, at |-> e.at, cat |-> e.cat, type |-> e.type, heap |-> e.heap, pauses |-> e.pauses]
    /\ e.id \in DOMAIN cycles
    /\ e.at \in LinesOf(e.id)
    /\ e.heap = 0 \/ (e.heap \in LinesOf(e.id) /\ LineAt(e.heap).heap # "no")
    /\ \A k \in e.pauses : k \in Told /\ CycleOf(k) = e.id
    /\ e.cat # "Full" =>
         \E k \in Told : /\ CycleOf(k) = e.id /\ LineAt(k).type = e.type
                         /\ Classify(LineAt(k).says) = e.cat /\ e.pauses = {k}

\* The event of a line.
Listed(k) ==
    \E i \in DOMAIN by_key :
        /\ by_key[i].id = CycleOf(k) /\ by_key[i].type = LineAt(k).type
        /\ by_key[i].cat = Classify(LineAt(k).says)
        /\ by_key[i].cat # "Full" => by_key[i].pauses = {k}

\* A full collection of ZGC has all the pauses of its cycle.
IsSummed(e) ==
    e.cat = "Full" /\ ZLines(e.id) # {} /\ (\A k \in ZLines(e.id) : OnceInCycle(k)) => e.pauses = ZLines(e.id)

\* The lines, and the events in a list.
LinesInv ==
    /\ cycles \in Logs9
    /\ Len(written) \in Nat /\ DOMAIN written = 1 .. Len(written)
    /\ \A k \in DOMAIN written : CycleOf(k) \in DOMAIN cycles /\ written[k][2] \in DOMAIN cycles[CycleOf(k)]
    /\ \A k \in DOMAIN written : LineAt(k).tag = "start" \/ LineAt(k).heap \in {"no", "percent", "total"}
    /\ stage9 \in {"reading", "events", "starts", "heaps", "done"}

\* What the tables have of a cycle.
TablesInv ==
    /\ DOMAIN startOf = DOMAIN cycles /\ DOMAIN zgcHeap = DOMAIN cycles /\ DOMAIN totalHeap = DOMAIN cycles
    /\ \A n \in DOMAIN cycles :
        /\ startOf[n] = 0 \/ startOf[n] \in LinesOf(n)
        /\ zgcHeap[n] = 0 \/ (zgcHeap[n] \in LinesOf(n) /\ LineAt(zgcHeap[n]).heap = "percent")
        /\ totalHeap[n] = 0 \/ (totalHeap[n] \in LinesOf(n) /\ LineAt(totalHeap[n]).heap = "total")
        /\ \A k \in LinesOf(n) :
            /\ LineAt(k).tag # "start" /\ LineAt(k).heap = "percent" => zgcHeap[n] # 0
            /\ LineAt(k).tag # "start" /\ LineAt(k).heap = "total" => totalHeap[n] # 0

ListInv ==
    /\ Len(by_key) \in Nat /\ by_key = [i \in 1 .. Len(by_key) |-> by_key[i]]
    /\ \A i \in DOMAIN by_key : IsOwn(by_key[i])
    /\ \A i, j \in DOMAIN by_key : i # j => Key(by_key[i]) # Key(by_key[j])
    /\ \A k \in Told : OnceInCycle(k) => Listed(k)

PassesInv ==
    /\ stage9 # "reading" => \A i \in DOMAIN by_key : IsSummed(by_key[i])
    /\ stage9 \in {"starts", "heaps", "done"} =>
         \A i, j \in DOMAIN by_key :
            by_key[i].id < by_key[j].id /\ Apart(by_key[i].id, by_key[j].id) => i < j
    /\ stage9 = "done" =>
         \A i \in DOMAIN by_key :
            by_key[i].heap = 0 => zgcHeap[by_key[i].id] = 0 /\ totalHeap[by_key[i].id] = 0

Inv9 == LinesInv /\ TablesInv /\ ListInv /\ PassesInv

(* Where an event is in the list.                                            *)
LEMMA Placed ==
    ASSUME NEW events, Len(events) \in Nat, NEW e
    PROVE  /\ Place(events, e) = 0 \/ Place(events, e) \in 1 .. Len(events)
           /\ Place(events, e) = 0 => \A i \in 1 .. Len(events) : Key(events[i]) # Key(e)
           /\ Place(events, e) # 0 => Key(events[Place(events, e)]) = Key(e)
<1> DEFINE I == {i \in 1 .. Len(events) : Key(events[i]) = Key(e)}
<1>1. Place(events, e) = IF I # {} THEN Min(I) ELSE 0
  BY DEF Place, SelectInSeq
<1>2. I # {} => Min(I) \in I
  <2>1. I \in SUBSET Nat
    OBVIOUS
  <2> HIDE DEF I
  <2> SUFFICES ASSUME I # {} PROVE Min(I) \in I
    OBVIOUS
  <2>2. \E x \in I : \A y \in I : x <= y
    BY <2>1, Least
  <2> QED BY <2>2 DEF Min
<1> QED BY <1>1, <1>2

\* What comes of a list that an event is put into: more.
Took(events, e, new) ==
    /\ Len(new) \in Nat /\ new = [i \in 1 .. Len(new) |-> new[i]] /\ Len(events) <= Len(new)
    /\ \A i \in 1 .. Len(new) : new[i] = e \/ (i \in 1 .. Len(events) /\ new[i] = events[i])
    /\ \A i \in 1 .. Len(events) : new[i] = events[i] \/ (new[i] = e /\ Key(events[i]) = Key(e))
    /\ \A i, j \in 1 .. Len(new) : i # j => Key(new[i]) # Key(new[j])

LEMMA Taking ==
    ASSUME NEW events, Len(events) \in Nat, events = [i \in 1 .. Len(events) |-> events[i]],
           \A i, j \in 1 .. Len(events) : i # j => Key(events[i]) # Key(events[j]), NEW e
    PROVE  /\ Took(events, e, Enter(events, e))
           /\ \E i \in 1 .. Len(Enter(events, e)) : Key(Enter(events, e)[i]) = Key(e)
           /\ Took(events, e, Overwrite(events, e))
           /\ \E i \in 1 .. Len(Overwrite(events, e)) : Overwrite(events, e)[i] = e
<1> DEFINE S == {events[i] : i \in 1 .. Len(events)} \cup {e}
<1> DEFINE there == Place(events, e)
<1>0. events \in Seq(S) /\ e \in S
  OBVIOUS
<1>1. CASE there = 0
  <2> DEFINE new == Append(events, e)
  <2>1. Enter(events, e) = new /\ Overwrite(events, e) = new
    BY <1>1 DEF Enter, Overwrite
  <2>2. /\ new \in Seq(S) /\ Len(new) = Len(events) + 1
        /\ \A i \in 1 .. Len(events) : new[i] = events[i]
        /\ new[Len(events) + 1] = e
    BY <1>0, AppendProperties
  <2>3. \A i \in 1 .. Len(events) : Key(events[i]) # Key(e)
    BY <1>1, Placed
  <2> HIDE DEF new, S, there
  <2>4. new = [i \in 1 .. Len(new) |-> new[i]] /\ Len(new) \in Nat
    BY <2>2
  <2>5. \A i \in 1 .. Len(new) : i \in 1 .. Len(events) \/ i = Len(events) + 1
    BY <2>2
  <2>6. \A i, j \in 1 .. Len(new) : i # j => Key(new[i]) # Key(new[j])
    BY <2>2, <2>3, <2>5
  <2>7. Took(events, e, new)
    BY <2>2, <2>4, <2>5, <2>6 DEF Took
  <2> QED BY <2>1, <2>2, <2>7
<1>2. CASE there # 0
  <2> DEFINE new == [events EXCEPT ![there] = e]
  <2>1. Enter(events, e) = events /\ Overwrite(events, e) = new
    BY <1>2 DEF Enter, Overwrite
  <2>2. there \in 1 .. Len(events) /\ Key(events[there]) = Key(e)
    BY <1>2, Placed
  <2>3. /\ DOMAIN new = 1 .. Len(events) /\ new \in Seq(S)
        /\ \A i \in 1 .. Len(events) : new[i] = IF i = there THEN e ELSE events[i]
    BY <2>2, <1>0
  <2>4. Len(new) = Len(events)
    BY <2>3
  <2> HIDE DEF new, S, there
  <2>5. new = [i \in 1 .. Len(new) |-> new[i]]
    BY <2>3, <2>4
  <2>6. Took(events, e, new)
    BY <2>2, <2>3, <2>4, <2>5 DEF Took
  <2>7. Took(events, e, events)
    BY DEF Took
  <2> QED BY <2>1, <2>2, <2>3, <2>4, <2>6, <2>7
<1> QED BY <1>1, <1>2

------------------------------------------------------------------------------
(* A step of the machine.                                                    *)

\* The next line, of cycle n.
Next9(n, k) ==
    /\ k = Len(written) + 1
    /\ n \in DOMAIN cycles
    /\ WrittenOf(n) + 1 \in DOMAIN cycles[n]
    /\ written' = Append(written, <<n, WrittenOf(n) + 1>>)
    /\ UNCHANGED <<cycles, clocked, stage9>>

LEMMA NextLine ==
    ASSUME LinesInv, NEW n, NEW k, Next9(n, k)
    PROVE  /\ Len(written)' = k /\ DOMAIN written' = 1 .. k /\ k \in Nat
           /\ DOMAIN written' = DOMAIN written \cup {k} /\ k \notin DOMAIN written
           /\ \A j \in DOMAIN written : written'[j] = written[j]
           /\ \A j \in DOMAIN written : LineAt(j)' = LineAt(j) /\ CycleOf(j)' = CycleOf(j)
           /\ LineAt(k)' = NextOf(n) /\ CycleOf(k)' = n
<1> DEFINE new == <<n, WrittenOf(n) + 1>>
<1> DEFINE S == {written[i] : i \in 1 .. Len(written)} \cup {new}
<1>1. /\ Len(written)' = Len(written) + 1 /\ DOMAIN written' = 1 .. Len(written) + 1
      /\ \A j \in 1 .. Len(written) : written'[j] = written[j]
      /\ written'[Len(written) + 1] = new
  BY DEF Next9, LinesInv
<1>2. /\ k = Len(written) + 1 /\ Len(written) \in Nat /\ DOMAIN written = 1 .. Len(written)
      /\ cycles' = cycles
  BY DEF Next9, LinesInv
<1>3. \A j \in DOMAIN written : written'[j] = written[j]
  BY <1>1, <1>2
<1>4. \A j \in DOMAIN written : LineAt(j)' = LineAt(j) /\ CycleOf(j)' = CycleOf(j)
  BY <1>2, <1>3 DEF LineAt, CycleOf
<1>5. LineAt(k)' = NextOf(n) /\ CycleOf(k)' = n
  BY <1>1, <1>2 DEF LineAt, CycleOf, NextOf
<1> QED BY <1>1, <1>2, <1>3, <1>4, <1>5

(* What was read stays what it was.                                          *)
LEMMA LinesStay ==
    ASSUME LinesInv, NEW n, NEW k, Next9(n, k)
    PROVE  /\ \A m : LinesOf(m)' = LinesOf(m) \cup (IF m = n THEN {k} ELSE {})
           /\ \A m : LinesOf(m) \subseteq DOMAIN written
           /\ \A j \in DOMAIN written : j \in Reports9' <=> j \in Reports9
           /\ \A j \in DOMAIN written : j \in Told' <=> j \in Told
           /\ Reports9' \subseteq Reports9 \cup {k} /\ Told' \subseteq Told \cup {k}
           /\ k \in Reports9' <=> NextOf(n).tag # "start" /\ (IsPhase(NextOf(n)) \/ NextOf(n).heap = "total")
           /\ Told \subseteq Reports9 /\ Reports9 \subseteq DOMAIN written
           /\ \A j \in Reports9 : OnceInCycle(j)' => OnceInCycle(j)
<1>1. /\ DOMAIN written' = DOMAIN written \cup {k} /\ k \notin DOMAIN written
      /\ \A j \in DOMAIN written : LineAt(j)' = LineAt(j) /\ CycleOf(j)' = CycleOf(j)
      /\ LineAt(k)' = NextOf(n) /\ CycleOf(k)' = n
  BY NextLine
<1>2. \A m : LinesOf(m)' = LinesOf(m) \cup (IF m = n THEN {k} ELSE {})
  BY <1>1 DEF LinesOf
<1>3. \A m : LinesOf(m) \subseteq DOMAIN written
  BY DEF LinesOf
<1>4. \A j \in DOMAIN written : j \in Reports9' <=> j \in Reports9
  BY <1>1 DEF Reports9
<1>5. \A j \in DOMAIN written : j \in Told' <=> j \in Told
  BY <1>1, <1>4 DEF Told
<1>6. Reports9 \subseteq DOMAIN written /\ Reports9' \subseteq DOMAIN written' /\ Told \subseteq Reports9 /\ Told' \subseteq Reports9'
  BY DEF Reports9, Told
<1>7. Reports9' \subseteq Reports9 \cup {k} /\ Told' \subseteq Told \cup {k}
  BY <1>1, <1>4, <1>5, <1>6
<1>8. k \in Reports9' <=> NextOf(n).tag # "start" /\ (IsPhase(NextOf(n)) \/ NextOf(n).heap = "total")
  <2>1. k \in Reports9' <=> LineAt(k)'.tag # "start" /\ (IsPhase(LineAt(k)') \/ LineAt(k)'.heap = "total")
    BY <1>1 DEF Reports9
  <2> QED BY <1>1, <2>1
<1>9. ASSUME NEW j \in Reports9, OnceInCycle(j)' PROVE OnceInCycle(j)
  BY <1>1, <1>4, <1>6, <1>9 DEF OnceInCycle
<1> QED BY <1>2, <1>3, <1>4, <1>5, <1>6, <1>7, <1>8, <1>9

(* What an event says stays said.                                            *)
LEMMA OwnStays ==
    ASSUME LinesInv, NEW n, NEW k, Next9(n, k), NEW e, IsOwn(e)
    PROVE  IsOwn(e)'
<1>1. /\ \A m : LinesOf(m) \subseteq LinesOf(m)' /\ LinesOf(m) \subseteq DOMAIN written
      /\ Told \subseteq Told' /\ Told \subseteq DOMAIN written
  BY LinesStay
<1>2. \A j \in DOMAIN written : LineAt(j)' = LineAt(j) /\ CycleOf(j)' = CycleOf(j)
  BY NextLine
<1>3. cycles' = cycles
  BY DEF Next9
<1>4. e.at \in LinesOf(e.id)'
  BY <1>1 DEF IsOwn
<1>5. e.heap = 0 \/ (e.heap \in LinesOf(e.id)' /\ LineAt(e.heap)'.heap # "no")
  BY <1>1, <1>2 DEF IsOwn
<1>6. \A j \in e.pauses : j \in Told' /\ CycleOf(j)' = e.id
  BY <1>1, <1>2 DEF IsOwn
<1>7. e.cat # "Full" =>
         \E j \in Told' : /\ CycleOf(j)' = e.id /\ LineAt(j)'.type = e.type
                          /\ Classify(LineAt(j)'.says) = e.cat /\ e.pauses = {j}
  <2> SUFFICES ASSUME e.cat # "Full"
               PROVE  \E j \in Told' : /\ CycleOf(j)' = e.id /\ LineAt(j)'.type = e.type
                                       /\ Classify(LineAt(j)'.says) = e.cat /\ e.pauses = {j}
    OBVIOUS
  <2>1. PICK j \in Told : /\ CycleOf(j) = e.id /\ LineAt(j).type = e.type
                          /\ Classify(LineAt(j).says) = e.cat /\ e.pauses = {j}
    BY DEF IsOwn
  <2> QED BY <2>1, <1>1, <1>2
<1>8. /\ e = [id |-> e.id, at |-> e.at, cat |-> e.cat, type |-> e.type, heap |-> e.heap, pauses |-> e.pauses]
      /\ e.id \in DOMAIN cycles'
  BY <1>3 DEF IsOwn
<1> QED BY <1>4, <1>5, <1>6, <1>7, <1>8 DEF IsOwn

(* The events of the line that is read.                                      *)
LEMMA ReadIsOwn ==
    ASSUME LinesInv, NEW n, NEW k, Next9(n, k), NEW heap, NEW pauses,
           NEW e, e = Event9(n, k, NextOf(n), heap, pauses), NextOf(n).tag # "start",
           heap = 0 \/ (heap = k /\ NextOf(n).heap # "no"),
           \/ pauses = {k} /\ NextOf(n).heap # "percent" /\ (IsPhase(NextOf(n)) \/ NextOf(n).heap = "total")
           \/ pauses = {} /\ Classify(NextOf(n).says) = "Full"
    PROVE  IsOwn(e)'
<1>1. /\ e = [id |-> n, at |-> k, cat |-> Classify(NextOf(n).says), type |-> NextOf(n).type,
              heap |-> heap, pauses |-> pauses]
      /\ e.id = n /\ e.at = k /\ e.cat = Classify(NextOf(n).says) /\ e.type = NextOf(n).type
      /\ e.heap = heap /\ e.pauses = pauses
  BY DEF Event9
<1>2. LineAt(k)' = NextOf(n) /\ CycleOf(k)' = n /\ n \in DOMAIN cycles /\ cycles' = cycles
  BY NextLine DEF Next9
<1>3. k \in LinesOf(n)'
  BY LinesStay
<1>4. pauses = {k} => k \in Told'
  <2> SUFFICES ASSUME pauses = {k} PROVE k \in Told'
    OBVIOUS
  <2>1. NextOf(n).heap # "percent" /\ (IsPhase(NextOf(n)) \/ NextOf(n).heap = "total")
    OBVIOUS
  <2>2. k \in Reports9'
    BY <2>1, LinesStay
  <2> QED BY <2>1, <2>2, <1>2 DEF Told
<1>5. e = [id |-> e.id, at |-> e.at, cat |-> e.cat, type |-> e.type, heap |-> e.heap, pauses |-> e.pauses]
  BY <1>1
<1>6. e.heap = 0 \/ (e.heap \in LinesOf(e.id)' /\ LineAt(e.heap)'.heap # "no")
  BY <1>1, <1>2, <1>3
<1>7. \A j \in e.pauses : j \in Told' /\ CycleOf(j)' = e.id
  BY <1>1, <1>2, <1>4
<1>8. e.cat # "Full" =>
         \E j \in Told' : /\ CycleOf(j)' = e.id /\ LineAt(j)'.type = e.type
                          /\ Classify(LineAt(j)'.says) = e.cat /\ e.pauses = {j}
  BY <1>1, <1>2, <1>4
<1> QED BY <1>1, <1>2, <1>3, <1>5, <1>6, <1>7, <1>8 DEF IsOwn

(* Of an event in the list.                                                  *)
LEMMA OwnInList == ASSUME NEW i, NEW o, o = by_key'[i], IsOwn(o)' PROVE IsOwn(by_key[i])'
BY DEF IsOwn

(* A line that reports nothing leaves the list alone.                        *)
LEMMA ListLeft ==
    ASSUME LinesInv, ListInv, NEW n, NEW k, Next9(n, k), by_key' = by_key, k \notin Told'
    PROVE  ListInv'
<1>1. ASSUME NEW i \in DOMAIN by_key PROVE IsOwn(by_key[i])'
  <2>1. PICK o : o = by_key[i]
    OBVIOUS
  <2>2. IsOwn(o)
    BY <2>1 DEF ListInv
  <2>3. IsOwn(o)'
    BY <2>2, OwnStays
  <2> QED BY <2>1, <2>3, OwnInList
<1>2. \A j \in Told' : OnceInCycle(j)' => Listed(j)'
  <2> SUFFICES ASSUME NEW j \in Told', OnceInCycle(j)' PROVE Listed(j)'
    OBVIOUS
  <2>1. j \in Told /\ OnceInCycle(j) /\ j \in DOMAIN written
    BY LinesStay
  <2>2. LineAt(j)' = LineAt(j) /\ CycleOf(j)' = CycleOf(j)
    BY <2>1, NextLine
  <2>3. Listed(j)
    BY <2>1 DEF ListInv
  <2> QED BY <2>2, <2>3 DEF Listed
<1> QED BY <1>1, <1>2 DEF ListInv

(* A line that reports something puts it into the list, where nothing else   *)
(* is lost: what it replaces has the same text and is of the same cycle.     *)
LEMMA ListTakes ==
    ASSUME LinesInv, ListInv, NEW n, NEW k, Next9(n, k), NEW e, IsOwn(e)',
           e.id = n, e.type = NextOf(n).type, e.cat = Classify(NextOf(n).says),
           k \in Told' => e.pauses = {k}, Took(by_key, e, by_key'),
           \E i \in 1 .. Len(by_key') : Key(by_key'[i]) = Key(e),
           k \in Reports9' \/ \A i \in 1 .. Len(by_key) : by_key'[i] = by_key[i]
    PROVE  ListInv'
<1>0. /\ Len(by_key) \in Nat /\ DOMAIN by_key = 1 .. Len(by_key)
      /\ Len(by_key') \in Nat /\ DOMAIN by_key' = 1 .. Len(by_key')
      /\ by_key' = [i \in 1 .. Len(by_key') |-> by_key'[i]]
      /\ \A i \in 1 .. Len(by_key) : i \in 1 .. Len(by_key')
  <2>1. Len(by_key) \in Nat /\ DOMAIN by_key = 1 .. Len(by_key)
    BY DEF ListInv
  <2>2. Len(by_key') \in Nat /\ by_key' = [i \in 1 .. Len(by_key') |-> by_key'[i]] /\ Len(by_key) <= Len(by_key')
    BY DEF Took
  <2> QED BY <2>1, <2>2
<1>1. \A i \in DOMAIN by_key' : by_key'[i] = e \/ (i \in DOMAIN by_key /\ by_key'[i] = by_key[i])
  BY <1>0 DEF Took
<1>2. ASSUME NEW i \in DOMAIN by_key' PROVE IsOwn(by_key[i])'
  <2>1. CASE by_key'[i] = e
    BY <2>1, OwnInList
  <2>2. CASE i \in DOMAIN by_key /\ by_key'[i] = by_key[i]
    <3>1. IsOwn(by_key[i])
      BY <2>2 DEF ListInv
    <3>2. PICK o : o = by_key[i]
      OBVIOUS
    <3>3. IsOwn(o)'
      BY <3>1, <3>2, OwnStays
    <3> QED BY <2>2, <3>2, <3>3, OwnInList
  <2> QED BY <1>1, <2>1, <2>2
<1>3. \A i, j \in DOMAIN by_key' : i # j => Key(by_key'[i]) # Key(by_key'[j])
  BY <1>0 DEF Took
<1>4. LineAt(k)' = NextOf(n) /\ CycleOf(k)' = n /\ k \notin DOMAIN written
  BY NextLine
<1>5. ASSUME NEW j \in Told', OnceInCycle(j)', j # k PROVE Listed(j)'
  <2>1. j \in Told /\ j \in Reports9 /\ OnceInCycle(j) /\ j \in DOMAIN written /\ j \in Reports9'
    BY <1>5, LinesStay
  <2>2. LineAt(j)' = LineAt(j) /\ CycleOf(j)' = CycleOf(j)
    BY <2>1, NextLine
  <2>3. PICK i \in DOMAIN by_key :
          /\ by_key[i].id = CycleOf(j) /\ by_key[i].type = LineAt(j).type
          /\ by_key[i].cat = Classify(LineAt(j).says)
          /\ by_key[i].cat # "Full" => by_key[i].pauses = {j}
    BY <2>1 DEF ListInv, Listed
  <2>4. by_key'[i] = by_key[i]
    <3> SUFFICES ASSUME by_key'[i] # by_key[i] PROVE FALSE
      OBVIOUS
    <3>1. Key(by_key[i]) = Key(e) /\ k \in Reports9'
      BY <1>0 DEF Took
    <3>2. CycleOf(j) = n /\ LineAt(j).type = NextOf(n).type
      BY <2>3, <3>1 DEF Key
    <3>3. CycleOf(k)' = CycleOf(j)' /\ LineAt(k)'.type = LineAt(j)'.type
      BY <1>4, <2>2, <3>2
    <3> QED BY <1>5, <3>1, <3>3 DEF OnceInCycle
  <2> QED BY <1>0, <2>2, <2>3, <2>4 DEF Listed
<1>6. ASSUME k \in Told', OnceInCycle(k)' PROVE Listed(k)'
  <2>1. PICK i \in DOMAIN by_key' : Key(by_key'[i]) = Key(e)
    BY <1>0
  <2>2. by_key'[i].id = n /\ by_key'[i].cat = Classify(NextOf(n).says) /\ by_key'[i].type = NextOf(n).type
    BY <2>1 DEF Key
  <2>3. by_key'[i].cat # "Full" => by_key'[i].pauses = {k}
    <3>1. CASE by_key'[i] = e
      BY <3>1, <1>6
    <3>2. CASE i \in DOMAIN by_key /\ by_key'[i] = by_key[i] /\ by_key[i].cat # "Full"
      <4>1. PICK j \in Told : CycleOf(j) = n /\ LineAt(j).type = NextOf(n).type
        BY <2>2, <3>2 DEF ListInv, IsOwn
      <4>2. j \in DOMAIN written /\ j \in Reports9' /\ LineAt(j)' = LineAt(j) /\ CycleOf(j)' = CycleOf(j)
        BY LinesStay, NextLine
      <4>3. j = k
        BY <4>1, <4>2, <1>4, <1>6 DEF OnceInCycle
      <4> QED BY <4>2, <4>3, <1>4
    <3> QED BY <1>1, <3>1, <3>2
  <2> QED BY <1>4, <2>2, <2>3 DEF Listed
<1> QED BY <1>0, <1>2, <1>3, <1>5, <1>6 DEF ListInv

\* One of the four ways to read it.
Reads(n, k) ==
    \/ ReadStart(n, k, NextOf(n)) \/ ReadMain(n, k, NextOf(n))
    \/ ReadSummary(n, k, NextOf(n)) \/ ReadOther(n, k, NextOf(n))

LEMMA ReadIsNext ==
    ASSUME LinesInv, ReadLine9
    PROVE  \E n, k : Next9(n, k) /\ Reads(n, k) /\ stage9 = "reading"
<1>1. PICK n \in DOMAIN cycles :
        /\ stage9 = "reading" /\ MayWrite(n)
        /\ written' = Append(written, <<n, WrittenOf(n) + 1>>)
        /\ Reads(n, Len(written) + 1)
        /\ UNCHANGED <<cycles, clocked, stage9>>
  BY DEF ReadLine9, Reads
<1> DEFINE W == {k \in DOMAIN written : written[k][1] = n}
<1>2. IsFiniteSet(W) /\ Cardinality(W) \in Nat
  <2>1. W \in SUBSET (1 .. Len(written)) /\ IsFiniteSet(1 .. Len(written))
    BY FS_Interval DEF LinesInv
  <2> QED BY <2>1, FS_Subset, FS_CardinalityType
<1>3. WrittenOf(n) \in Nat /\ WrittenOf(n) < Len(cycles[n])
  BY <1>1, <1>2 DEF WrittenOf, MayWrite
<1>4. Len(cycles[n]) \in Nat /\ DOMAIN cycles[n] = 1 .. Len(cycles[n])
  BY Log9Assumption DEF LinesInv
<1>5. Next9(n, Len(written) + 1)
  BY <1>1, <1>3, <1>4 DEF Next9
<1> QED BY <1>1, <1>5

LEMMA LinesKept ==
    ASSUME LinesInv, NEW n, NEW k, Next9(n, k), Reads(n, k)
    PROVE  LinesInv'
<1>1. /\ Len(written)' = k /\ DOMAIN written' = 1 .. k /\ k \in Nat
      /\ DOMAIN written' = DOMAIN written \cup {k}
      /\ \A j \in DOMAIN written : LineAt(j)' = LineAt(j) /\ CycleOf(j)' = CycleOf(j) /\ written'[j] = written[j]
      /\ LineAt(k)' = NextOf(n) /\ CycleOf(k)' = n
  BY NextLine
<1>2. written'[k][2] = WrittenOf(n) + 1 /\ cycles' = cycles /\ stage9' = stage9
      /\ n \in DOMAIN cycles /\ WrittenOf(n) + 1 \in DOMAIN cycles[n]
  BY DEF Next9, LinesInv
<1>3. NextOf(n).tag = "start" \/ NextOf(n).heap \in {"no", "percent", "total"}
  BY DEF Reads, ReadStart, ReadMain, ReadSummary, ReadOther
<1>4. \A j \in DOMAIN written' : CycleOf(j)' \in DOMAIN cycles' /\ written'[j][2] \in DOMAIN cycles'[CycleOf(j)']
  BY <1>1, <1>2 DEF LinesInv
<1>5. \A j \in DOMAIN written' : LineAt(j)'.tag = "start" \/ LineAt(j)'.heap \in {"no", "percent", "total"}
  BY <1>1, <1>3 DEF LinesInv
<1> QED BY <1>1, <1>2, <1>4, <1>5 DEF LinesInv

LEMMA TablesKept ==
    ASSUME LinesInv, TablesInv, NEW n, NEW k, Next9(n, k), Reads(n, k)
    PROVE  TablesInv'
<1>1. /\ \A m : LinesOf(m)' = LinesOf(m) \cup (IF m = n THEN {k} ELSE {})
      /\ \A m : LinesOf(m) \subseteq DOMAIN written
  BY LinesStay
<1>2. /\ \A j \in DOMAIN written : LineAt(j)' = LineAt(j)
      /\ LineAt(k)' = NextOf(n) /\ k \in Nat /\ k # 0
  BY NextLine DEF Next9, LinesInv
<1>3. cycles' = cycles /\ n \in DOMAIN cycles
  BY DEF Next9
<1>4. /\ startOf' = startOf \/ startOf' = [startOf EXCEPT ![n] = k]
      /\ \/ zgcHeap' = zgcHeap /\ (NextOf(n).tag = "start" \/ NextOf(n).heap # "percent")
         \/ zgcHeap' = [zgcHeap EXCEPT ![n] = k] /\ NextOf(n).heap = "percent"
      /\ \/ totalHeap' = totalHeap /\ (NextOf(n).tag = "start" \/ NextOf(n).heap # "total")
         \/ totalHeap' = [totalHeap EXCEPT ![n] = k] /\ NextOf(n).heap = "total"
  BY DEF Reads, ReadStart, ReadMain, ReadSummary, ReadOther
<1>5. DOMAIN startOf' = DOMAIN cycles' /\ DOMAIN zgcHeap' = DOMAIN cycles' /\ DOMAIN totalHeap' = DOMAIN cycles'
  BY <1>3, <1>4 DEF TablesInv
<1>6. ASSUME NEW m \in DOMAIN cycles PROVE startOf'[m] = 0 \/ startOf'[m] \in LinesOf(m)'
  BY <1>1, <1>3, <1>4 DEF TablesInv
<1>7. ASSUME NEW m \in DOMAIN cycles
      PROVE  /\ zgcHeap'[m] = 0 \/ (zgcHeap'[m] \in LinesOf(m)' /\ LineAt(zgcHeap[m])'.heap = "percent")
             /\ \A j \in LinesOf(m)' : LineAt(j)'.tag # "start" /\ LineAt(j)'.heap = "percent" => zgcHeap'[m] # 0
  <2>1. PICK z : z = zgcHeap'[m]
    OBVIOUS
  <2>2. z = 0 \/ (z \in LinesOf(m)' /\ LineAt(z)'.heap = "percent")
    BY <2>1, <1>1, <1>2, <1>3, <1>4 DEF TablesInv
  <2>3. ASSUME NEW j \in LinesOf(m)', LineAt(j)'.tag # "start", LineAt(j)'.heap = "percent" PROVE z # 0
    BY <2>1, <2>3, <1>1, <1>2, <1>3, <1>4 DEF TablesInv
  <2> QED BY <2>1, <2>2, <2>3 DEF LineAt
<1>8. ASSUME NEW m \in DOMAIN cycles
      PROVE  /\ totalHeap'[m] = 0 \/ (totalHeap'[m] \in LinesOf(m)' /\ LineAt(totalHeap[m])'.heap = "total")
             /\ \A j \in LinesOf(m)' : LineAt(j)'.tag # "start" /\ LineAt(j)'.heap = "total" => totalHeap'[m] # 0
  <2>1. PICK z : z = totalHeap'[m]
    OBVIOUS
  <2>2. z = 0 \/ (z \in LinesOf(m)' /\ LineAt(z)'.heap = "total")
    BY <2>1, <1>1, <1>2, <1>3, <1>4 DEF TablesInv
  <2>3. ASSUME NEW j \in LinesOf(m)', LineAt(j)'.tag # "start", LineAt(j)'.heap = "total" PROVE z # 0
    BY <2>1, <2>3, <1>1, <1>2, <1>3, <1>4 DEF TablesInv
  <2> QED BY <2>1, <2>2, <2>3 DEF LineAt
<1> QED BY <1>3, <1>5, <1>6, <1>7, <1>8 DEF TablesInv

LEMMA ListKept ==
    ASSUME LinesInv, ListInv, NEW n, NEW k, Next9(n, k), Reads(n, k)
    PROVE  ListInv'
<1>1. /\ Len(by_key) \in Nat /\ by_key = [i \in 1 .. Len(by_key) |-> by_key[i]]
      /\ \A i, j \in 1 .. Len(by_key) : i # j => Key(by_key[i]) # Key(by_key[j])
  BY DEF ListInv
<1>2. /\ k \in Reports9' <=> NextOf(n).tag # "start" /\ (IsPhase(NextOf(n)) \/ NextOf(n).heap = "total")
      /\ k \in Told' => k \in Reports9' /\ NextOf(n).heap # "percent"
  <2>1. LineAt(k)' = NextOf(n)
    BY NextLine
  <2>2. k \in Told' => k \in Reports9' /\ LineAt(k)'.heap # "percent"
    BY DEF Told
  <2> QED BY <2>1, <2>2, LinesStay
<1>3. CASE k \notin Told' /\ by_key' = by_key
  BY <1>3, ListLeft
<1>4. CASE ReadMain(n, k, NextOf(n))
  <2>1. PICK e : e = Event9(n, k, NextOf(n), k, {k})
    OBVIOUS
  <2>2. by_key' = Overwrite(by_key, e) /\ NextOf(n).tag # "start" /\ NextOf(n).heap = "total"
    BY <1>4, <2>1 DEF ReadMain
  <2>3. e.id = n /\ e.type = NextOf(n).type /\ e.cat = Classify(NextOf(n).says) /\ e.pauses = {k}
    BY <2>1 DEF Event9
  <2>4. IsOwn(e)'
    BY <2>1, <2>2, ReadIsOwn
  <2>5. Took(by_key, e, by_key') /\ \E i \in 1 .. Len(by_key') : Key(by_key'[i]) = Key(e)
    <3>1. PICK new : new = Overwrite(by_key, e)
      OBVIOUS
    <3>2. Took(by_key, e, new) /\ \E i \in 1 .. Len(new) : new[i] = e
      BY <1>1, <3>1, Taking
    <3> QED BY <2>2, <3>1, <3>2
  <2> QED BY <1>2, <2>2, <2>3, <2>4, <2>5, ListTakes
<1>5. ASSUME NEW pauses, NEW heap, by_key' = Enter(by_key, Event9(n, k, NextOf(n), heap, pauses)),
             NextOf(n).tag # "start",
             heap = 0 \/ (heap = k /\ NextOf(n).heap # "no"),
             \/ pauses = {k} /\ NextOf(n).heap # "percent" /\ (IsPhase(NextOf(n)) \/ NextOf(n).heap = "total")
             \/ pauses = {} /\ Classify(NextOf(n).says) = "Full",
             k \in Told' => pauses = {k}
      PROVE  ListInv'
  <2>1. PICK e : e = Event9(n, k, NextOf(n), heap, pauses)
    OBVIOUS
  <2>3. e.id = n /\ e.type = NextOf(n).type /\ e.cat = Classify(NextOf(n).says) /\ e.pauses = pauses
    BY <2>1 DEF Event9
  <2>4. IsOwn(e)'
    BY <1>5, <2>1, ReadIsOwn
  <2>5. Took(by_key, e, by_key') /\ \E i \in 1 .. Len(by_key') : Key(by_key'[i]) = Key(e)
    <3>1. PICK new : new = Enter(by_key, e)
      OBVIOUS
    <3>2. Took(by_key, e, new) /\ \E i \in 1 .. Len(new) : Key(new[i]) = Key(e)
      <4>1. Took(by_key, e, Enter(by_key, e))
        BY <1>1, Taking
      <4>2. \E i \in 1 .. Len(Enter(by_key, e)) : Key(Enter(by_key, e)[i]) = Key(e)
        BY <1>1, Taking
      <4> QED BY <3>1, <4>1, <4>2
    <3> QED BY <1>5, <2>1, <3>1, <3>2
  <2>6. \A i \in 1 .. Len(by_key) : by_key'[i] = by_key[i]
    <3>1. by_key' = by_key \/ by_key' = Append(by_key, e)
      BY <1>5, <2>1 DEF Enter
    <3>2. by_key \in Seq({by_key[i] : i \in 1 .. Len(by_key)} \cup {e})
      BY <1>1
    <3> QED BY <3>1, <3>2, AppendProperties
  <2> QED BY <1>5, <2>3, <2>4, <2>5, <2>6, ListTakes
<1>6. CASE ReadSummary(n, k, NextOf(n)) /\ Classify(NextOf(n).says) = "Full"
  BY <1>2, <1>5, <1>6 DEF ReadSummary
<1>7. CASE ReadOther(n, k, NextOf(n)) /\ IsPhase(NextOf(n))
  BY <1>5, <1>7 DEF ReadOther
<1>8. (k \notin Told' /\ by_key' = by_key) \/ ReadMain(n, k, NextOf(n))
      \/ (ReadSummary(n, k, NextOf(n)) /\ Classify(NextOf(n).says) = "Full")
      \/ (ReadOther(n, k, NextOf(n)) /\ IsPhase(NextOf(n)))
  BY <1>2 DEF Reads, ReadStart, ReadSummary, ReadOther
<1> QED BY <1>3, <1>4, <1>6, <1>7, <1>8

------------------------------------------------------------------------------
(* The passes after the last line.                                           *)

LEMMA LinesFixed ==
    ASSUME UNCHANGED <<cycles, written>>
    PROVE  /\ \A m : LinesOf(m)' = LinesOf(m) /\ ZLines(m)' = ZLines(m)
           /\ \A j : LineAt(j)' = LineAt(j) /\ CycleOf(j)' = CycleOf(j)
           /\ \A j : OnceInCycle(j)' <=> OnceInCycle(j)
           /\ Reports9' = Reports9 /\ Told' = Told
           /\ \A e : (IsOwn(e)' <=> IsOwn(e)) /\ (IsSummed(e)' <=> IsSummed(e))
<1>1. \A j : LineAt(j)' = LineAt(j) /\ CycleOf(j)' = CycleOf(j)
  BY DEF LineAt, CycleOf
<1>2. Reports9' = Reports9
  BY <1>1 DEF Reports9
<1>3. Told' = Told /\ \A j : OnceInCycle(j)' <=> OnceInCycle(j)
  BY <1>1, <1>2 DEF Told, OnceInCycle
<1>4. \A m : LinesOf(m)' = LinesOf(m) /\ ZLines(m)' = ZLines(m)
  BY <1>1, <1>3 DEF LinesOf, ZLines
<1>5. \A e : IsOwn(e)' <=> IsOwn(e)
  BY <1>1, <1>3, <1>4 DEF IsOwn
<1>6. \A e : IsSummed(e)' <=> IsSummed(e)
  BY <1>3, <1>4 DEF IsSummed
<1> QED BY <1>1, <1>2, <1>3, <1>4, <1>5, <1>6

\* The new list has at r what the old one had at p[r], up to times and heaps,
\* and up to the pauses of full collections.
Follows(p) ==
    /\ p \in [DOMAIN by_key -> DOMAIN by_key]
    /\ \A r, s \in DOMAIN by_key : r # s => p[r] # p[s]
    /\ \A i \in DOMAIN by_key : \E r \in DOMAIN by_key : p[r] = i
    /\ by_key' = [r \in DOMAIN by_key |-> by_key'[r]]
    /\ \A r \in DOMAIN by_key :
        /\ Key(by_key'[r]) = Key(by_key[p[r]])
        /\ by_key[p[r]].cat # "Full" => by_key'[r].pauses = by_key[p[r]].pauses
        /\ IsOwn(by_key'[r])

LEMMA Relisted ==
    ASSUME ListInv, UNCHANGED <<cycles, written>>, NEW p, Follows(p)
    PROVE  ListInv' /\ DOMAIN by_key' = DOMAIN by_key
<1>1. Len(by_key) \in Nat /\ DOMAIN by_key = 1 .. Len(by_key) /\ DOMAIN by_key' = DOMAIN by_key
  BY DEF ListInv, Follows
<1>2. Len(by_key') = Len(by_key) /\ by_key' = [r \in 1 .. Len(by_key) |-> by_key'[r]]
  BY <1>1 DEF Follows
<1>3. ASSUME NEW r \in DOMAIN by_key PROVE IsOwn(by_key[r])'
  <2>1. PICK o : o = by_key'[r]
    OBVIOUS
  <2>2. IsOwn(o)'
    BY <2>1, LinesFixed DEF Follows
  <2> QED BY <2>1, <2>2, OwnInList
<1>4. \A r, s \in DOMAIN by_key : r # s => Key(by_key'[r]) # Key(by_key'[s])
  BY DEF ListInv, Follows
<1>5. ASSUME NEW j \in Told', OnceInCycle(j)' PROVE Listed(j)'
  <2>1. Listed(j) /\ LineAt(j)' = LineAt(j) /\ CycleOf(j)' = CycleOf(j)
    BY <1>5, LinesFixed DEF ListInv
  <2>2. PICK i \in DOMAIN by_key :
          /\ by_key[i].id = CycleOf(j) /\ by_key[i].type = LineAt(j).type
          /\ by_key[i].cat = Classify(LineAt(j).says)
          /\ by_key[i].cat # "Full" => by_key[i].pauses = {j}
    BY <2>1 DEF Listed
  <2>3. PICK r \in DOMAIN by_key : p[r] = i
    BY DEF Follows
  <2>4. Key(by_key'[r]) = Key(by_key[i]) /\ (by_key[i].cat # "Full" => by_key'[r].pauses = by_key[i].pauses)
    BY <2>3 DEF Follows
  <2>5. by_key'[r].id = by_key[i].id /\ by_key'[r].cat = by_key[i].cat /\ by_key'[r].type = by_key[i].type
    BY <2>4 DEF Key
  <2> QED BY <1>1, <2>1, <2>2, <2>4, <2>5 DEF Listed
<1> QED BY <1>1, <1>2, <1>3, <1>4, <1>5 DEF ListInv

(* Pauses that are all there stay all there.                                 *)
LEMMA SumsStay ==
    ASSUME UNCHANGED <<cycles, written>>, NEW p, Follows(p),
           \A r \in DOMAIN by_key : by_key'[r].pauses = by_key[p[r]].pauses,
           \A i \in DOMAIN by_key : IsSummed(by_key[i])
    PROVE  \A r \in DOMAIN by_key' : IsSummed(by_key[r])'
<1> SUFFICES ASSUME NEW r \in DOMAIN by_key' PROVE IsSummed(by_key[r])'
  OBVIOUS
<1>1. r \in DOMAIN by_key /\ p[r] \in DOMAIN by_key
  BY DEF Follows
<1>2. by_key'[r].id = by_key[p[r]].id /\ by_key'[r].cat = by_key[p[r]].cat
  BY <1>1 DEF Follows, Key
<1>3. IsSummed(by_key[p[r]]) /\ by_key'[r].pauses = by_key[p[r]].pauses
  BY <1>1
<1>4. PICK o : o = by_key'[r]
  OBVIOUS
<1>5. IsSummed(o)
  BY <1>2, <1>3, <1>4 DEF IsSummed
<1>6. IsSummed(o)'
  BY <1>5, LinesFixed
<1> QED BY <1>4, <1>6 DEF IsSummed

(* The sum of the pauses of a cycle, where all of them are told once.        *)
LEMMA PausesAreOwn ==
    ASSUME ListInv, NEW n
    PROVE  /\ PausesOf(n) \subseteq ZLines(n)
           /\ (\A k \in ZLines(n) : OnceInCycle(k)) =>
                /\ PausesOf(n) = ZLines(n)
                /\ ZLines(n) # {} => \E o \in ToSet(by_key) : o.id = n /\ o.cat = "ZGC"
<1> DEFINE O == {o \in ToSet(by_key) : o.id = n /\ o.cat = "ZGC"}
<1>1. ASSUME NEW o \in O, NEW k \in o.pauses PROVE k \in ZLines(n)
  <2>1. IsOwn(o) /\ o.cat = "ZGC" /\ o.id = n /\ o.cat # "Full"
    BY DEF ListInv, ToSet
  <2>2. k \in Told /\ CycleOf(k) = n /\ Classify(LineAt(k).says) = "ZGC"
    BY <1>1, <2>1 DEF IsOwn
  <2> QED BY <2>2 DEF ZLines
<1>2. ASSUME NEW k \in ZLines(n), OnceInCycle(k) PROVE \E o \in O : k \in o.pauses
  <2>1. k \in Told /\ CycleOf(k) = n /\ Classify(LineAt(k).says) = "ZGC"
    BY DEF ZLines
  <2>2. Listed(k)
    BY <1>2, <2>1 DEF ListInv
  <2>3. PICK i \in DOMAIN by_key : by_key[i].id = n /\ by_key[i].cat = "ZGC" /\ by_key[i].pauses = {k}
    BY <2>1, <2>2 DEF Listed
  <2> QED BY <2>3 DEF ToSet
<1>3. PausesOf(n) = UNION {o.pauses : o \in O}
  BY DEF PausesOf
<1> HIDE DEF O
<1>4. PausesOf(n) \subseteq ZLines(n)
  BY <1>1, <1>3
<1>5. ASSUME \A k \in ZLines(n) : OnceInCycle(k)
      PROVE  PausesOf(n) = ZLines(n) /\ (ZLines(n) # {} => O # {})
  BY <1>2, <1>3, <1>4, <1>5
<1> QED BY <1>4, <1>5 DEF O

LEMMA SumKept ==
    ASSUME Inv9, SumPauses
    PROVE  Inv9'
<1> DEFINE p == [i \in DOMAIN by_key |-> i]
<1> DEFINE has(n) == \E o \in ToSet(by_key) : o.id = n /\ o.cat = "ZGC"
<1>1. UNCHANGED <<cycles, written, startOf, zgcHeap, totalHeap>> /\ stage9' = "events"
  BY DEF SumPauses
<1>2. /\ by_key' = [i \in DOMAIN by_key |-> by_key'[i]]
      /\ \A i \in DOMAIN by_key :
           by_key'[i] = IF by_key[i].cat = "Full" /\ has(by_key[i].id)
                        THEN [by_key[i] EXCEPT !.pauses = PausesOf(by_key[i].id)] ELSE by_key[i]
  BY DEF SumPauses
<1> HIDE DEF has
<1>3. ASSUME NEW i \in DOMAIN by_key
      PROVE  /\ Key(by_key'[i]) = Key(by_key[i])
             /\ by_key[i].cat # "Full" => by_key'[i].pauses = by_key[i].pauses
             /\ by_key[i].cat = "Full" /\ has(by_key[i].id) => by_key'[i].pauses = PausesOf(by_key[i].id)
             /\ IsOwn(by_key'[i])
  <2>1. PICK e : e = by_key[i]
    OBVIOUS
  <2>2. IsOwn(e)
    BY <2>1 DEF Inv9, ListInv
  <2>3. CASE ~(e.cat = "Full" /\ has(e.id)) /\ by_key'[i] = e
    BY <2>1, <2>2, <2>3
  <2>4. CASE e.cat = "Full" /\ has(e.id) /\ by_key'[i] = [e EXCEPT !.pauses = PausesOf(e.id)]
    <3>1. PICK f : f = by_key'[i]
      OBVIOUS
    <3>2. e = [id |-> e.id, at |-> e.at, cat |-> e.cat, type |-> e.type, heap |-> e.heap, pauses |-> e.pauses]
      BY <2>2 DEF IsOwn
    <3>3. f = [id |-> e.id, at |-> e.at, cat |-> e.cat, type |-> e.type, heap |-> e.heap, pauses |-> PausesOf(e.id)]
      BY <2>4, <3>1, <3>2
    <3>4. \A k \in PausesOf(e.id) : k \in Told /\ CycleOf(k) = e.id
      BY PausesAreOwn DEF Inv9, ZLines
    <3>5. IsOwn(f)
      BY <2>2, <2>4, <3>3, <3>4 DEF IsOwn
    <3>6. Key(f) = Key(e)
      BY <3>3 DEF Key
    <3> QED BY <2>1, <2>4, <3>1, <3>3, <3>5, <3>6
  <2> QED BY <1>2, <2>1, <2>3, <2>4
<1>4. Follows(p)
  BY <1>2, <1>3 DEF Follows
<1>5. ListInv' /\ DOMAIN by_key' = DOMAIN by_key
  BY <1>1, <1>4, Relisted DEF Inv9
<1>6. ASSUME NEW i \in DOMAIN by_key' PROVE IsSummed(by_key[i])'
  <2>1. PICK o : o = by_key'[i]
    OBVIOUS
  <2>2. o.id = by_key[i].id /\ o.cat = by_key[i].cat
    BY <1>3, <1>5, <2>1 DEF Key
  <2>3. ASSUME o.cat = "Full", ZLines(o.id) # {}, \A k \in ZLines(o.id) : OnceInCycle(k)
        PROVE  o.pauses = ZLines(o.id)
    <3>1. has(o.id) /\ PausesOf(o.id) = ZLines(o.id)
      BY <2>3, PausesAreOwn DEF Inv9, has
    <3> QED BY <1>3, <1>5, <2>1, <2>2, <2>3, <3>1
  <2>4. IsSummed(o)
    BY <2>3 DEF IsSummed
  <2>5. IsSummed(o)'
    BY <1>1, <2>4, LinesFixed
  <2> QED BY <2>1, <2>5 DEF IsSummed
<1>7. LinesInv' /\ TablesInv'
  <2>1. LinesInv'
    BY <1>1, LinesFixed DEF Inv9, LinesInv
  <2>2. TablesInv'
    BY <1>1 DEF Inv9, TablesInv, LinesOf, CycleOf, LineAt
  <2> QED BY <2>1, <2>2
<1> QED BY <1>1, <1>5, <1>6, <1>7 DEF Inv9, PassesInv

LEMMA SortKept ==
    ASSUME Inv9, SortEvents
    PROVE  Inv9'
<1>1. UNCHANGED <<cycles, written, startOf, zgcHeap, totalHeap>> /\ stage9 = "events" /\ stage9' = "starts"
      /\ by_key' = SortedEvents(by_key)
  BY DEF SortEvents
<1>2. Len(by_key) \in Nat /\ DOMAIN by_key = 1 .. Len(by_key)
  BY DEF Inv9, ListInv
<1>3. \A n \in DOMAIN cycles : n \in Int
  BY Log9Assumption DEF Inv9, LinesInv
<1>4. \A j \in DOMAIN written : j \in Int
  BY DEF Inv9, LinesInv
<1>5. \A i \in DOMAIN by_key : /\ IsOwn(by_key[i])
                               /\ by_key[i].id \in Int /\ by_key[i].at \in LinesOf(by_key[i].id)
                               /\ by_key[i].at \in Int
  BY <1>3, <1>4 DEF Inv9, ListInv, IsOwn, LinesOf
<1>6. PICK p : Sorts(p, by_key)
  BY <1>2, <1>5, Sorting
<1>7. /\ DOMAIN by_key' = DOMAIN by_key
      /\ p \in [DOMAIN by_key -> DOMAIN by_key]
      /\ \A r \in DOMAIN by_key : by_key'[r] = by_key[p[r]]
      /\ \A r, s \in DOMAIN by_key : r < s => Before9(by_key, p[r], p[s])
  BY <1>1, <1>6 DEF Sorts
<1>8. Follows(p)
  BY <1>1, <1>5, <1>6, <1>7 DEF Sorts, Follows
<1>9. ListInv'
  BY <1>1, <1>8, Relisted DEF Inv9
<1>10. \A i \in DOMAIN by_key' : IsSummed(by_key[i])'
  BY <1>1, <1>7, <1>8, SumsStay DEF Inv9, PassesInv
<1>11. ASSUME NEW r \in DOMAIN by_key, NEW s \in DOMAIN by_key,
              by_key'[r].id < by_key'[s].id, Apart(by_key'[r].id, by_key'[s].id)
       PROVE  r < s
  <2> DEFINE e == by_key[p[r]]
  <2> DEFINE f == by_key[p[s]]
  <2>1. e.id < f.id /\ Apart(e.id, f.id) /\ p[r] \in DOMAIN by_key /\ p[s] \in DOMAIN by_key
    BY <1>7, <1>11
  <2>2. e.at < f.at
    BY <1>5, <2>1 DEF Apart
  <2>3. ~Before9(by_key, p[s], p[r])
    BY <1>5, <2>1, <2>2 DEF Before9, Time9
  <2>4. r # s /\ r \in Nat /\ s \in Nat
    BY <1>2, <1>5, <1>7, <2>1
  <2> QED BY <1>7, <2>3, <2>4
<1>12. LinesInv' /\ TablesInv'
  <2>1. LinesInv'
    BY <1>1, LinesFixed DEF Inv9, LinesInv
  <2>2. TablesInv'
    BY <1>1 DEF Inv9, TablesInv, LinesOf, CycleOf, LineAt
  <2> QED BY <2>1, <2>2
<1>13. \A r, s \in DOMAIN by_key' :
          by_key'[r].id < by_key'[s].id /\ Apart(by_key[r].id, by_key[s].id)' => r < s
  BY <1>1, <1>7, <1>11, LinesFixed DEF Apart
<1> QED BY <1>1, <1>9, <1>10, <1>12, <1>13 DEF Inv9, PassesInv

LEMMA StartsKept ==
    ASSUME Inv9, ApplyStarts
    PROVE  Inv9'
<1> DEFINE p == [i \in DOMAIN by_key |-> i]
<1>1. UNCHANGED <<cycles, written, startOf, zgcHeap, totalHeap>> /\ stage9 = "starts" /\ stage9' = "heaps"
      /\ by_key' = [i \in DOMAIN by_key |-> by_key'[i]]
  BY DEF ApplyStarts
<1>2. ASSUME NEW i \in DOMAIN by_key
      PROVE  /\ Key(by_key'[i]) = Key(by_key[i])
             /\ by_key'[i].pauses = by_key[i].pauses
             /\ IsOwn(by_key'[i])
  <2>1. PICK e : e = by_key[i]
    OBVIOUS
  <2>2. PICK f : f = by_key'[i]
    OBVIOUS
  <2>3. IsOwn(e)
    BY <2>1 DEF Inv9, ListInv
  <2>4. f = IF startOf[e.id] = 0 THEN e ELSE [e EXCEPT !.at = startOf[e.id]]
    BY <2>1, <2>2 DEF ApplyStarts, StartTime
  <2>5. CASE f = e
    BY <2>1, <2>2, <2>3, <2>5
  <2>6. CASE startOf[e.id] # 0 /\ f = [e EXCEPT !.at = startOf[e.id]]
    <3>1. e = [id |-> e.id, at |-> e.at, cat |-> e.cat, type |-> e.type, heap |-> e.heap, pauses |-> e.pauses]
      BY <2>3 DEF IsOwn
    <3>2. f = [id |-> e.id, at |-> startOf[e.id], cat |-> e.cat, type |-> e.type, heap |-> e.heap, pauses |-> e.pauses]
      BY <2>6, <3>1
    <3>3. startOf[e.id] \in LinesOf(e.id)
      BY <2>3, <2>6 DEF Inv9, TablesInv, IsOwn
    <3>4. IsOwn(f)
      BY <2>3, <3>2, <3>3 DEF IsOwn
    <3> QED BY <2>1, <2>2, <3>2, <3>4 DEF Key
  <2> QED BY <2>4, <2>5, <2>6
<1>3. Follows(p)
  BY <1>1, <1>2 DEF Follows
<1>4. ListInv' /\ DOMAIN by_key' = DOMAIN by_key
  BY <1>1, <1>3, Relisted DEF Inv9
<1>5. \A i \in DOMAIN by_key' : IsSummed(by_key[i])'
  BY <1>1, <1>2, <1>3, SumsStay DEF Inv9, PassesInv
<1>6. \A r, s \in DOMAIN by_key' :
          by_key'[r].id < by_key'[s].id /\ Apart(by_key[r].id, by_key[s].id)' => r < s
  <2>1. \A r \in DOMAIN by_key : by_key'[r].id = by_key[r].id
    BY <1>2 DEF Key
  <2>2. \A r, s \in DOMAIN by_key : by_key[r].id < by_key[s].id /\ Apart(by_key[r].id, by_key[s].id) => r < s
    BY <1>1 DEF Inv9, PassesInv
  <2> SUFFICES ASSUME NEW r \in DOMAIN by_key', NEW s \in DOMAIN by_key',
                      by_key'[r].id < by_key'[s].id, Apart(by_key[r].id, by_key[s].id)'
               PROVE  r < s
    OBVIOUS
  <2>3. Apart(by_key'[r].id, by_key'[s].id)
    BY <1>1, LinesFixed DEF Apart
  <2> QED BY <1>4, <2>1, <2>2, <2>3
<1>7. LinesInv' /\ TablesInv'
  <2>1. LinesInv'
    BY <1>1, LinesFixed DEF Inv9, LinesInv
  <2>2. TablesInv'
    BY <1>1 DEF Inv9, TablesInv, LinesOf, CycleOf, LineAt
  <2> QED BY <2>1, <2>2
<1> QED BY <1>1, <1>4, <1>5, <1>6, <1>7 DEF Inv9, PassesInv

LEMMA HeapsKept ==
    ASSUME Inv9, BackfillHeaps
    PROVE  Inv9'
<1> DEFINE p == [i \in DOMAIN by_key |-> i]
<1>1. UNCHANGED <<cycles, written, startOf, zgcHeap, totalHeap>> /\ stage9 = "heaps" /\ stage9' = "done"
      /\ by_key' = [i \in DOMAIN by_key |-> by_key'[i]]
  BY DEF BackfillHeaps
<1>2. ASSUME NEW i \in DOMAIN by_key
      PROVE  /\ Key(by_key'[i]) = Key(by_key[i])
             /\ by_key'[i].pauses = by_key[i].pauses
             /\ IsOwn(by_key'[i])
             /\ by_key'[i].heap = 0 => zgcHeap[by_key[i].id] = 0 /\ totalHeap[by_key[i].id] = 0
  <2>1. PICK e : e = by_key[i]
    OBVIOUS
  <2>2. PICK f : f = by_key'[i]
    OBVIOUS
  <2>3. IsOwn(e)
    BY <2>1 DEF Inv9, ListInv
  <2>4. PICK h : h = Backfilled(e)
    OBVIOUS
  <2>5. f = [e EXCEPT !.heap = h]
    BY <2>1, <2>2, <2>4 DEF BackfillHeaps
  <2>6. e = [id |-> e.id, at |-> e.at, cat |-> e.cat, type |-> e.type, heap |-> e.heap, pauses |-> e.pauses]
    BY <2>3 DEF IsOwn
  <2>7. f = [id |-> e.id, at |-> e.at, cat |-> e.cat, type |-> e.type, heap |-> h, pauses |-> e.pauses]
    BY <2>5, <2>6
  <2>8. h = IF e.heap # 0 THEN e.heap ELSE IF zgcHeap[e.id] # 0 THEN zgcHeap[e.id] ELSE totalHeap[e.id]
    BY <2>4 DEF Backfilled
  <2>9. h = 0 \/ (h \in LinesOf(e.id) /\ LineAt(h).heap # "no")
    <3>1. e.heap = 0 \/ (e.heap \in LinesOf(e.id) /\ LineAt(e.heap).heap # "no")
      BY <2>3 DEF IsOwn
    <3>2. /\ zgcHeap[e.id] = 0 \/ (zgcHeap[e.id] \in LinesOf(e.id) /\ LineAt(zgcHeap[e.id]).heap = "percent")
          /\ totalHeap[e.id] = 0 \/ (totalHeap[e.id] \in LinesOf(e.id) /\ LineAt(totalHeap[e.id]).heap = "total")
      BY <2>3 DEF Inv9, TablesInv, IsOwn
    <3> QED BY <2>8, <3>1, <3>2
  <2>10. IsOwn(f)
    BY <2>3, <2>7, <2>9 DEF IsOwn
  <2> QED BY <2>1, <2>2, <2>7, <2>8, <2>10 DEF Key
<1>3. Follows(p)
  BY <1>1, <1>2 DEF Follows
<1>4. ListInv' /\ DOMAIN by_key' = DOMAIN by_key
  BY <1>1, <1>3, Relisted DEF Inv9
<1>5. \A i \in DOMAIN by_key' : IsSummed(by_key[i])'
  BY <1>1, <1>2, <1>3, SumsStay DEF Inv9, PassesInv
<1>6. \A r \in DOMAIN by_key : by_key'[r].id = by_key[r].id
  BY <1>2 DEF Key
<1>7. \A r, s \in DOMAIN by_key' :
          by_key'[r].id < by_key'[s].id /\ Apart(by_key[r].id, by_key[s].id)' => r < s
  <2>1. \A r, s \in DOMAIN by_key : by_key[r].id < by_key[s].id /\ Apart(by_key[r].id, by_key[s].id) => r < s
    BY <1>1 DEF Inv9, PassesInv
  <2> SUFFICES ASSUME NEW r \in DOMAIN by_key', NEW s \in DOMAIN by_key',
                      by_key'[r].id < by_key'[s].id, Apart(by_key[r].id, by_key[s].id)'
               PROVE  r < s
    OBVIOUS
  <2>2. Apart(by_key'[r].id, by_key'[s].id)
    BY <1>1, LinesFixed DEF Apart
  <2> QED BY <1>4, <1>6, <2>1, <2>2
<1>8. \A i \in DOMAIN by_key' : by_key'[i].heap = 0 => zgcHeap'[by_key'[i].id] = 0 /\ totalHeap'[by_key'[i].id] = 0
  BY <1>1, <1>2, <1>4, <1>6
<1>9. LinesInv' /\ TablesInv'
  <2>1. LinesInv'
    BY <1>1, LinesFixed DEF Inv9, LinesInv
  <2>2. TablesInv'
    BY <1>1 DEF Inv9, TablesInv, LinesOf, CycleOf, LineAt
  <2> QED BY <2>1, <2>2
<1> QED BY <1>1, <1>4, <1>5, <1>7, <1>8, <1>9 DEF Inv9, PassesInv

(* Before the first line.                                                    *)
LEMMA Inv9AtFirst == Log9Init => Inv9
<1> SUFFICES ASSUME Log9Init PROVE Inv9
  OBVIOUS
<1>1. Len(written) = 0 /\ DOMAIN written = {} /\ 1 .. 0 = {} /\ Len(by_key) = 0 /\ DOMAIN by_key = {}
  BY DEF Log9Init
<1>2. LinesInv
  BY <1>1 DEF Log9Init, LinesInv
<1>3. TablesInv
  BY <1>1 DEF Log9Init, TablesInv, LinesOf
<1>4. Told = {}
  BY <1>1 DEF Told, Reports9
<1>5. ListInv
  BY <1>1, <1>4 DEF Log9Init, ListInv
<1> QED BY <1>1, <1>2, <1>3, <1>5 DEF Log9Init, Inv9, PassesInv

LEMMA Inv9Kept == Inv9 /\ [Log9Next]_log9Vars => Inv9'
<1> SUFFICES ASSUME Inv9, [Log9Next]_log9Vars PROVE Inv9'
  OBVIOUS
<1>1. CASE ReadLine9
  <2>1. PICK n, k : Next9(n, k) /\ Reads(n, k) /\ stage9 = "reading"
    BY <1>1, ReadIsNext DEF Inv9
  <2>2. LinesInv' /\ TablesInv' /\ ListInv'
    BY <2>1, LinesKept, TablesKept, ListKept DEF Inv9
  <2>3. stage9' = "reading"
    BY <2>1 DEF Next9
  <2> QED BY <2>2, <2>3 DEF Inv9, PassesInv
<1>2. CASE UNCHANGED log9Vars
  <2>1. UNCHANGED <<cycles, written, by_key, startOf, zgcHeap, totalHeap, stage9>>
    BY <1>2 DEF log9Vars
  <2>2. LinesInv'
    BY <2>1, LinesFixed DEF Inv9, LinesInv
  <2>3. TablesInv'
    BY <2>1 DEF Inv9, TablesInv, LinesOf, CycleOf, LineAt
  <2>4. ListInv'
    <3>1. /\ \A k : LineAt(k)' = LineAt(k) /\ CycleOf(k)' = CycleOf(k)
          /\ \A n : LinesOf(n)' = LinesOf(n)
      BY <2>1 DEF LinesOf, CycleOf, LineAt
    <3>2. Reports9' = Reports9 /\ Told' = Told
      BY <2>1 DEF Told, Reports9, LineAt
    <3>3. \A k : (OnceInCycle(k))' <=> OnceInCycle(k)
      BY <3>1, <3>2, Zenon DEF OnceInCycle
    <3>4. \A i : (IsOwn(by_key[i]))' <=> IsOwn(by_key[i])
      BY <2>1, <3>1, <3>2 DEF IsOwn
    <3>5. \A k : (Listed(k))' <=> Listed(k)
      BY <2>1, <3>1 DEF Listed
    <3>6. \A i, j : (Key(by_key[i]) # Key(by_key[j]))' <=> Key(by_key[i]) # Key(by_key[j])
      BY <2>1 DEF Key
    <3> QED BY <2>1, <3>2, <3>3, <3>4, <3>5, <3>6 DEF Inv9, ListInv
  <2>5. PassesInv'
    BY <2>1 DEF Inv9, PassesInv, IsSummed, ZLines, Told, Reports9, LinesOf, CycleOf, LineAt, OnceInCycle, Apart
  <2> QED BY <2>2, <2>3, <2>4, <2>5 DEF Inv9
<1> QED BY <1>1, <1>2, SumKept, SortKept, StartsKept, HeapsKept DEF Log9Next

------------------------------------------------------------------------------
LEMMA Types9 == Inv9 => Log9TypeOK
<1> SUFFICES ASSUME Inv9 PROVE Log9TypeOK
  OBVIOUS
<1>1. \A i \in DOMAIN by_key :
         /\ by_key[i].id \in DOMAIN cycles
         /\ by_key[i].at \in DOMAIN written
         /\ by_key[i].heap \in 0 .. Len(written)
         /\ by_key[i].pauses \subseteq DOMAIN written
  <2> SUFFICES ASSUME NEW e, IsOwn(e)
               PROVE  /\ e.id \in DOMAIN cycles /\ e.at \in DOMAIN written
                      /\ e.heap \in 0 .. Len(written) /\ e.pauses \subseteq DOMAIN written
    BY DEF Inv9, ListInv
  <2>1. DOMAIN written = 1 .. Len(written) /\ Len(written) \in Nat
    BY DEF Inv9, LinesInv
  <2>2. \A k \in LinesOf(e.id) : k \in DOMAIN written
    BY DEF LinesOf
  <2>3. \A k \in Told : k \in DOMAIN written
    BY DEF Told, Reports9
  <2> QED BY <2>1, <2>2, <2>3 DEF IsOwn
<1> QED BY <1>1 DEF Inv9, ListInv, LinesInv, Log9TypeOK

LEMMA InOrder9 == Inv9 => CyclesInOrder
<1> SUFFICES ASSUME Inv9, stage9 = "done", NEW i \in DOMAIN by_key, NEW j \in DOMAIN by_key,
                    by_key[i].id < by_key[j].id, Apart(by_key[i].id, by_key[j].id)
             PROVE  i < j /\ by_key[i].at < by_key[j].at
  BY DEF CyclesInOrder
<1>1. i < j
  BY DEF Inv9, PassesInv
<1>2. by_key[i].at \in LinesOf(by_key[i].id) /\ by_key[j].at \in LinesOf(by_key[j].id)
  BY DEF Inv9, ListInv, IsOwn
<1> QED BY <1>1, <1>2 DEF Apart

LEMMA Reported9 == Worded /\ Inv9 => Log9IsReported
<1> SUFFICES ASSUME Worded, Inv9 PROVE Log9IsReported
  OBVIOUS
<1>1. ASSUME NEW k \in DOMAIN written
      PROVE  /\ LineAt(k).tag = "start" => LineAt(k).heap = "no"
             /\ LineAt(k).heap = "percent" => ~IsPhase(LineAt(k))
             /\ k \in Reports9 => Classify(LineAt(k).says) = LineAt(k).is
  <2>1. cycles \in Logs9 /\ CycleOf(k) \in DOMAIN cycles /\ written[k][2] \in DOMAIN cycles[CycleOf(k)]
    BY DEF Inv9, LinesInv
  <2>2. LineAt(k) = cycles[CycleOf(k)][written[k][2]]
    BY DEF LineAt, CycleOf
  <2> QED BY <2>1, <2>2 DEF Worded, Reports9
<1>2. Reports9 \subseteq DOMAIN written /\ Told = Reports9
  <2>1. Reports9 \subseteq DOMAIN written
    BY DEF Reports9
  <2>2. \A k \in Reports9 : LineAt(k).heap # "percent"
    BY <1>1, <2>1 DEF Reports9
  <2> QED BY <2>1, <2>2 DEF Told
<1>3. EveryPhaseInList
  BY <1>1, <1>2 DEF EveryPhaseInList, Inv9, ListInv, Listed
<1>4. FullPauseIsSum
  <2> SUFFICES ASSUME stage9 = "done", NEW i \in DOMAIN by_key,
                      NEW own, own = {k \in LinesOf(by_key[i].id) \cap Reports9 : LineAt(k).is = "ZGC"},
                      by_key[i].cat = "Full", own # {}, \A k \in own : OnceInCycle(k)
               PROVE  by_key[i].pauses = own
    BY DEF FullPauseIsSum
  <2>1. own = ZLines(by_key[i].id)
    BY <1>1, <1>2 DEF ZLines, LinesOf
  <2>2. IsSummed(by_key[i])
    BY DEF Inv9, PassesInv
  <2> QED BY <2>1, <2>2 DEF IsSummed
<1>5. HeapOfOwnCycle
  <2> SUFFICES ASSUME stage9 = "done", NEW i \in DOMAIN by_key,
                      NEW printed, printed = {k \in LinesOf(by_key[i].id) : LineAt(k).heap # "no"}
               PROVE  by_key[i].heap \in (IF printed = {} THEN {0} ELSE printed)
    BY DEF HeapOfOwnCycle
  <2>1. by_key[i].heap = 0 \/ by_key[i].heap \in printed
    BY DEF Inv9, ListInv, IsOwn
  <2>2. ASSUME by_key[i].heap = 0, NEW k \in printed PROVE FALSE
    <3>1. k \in DOMAIN written /\ k \in LinesOf(by_key[i].id) /\ LineAt(k).heap # "no"
      BY DEF LinesOf
    <3>2. LineAt(k).tag # "start" /\ LineAt(k).heap \in {"percent", "total"}
      BY <1>1, <3>1 DEF Inv9, LinesInv
    <3>3. zgcHeap[by_key[i].id] = 0 /\ totalHeap[by_key[i].id] = 0
      BY <2>2 DEF Inv9, PassesInv
    <3>4. by_key[i].id \in DOMAIN cycles
      BY DEF Inv9, ListInv, IsOwn
    <3> QED BY <3>1, <3>2, <3>3, <3>4 DEF Inv9, TablesInv
  <2> QED BY <2>1, <2>2
<1>6. CyclesInOrder
  BY InOrder9
<1> QED BY <1>3, <1>4, <1>5, <1>6 DEF Log9IsReported

(* The list of a unified log, however the cycles of the machine come between *)
(* one another.                                                              *)
THEOREM UnifiedInvariance == ReportsSpec => []Inv9
<1>1. ReportsInit => Inv9
  BY Inv9AtFirst, NothingIsAnInput DEF ReportsInit, Nothing9, Log9Init
<1>2. [ReportsNext]_reportsVars => [Log9Next]_log9Vars
  BY DEF ReportsNext, reportsVars, log9Vars
<1>3. Inv9 /\ [ReportsNext]_reportsVars => Inv9'
  BY <1>2, Inv9Kept
<1>4. QED
  BY <1>1, <1>3, PTL DEF ReportsSpec

(* No two events of the list have the same number, category and type, and    *)
(* what they say is said by lines of the log.                                *)
THEOREM UnifiedTypeCorrect == ReportsSpec => []Log9TypeOK
<1>1. QED
  BY Types9, UnifiedInvariance, PTL

(* Cycles that do not overlap are in the list one after the other, whatever  *)
(* their lines say (the sort by time, and the start times after it).         *)
THEOREM UnifiedInOrder == ReportsSpec => []CyclesInOrder
<1>1. Inv9 => CyclesInOrder
  BY InOrder9
<1>2. QED
  BY <1>1, UnifiedInvariance, PTL

(* What the machine wrote of a cycle is what is reported of it: every pause  *)
(* and phase once, in its own category; the pause of a full collection of    *)
(* ZGC as the sum of its own; a heap of its own cycle (jdk9/__init__.py).    *)
THEOREM UnifiedIsReported ==
    ASSUME Worded
    PROVE  ReportsSpec => []Log9IsReported
<1>1. Inv9 => Log9IsReported
  BY Reported9
<1>2. QED
  BY <1>1, UnifiedInvariance, PTL

------------------------------------------------------------------------------
(* Thread dumps.                                                             *)

(* Induction up to a bound, over the set of what it holds of.               *)
LEMMA Upwards ==
    ASSUME NEW n \in Nat, NEW P, 0 \in P, \A k \in 1 .. n : k - 1 \in P => k \in P
    PROVE  \A k \in 0 .. n : k \in P
<1> SUFFICES ASSUME NEW k \in 0 .. n, k \notin P PROVE FALSE
  OBVIOUS
<1> DEFINE Out == {j \in 0 .. n : j \notin P}
<1>1. Out \in SUBSET Nat /\ Out # {}
  OBVIOUS
<1>2. PICK j \in Out : \A i \in Out : j <= i
  <2> HIDE DEF Out
  <2> QED BY <1>1, Least
<1>3. j # 0 /\ j - 1 \in 0 .. n /\ j \in 1 .. n
  OBVIOUS
<1>4. j - 1 \in P
  BY <1>2, <1>3
<1> QED BY <1>3, <1>4

\* R orders S, and any two of it.
Orders(R, S) ==
    /\ \A i, j \in S : <<i, j>> \in R \/ <<j, i>> \in R
    /\ \A i, j \in S : <<i, j>> \in R /\ <<j, i>> \in R => i = j
    /\ \A i, j, k \in S : <<i, j>> \in R /\ <<j, k>> \in R => <<i, k>> \in R

\* The rank of i: how many of S it does not precede.
PlaceIn(R, S, i) == Cardinality({j \in S : <<j, i>> \in R})

(* In an order every element has its own rank.                              *)
LEMMA Ranks ==
    ASSUME NEW S, IsFiniteSet(S), NEW R, Orders(R, S)
    PROVE  /\ Cardinality(S) \in Nat
           /\ \A i \in S : PlaceIn(R, S, i) \in 1 .. Cardinality(S)
           /\ \A i, j \in S : i # j /\ <<i, j>> \in R => PlaceIn(R, S, i) < PlaceIn(R, S, j)
           /\ \A i, j \in S : PlaceIn(R, S, i) = PlaceIn(R, S, j) => i = j
           /\ \A r \in 1 .. Cardinality(S) : \E i \in S : PlaceIn(R, S, i) = r
<1> DEFINE rank == [i \in S |-> PlaceIn(R, S, i)]
<1> DEFINE n == Cardinality(S)
<1> DEFINE upTo(i) == {j \in S : <<j, i>> \in R}
<1>1. n \in Nat
  BY FS_CardinalityType
<1> HIDE DEF n
<1>2. \A i \in S : IsFiniteSet(upTo(i)) /\ Cardinality(upTo(i)) \in 1 .. n
  <2> TAKE i \in S
  <2>1. upTo(i) \in SUBSET S /\ i \in upTo(i)
    BY DEF Orders
  <2>2. IsFiniteSet(upTo(i)) /\ Cardinality(upTo(i)) <= n
    BY <2>1, FS_Subset DEF n
  <2>3. Cardinality(upTo(i)) \in Nat /\ Cardinality(upTo(i)) # 0
    <3> HIDE DEF upTo
    <3> QED BY <2>1, <2>2, FS_CardinalityType, FS_EmptySet
  <2> HIDE DEF upTo
  <2> QED BY <1>1, <2>2, <2>3
<1>3. \A i \in S : rank[i] = Cardinality(upTo(i))
  BY DEF PlaceIn
<1>3a. \A i \in S : rank[i] = PlaceIn(R, S, i)
  OBVIOUS
<1>4. \A i, j \in S : i # j /\ <<i, j>> \in R => rank[i] < rank[j]
  <2> SUFFICES ASSUME NEW i \in S, NEW j \in S, i # j, <<i, j>> \in R PROVE rank[i] < rank[j]
    OBVIOUS
  <2>1. upTo(i) \in SUBSET upTo(j) /\ j \in upTo(j) /\ j \notin upTo(i)
    BY DEF Orders
  <2> HIDE DEF upTo
  <2>2. Cardinality(upTo(i)) <= Cardinality(upTo(j)) /\ Cardinality(upTo(i)) # Cardinality(upTo(j))
    BY <2>1, <1>2, FS_Subset
  <2> QED BY <2>2, <1>1, <1>2, <1>3
<1>5. rank \in [S -> 1 .. n]
  <2> HIDE DEF upTo
  <2>1. \A i \in S : rank[i] \in 1 .. n
    BY <1>2, <1>3
  <2> QED BY <2>1
<1> HIDE DEF rank
<1>6. \A i, j \in S : rank[i] = rank[j] => i = j
  <2> SUFFICES ASSUME NEW i \in S, NEW j \in S, i # j PROVE rank[i] # rank[j]
    OBVIOUS
  <2>1. rank[i] < rank[j] \/ rank[j] < rank[i]
    BY <1>4 DEF Orders
  <2>2. rank[i] \in Nat /\ rank[j] \in Nat
    BY <1>5
  <2> QED BY <2>1, <2>2
<1>7. \A r \in 1 .. n : \E i \in S : rank[i] = r
  <2>1. rank \in Injection(S, 1 .. n)
    BY <1>5, <1>6 DEF Injection, IsInjective
  <2>2. IsFiniteSet(1 .. n) /\ Cardinality(1 .. n) = n
    <3>1. IsFiniteSet(1 .. n) /\ Cardinality(1 .. n) = IF 1 > n THEN 0 ELSE n - 1 + 1
      BY <1>1, FS_Interval
    <3> QED BY <1>1, <3>1
  <2>3. rank \in Surjection(S, 1 .. n)
    BY <2>1, <2>2, FS_Injection DEF n
  <2> QED BY <2>3 DEF Surjection
<1> QED BY <1>1, <1>3a, <1>4, <1>5, <1>6, <1>7 DEF n

(* The lines at some places: as many as there are places, each of them the   *)
(* line of one place and in the order of the places.                         *)
Selects(p, places) ==
    /\ Cardinality(places) \in Nat
    /\ p \in [1 .. Cardinality(places) -> places]
    /\ \A i \in places : \E n \in 1 .. Cardinality(places) : p[n] = i
    /\ \A m, n \in 1 .. Cardinality(places) : m < n => p[m] < p[n]

LEMMA LinesSelected ==
    ASSUME NEW lines, NEW places, IsFiniteSet(places), \A i \in places : i \in Nat
    PROVE  \E p : Selects(p, places) /\ LinesAt(lines, places) = [n \in 1 .. Cardinality(places) |-> lines[p[n]]]
<1>0. PICK R : R = {x \in places \X places : x[1] <= x[2]}
  OBVIOUS
<1> DEFINE rk(i) == PlaceIn(R, places, i)
<1> DEFINE c == Cardinality(places)
<1>1. Orders(R, places)
  BY <1>0 DEF Orders
<1>2. \A i \in places : {j \in places : <<j, i>> \in R} = {j \in places : j <= i}
  BY <1>0
<1>3. \A i \in places : rk(i) = Cardinality({j \in places : j <= i})
  BY <1>2 DEF PlaceIn
<1>4. /\ Cardinality(places) \in Nat
      /\ \A i \in places : rk(i) \in 1 .. Cardinality(places)
      /\ \A i, j \in places : i # j /\ <<i, j>> \in R => rk(i) < rk(j)
      /\ \A i, j \in places : rk(i) = rk(j) => i = j
      /\ \A r \in 1 .. Cardinality(places) : \E i \in places : rk(i) = r
  <2>1. Cardinality(places) \in Nat
    BY <1>1, Ranks
  <2>2. \A i \in places : rk(i) \in 1 .. Cardinality(places)
    BY <1>1, Ranks
  <2>3. \A i, j \in places : i # j /\ <<i, j>> \in R => rk(i) < rk(j)
    BY <1>1, Ranks
  <2>4. \A i, j \in places : rk(i) = rk(j) => i = j
    BY <1>1, Ranks
  <2>5. \A r \in 1 .. Cardinality(places) : \E i \in places : rk(i) = r
    BY <1>1, Ranks
  <2> QED BY <2>1, <2>2, <2>3, <2>4, <2>5
<1> HIDE DEF rk
<1> DEFINE p == [n \in 1 .. c |-> CHOOSE i \in places : Cardinality({j \in places : j <= i}) = n]
<1>6. \A n \in 1 .. c : p[n] \in places /\ rk(p[n]) = n
  <2> TAKE n \in 1 .. c
  <2>1. \E i \in places : Cardinality({j \in places : j <= i}) = n
    BY <1>4, <1>3
  <2>2. p[n] = CHOOSE i \in places : Cardinality({j \in places : j <= i}) = n
    OBVIOUS
  <2>3. p[n] \in places /\ Cardinality({j \in places : j <= p[n]}) = n
    <3> HIDE DEF p
    <3> QED BY <2>1, <2>2
  <2> HIDE DEF p
  <2> QED BY <2>3, <1>3
<1>7. LinesAt(lines, places) = [n \in 1 .. c |-> lines[p[n]]]
  BY DEF LinesAt
<1>8. p \in [1 .. c -> places]
  <2>1. \A n \in 1 .. c : p[n] \in places
    BY <1>6
  <2> QED BY <2>1
<1> HIDE DEF p
<1>9. ASSUME NEW i \in places PROVE \E n \in 1 .. c : p[n] = i
  <2>1. rk(i) \in 1 .. c /\ p[rk(i)] \in places /\ rk(p[rk(i)]) = rk(i)
    BY <1>4, <1>6
  <2> QED BY <2>1, <1>4
<1>10. ASSUME NEW m \in 1 .. c, NEW n \in 1 .. c, m < n PROVE p[m] < p[n]
  <2>1. p[m] \in Nat /\ p[n] \in Nat /\ p[m] \in places /\ p[n] \in places /\ rk(p[m]) = m /\ rk(p[n]) = n
    BY <1>6
  <2>2. CASE p[n] <= p[m]
    <3>1. <<p[n], p[m]>> \in R /\ p[n] # p[m]
      BY <2>1, <2>2, <1>0, <1>10
    <3>2. n < m
      BY <3>1, <2>1, <1>4
    <3> QED BY <3>2, <1>10
  <2> QED BY <2>1, <2>2
<1>11. Selects(p, places)
  BY <1>4, <1>8, <1>9, <1>10 DEF Selects
<1> QED BY <1>7, <1>11

------------------------------------------------------------------------------
(* The blocks of the threads, as far as the dump is read.                    *)

HeadersTo(n) == {i \in Headers : i <= n}
\* No line after i, up to e, ends the thread of the header i.
Unbroken(i, e) == \A f \in i + 1 .. e : ~Ends(i, f)

CutTypes ==
    /\ json \in BOOLEAN /\ dump \in (IF json THEN JsonDumps ELSE Dumps)
    /\ line \in 0 .. Len(dump)
    /\ section \in {"header", "thread", "deadlock", "jni", "done"}
    /\ block \in Seq(ToSet(dump)) /\ deadlines \in Seq(ToSet(dump))
    /\ tblocks \in Seq(Seq(ToSet(dump)))
    /\ section = "thread" <=> block # <<>>
    /\ json => section \in {"header", "done"} /\ tblocks = <<>>

\* The block in progress is the lines from its header to here, a closed one
\* the lines from its header to the next line that ends it.
CutPieces ==
    ~json =>
        /\ block # <<>> => \E i \in Headers :
             i <= line /\ block = SubSeq(dump, i, line) /\ Unbroken(i, line)
        /\ \A b \in DOMAIN tblocks : \E i \in Headers : \E e \in i .. Len(dump) :
             /\ tblocks[b] = SubSeq(dump, i, e) /\ Unbroken(i, e)
             /\ e < Len(dump) => Ends(i, e + 1)

\* There are as many blocks as headers.
CutCounts ==
    ~json =>
        /\ section \in {"deadlock", "jni"} => \E e \in 1 .. line : dump[e].kind \in {"found", "refs"}
        /\ Printed => Len(Closed(tblocks)) = Cardinality(HeadersTo(line))

\* A deadlock that was read in its place is in the lines of the section.
CutDeadlocks ==
    ~json =>
        /\ section = "header" => HeadersTo(line) = {}
        /\ section \in {"thread", "deadlock", "jni"} \/ HeadersTo(line) # {} => Closed(tblocks) # <<>>
        /\ section = "thread" => \A i \in 1 .. line : dump[i].kind = "found" => HeadersTo(i) = {}
        /\ section = "jni" => \E e \in 1 .. line : dump[e].kind = "refs"
        /\ \A i, j \in 1 .. line :
             /\ i < j /\ dump[i].kind = "found" /\ dump[j].kind = "entry"
             /\ HeadersTo(i) # {} /\ \A e \in 1 .. j : dump[e].kind # "refs"
             => \E n \in DOMAIN deadlines : deadlines[n].kind = "entry"

(* What is uploaded is a sequence, of lines or of containers.                *)
LEMMA DumpIsSeq ==
    ASSUME CutTypes
    PROVE  /\ dump \in Seq(ToSet(dump)) /\ Len(dump) \in Nat /\ DOMAIN dump = 1 .. Len(dump)
           /\ \A i \in 1 .. Len(dump) : dump[i] \in ToSet(dump)
<1>1. dump \in Seq(ToSet(dump))
  BY DumpAssumption DEF DumpAssumption, CutTypes
<1>2. Len(dump) \in Nat /\ DOMAIN dump = 1 .. Len(dump)
  BY <1>1, LenProperties
<1> QED BY <1>1, <1>2 DEF ToSet

(* A block that is closed is one more.                                       *)
LEMMA OneMore ==
    ASSUME NEW T, NEW some \in Seq(Seq(T)), NEW one \in Seq(T),
           NEW all, all = IF one = <<>> THEN some ELSE Append(some, one)
    PROVE  /\ Len(some) \in Nat /\ Len(all) = Len(some) + (IF one = <<>> THEN 0 ELSE 1)
           /\ all # <<>> <=> Len(all) # 0
<1> DEFINE S == Seq(T)
<1>1. one \in S /\ some \in Seq(S)
  OBVIOUS
<1> HIDE DEF S
<1>2. Append(some, one) \in Seq(S) /\ Len(Append(some, one)) = Len(some) + 1
  BY <1>1, AppendProperties
<1>3. all \in Seq(S)
  BY <1>1, <1>2
<1>4. Len(some) \in Nat /\ Len(all) \in Nat /\ (all # <<>> <=> Len(all) # 0)
  BY <1>1, <1>3, EmptySeq, LenProperties
<1> QED BY <1>2, <1>4

LEMMA ClosedBlocks ==
    ASSUME CutTypes
    PROVE  /\ Closed(tblocks) \in Seq(Seq(ToSet(dump)))
           /\ Len(Closed(tblocks)) = Len(tblocks) + (IF block = <<>> THEN 0 ELSE 1)
           /\ \A b \in 1 .. Len(tblocks) : Closed(tblocks)[b] = tblocks[b]
           /\ block # <<>> => Closed(tblocks)[Len(tblocks) + 1] = block
           /\ Len(tblocks) \in Nat /\ DOMAIN tblocks = 1 .. Len(tblocks)
           /\ DOMAIN Closed(tblocks) = 1 .. Len(Closed(tblocks))
<1> DEFINE T == Seq(ToSet(dump))
<1>1. block \in T /\ tblocks \in Seq(T)
  BY DEF CutTypes
<1> HIDE DEF T
<1>2. Len(tblocks) \in Nat /\ DOMAIN tblocks = 1 .. Len(tblocks)
  BY <1>1, LenProperties
<1>3. CASE block = <<>>
  BY <1>1, <1>2, <1>3 DEF Closed, T
<1>4. CASE block # <<>>
  <2>1. Closed(tblocks) = Append(tblocks, block)
    BY <1>4 DEF Closed
  <2>2. /\ Closed(tblocks) \in Seq(T) /\ Len(Closed(tblocks)) = Len(tblocks) + 1
        /\ \A b \in 1 .. Len(tblocks) : Closed(tblocks)[b] = tblocks[b]
        /\ Closed(tblocks)[Len(tblocks) + 1] = block
    BY <2>1, <1>1, <1>2, AppendProperties
  <2>3. DOMAIN Closed(tblocks) = 1 .. Len(Closed(tblocks))
    BY <2>2, LenProperties
  <2> QED BY <2>2, <2>3, <1>2, <1>4 DEF T
<1> QED BY <1>3, <1>4

(* Reading a line does not touch the dump.                                   *)
LEMMA DumpStays ==
    ASSUME CutTypes, dump' = dump, json' = json
    PROVE  /\ Headers' = Headers
           /\ \A n : (HeadersTo(n))' = HeadersTo(n)
           /\ \A i, e : Ends(i, e)' <=> Ends(i, e)
           /\ \A i, e : Unbroken(i, e)' <=> Unbroken(i, e)
<1>1. Headers' = Headers
  BY DEF Headers
<1>2. \A i, e : Ends(i, e)' <=> Ends(i, e)
  BY DEF Ends
<1> QED BY <1>1, <1>2 DEF HeadersTo, Unbroken, Ends

LEMMA ReadTypes ==
    ASSUME CutTypes, ReadDumpLine
    PROVE  CutTypes'
<1> DEFINE T == ToSet(dump)
<1>1. line + 1 \in 1 .. Len(dump) /\ dump[line + 1] \in T /\ Len(dump) \in Nat /\ line \in Nat
  BY DumpIsSeq DEF ReadDumpLine, CutTypes
<1>2. /\ dump' = dump /\ json' = json /\ ~json /\ line' = line + 1
      /\ line' \in 0 .. Len(dump') /\ dump' \in (IF json' THEN JsonDumps ELSE Dumps) /\ json' \in BOOLEAN
      /\ ToSet(dump)' = T
  BY <1>1 DEF ReadDumpLine, CutTypes
<1>3. Closed(tblocks) \in Seq(Seq(T)) /\ tblocks \in Seq(Seq(T)) /\ block \in Seq(T) /\ deadlines \in Seq(T)
  BY ClosedBlocks DEF CutTypes
<1>4. Cut \in T /\ <<Cut>> \in Seq(T) /\ <<Cut>> # <<>>
  BY <1>1 DEF Cut
<1> HIDE DEF T
<1>5. /\ Append(block, Cut) \in Seq(T) /\ Append(block, Cut) # <<>>
      /\ Append(deadlines, Cut) \in Seq(T)
  BY <1>3, <1>4, AppendProperties
<1>6. <<>> \in Seq(T)
  BY EmptySeq
<1>7. /\ section' \in {"header", "thread", "deadlock", "jni", "done"}
      /\ block' \in Seq(T) /\ deadlines' \in Seq(T) /\ tblocks' \in Seq(Seq(T))
      /\ section' = "thread" <=> block' # <<>>
  <2>0. section # "thread" => block = <<>>
    BY DEF CutTypes
  <2>1. CASE ReadHeader
    BY <2>0, <2>1, <1>3, <1>4 DEF ReadHeader
  <2>2. CASE NextThread
    BY <2>2, <1>3, <1>4 DEF NextThread
  <2>3. CASE FoundDeadlock
    BY <2>3, <1>3, <1>5, <1>6 DEF FoundDeadlock
  <2>4. CASE ReadRefs
    BY <2>4, <1>3, <1>6 DEF ReadRefs
  <2>5. CASE ReadBlockLine
    BY <2>5, <1>3, <1>5 DEF ReadBlockLine
  <2>6. CASE ReadDeadlockLine
    BY <2>0, <2>6, <1>3, <1>5 DEF ReadDeadlockLine
  <2>7. CASE SkipRest
    BY <2>0, <2>7, <1>3 DEF SkipRest
  <2> QED BY <2>1, <2>2, <2>3, <2>4, <2>5, <2>6, <2>7 DEF ReadDumpLine
<1> QED BY <1>2, <1>7 DEF CutTypes, T

\* How a line goes on with the block in progress, or ends it.
LEMMA LineRead ==
    ASSUME CutTypes, ReadDumpLine
    PROVE  /\ ~json /\ dump' = dump /\ json' = json /\ line' = line + 1 /\ line + 1 \in 1 .. Len(dump)
           /\ line \in Nat /\ Len(dump) \in Nat /\ section # "done"
           /\ \/ tblocks' = tblocks
              \/ /\ tblocks' = Closed(tblocks)
                 /\ block # <<>> => Cut.kind \in {"thread", "found", "refs"}
           /\ \/ block' = block /\ block = <<>>
              \/ block' = <<>> /\ tblocks' = Closed(tblocks)
              \/ block' = <<Cut>> /\ Cut.kind = "thread" /\ section \in {"header", "thread"}
                   /\ tblocks' = Closed(tblocks)
              \/ block' = Append(block, Cut) /\ block # <<>> /\ tblocks' = tblocks
                   /\ Cut.kind \notin {"thread", "found", "refs"}
           /\ block = <<>> => tblocks' = tblocks
<1>1. line + 1 \in 1 .. Len(dump) /\ Len(dump) \in Nat /\ line \in Nat
  BY DumpIsSeq DEF ReadDumpLine, CutTypes
<1>2. /\ section = "thread" <=> block # <<>>
      /\ block = <<>> => Closed(tblocks) = tblocks
  BY DEF CutTypes, Closed
<1>3. dump' = dump /\ json' = json /\ line' = line + 1 /\ section # "done"
  BY DEF ReadDumpLine
<1>4. /\ \/ tblocks' = tblocks
         \/ tblocks' = Closed(tblocks) /\ (block # <<>> => Cut.kind \in {"thread", "found", "refs"})
      /\ \/ block' = block /\ block = <<>>
         \/ block' = <<>> /\ tblocks' = Closed(tblocks)
         \/ block' = <<Cut>> /\ Cut.kind = "thread" /\ section \in {"header", "thread"}
              /\ tblocks' = Closed(tblocks)
         \/ block' = Append(block, Cut) /\ block # <<>> /\ tblocks' = tblocks
              /\ Cut.kind \notin {"thread", "found", "refs"}
      /\ block = <<>> => tblocks' = tblocks
  <2>1. CASE ReadHeader
    BY <2>1, <1>2 DEF ReadHeader
  <2>2. CASE NextThread
    BY <2>2, <1>2 DEF NextThread
  <2>3. CASE FoundDeadlock
    BY <2>3, <1>2 DEF FoundDeadlock
  <2>4. CASE ReadRefs
    BY <2>4, <1>2 DEF ReadRefs
  <2>5. CASE ReadBlockLine
    BY <2>5, <1>2 DEF ReadBlockLine
  <2>6. CASE ReadDeadlockLine
    BY <2>6, <1>2 DEF ReadDeadlockLine
  <2>7. CASE SkipRest
    BY <2>7, <1>2 DEF SkipRest
  <2> QED BY <2>1, <2>2, <2>3, <2>4, <2>5, <2>6, <2>7 DEF ReadDumpLine
<1> QED BY <1>1, <1>3, <1>4 DEF ReadDumpLine

LEMMA ReadPieces ==
    ASSUME CutTypes, CutPieces, ReadDumpLine
    PROVE  CutPieces'
<1>1. /\ ~json /\ dump' = dump /\ json' = json /\ line' = line + 1 /\ line + 1 \in 1 .. Len(dump)
      /\ line \in Nat /\ Len(dump) \in Nat
  BY LineRead
<1>2. /\ Headers' = Headers
      /\ \A i, e : Ends(i, e)' <=> Ends(i, e)
      /\ \A i, e : Unbroken(i, e)' <=> Unbroken(i, e)
  BY <1>1, DumpStays
<1>3. /\ dump \in Seq(ToSet(dump)) /\ DOMAIN dump = 1 .. Len(dump)
      /\ \A i \in 1 .. Len(dump) : dump[i] \in ToSet(dump)
  BY DumpIsSeq
<1>4. Headers \subseteq 1 .. Len(dump)
  BY <1>3 DEF Headers
<1>5. Cut = dump[line + 1]
  BY DEF Cut
<1>6. ASSUME block' # <<>>
      PROVE  \E i \in Headers : i <= line + 1 /\ block' = SubSeq(dump, i, line + 1) /\ Unbroken(i, line + 1)
  <2>1. CASE block' = <<Cut>> /\ Cut.kind = "thread"
    <3>1. line + 1 \in Headers /\ Unbroken(line + 1, line + 1)
      BY <2>1, <1>1, <1>3, <1>5 DEF Headers, Unbroken
    <3>2. SubSeq(dump, line + 1, line + 1) = <<Cut>>
      <4> DEFINE a == SubSeq(dump, line + 1, line + 1) T == ToSet(dump)
      <4>1. \A f \in line + 1 .. line + 1 : dump[f] \in T
        BY <1>1, <1>3
      <4> HIDE DEF T
      <4>2. a \in Seq(T) /\ Len(a) = 1 /\ \A f \in 1 .. 1 : a[f] = dump[line + 1 + f - 1]
        BY <4>1, <1>1, SubSeqProperties
      <4>3. a[1] = Cut
        BY <4>2, <1>1, <1>5
      <4> HIDE DEF a
      <4>4. a = <<Cut>>
        BY <4>2, <4>3
      <4> QED BY <4>4 DEF a
    <3>3. line + 1 <= line + 1
      BY <1>1
    <3> HIDE DEF Unbroken
    <3> QED BY <3>1, <3>2, <3>3, <2>1
  <2>2. CASE block' = Append(block, Cut) /\ block # <<>> /\ Cut.kind \notin {"thread", "found", "refs"}
    <3>1. PICK i \in Headers : i <= line /\ block = SubSeq(dump, i, line) /\ Unbroken(i, line)
      BY <2>2, <1>1 DEF CutPieces
    <3>2. i \in 1 .. Len(dump)
      BY <1>4
    <3>3. ~Ends(i, line + 1)
      BY <2>2, <1>5 DEF Ends
    <3>4. Unbroken(i, line + 1)
      BY <3>1, <3>2, <3>3, <1>1 DEF Unbroken
    <3>5. SubSeq(dump, i, line + 1) = Append(SubSeq(dump, i, line), Cut)
      <4> DEFINE a == SubSeq(dump, i, line) b == SubSeq(dump, i, line + 1) T == ToSet(dump)
      <4>1. \A f \in i .. line + 1 : dump[f] \in T
        BY <3>2, <1>1, <1>3
      <4> HIDE DEF T
      <4>2. /\ a \in Seq(T) /\ Len(a) = line - i + 1
            /\ \A f \in 1 .. line - i + 1 : a[f] = dump[i + f - 1]
        BY <4>1, <3>1, <3>2, <1>1, SubSeqProperties
      <4>3. /\ b \in Seq(T) /\ Len(b) = line - i + 2
            /\ \A f \in 1 .. line - i + 2 : b[f] = dump[i + f - 1]
        BY <4>1, <3>1, <3>2, <1>1, SubSeqProperties
      <4>4. Cut \in T
        BY <4>1, <3>1, <3>2, <1>1, <1>5
      <4> HIDE DEF a, b
      <4>5. /\ Append(a, Cut) \in Seq(T) /\ Len(Append(a, Cut)) = Len(a) + 1
            /\ \A f \in 1 .. Len(a) : Append(a, Cut)[f] = a[f]
            /\ Append(a, Cut)[Len(a) + 1] = Cut
        BY <4>2, <4>4, AppendProperties
      <4>6. \A f \in 1 .. Len(b) : b[f] = Append(a, Cut)[f]
        <5> TAKE f \in 1 .. Len(b)
        <5>0. f \in 1 .. line - i + 2
          BY <4>3
        <5>1. CASE f \in 1 .. line - i + 1
          BY <5>1, <4>2, <4>3, <4>5, <1>1, <3>2
        <5>2. CASE f = line - i + 2
          <6>1. i + f - 1 = line + 1 /\ f = Len(a) + 1
            BY <5>2, <4>2, <1>1, <3>2
          <6> QED BY <6>1, <5>2, <4>3, <4>5, <1>5
        <5>3. f \in 1 .. line - i + 1 \/ f = line - i + 2
          BY <5>0, <1>1, <3>2
        <5> QED BY <5>1, <5>2, <5>3
      <4>7. Len(b) = Len(Append(a, Cut))
        BY <4>2, <4>3, <4>5, <1>1, <3>2
      <4>8. b = Append(a, Cut)
        BY <4>3, <4>5, <4>6, <4>7, SeqEqual
      <4> QED BY <4>8 DEF a, b
    <3>6. i <= line + 1 /\ block' = SubSeq(dump, i, line + 1)
      BY <3>1, <3>2, <3>5, <2>2, <1>1
    <3> QED BY <3>4, <3>6
  <2> QED BY <2>1, <2>2, <1>6, LineRead
<1> DEFINE Piece(b) == \E i \in Headers : \E e \in i .. Len(dump) :
             /\ b = SubSeq(dump, i, e) /\ Unbroken(i, e)
             /\ e < Len(dump) => Ends(i, e + 1)
<1>7. \A b \in DOMAIN tblocks : Piece(tblocks[b])
  BY <1>1 DEF CutPieces
<1>8. ASSUME NEW b \in DOMAIN tblocks'
      PROVE  Piece(tblocks'[b])
  <2>1. CASE tblocks' = tblocks
    BY <2>1, <1>7
  <2>2. CASE tblocks' = Closed(tblocks) /\ block # <<>> /\ Cut.kind \in {"thread", "found", "refs"}
    <3>1. PICK i \in Headers : i <= line /\ block = SubSeq(dump, i, line) /\ Unbroken(i, line)
      BY <2>2, <1>1 DEF CutPieces
    <3>2. i \in 1 .. Len(dump)
      BY <1>4
    <3>3. Ends(i, line + 1)
      BY <2>2, <3>1, <3>2, <1>1, <1>5 DEF Ends
    <3>4. Piece(block)
      BY <3>1, <3>2, <3>3, <1>1
    <3>5. b \in 1 .. Len(tblocks) \/ b = Len(tblocks) + 1
      BY <1>8, <2>2, ClosedBlocks
    <3>6. CASE b \in 1 .. Len(tblocks)
      BY <3>6, <2>2, <1>7, ClosedBlocks
    <3>7. CASE b = Len(tblocks) + 1
      BY <3>7, <3>4, <2>2, ClosedBlocks
    <3> QED BY <3>5, <3>6, <3>7
  <2> QED BY <2>1, <2>2, LineRead
<1> QED BY <1>1, <1>2, <1>6, <1>8 DEF CutPieces

\* One more line: a header or not.
LEMMA HeadersRead ==
    ASSUME CutTypes, NEW n \in Nat, n + 1 \in 1 .. Len(dump), ~json
    PROVE  /\ HeadersTo(n + 1) = HeadersTo(n) \cup (IF dump[n + 1].kind = "thread" THEN {n + 1} ELSE {})
           /\ IsFiniteSet(HeadersTo(n)) /\ Cardinality(HeadersTo(n)) \in Nat
           /\ Cardinality(HeadersTo(n + 1)) =
                Cardinality(HeadersTo(n)) + (IF dump[n + 1].kind = "thread" THEN 1 ELSE 0)
<1>1. DOMAIN dump = 1 .. Len(dump) /\ Len(dump) \in Nat
  BY DumpIsSeq
<1>2. HeadersTo(n + 1) = HeadersTo(n) \cup (IF dump[n + 1].kind = "thread" THEN {n + 1} ELSE {})
  BY <1>1 DEF HeadersTo, Headers
<1>3. HeadersTo(n) \in SUBSET (1 .. n) /\ n + 1 \notin HeadersTo(n)
  BY <1>1 DEF HeadersTo, Headers
<1>4. IsFiniteSet(HeadersTo(n)) /\ Cardinality(HeadersTo(n)) \in Nat
  <2>1. IsFiniteSet(1 .. n)
    BY FS_Interval
  <2> QED BY <2>1, <1>3, FS_Subset, FS_CardinalityType
<1>5. Cardinality(HeadersTo(n) \cup {n + 1}) = Cardinality(HeadersTo(n)) + 1
  BY <1>3, <1>4, FS_AddElement
<1>6. CASE dump[n + 1].kind = "thread"
  BY <1>2, <1>4, <1>5, <1>6
<1>7. CASE dump[n + 1].kind # "thread"
  <2>1. HeadersTo(n + 1) = HeadersTo(n)
    BY <1>2, <1>7
  <2> QED BY <2>1, <1>4, <1>7
<1> QED BY <1>6, <1>7

(* What is closed is counted, before a line is read and after.               *)
LEMMA ClosedGrows ==
    ASSUME CutTypes, CutTypes'
    PROVE  /\ Len(Closed(tblocks)) = Len(tblocks) + (IF block = <<>> THEN 0 ELSE 1)
           /\ Len(Closed(tblocks)') = Len(tblocks') + (IF block' = <<>> THEN 0 ELSE 1)
           /\ Len(tblocks) \in Nat /\ Len(tblocks') \in Nat
           /\ Closed(tblocks) # <<>> <=> Len(Closed(tblocks)) # 0
           /\ Closed(tblocks)' # <<>> <=> Len(Closed(tblocks)') # 0
<1>1. /\ Len(Closed(tblocks)) = Len(tblocks) + (IF block = <<>> THEN 0 ELSE 1)
      /\ Len(tblocks) \in Nat /\ (Closed(tblocks) # <<>> <=> Len(Closed(tblocks)) # 0)
  <2> DEFINE T == ToSet(dump)
  <2>1. tblocks \in Seq(Seq(T)) /\ block \in Seq(T)
    BY DEF CutTypes
  <2>2. Closed(tblocks) = IF block = <<>> THEN tblocks ELSE Append(tblocks, block)
    BY DEF Closed
  <2> HIDE DEF T
  <2> QED BY <2>1, <2>2, OneMore
<1>2. /\ Len(Closed(tblocks)') = Len(tblocks') + (IF block' = <<>> THEN 0 ELSE 1)
      /\ Len(tblocks') \in Nat /\ (Closed(tblocks)' # <<>> <=> Len(Closed(tblocks)') # 0)
  <2> DEFINE T == ToSet(dump')
  <2>1. tblocks' \in Seq(Seq(T)) /\ block' \in Seq(T)
    BY DEF CutTypes
  <2>2. Closed(tblocks)' = IF block' = <<>> THEN tblocks' ELSE Append(tblocks', block')
    BY DEF Closed
  <2> HIDE DEF T
  <2> QED BY <2>1, <2>2, OneMore
<1> QED BY <1>1, <1>2

(* A line makes of a block, even of none, one that is not empty.             *)
LEMMA LineIsAdded ==
    ASSUME CutTypes, line + 1 \in 1 .. Len(dump)
    PROVE  <<Cut>> # <<>> /\ Append(block, Cut) # <<>>
<1> DEFINE S == ToSet(dump)
<1>1. block \in Seq(S)
  BY DEF CutTypes
<1>2. Cut \in S
  BY DumpIsSeq, Zenon DEF Cut
<1> HIDE DEF S
<1>3. Append(block, Cut) # <<>>
  BY <1>1, <1>2, AppendProperties
<1> QED BY <1>3

(* The blocks there are, closed or open, are as many as the headers read.    *)
LEMMA ReadCounts ==
    ASSUME CutTypes, CutCounts, CutDeadlocks, ReadDumpLine
    PROVE  CutCounts'
<1>1. /\ ~json /\ dump' = dump /\ json' = json /\ line' = line + 1 /\ line + 1 \in 1 .. Len(dump)
      /\ line \in Nat /\ Len(dump) \in Nat
  BY LineRead
<1>2. \A n : (HeadersTo(n))' = HeadersTo(n)
  BY <1>1, DumpStays
<1>3. Cut = dump[line + 1]
  BY DEF Cut
<1>4. CutTypes'
  BY ReadTypes
<1>5. ASSUME section' \in {"deadlock", "jni"}
      PROVE  \E e \in 1 .. line + 1 : dump[e].kind \in {"found", "refs"}
  <2>1. CASE section \in {"deadlock", "jni"}
    BY <2>1, <1>1 DEF CutCounts
  <2>2. CASE section \notin {"deadlock", "jni"}
    <3>1. FoundDeadlock \/ ReadRefs
      BY <2>2, <1>5 DEF ReadDumpLine, ReadHeader, NextThread, ReadBlockLine, ReadDeadlockLine, SkipRest
    <3>2. Cut.kind \in {"found", "refs"}
      BY <3>1 DEF FoundDeadlock, ReadRefs
    <3> QED BY <3>2, <1>1, <1>3
  <2> QED BY <2>1, <2>2
<1>6. ASSUME Printed
      PROVE  Len(Closed(tblocks)') = Cardinality(HeadersTo(line + 1))
  <2> DEFINE c == Cardinality(HeadersTo(line))
  <2>1. /\ Len(Closed(tblocks)) = Len(tblocks) + (IF block = <<>> THEN 0 ELSE 1)
        /\ Len(Closed(tblocks)') = Len(tblocks') + (IF block' = <<>> THEN 0 ELSE 1)
        /\ Len(tblocks) \in Nat /\ Len(tblocks') \in Nat
    BY <1>4, ClosedGrows
  <2>2. Len(Closed(tblocks)) = c
    BY <1>1, <1>6 DEF CutCounts
  <2>3. /\ Cardinality(HeadersTo(line + 1)) = c + (IF Cut.kind = "thread" THEN 1 ELSE 0)
        /\ c \in Nat
    BY <1>1, <1>3, HeadersRead
  <2>4. Len(Closed(tblocks)') = c + (IF Cut.kind = "thread" THEN 1 ELSE 0)
    <3>0. <<Cut>> # <<>> /\ Append(block, Cut) # <<>>
      BY <1>1, LineIsAdded
    <3>1. CASE ReadHeader
      <4>1. block = <<>> /\ tblocks' = tblocks
        BY <3>1 DEF ReadHeader, CutTypes
      <4>2. CASE Cut.kind = "thread"
        <5>1. block' = <<Cut>>
          BY <4>2, <3>1 DEF ReadHeader
        <5> QED BY <5>1, <4>1, <4>2, <2>1, <2>2, <3>0
      <4>3. CASE Cut.kind # "thread"
        <5>1. block' = block
          BY <4>3, <3>1 DEF ReadHeader
        <5> QED BY <5>1, <4>1, <4>3, <2>1, <2>2, <2>3
      <4> QED BY <4>2, <4>3
    <3>2. CASE NextThread
      BY <2>1, <2>2, <2>3, <3>0, <3>2 DEF NextThread
    <3>3. CASE FoundDeadlock
      BY <2>1, <2>2, <2>3, <3>0, <3>3 DEF FoundDeadlock
    <3>4. CASE ReadRefs
      BY <2>1, <2>2, <2>3, <3>0, <3>4 DEF ReadRefs
    <3>5. CASE ReadBlockLine
      BY <2>1, <2>2, <2>3, <3>0, <3>5 DEF ReadBlockLine, CutTypes
    <3>6. CASE ReadDeadlockLine \/ SkipRest
      <4>1. section \in {"deadlock", "jni"} /\ block' = block /\ tblocks' = tblocks
        BY <3>6 DEF ReadDeadlockLine, SkipRest
      <4>2. PICK e \in 1 .. line : dump[e].kind \in {"found", "refs"}
        BY <4>1, <1>1 DEF CutCounts
      <4>3. Cut.kind # "thread"
        <5>1. dump \in Dumps /\ e \in DOMAIN dump /\ line + 1 \in DOMAIN dump /\ e < line + 1
          BY <1>1, DumpIsSeq DEF CutTypes
        <5> QED BY <5>1, <4>2, <1>3, <1>6 DEF Printed
      <4> QED BY <4>1, <4>3, <2>1, <2>2, <2>3
    <3> QED BY <3>1, <3>2, <3>3, <3>4, <3>5, <3>6 DEF ReadDumpLine
  <2> QED BY <2>3, <2>4
<1> QED BY <1>1, <1>2, <1>5, <1>6 DEF CutCounts, Printed

LEMMA ReadDeadlocks ==
    ASSUME CutTypes, CutDeadlocks, ReadDumpLine
    PROVE  CutDeadlocks'
<1>1. /\ ~json /\ dump' = dump /\ json' = json /\ line' = line + 1 /\ line + 1 \in 1 .. Len(dump)
      /\ line \in Nat /\ Len(dump) \in Nat
  BY LineRead
<1>2. \A n : (HeadersTo(n))' = HeadersTo(n)
  BY <1>1, DumpStays
<1>3. Cut = dump[line + 1]
  BY DEF Cut
<1>4. CutTypes'
  BY ReadTypes
<1>5. HeadersTo(line + 1) = HeadersTo(line) \cup (IF Cut.kind = "thread" THEN {line + 1} ELSE {})
  BY <1>1, <1>3, HeadersRead
<1>6. section' = "header" => HeadersTo(line + 1) = {}
  <2>1. section' = "header" => section = "header" /\ Cut.kind # "thread"
    BY DEF ReadDumpLine, ReadHeader, NextThread, FoundDeadlock, ReadRefs, ReadBlockLine, ReadDeadlockLine, SkipRest
  <2> QED BY <2>1, <1>1, <1>5 DEF CutDeadlocks
<1>7. section' \in {"thread", "deadlock", "jni"} \/ HeadersTo(line + 1) # {} => Closed(tblocks)' # <<>>
  <2>1. /\ Len(Closed(tblocks)) = Len(tblocks) + (IF block = <<>> THEN 0 ELSE 1)
        /\ Len(Closed(tblocks)') = Len(tblocks') + (IF block' = <<>> THEN 0 ELSE 1)
        /\ Len(tblocks) \in Nat /\ Len(tblocks') \in Nat
        /\ Closed(tblocks) # <<>> <=> Len(Closed(tblocks)) # 0
        /\ Closed(tblocks)' # <<>> <=> Len(Closed(tblocks)') # 0
    BY <1>4, ClosedGrows
  <2>2. Len(tblocks') + (IF block' = <<>> THEN 0 ELSE 1) >= Len(tblocks) + (IF block = <<>> THEN 0 ELSE 1)
    <3>0. <<Cut>> # <<>> /\ Append(block, Cut) # <<>>
      BY <1>1, LineIsAdded
    <3> QED BY <3>0, <2>1, LineRead
  <2>3. Closed(tblocks) # <<>> => Closed(tblocks)' # <<>>
    BY <2>1, <2>2
  <2>4. CASE HeadersTo(line) # {} \/ section \in {"thread", "deadlock", "jni"}
    BY <2>3, <2>4, <1>1 DEF CutDeadlocks
  <2>5. CASE Cut.kind = "thread" /\ section = "header"
    <3>1. block' = <<Cut>>
      BY <2>5 DEF ReadDumpLine, ReadHeader, NextThread, FoundDeadlock, ReadRefs, ReadBlockLine, ReadDeadlockLine, SkipRest
    <3>2. Len(Closed(tblocks)') # 0
      BY <3>1, <2>1, <2>2
    <3> QED BY <3>2, <2>1
  <2>6. section' \in {"thread", "deadlock", "jni"} =>
          section \in {"thread", "deadlock", "jni"} \/ (Cut.kind = "thread" /\ section = "header")
    BY DEF ReadDumpLine, ReadHeader, NextThread, FoundDeadlock, ReadRefs, ReadBlockLine, ReadDeadlockLine, SkipRest
  <2>7. section \in {"header", "thread", "deadlock", "jni"}
    BY LineRead DEF CutTypes
  <2> QED BY <2>4, <2>5, <2>6, <2>7, <1>5
<1>8. \A i \in 1 .. line : HeadersTo(i) \subseteq HeadersTo(line)
  BY <1>1, DumpIsSeq DEF HeadersTo, Headers
<1>9. ASSUME section' = "thread", NEW i \in 1 .. line + 1, dump[i].kind = "found"
      PROVE  HeadersTo(i) = {}
  <2>1. CASE i \in 1 .. line /\ section = "thread"
    BY <2>1, <1>1, <1>9 DEF CutDeadlocks
  <2>2. CASE i \in 1 .. line /\ section = "header"
    BY <2>2, <1>1, <1>8 DEF CutDeadlocks
  <2>3. /\ section \in {"header", "thread"}
        /\ section = "header" => Cut.kind = "thread"
        /\ section = "thread" => Cut.kind # "found"
    BY <1>9 DEF ReadDumpLine, ReadHeader, NextThread, FoundDeadlock, ReadRefs, ReadBlockLine, ReadDeadlockLine, SkipRest
  <2>4. i # line + 1
    BY <2>3, <1>3, <1>9
  <2> QED BY <2>1, <2>2, <2>3, <2>4, <1>1
<1>10. ASSUME section' = "jni" PROVE \E e \in 1 .. line + 1 : dump[e].kind = "refs"
  <2>1. CASE section = "jni"
    BY <2>1, <1>1 DEF CutDeadlocks
  <2>2. CASE section # "jni"
    <3>1. Cut.kind = "refs"
      BY <2>2, <1>10 DEF ReadDumpLine, ReadHeader, NextThread, FoundDeadlock, ReadRefs, ReadBlockLine, ReadDeadlockLine, SkipRest
    <3> QED BY <3>1, <1>1, <1>3
  <2> QED BY <2>1, <2>2
<1>11. ASSUME NEW i \in 1 .. line + 1, NEW j \in 1 .. line + 1, i < j,
              dump[i].kind = "found", dump[j].kind = "entry",
              HeadersTo(i) # {}, \A e \in 1 .. j : dump[e].kind # "refs"
       PROVE  \E n \in DOMAIN deadlines' : deadlines'[n].kind = "entry"
  <2>1. /\ deadlines' = deadlines \/ deadlines' = Append(deadlines, Cut)
        /\ section = "deadlock" /\ Cut.kind # "refs" => deadlines' = Append(deadlines, Cut)
    BY DEF ReadDumpLine, ReadHeader, NextThread, FoundDeadlock, ReadRefs, ReadBlockLine, ReadDeadlockLine, SkipRest
  <2>2. /\ DOMAIN deadlines = 1 .. Len(deadlines) /\ Len(deadlines) \in Nat
        /\ DOMAIN Append(deadlines, Cut) = 1 .. Len(deadlines) + 1
        /\ \A n \in DOMAIN deadlines : Append(deadlines, Cut)[n] = deadlines[n]
        /\ Append(deadlines, Cut)[Len(deadlines) + 1] = Cut
    <3> DEFINE T == ToSet(dump)
    <3>1. deadlines \in Seq(T) /\ Cut \in T
      BY <1>1, <1>3, DumpIsSeq DEF CutTypes
    <3> HIDE DEF T
    <3>2. /\ Append(deadlines, Cut) \in Seq(T) /\ Len(Append(deadlines, Cut)) = Len(deadlines) + 1
          /\ \A n \in 1 .. Len(deadlines) : Append(deadlines, Cut)[n] = deadlines[n]
          /\ Append(deadlines, Cut)[Len(deadlines) + 1] = Cut
      BY <3>1, AppendProperties
    <3>3. DOMAIN deadlines = 1 .. Len(deadlines) /\ Len(deadlines) \in Nat
      BY <3>1, LenProperties
    <3>4. DOMAIN Append(deadlines, Cut) = 1 .. Len(deadlines) + 1
      BY <3>2, LenProperties
    <3> QED BY <3>2, <3>3, <3>4
  <2>3. CASE j \in 1 .. line
    <3>1. PICK n \in DOMAIN deadlines : deadlines[n].kind = "entry"
      <4>1. i \in 1 .. line
        BY <2>3, <1>1, <1>11
      <4> QED BY <4>1, <2>3, <1>1, <1>11 DEF CutDeadlocks
    <3> QED BY <3>1, <2>1, <2>2
  <2>4. CASE j = line + 1
    <3>1. i \in 1 .. line /\ HeadersTo(line) # {}
      BY <2>4, <1>1, <1>8, <1>11
    <3>2. \A e \in 1 .. line + 1 : dump[e].kind # "refs"
      BY <2>4, <1>11
    <3>3. section # "jni" /\ section # "thread" /\ section # "header"
      BY <3>1, <3>2, <1>1, <1>11 DEF CutDeadlocks
    <3>4. section = "deadlock"
      BY <3>3, LineRead DEF CutTypes
    <3>5. Cut.kind = "entry" /\ deadlines' = Append(deadlines, Cut)
      BY <3>4, <2>1, <2>4, <1>3, <1>11
    <3>6. Len(deadlines) + 1 \in DOMAIN deadlines' /\ deadlines'[Len(deadlines) + 1].kind = "entry"
      BY <3>5, <2>2
    <3> QED BY <3>6
  <2> QED BY <2>3, <2>4, <1>1
<1> QED BY <1>1, <1>2, <1>6, <1>7, <1>9, <1>10, <1>11 DEF CutDeadlocks

------------------------------------------------------------------------------
(* The report, once the dump is read, and the thread that is asked for.      *)

Asking(d, j) == IF j THEN FlattenSeq([c \in DOMAIN d |-> d[c].threads]) ELSE Kind(d, "thread")
FirstFit(d, j, ask) == SelectInSeq(Asking(d, j), LAMBDA l : Fits(ask, l))
Found(d, j, ask) == IF FirstFit(d, j, ask) = 0 THEN <<>> ELSE Asking(d, j)[FirstFit(d, j, ask)].tid
ReportInv ==
    /\ HasReport => report = IF json THEN ReportOn(JsonThreads(dump), 0)
                             ELSE ReportOn([i \in DOMAIN tblocks |-> Thread(tblocks[i])], Len(Deadlocks(deadlines)))
    /\ HasReport /\ ~json => line = Len(dump) /\ block = <<>>
    /\ asked # <<>> => shown = Found(dump, json, asked)

DumpInv == CutTypes /\ CutPieces /\ CutCounts /\ CutDeadlocks /\ ReportInv

LEMMA DumpInvAtFirst == DumpInit => DumpInv
<1> SUFFICES ASSUME DumpInit PROVE DumpInv
  OBVIOUS
<1>1. /\ line = 0 /\ section = "header" /\ block = <<>> /\ tblocks = <<>> /\ deadlines = <<>>
      /\ asked = <<>> /\ json \in BOOLEAN /\ dump \in (IF json THEN JsonDumps ELSE Dumps)
  BY DEF DumpInit
<1>2. dump \in Seq(ToSet(dump)) /\ Len(dump) \in Nat /\ DOMAIN dump = 1 .. Len(dump)
  <2>1. dump \in Seq(ToSet(dump))
    BY <1>1, DumpAssumption DEF DumpAssumption
  <2> QED BY <2>1, LenProperties
<1>3. HeadersTo(0) = {} /\ 1 .. 0 = {}
  BY <1>2 DEF HeadersTo, Headers
<1>4. Closed(tblocks) = <<>>
  BY <1>1 DEF Closed
<1>5. CutTypes
  BY <1>1, <1>2, EmptySeq DEF CutTypes
<1>6. CutPieces
  BY <1>1 DEF CutPieces
<1>7. CutCounts
  BY <1>1, <1>3, <1>4, FS_EmptySet DEF CutCounts
<1>8. CutDeadlocks
  BY <1>1, <1>3 DEF CutDeadlocks
<1>9. ReportInv
  BY <1>1 DEF ReportInv, HasReport
<1> QED BY <1>5, <1>6, <1>7, <1>8, <1>9 DEF DumpInv

LEMMA BuildKeeps ==
    ASSUME DumpInv, BuildReport
    PROVE  DumpInv'
<1> USE DEF DumpInv
<1>1. /\ ~json /\ section' = "done" /\ line = Len(dump) /\ tblocks' = Closed(tblocks) /\ block' = <<>>
      /\ dump' = dump /\ json' = json /\ line' = line /\ deadlines' = deadlines
      /\ asked' = asked /\ shown' = shown
      /\ report' = ReportOn([i \in DOMAIN tblocks' |-> Thread(tblocks'[i])], Len(Deadlocks(deadlines')))
  BY DEF BuildReport
<1>2. /\ Headers' = Headers
      /\ \A n : (HeadersTo(n))' = HeadersTo(n)
      /\ \A i, e : Ends(i, e)' <=> Ends(i, e)
      /\ \A i, e : Unbroken(i, e)' <=> Unbroken(i, e)
  BY <1>1, DumpStays
<1>3. CutTypes'
  <2>1. tblocks' \in Seq(Seq(ToSet(dump)))
    BY <1>1, ClosedBlocks
  <2>2. block' \in Seq(ToSet(dump))
    BY <1>1, EmptySeq
  <2> QED BY <1>1, <2>1, <2>2 DEF CutTypes
<1>4. Closed(tblocks)' = tblocks'
  BY <1>1 DEF Closed
<1>5. CutPieces'
  <2>1. ASSUME NEW b \in DOMAIN tblocks'
        PROVE  \E i \in Headers : \E e \in i .. Len(dump) :
             /\ tblocks'[b] = SubSeq(dump, i, e) /\ Unbroken(i, e)
             /\ e < Len(dump) => Ends(i, e + 1)
    <3>1. CASE b \in 1 .. Len(tblocks)
      BY <3>1, <1>1, ClosedBlocks DEF CutPieces
    <3>2. CASE b = Len(tblocks) + 1 /\ block # <<>>
      <4>1. PICK i \in Headers : i <= line /\ block = SubSeq(dump, i, line) /\ Unbroken(i, line)
        BY <3>2, <1>1 DEF CutPieces
      <4>2. line \in i .. Len(dump) /\ ~(line < Len(dump))
        BY <4>1, <1>1, DumpIsSeq DEF Headers
      <4>3. tblocks'[b] = block
        BY <3>2, <1>1, ClosedBlocks
      <4> QED BY <4>1, <4>2, <4>3
    <3>3. b \in 1 .. Len(tblocks) \/ (b = Len(tblocks) + 1 /\ block # <<>>)
      <4>1. /\ DOMAIN tblocks' = 1 .. Len(tblocks) + (IF block = <<>> THEN 0 ELSE 1)
            /\ Len(tblocks) \in Nat
        BY <1>1, ClosedBlocks
      <4> QED BY <4>1, <2>1
    <3> QED BY <3>1, <3>2, <3>3
  <2> QED BY <1>1, <1>2, <2>1 DEF CutPieces
<1>6. CutCounts'
  BY <1>1, <1>2, <1>4 DEF CutCounts, Printed
<1>7. CutDeadlocks'
  BY <1>1, <1>2, <1>4 DEF CutDeadlocks
<1>8. ReportInv'
  BY <1>1 DEF ReportInv, HasReport
<1> QED BY <1>3, <1>5, <1>6, <1>7, <1>8

LEMMA ReportJsonKeeps ==
    ASSUME DumpInv, ReportJson
    PROVE  DumpInv'
<1> USE DEF DumpInv
<1>1. /\ json /\ section' = "done" /\ tblocks' = tblocks /\ block' = block
      /\ dump' = dump /\ json' = json /\ line' = line /\ deadlines' = deadlines
      /\ asked' = asked /\ shown' = shown
      /\ report' = ReportOn(JsonThreads(dump), 0)
  BY DEF ReportJson
<1>2. section # "thread" /\ block = <<>>
  BY <1>1 DEF CutTypes
<1>3. CutTypes'
  BY <1>1, <1>2 DEF CutTypes
<1>4. CutPieces' /\ CutCounts' /\ CutDeadlocks'
  BY <1>1 DEF CutPieces, CutCounts, CutDeadlocks
<1>5. ReportInv'
  BY <1>1 DEF ReportInv, HasReport
<1> QED BY <1>3, <1>4, <1>5

LEMMA AnalyzeKeeps ==
    ASSUME DumpInv, NEW ask, AnalyzeThread(ask)
    PROVE  DumpInv'
<1> USE DEF DumpInv
<1>1. /\ section' = section /\ tblocks' = tblocks /\ block' = block
      /\ dump' = dump /\ json' = json /\ line' = line /\ deadlines' = deadlines
      /\ report' = report /\ asked' = ask
      /\ shown' = Found(dump, json, ask)
  BY DEF AnalyzeThread, Found, FirstFit, Asking
<1>2. /\ Headers' = Headers
      /\ \A n : (HeadersTo(n))' = HeadersTo(n)
      /\ \A i, e : Ends(i, e)' <=> Ends(i, e)
      /\ \A i, e : Unbroken(i, e)' <=> Unbroken(i, e)
  BY <1>1, DumpStays
<1>3. CutTypes'
  BY <1>1 DEF CutTypes
<1>4. CutPieces'
  BY <1>1, <1>2 DEF CutPieces
<1>5. CutCounts' /\ CutDeadlocks'
  <2>1. Closed(tblocks)' = Closed(tblocks)
    BY <1>1 DEF Closed
  <2> QED BY <1>1, <1>2, <2>1 DEF CutCounts, CutDeadlocks, Printed
<1>6. ReportInv'
  BY <1>1 DEF ReportInv, HasReport
<1> QED BY <1>3, <1>4, <1>5, <1>6

LEMMA ReadKeeps ==
    ASSUME DumpInv, ReadDumpLine
    PROVE  DumpInv'
<1> USE DEF DumpInv
<1>1. section # "done" /\ dump' = dump /\ json' = json /\ asked' = asked /\ shown' = shown
  BY DEF ReadDumpLine
<1>2. section' # "done"
  BY <1>1 DEF ReadDumpLine, ReadHeader, NextThread, FoundDeadlock, ReadRefs, ReadBlockLine, ReadDeadlockLine, SkipRest
<1>3. ReportInv'
  BY <1>1, <1>2 DEF ReportInv, HasReport
<1> QED BY <1>3, ReadTypes, ReadPieces, ReadCounts, ReadDeadlocks

LEMMA DumpInvKept == DumpInv /\ [DumpNext]_dumpVars => DumpInv'
<1> SUFFICES ASSUME DumpInv, [DumpNext]_dumpVars PROVE DumpInv'
  OBVIOUS
<1>1. CASE UNCHANGED dumpVars
  <2>1. UNCHANGED <<dump, json, line, section, block, tblocks, deadlines, report, asked, shown>>
    BY <1>1 DEF dumpVars
  <2>2. Headers' = Headers /\ Closed(tblocks)' = Closed(tblocks)
        /\ (\A n : (HeadersTo(n))' = HeadersTo(n)) /\ (\A i, e : Ends(i, e)' <=> Ends(i, e))
        /\ (\A i, e : Unbroken(i, e)' <=> Unbroken(i, e))
    BY <2>1, DumpStays DEF DumpInv, Closed
  <2>3. CutTypes' /\ CutPieces'
    BY <2>1, <2>2 DEF DumpInv, CutTypes, CutPieces
  <2>4. CutCounts' /\ CutDeadlocks' 
    BY <2>1, <2>2 DEF DumpInv, CutCounts, CutDeadlocks, Printed
  <2>5. ReportInv'
    BY <2>1, <2>2 DEF DumpInv, ReportInv, HasReport
  <2> QED BY <2>3, <2>4, <2>5 DEF DumpInv
<1>2. CASE DumpNext
  BY <1>2, ReadKeeps, BuildKeeps, ReportJsonKeeps, AnalyzeKeeps DEF DumpNext
<1> QED BY <1>1, <1>2

------------------------------------------------------------------------------
(* What the report says of the dump.                                         *)

LEMMA DumpTypes == DumpInv => DumpTypeOK
<1> SUFFICES ASSUME DumpInv PROVE DumpTypeOK
  OBVIOUS
<1>1. CutTypes /\ CutPieces /\ ReportInv
  BY DEF DumpInv
<1>2. \A i \in Headers : \A e \in i .. Len(dump) :
        SubSeq(dump, i, e) # <<>> /\ SubSeq(dump, i, e)[1].kind = "thread"
  <2> TAKE i \in Headers
  <2> TAKE e \in i .. Len(dump)
  <2>1. /\ i \in 1 .. Len(dump) /\ Len(dump) \in Nat /\ dump[i].kind = "thread" /\ e \in Int /\ i <= e
        /\ \A f \in i .. e : dump[f] \in ToSet(dump)
    BY <1>1, DumpIsSeq DEF Headers
  <2> DEFINE T == ToSet(dump)
  <2> HIDE DEF T
  <2>2. /\ SubSeq(dump, i, e) \in Seq(T) /\ Len(SubSeq(dump, i, e)) = e - i + 1
        /\ \A f \in 1 .. e - i + 1 : SubSeq(dump, i, e)[f] = dump[i + f - 1]
    BY <2>1, SubSeqProperties DEF T
  <2>3. 1 \in 1 .. e - i + 1 /\ i + 1 - 1 = i /\ e - i + 1 # 0
    BY <2>1
  <2> QED BY <2>1, <2>2, <2>3
<1>3. block # <<>> => block[1].kind = "thread"
  <2> SUFFICES ASSUME block # <<>> PROVE block[1].kind = "thread"
    OBVIOUS
  <2>1. ~json
    BY <1>1 DEF CutTypes
  <2>2. PICK i \in Headers : i <= line /\ block = SubSeq(dump, i, line)
    BY <2>1, <1>1 DEF CutPieces
  <2>3. line \in i .. Len(dump)
    BY <2>2, <1>1, DumpIsSeq DEF CutTypes, Headers
  <2> QED BY <2>2, <2>3, <1>2
<1>4. \A i \in DOMAIN tblocks : tblocks[i] # <<>> /\ tblocks[i][1].kind = "thread"
  <2>1. CASE json
    <3>1. DOMAIN tblocks = {}
      BY <2>1, <1>1 DEF CutTypes
    <3> QED BY <3>1
  <2>2. CASE ~json
    BY <2>2, <1>1, <1>2 DEF CutPieces
  <2> QED BY <2>1, <2>2
<1>5. HasReport => report.overall \in {"critical", "warning", "health"}
  <2>1. ASSUME NEW ts, NEW n PROVE ReportOn(ts, n).overall \in {"critical", "warning", "health"}
    BY DEF ReportOn, Overall
  <2> QED BY <2>1, <1>1 DEF ReportInv
<1> QED BY <1>1, <1>3, <1>4, <1>5 DEF DumpTypeOK, CutTypes

(* The lines of a kind, in the order they are in.                            *)
OfKind(lines, k) == {i \in DOMAIN lines : lines[i].kind = k}
LEMMA KindLines ==
    ASSUME NEW lines, NEW n \in Nat, DOMAIN lines = 1 .. n, NEW k
    PROVE  /\ IsFiniteSet(OfKind(lines, k)) /\ Cardinality(OfKind(lines, k)) \in Nat
           /\ Len(Kind(lines, k)) = Cardinality(OfKind(lines, k))
           /\ DOMAIN Kind(lines, k) = 1 .. Cardinality(OfKind(lines, k))
           /\ \E p : /\ Selects(p, OfKind(lines, k))
                     /\ \A m \in DOMAIN Kind(lines, k) : Kind(lines, k)[m] = lines[p[m]]
<1> DEFINE places == OfKind(lines, k)
<1>1. IsFiniteSet(places) /\ \A i \in places : i \in Nat
  <2>1. IsFiniteSet(1 .. n) /\ places \in SUBSET (1 .. n)
    BY FS_Interval DEF OfKind
  <2> QED BY <2>1, FS_Subset
<1>2. Kind(lines, k) = LinesAt(lines, places)
  BY DEF Kind, OfKind
<1> HIDE DEF places
<1>3. Cardinality(places) \in Nat
  BY <1>1, FS_CardinalityType
<1>4. PICK p : Selects(p, places) /\ Kind(lines, k) = [m \in 1 .. Cardinality(places) |-> lines[p[m]]]
  BY <1>1, <1>2, LinesSelected
<1>5. /\ DOMAIN Kind(lines, k) = 1 .. Cardinality(places) /\ Len(Kind(lines, k)) = Cardinality(places)
      /\ \A m \in DOMAIN Kind(lines, k) : Kind(lines, k)[m] = lines[p[m]]
  BY <1>3, <1>4
<1> QED BY <1>1, <1>3, <1>4, <1>5 DEF places

(* A deadlock that is read in its place makes the report critical.           *)
LEMMA DeadlocksReported == DumpInv => DeadlockIsCritical
<1> SUFFICES ASSUME DumpInv, HasReport, ~json,
                    NEW i \in DOMAIN dump, NEW j \in DOMAIN dump, i < j,
                    dump[i].kind = "found", dump[j].kind = "entry",
                    Headers \cap 1 .. i # {}, \A e \in 1 .. j : dump[e].kind # "refs"
             PROVE  report.overall = "critical"
  BY DEF DeadlockIsCritical
<1>1. CutTypes /\ CutDeadlocks /\ ReportInv
  BY DEF DumpInv
<1>2. DOMAIN dump = 1 .. Len(dump) /\ Len(dump) \in Nat /\ line = Len(dump) /\ block = <<>>
  BY <1>1, DumpIsSeq DEF ReportInv
<1>3. HeadersTo(i) # {} /\ HeadersTo(line) # {}
  BY <1>2 DEF HeadersTo, Headers
<1>4. PICK n \in DOMAIN deadlines : deadlines[n].kind = "entry"
  BY <1>1, <1>2, <1>3 DEF CutDeadlocks
<1>5. tblocks # <<>> /\ Len(tblocks) \in Nat /\ Len(tblocks) # 0 /\ DOMAIN tblocks = 1 .. Len(tblocks)
  <2>1. tblocks # <<>>
    BY <1>1, <1>2, <1>3 DEF CutDeadlocks, Closed
  <2>2. Len(tblocks) \in Nat /\ DOMAIN tblocks = 1 .. Len(tblocks)
    BY <1>1, ClosedBlocks
  <2>3. tblocks \in Seq(Seq(ToSet(dump)))
    BY <1>1 DEF CutTypes
  <2> HIDE DEF DumpInv
  <2>4. Len(tblocks) # 0
    BY <2>1, <2>3, EmptySeq
  <2> QED BY <2>1, <2>2, <2>4
<1> DEFINE ts == [b \in DOMAIN tblocks |-> Thread(tblocks[b])]
<1> DEFINE count == Len(Deadlocks(deadlines))
<1>6. count > 0
  <2> DEFINE places == OfKind(deadlines, "entry")
  <2>1. Len(deadlines) \in Nat /\ DOMAIN deadlines = 1 .. Len(deadlines)
    BY <1>1, LenProperties DEF CutTypes
  <2>2. n \in places
    BY <1>4, <2>1 DEF OfKind
  <2>3. /\ IsFiniteSet(places) /\ Cardinality(places) \in Nat
        /\ Len(Kind(deadlines, "entry")) = Cardinality(places)
    BY <2>1, KindLines
  <2> HIDE DEF places
  <2>4. Cardinality(places) # 0
    BY <2>2, <2>3, FS_EmptySet
  <2> QED BY <2>3, <2>4 DEF Deadlocks
<1>7. Len(ts) # 0
  BY <1>5
<1> HIDE DEF ts, count
<1>8. DumpFinding("deadlock", "high") \in Diagnosis(ts, count)
  BY <1>6, <1>7 DEF Diagnosis, DeadlockFinding, FindingIf
<1>9. report = ReportOn(ts, count)
  BY <1>1 DEF ReportInv, ts, count
<1>10. DumpFinding("deadlock", "high").severity = "high"
  BY DEF DumpFinding
<1> QED BY <1>8, <1>9, <1>10 DEF ReportOn, Overall

(* Who asks for a thread by its name, which no other contains, sees it.      *)
LEMMA NamedShown == Printed /\ DumpInv => NamedThreadIsShown
<1> SUFFICES ASSUME Printed, DumpInv, NEW i \in Headers, asked = dump[i].name,
                    \A j \in Headers : j # i => ~Fits(asked, dump[j])
             PROVE  shown = dump[i].tid
  BY DEF NamedThreadIsShown
<1>1. CutTypes /\ ReportInv
  BY DEF DumpInv
<1>2. ~json /\ dump \in Dumps /\ i \in DOMAIN dump /\ dump[i].kind = "thread"
  BY <1>1 DEF Headers, CutTypes
<1>3. asked # <<>> /\ <<asked, dump[i].name>> \in Within
  BY <1>2 DEF Printed
<1>4. shown = Found(dump, json, asked)
  BY <1>1, <1>3 DEF ReportInv
<1>5. DOMAIN dump = 1 .. Len(dump) /\ Len(dump) \in Nat
  BY <1>1, DumpIsSeq
<1> DEFINE places == OfKind(dump, "thread")
<1>6. places = Headers
  BY <1>2, <1>5 DEF Headers, OfKind
<1>7. /\ Cardinality(places) \in Nat
      /\ Len(Kind(dump, "thread")) = Cardinality(places)
      /\ DOMAIN Kind(dump, "thread") = 1 .. Cardinality(places)
  BY <1>5, KindLines
<1>8. PICK p : Selects(p, places) /\ \A m \in 1 .. Cardinality(places) : Kind(dump, "thread")[m] = dump[p[m]]
  <2>1. \E p : Selects(p, places) /\ \A m \in DOMAIN Kind(dump, "thread") : Kind(dump, "thread")[m] = dump[p[m]]
    BY <1>5, KindLines
  <2> HIDE DEF places
  <2> QED BY <2>1, <1>7
<1> HIDE DEF places
<1>9. PICK m \in 1 .. Cardinality(places) : p[m] = i
  BY <1>6, <1>8 DEF Selects
<1> DEFINE names == Asking(dump, json)
<1>10. /\ DOMAIN names = 1 .. Cardinality(places) /\ Len(names) = Cardinality(places)
       /\ \A e \in 1 .. Cardinality(places) : names[e] = dump[p[e]]
  BY <1>2, <1>7, <1>8 DEF Asking
<1> HIDE DEF names
<1> DEFINE fits == {e \in 1 .. Len(names) : Fits(asked, names[e])}
<1>11. fits = {m}
  <2>1. m \in fits
    BY <1>3, <1>9, <1>10 DEF Fits
  <2>2. ASSUME NEW e \in fits, e # m PROVE FALSE
    <3>1. e \in 1 .. Cardinality(places) /\ Fits(asked, dump[p[e]])
      BY <1>10
    <3>2. p[e] \in Headers
      BY <3>1, <1>6, <1>8 DEF Selects
    <3>3. e < m \/ m < e
      BY <3>1, <2>2, <1>7
    <3>4. p[e] < p[m] \/ p[m] < p[e]
      BY <3>1, <3>3, <1>8 DEF Selects
    <3>5. p[e] # i
      <4>1. p[e] \in Nat /\ i \in Nat
        BY <3>2, <1>5 DEF Headers
      <4> QED BY <3>4, <4>1, <1>9
    <3> QED BY <3>1, <3>2, <3>5
  <2> QED BY <2>1, <2>2
<1>12. FirstFit(dump, json, asked) = Min(fits)
  <2>1. FirstFit(dump, json, asked) = IF fits # {} THEN Min(fits) ELSE 0
    BY DEF FirstFit, SelectInSeq, names
  <2> QED BY <2>1, <1>11
<1>13. Min(fits) = m
  <2>1. Min({m}) = m
    BY <1>7 DEF Min
  <2> QED BY <2>1, <1>11
<1>14. m # 0 /\ names[m] = dump[i]
  BY <1>7, <1>9, <1>10
<1>15. Found(dump, json, asked) = names[m].tid
  BY <1>12, <1>13, <1>14 DEF Found, names
<1> QED BY <1>4, <1>14, <1>15

(* As many places as they are moved to.                                      *)
LEMMA Moved ==
    ASSUME NEW S, NEW k \in Int, \A n \in S : n \in Int, IsFiniteSet(S),
           NEW T, T = {n + k : n \in S}
    PROVE  Cardinality(T) = Cardinality(S)
<1> DEFINE f == [n \in S |-> n + k]
<1>1. f \in Bijection(S, T)
  <2>1. f \in [S -> T]
    OBVIOUS
  <2>2. ASSUME NEW m \in S, NEW n \in S, f[m] = f[n] PROVE m = n
    <3>1. m + k = n + k /\ m \in Int /\ n \in Int
      BY <2>2
    <3> HIDE DEF f
    <3> QED BY <3>1
  <2>3. ASSUME NEW t \in T PROVE \E n \in S : f[n] = t
    <3> HIDE DEF f
    <3>1. PICK n \in S : t = n + k
      OBVIOUS
    <3>2. f[n] = t
      BY <3>1 DEF f
    <3> QED BY <3>2
  <2> HIDE DEF f
  <2> QED BY <2>1, <2>2, <2>3 DEF Bijection, Injection, IsInjective, Surjection
<1> QED BY <1>1, FS_Bijection DEF ExistsBijection

(* A thread is what the lines of its own block say.                          *)
IsPiece(d, i, e, b) ==
    /\ i \in Nat /\ e \in Nat /\ i >= 1 /\ i <= e /\ e <= Len(d)
    /\ d \in Seq(ToSet(d)) /\ b = SubSeq(d, i, e)
OneMounted(d, i, e) == \A m, n \in i .. e : d[m].kind = "mounted" /\ d[n].kind = "mounted" => m = n
OwnFrames(d, i, e) ==
    {j \in i .. e : d[j].kind = "frame" /\ \A m \in i .. e : d[m].kind = "mounted" => m < j}

LEMMA PieceLines ==
    ASSUME NEW d, NEW i, NEW e, NEW b, IsPiece(d, i, e, b)
    PROVE  /\ b \in Seq(ToSet(d)) /\ Len(b) = e - i + 1 /\ DOMAIN b = 1 .. e - i + 1
           /\ \A n \in 1 .. e - i + 1 : b[n] = d[n + i - 1]
<1> USE DEF IsPiece
<1> DEFINE T == ToSet(d)
<1>1. \A f \in i .. e : d[f] \in T
  BY LenProperties DEF ToSet
<1> HIDE DEF T
<1>2. /\ b \in Seq(T) /\ Len(b) = e - i + 1
      /\ \A n \in 1 .. e - i + 1 : b[n] = d[i + n - 1]
  BY <1>1, SubSeqProperties
<1>3. DOMAIN b = 1 .. e - i + 1
  BY <1>2, LenProperties
<1>4. \A n \in 1 .. e - i + 1 : i + n - 1 = n + i - 1
  OBVIOUS
<1> QED BY <1>2, <1>3, <1>4 DEF T

LEMMA StateOfLines ==
    ASSUME NEW b, NEW n \in Nat, DOMAIN b = 1 .. n, \E m \in 1 .. n : b[m].kind = "state"
    PROVE  \E m \in 1 .. n : b[m].kind = "state" /\ StateOf(b) = b[m].of
<1> DEFINE S == OfKind(b, "state")
<1> DEFINE c == Cardinality(S)
<1>2. /\ IsFiniteSet(S) /\ c \in Nat
      /\ Len(Kind(b, "state")) = c /\ DOMAIN Kind(b, "state") = 1 .. c
  BY KindLines
<1>3. PICK p : Selects(p, S) /\ \A m \in DOMAIN Kind(b, "state") : Kind(b, "state")[m] = b[p[m]]
  BY KindLines
<1>4. S # {}
  BY DEF OfKind
<1> HIDE DEF S
<1>5. c # 0
  BY <1>2, <1>4, FS_EmptySet
<1>6. c \in 1 .. c /\ Kind(b, "state")[c] = b[p[c]] /\ p[c] \in S /\ Kind(b, "state") # <<>>
  <2>0. c \in 1 .. c
    BY <1>2, <1>5
  <2>1. Kind(b, "state")[c] = b[p[c]]
    BY <1>2, <1>3, <2>0
  <2>2. p[c] \in S
    BY <2>0, <1>3 DEF Selects
  <2>3. Kind(b, "state") # <<>>
    BY <1>2, <1>5
  <2> QED BY <2>0, <2>1, <2>2, <2>3
<1>7. StateOf(b) = b[p[c]].of
  BY <1>2, <1>6 DEF StateOf, Last
<1>8. p[c] \in 1 .. n /\ b[p[c]].kind = "state"
  BY <1>6 DEF S, OfKind
<1> QED BY <1>7, <1>8

LEMMA StateOfPiece ==
    ASSUME NEW d, NEW i, NEW e, NEW b, IsPiece(d, i, e, b), \E j \in i .. e : d[j].kind = "state"
    PROVE  \E j \in i .. e : d[j].kind = "state" /\ StateOf(b) = d[j].of
<1>0. i \in Nat /\ e \in Nat /\ i >= 1 /\ i <= e
  BY DEF IsPiece
<1> DEFINE n == e - i + 1
<1>1. n \in Nat /\ DOMAIN b = 1 .. n /\ \A m \in 1 .. n : b[m] = d[m + i - 1]
  <2>1. DOMAIN b = 1 .. n /\ \A m \in 1 .. n : b[m] = d[m + i - 1]
    BY PieceLines
  <2>2. n \in Nat
    BY <1>0
  <2> QED BY <2>1, <2>2
<1>2. \E m \in 1 .. n : b[m].kind = "state"
  <2>1. PICK j \in i .. e : d[j].kind = "state"
    BY <1>0
  <2>2. j - i + 1 \in 1 .. n /\ (j - i + 1) + i - 1 = j
    BY <1>0
  <2> QED BY <1>0, <2>1, <2>2, <1>1
<1>3. PICK m \in 1 .. n : b[m].kind = "state" /\ StateOf(b) = b[m].of
  <2> HIDE DEF n
  <2> QED BY <1>0, <1>1, <1>2, StateOfLines
<1>4. m + i - 1 \in i .. e /\ d[m + i - 1] = b[m]
  BY <1>0, <1>1
<1> QED BY <1>0, <1>3, <1>4

LEMMA FramesOfPiece ==
    ASSUME NEW d, NEW i, NEW e, NEW b, IsPiece(d, i, e, b), OneMounted(d, i, e)
    PROVE  Len(FramesOf(b)) = Cardinality(OwnFrames(d, i, e))
<1>0. i \in Nat /\ e \in Nat /\ i >= 1 /\ i <= e
  BY DEF IsPiece
<1> DEFINE n == e - i + 1
<1>1. /\ n \in Nat /\ DOMAIN b = 1 .. n /\ Len(b) = n /\ b \in Seq(ToSet(d))
      /\ \A m \in 1 .. n : b[m] = d[m + i - 1]
  <2>1. /\ DOMAIN b = 1 .. n /\ Len(b) = n /\ b \in Seq(ToSet(d))
        /\ \A m \in 1 .. n : b[m] = d[m + i - 1]
    BY PieceLines
  <2>2. n \in Nat
    BY <1>0
  <2> QED BY <2>1, <2>2
<1> DEFINE marks == {m \in 1 .. Len(b) : b[m].kind = "mounted"}
<1>2. PICK mark : mark = SelectInSeq(b, LAMBDA l : l.kind = "mounted")
  BY <1>0
<1>3. mark = IF marks # {} THEN Min(marks) ELSE 0
  BY <1>0, <1>2 DEF SelectInSeq
<1>4. \A m, k \in marks : m = k
  <2> SUFFICES ASSUME NEW m \in marks, NEW k \in marks PROVE m = k
    BY <1>0
  <2>1. m + i - 1 \in i .. e /\ k + i - 1 \in i .. e /\ m \in Nat /\ k \in Nat
    BY <1>0, <1>1
  <2>2. d[m + i - 1].kind = "mounted" /\ d[k + i - 1].kind = "mounted"
    BY <1>0, <1>1
  <2>3. m + i - 1 = k + i - 1
    BY <1>0, <2>1, <2>2 DEF OneMounted
  <2> QED BY <1>0, <2>1, <2>3
<1>5. /\ mark \in 0 .. n
      /\ \A m \in i .. e : d[m].kind = "mounted" <=> mark # 0 /\ m = mark + i - 1
  <2>1. \A m \in i .. e : d[m].kind = "mounted" <=> m - i + 1 \in marks
    <3> TAKE m \in i .. e
    <3>1. m - i + 1 \in 1 .. n /\ (m - i + 1) + i - 1 = m
      BY <1>0
    <3> QED BY <1>0, <3>1, <1>1
  <2>2. CASE marks = {}
    <3>1. mark = 0 /\ mark \in 0 .. n
      BY <1>0, <1>1, <1>3, <2>2
    <3> HIDE DEF marks, n
    <3> QED BY <1>0, <3>1, <2>1, <2>2
  <2>3. CASE marks # {}
    <3>1. PICK x \in marks : marks = {x}
      <4> HIDE DEF marks
      <4> QED BY <1>0, <2>3, <1>4
    <3>2. x \in 1 .. n
      BY <1>0, <1>1, <3>1
    <3>3. Min({x}) = x
      BY <1>0, <3>2 DEF Min
    <3>4. mark = x
      BY <1>0, <1>3, <2>3, <3>1, <3>3
    <3>5. mark \in 0 .. n /\ mark # 0
      BY <1>0, <3>2, <3>4
    <3> HIDE DEF marks, n
    <3>6. \A m \in i .. e : m - i + 1 \in marks <=> m = mark + i - 1
      BY <1>0, <3>1, <3>2, <3>4, <1>1
    <3> QED BY <1>0, <2>1, <3>5, <3>6
  <2> QED BY <1>0, <2>2, <2>3
<1> HIDE DEF marks
<1> DEFINE rest == SubSeq(b, mark + 1, Len(b))
<1> DEFINE k == n - mark
<1>6. k \in Nat /\ DOMAIN rest = 1 .. k /\ \A m \in 1 .. k : rest[m] = d[m + (mark + i - 1)]
  <2>1. \A f \in mark + 1 .. Len(b) : b[f] \in ToSet(d)
    BY <1>0, <1>1, <1>5, ElementOfSeq
  <2> DEFINE T == ToSet(d)
  <2> HIDE DEF T, n
  <2>2. mark + 1 \in Int /\ Len(b) = n /\ n \in Nat /\ mark \in 0 .. n /\ i \in Nat
    BY <1>0, <1>1, <1>5
  <2>3. /\ rest \in Seq(T) /\ Len(rest) = IF mark + 1 <= n THEN n - (mark + 1) + 1 ELSE 0
        /\ \A m \in 1 .. n - (mark + 1) + 1 : rest[m] = b[mark + 1 + m - 1]
    BY <1>0, <2>1, <2>2, SubSeqProperties DEF T
  <2>4. Len(rest) = k /\ k \in Nat
    BY <1>0, <2>2, <2>3
  <2>5. DOMAIN rest = 1 .. k
    BY <1>0, <2>3, <2>4, LenProperties
  <2>6. ASSUME NEW m \in 1 .. k PROVE rest[m] = d[m + (mark + i - 1)]
    <3>1. m \in 1 .. n - (mark + 1) + 1 /\ mark + 1 + m - 1 = m + mark /\ m + mark \in 1 .. n
          /\ m + mark + i - 1 = m + (mark + i - 1)
      BY <1>0, <2>2
    <3> HIDE DEF rest
    <3> QED BY <1>0, <3>1, <2>3, <1>1
  <2> QED BY <1>0, <2>4, <2>5, <2>6
<1> HIDE DEF rest
<1> DEFINE S == OfKind(rest, "frame")
<1>7. /\ IsFiniteSet(S) /\ Cardinality(S) \in Nat
      /\ DOMAIN Kind(rest, "frame") = 1 .. Cardinality(S)
  <2> HIDE DEF k
  <2> QED BY <1>0, <1>6, KindLines
<1>8. Len(FramesOf(b)) = Cardinality(S)
  <2> DEFINE some == Kind(rest, "frame")
  <2>1. FramesOf(b) = [m \in DOMAIN some |-> some[m].of]
    BY <1>0, <1>2 DEF FramesOf, rest
  <2>2. DOMAIN some = 1 .. Cardinality(S)
    BY <1>0, <1>7
  <2> HIDE DEF some, S
  <2> QED BY <1>0, <2>1, <2>2, <1>7
<1>9. OwnFrames(d, i, e) = {m + (mark + i - 1) : m \in S}
  <2>1. \A m \in S : m \in 1 .. k /\ m + (mark + i - 1) \in i .. e /\ d[m + (mark + i - 1)].kind = "frame"
    BY <1>0, <1>5, <1>6 DEF OfKind
  <2>2. \A m \in S : m + (mark + i - 1) \in OwnFrames(d, i, e)
    <3> TAKE m \in S
    <3>1. \A x \in i .. e : d[x].kind = "mounted" => x < m + (mark + i - 1)
      <4> HIDE DEF S, k, n
      <4> QED BY <1>0, <2>1, <1>5, <1>6
    <3> QED BY <1>0, <2>1, <3>1 DEF OwnFrames
  <2>3. ASSUME NEW j \in OwnFrames(d, i, e) PROVE \E m \in S : j = m + (mark + i - 1)
    <3>1. j \in i .. e /\ d[j].kind = "frame" /\ (mark # 0 => mark + i - 1 < j)
      <4>1. mark # 0 => mark + i - 1 \in i .. e
        BY <1>0, <1>5
      <4> HIDE DEF n
      <4> QED BY <1>0, <4>1, <1>5 DEF OwnFrames
    <3>2. j - (mark + i - 1) \in 1 .. k /\ (j - (mark + i - 1)) + (mark + i - 1) = j
      BY <1>0, <3>1, <1>5
    <3>3. j - (mark + i - 1) \in S
      <4> HIDE DEF k, n
      <4> QED BY <1>0, <3>1, <3>2, <1>6 DEF OfKind
    <3> QED BY <1>0, <3>2, <3>3
  <2> HIDE DEF S
  <2> QED BY <1>0, <2>2, <2>3
<1>10. Cardinality(OwnFrames(d, i, e)) = Cardinality(S)
  <2>1. mark + i - 1 \in Int /\ \A m \in S : m \in Int
    BY <1>0, <1>5, <1>6 DEF OfKind
  <2> HIDE DEF S
  <2> QED BY <1>0, <2>1, <1>7, <1>9, Moved
<1> QED BY <1>0, <1>8, <1>10

(* The lines of a header are its block.                                      *)
LEMMA BlockIsOwn ==
    ASSUME CutTypes, ~json, NEW i \in Headers, NEW e \in i .. Len(dump),
           Unbroken(i, e), e < Len(dump) => Ends(i, e + 1)
    PROVE  OwnLines(i) = i .. e
<1>1. DOMAIN dump = 1 .. Len(dump) /\ Len(dump) \in Nat /\ i \in 1 .. Len(dump) /\ e \in Nat
  BY DumpIsSeq DEF Headers
<1>2. \A j \in i .. e : \A f \in i + 1 .. j : ~Ends(i, f)
  BY <1>1 DEF Unbroken
<1>3. ASSUME NEW j \in e + 1 .. Len(dump) PROVE \E f \in i + 1 .. j : Ends(i, f)
  <2>1. e + 1 \in i + 1 .. j /\ e < Len(dump)
    BY <1>1
  <2> QED BY <2>1
<1> QED BY <1>1, <1>2, <1>3 DEF OwnLines

(* The locks of a block are those of its lines.                              *)
PieceLocks(d, i, e, types) ==
    {LockName(d[j]) : j \in {m \in i .. e : d[m].kind = "lock" /\ d[m].of \in types}}

LEMMA LocksOfPiece ==
    ASSUME NEW d, NEW i, NEW e, NEW b, IsPiece(d, i, e, b), NEW types
    PROVE  /\ ToSet(LocksOf(b, types)) = PieceLocks(d, i, e, types)
           /\ IF LocksOf(b, types) = <<>> THEN ToSet(LocksOf(b, types)) = {}
              ELSE Last(LocksOf(b, types)) \in ToSet(LocksOf(b, types))
<1>0. i \in Nat /\ e \in Nat /\ i >= 1 /\ i <= e
  BY DEF IsPiece
<1>1. PICK n \in Nat : n = e - i + 1
  BY <1>0
<1>2. DOMAIN b = 1 .. n /\ \A m \in 1 .. n : b[m] = d[m + i - 1]
  BY <1>1, PieceLines
<1> DEFINE S == {m \in DOMAIN b : b[m].kind = "lock" /\ b[m].of \in types}
<1> DEFINE c == Cardinality(S)
<1> DEFINE some == LinesAt(b, S)
<1> DEFINE locks == LocksOf(b, types)
<1>3. IsFiniteSet(S) /\ (\A m \in S : m \in Nat) /\ c \in Nat
  <2>1. IsFiniteSet(1 .. n) /\ S \in SUBSET (1 .. n)
    BY <1>2, FS_Interval
  <2>2. IsFiniteSet(S)
    BY <2>1, FS_Subset
  <2> QED BY <2>1, <2>2, FS_CardinalityType
<1>4. locks = [m \in DOMAIN some |-> LockName(some[m])]
  <2> HIDE DEF some
  <2>1. locks = LET lines == some IN [m \in DOMAIN lines |-> LockName(lines[m])]
    BY DEF LocksOf, some
  <2> QED BY <2>1
<1>5. PICK p : Selects(p, S) /\ some = [m \in 1 .. c |-> b[p[m]]]
  <2>1. IsFiniteSet(S) /\ \A m \in S : m \in Nat
    BY <1>3
  <2>2. PICK places : places = S
    OBVIOUS
  <2> HIDE DEF S
  <2>3. IsFiniteSet(places) /\ \A m \in places : m \in Nat
    BY <2>1, <2>2
  <2>4. \E p : Selects(p, places) /\ LinesAt(b, places) = [m \in 1 .. Cardinality(places) |-> b[p[m]]]
    BY <2>3, LinesSelected
  <2> QED BY <2>2, <2>4
<1> HIDE DEF some, locks
<1>6. DOMAIN locks = 1 .. c /\ Len(locks) = c /\ \A m \in 1 .. c : locks[m] = LockName(b[p[m]])
  <2> HIDE DEF S
  <2> HIDE DEF c
  <2>1. DOMAIN some = 1 .. c /\ \A m \in 1 .. c : some[m] = b[p[m]]
    BY <1>5
  <2>2. locks = [m \in 1 .. c |-> LockName(some[m])]
    BY <1>4, <2>1
  <2>3. DOMAIN locks = 1 .. c /\ \A m \in 1 .. c : locks[m] = LockName(some[m])
    BY <2>2
  <2>4. Len(locks) = c
    BY <1>3, <2>2
  <2> QED BY <2>1, <2>3, <2>4
<1>7. \A m \in 1 .. c : p[m] \in S
  BY <1>5 DEF Selects
<1>8. \A m \in S : \E k \in 1 .. c : p[k] = m
  BY <1>5 DEF Selects
<1>9. ToSet(locks) = {LockName(b[m]) : m \in S}
  <2> HIDE DEF S
  <2>1. ToSet(locks) = {locks[k] : k \in 1 .. c}
    BY <1>6 DEF ToSet
  <2>2. \A k \in 1 .. c : p[k] \in S /\ locks[k] = LockName(b[p[k]])
    BY <1>6, <1>7
  <2> QED BY <2>1, <2>2, <1>8
<1>10. {LockName(b[m]) : m \in S} = PieceLocks(d, i, e, types)
  <2> DEFINE D == {j \in i .. e : d[j].kind = "lock" /\ d[j].of \in types}
  <2>1. ASSUME NEW m \in S PROVE m + i - 1 \in D /\ b[m] = d[m + i - 1]
    BY <1>0, <1>1, <1>2
  <2>2. ASSUME NEW j \in D PROVE j - i + 1 \in S /\ b[j - i + 1] = d[j]
    <3>1. j - i + 1 \in 1 .. n /\ (j - i + 1) + i - 1 = j
      BY <1>0, <1>1
    <3>2. b[j - i + 1] = d[j]
      BY <3>1, <1>2
    <3> QED BY <3>1, <3>2, <1>2
  <2>3. PieceLocks(d, i, e, types) = {LockName(d[j]) : j \in D}
    BY DEF PieceLocks
  <2> HIDE DEF S, D
  <2> QED BY <2>1, <2>2, <2>3
<1>11. CASE c = 0
  <2> HIDE DEF c
  <2>1. DOMAIN locks = {} /\ ToSet(locks) = {}
    <3>1. DOMAIN locks = {}
      BY <1>6, <1>11
    <3> QED BY <3>1 DEF ToSet
  <2>2. locks = <<>>
    <3>1. DOMAIN some = {}
      BY <1>5, <1>11
    <3>2. locks = [m \in {} |-> LockName(some[m])]
      BY <3>1, <1>4
    <3> QED BY <3>2
  <2> QED BY <2>1, <2>2, <1>9, <1>10 DEF locks
<1>12. CASE c # 0
  <2> HIDE DEF S
  <2>1. c \in 1 .. c
    BY <1>3, <1>12
  <2>2. Last(locks) = locks[c] /\ locks[c] \in ToSet(locks)
    BY <2>1, <1>6 DEF Last, ToSet
  <2>3. locks # <<>>
    BY <2>1, <1>6
  <2> QED BY <2>2, <2>3, <1>9, <1>10 DEF locks, S
<1> QED BY <1>11, <1>12

LEMMA TheirOwn == Printed /\ DumpInv => ThreadsAreTheirOwn
<1> SUFFICES ASSUME Printed, DumpInv, HasReport, ~json
             PROVE  /\ Len(Threads) = Cardinality(Headers)
                    /\ \A t \in ToSet(Threads) : \E i \in Headers :
                         LET mounted == {j \in OwnLines(i) : dump[j].kind = "mounted"}
                         IN  /\ dump[i].tid = t.tid
                             /\ Own(i, "state") # {} => t.state \in Own(i, "state")
                             /\ ToSet(t.held) = OwnLocks(i, {"locked"})
                             /\ t.waiting \in (IF OwnLocks(i, Waits) = {} THEN {"None"} ELSE OwnLocks(i, Waits))
                             /\ Len(t.frames) = Cardinality({j \in OwnLines(i) :
                                    dump[j].kind = "frame" /\ \A m \in mounted : m < j})
  BY DEF ThreadsAreTheirOwn
<1>1. CutTypes /\ CutPieces /\ CutCounts /\ ReportInv
  BY DEF DumpInv
<1>2. /\ DOMAIN dump = 1 .. Len(dump) /\ Len(dump) \in Nat /\ line = Len(dump) /\ block = <<>>
      /\ dump \in Seq(ToSet(dump)) /\ dump \in Dumps
  BY <1>1, DumpIsSeq DEF ReportInv, CutTypes
<1>3. Len(tblocks) \in Nat /\ DOMAIN tblocks = 1 .. Len(tblocks)
  BY <1>1, ClosedBlocks
<1>4. Threads = [b \in DOMAIN tblocks |-> Thread(tblocks[b])]
  BY <1>1 DEF Threads, ReportInv, ReportOn
<1>5. Len(Threads) = Cardinality(Headers)
  <2>1. Closed(tblocks) = tblocks
    BY <1>2 DEF Closed
  <2>2. HeadersTo(line) = Headers
    BY <1>2 DEF HeadersTo, Headers
  <2>3. Len(Threads) = Len(tblocks)
    BY <1>3, <1>4
  <2> QED BY <2>1, <2>2, <2>3, <1>1 DEF CutCounts
<1>6. ASSUME NEW t \in ToSet(Threads)
      PROVE  \E i \in Headers :
                 LET mounted == {j \in OwnLines(i) : dump[j].kind = "mounted"}
                 IN  /\ dump[i].tid = t.tid
                     /\ Own(i, "state") # {} => t.state \in Own(i, "state")
                     /\ ToSet(t.held) = OwnLocks(i, {"locked"})
                     /\ t.waiting \in (IF OwnLocks(i, Waits) = {} THEN {"None"} ELSE OwnLocks(i, Waits))
                     /\ Len(t.frames) = Cardinality({j \in OwnLines(i) :
                            dump[j].kind = "frame" /\ \A m \in mounted : m < j})
  <2>1. PICK n \in DOMAIN tblocks : t = Thread(tblocks[n])
    BY <1>4 DEF ToSet
  <2>2. PICK i \in Headers : \E e \in i .. Len(dump) :
             /\ tblocks[n] = SubSeq(dump, i, e) /\ Unbroken(i, e)
             /\ e < Len(dump) => Ends(i, e + 1)
    BY <1>1 DEF CutPieces
  <2>3. PICK e \in i .. Len(dump) :
             /\ tblocks[n] = SubSeq(dump, i, e) /\ Unbroken(i, e)
             /\ e < Len(dump) => Ends(i, e + 1)
    BY <2>2
  <2>4. OwnLines(i) = i .. e
    BY <2>3, <1>1, BlockIsOwn
  <2>5. PICK b : b = tblocks[n]
    OBVIOUS
  <2>6. i \in Nat /\ e \in Nat /\ i >= 1 /\ i <= e /\ IsPiece(dump, i, e, b)
    BY <1>2, <2>3, <2>5 DEF Headers, IsPiece
  <2>7. /\ t.tid = b[1].tid /\ t.state = StateOf(b) /\ t.frames = FramesOf(b)
    BY <2>1, <2>5 DEF Thread
  <2>8. t.tid = dump[i].tid
    <3>1. DOMAIN b = 1 .. e - i + 1 /\ \A m \in 1 .. e - i + 1 : b[m] = dump[m + i - 1]
      BY <2>6, PieceLines
    <3>2. 1 \in 1 .. e - i + 1 /\ 1 + i - 1 = i
      BY <2>6
    <3> QED BY <3>1, <3>2, <2>7
  <2>9. Own(i, "state") # {} => t.state \in Own(i, "state")
    <3>1. Own(i, "state") = {dump[j].of : j \in {m \in i .. e : dump[m].kind = "state"}}
      BY <2>4 DEF Own
    <3>2. SUFFICES ASSUME \E j \in i .. e : dump[j].kind = "state"
                   PROVE  \E j \in i .. e : dump[j].kind = "state" /\ StateOf(b) = dump[j].of
      BY <3>1, <2>7
    <3> QED BY <3>2, <2>6, StateOfPiece
  <2>10. OneMounted(dump, i, e)
    <3>1. ASSUME NEW m \in i .. e, NEW k \in i .. e, m < k, dump[m].kind = "mounted", dump[k].kind = "mounted"
          PROVE  FALSE
      <4>1. m \in DOMAIN dump /\ k \in DOMAIN dump
        BY <2>6, <1>2
      <4>2. PICK f \in m + 1 .. k : dump[f].kind \in {"thread", "found", "refs"}
        BY <3>1, <4>1, <1>2 DEF Printed
      <4>3. f \in i + 1 .. e /\ i < f
        BY <2>6
      <4>4. Ends(i, f)
        BY <4>2, <4>3 DEF Ends
      <4> QED BY <4>3, <4>4, <2>3 DEF Unbroken
    <3>2. \A m, k \in i .. e : m < k \/ k < m \/ m = k
      BY <2>6
    <3> QED BY <3>1, <3>2 DEF OneMounted
  <2>11. Len(t.frames) = Cardinality(OwnFrames(dump, i, e))
    BY <2>6, <2>7, <2>10, FramesOfPiece
  <2> DEFINE mounted == {j \in OwnLines(i) : dump[j].kind = "mounted"}
  <2>12. {j \in OwnLines(i) : dump[j].kind = "frame" /\ \A m \in mounted : m < j} = OwnFrames(dump, i, e)
    BY <2>4 DEF OwnFrames
  <2>13. \A types : OwnLocks(i, types) = ToSet(LocksOf(b, types))
    <3> TAKE types
    <3>1. OwnLocks(i, types) = PieceLocks(dump, i, e, types)
      BY <2>4 DEF OwnLocks, PieceLocks
    <3> QED BY <3>1, <2>6, LocksOfPiece
  <2>14. ToSet(t.held) = OwnLocks(i, {"locked"})
    <3>1. t.held = LocksOf(b, {"locked"})
      BY <2>1, <2>5 DEF Thread
    <3> QED BY <3>1, <2>13
  <2>15. t.waiting \in (IF OwnLocks(i, Waits) = {} THEN {"None"} ELSE OwnLocks(i, Waits))
    <3>1. t.waiting = IF LocksOf(b, Waits) = <<>> THEN "None" ELSE Last(LocksOf(b, Waits))
      BY <2>1, <2>5 DEF Thread
    <3>2. OwnLocks(i, Waits) = ToSet(LocksOf(b, Waits))
      BY <2>13
    <3>3. IF LocksOf(b, Waits) = <<>> THEN ToSet(LocksOf(b, Waits)) = {}
          ELSE Last(LocksOf(b, Waits)) \in ToSet(LocksOf(b, Waits))
      BY <2>6, LocksOfPiece
    <3> QED BY <3>1, <3>2, <3>3
  <2> QED BY <2>8, <2>9, <2>11, <2>12, <2>14, <2>15
<1> QED BY <1>5, <1>6

------------------------------------------------------------------------------
(* A dump in JSON.                                                           *)

(* Sequences put one after the other have the elements of all.               *)
LEMMA JoinedElements ==
    ASSUME NEW S, NEW s \in Seq(S), NEW t \in Seq(S)
    PROVE  ToSet(s \o t) = ToSet(s) \cup ToSet(t)
<1>1. /\ s \o t \in Seq(S) /\ Len(s \o t) = Len(s) + Len(t) /\ Len(s) \in Nat /\ Len(t) \in Nat
      /\ \A i \in 1 .. Len(s) + Len(t) : (s \o t)[i] = IF i <= Len(s) THEN s[i] ELSE t[i - Len(s)]
  BY ConcatProperties, LenProperties
<1>2. DOMAIN (s \o t) = 1 .. Len(s) + Len(t) /\ DOMAIN s = 1 .. Len(s) /\ DOMAIN t = 1 .. Len(t)
  BY <1>1, LenProperties
<1> DEFINE both == s \o t
<1> HIDE DEF both
<1>3. ASSUME NEW i \in 1 .. Len(s) + Len(t) PROVE both[i] \in ToSet(s) \cup ToSet(t)
  <2>1. CASE i <= Len(s)
    BY <2>1, <1>1, <1>2 DEF ToSet, both
  <2>2. CASE ~(i <= Len(s))
    <3>1. i - Len(s) \in 1 .. Len(t) /\ both[i] = t[i - Len(s)]
      BY <2>2, <1>1 DEF both
    <3> QED BY <3>1, <1>2 DEF ToSet
  <2> QED BY <2>1, <2>2
<1>4. ASSUME NEW i \in 1 .. Len(s) PROVE s[i] \in ToSet(both)
  <2>1. i \in DOMAIN both /\ both[i] = s[i]
    BY <1>1, <1>2 DEF both
  <2> QED BY <2>1 DEF ToSet
<1>5. ASSUME NEW i \in 1 .. Len(t) PROVE t[i] \in ToSet(both)
  <2>1. i + Len(s) \in DOMAIN both /\ ~(i + Len(s) <= Len(s)) /\ (i + Len(s)) - Len(s) = i
    BY <1>1, <1>2 DEF both
  <2>2. both[i + Len(s)] = t[i]
    BY <2>1, <1>1, <1>2 DEF both
  <2> QED BY <2>1, <2>2 DEF ToSet
<1>6. ToSet(both) \subseteq ToSet(s) \cup ToSet(t)
  <2>1. \A x \in ToSet(both) : \E i \in 1 .. Len(s) + Len(t) : x = both[i]
    BY <1>2 DEF ToSet, both
  <2> QED BY <2>1, <1>3
<1>7. ToSet(s) \subseteq ToSet(both) /\ ToSet(t) \subseteq ToSet(both)
  <2>1. \A x \in ToSet(s) : \E i \in 1 .. Len(s) : x = s[i]
    BY <1>2 DEF ToSet
  <2>2. \A x \in ToSet(t) : \E i \in 1 .. Len(t) : x = t[i]
    BY <1>2 DEF ToSet
  <2> QED BY <2>1, <2>2, <1>4, <1>5
<1> QED BY <1>6, <1>7 DEF both

(* Sequences are put together one after the other (FlattenSeq).              *)
LEMMA FlattenSteps ==
    ASSUME NEW S, NEW seqs \in Seq(Seq(S)), seqs # <<>>
    PROVE  \E f : /\ f[Len(seqs)] = FlattenSeq(seqs)
                  /\ \A i \in 1 .. Len(seqs) : f[i] = IF i = 1 THEN seqs[i] ELSE f[i - 1] \o seqs[i]
<1> DEFINE n == Len(seqs)
<1>1. n \in Nat /\ n # 0
  BY LenProperties, EmptySeq
<1> DEFINE Step(f) == [i \in 1 .. n |-> IF i = 1 THEN seqs[i] ELSE f[i - 1] \o seqs[i]]
<1> DEFINE flatten == CHOOSE f : f = Step(f)
<1>2. FlattenSeq(seqs) = flatten[n]
  BY <1>1 DEF FlattenSeq
<1> HIDE DEF n
\* Such a function is defined on any beginning.
<1> DEFINE Upto(k, f) ==
      /\ f = [i \in 1 .. k |-> f[i]]
      /\ \A i \in 1 .. k : f[i] = IF i = 1 THEN seqs[i] ELSE f[i - 1] \o seqs[i]
<1> DEFINE P == {k \in 0 .. n : \E f : Upto(k, f)}
<1>3. 0 \in P
  <2>1. Upto(0, <<>>)
    OBVIOUS
  <2> HIDE DEF Upto
  <2> QED BY <2>1, <1>1
<1>4. ASSUME NEW k \in 1 .. n, k - 1 \in P PROVE k \in P
  <2>1. PICK f : Upto(k - 1, f)
    BY <1>4
  <2> DEFINE g == [i \in 1 .. k |-> IF i = k THEN (IF k = 1 THEN seqs[k] ELSE f[k - 1] \o seqs[k]) ELSE f[i]]
  <2>2. ASSUME NEW i \in 1 .. k PROVE g[i] = IF i = 1 THEN seqs[i] ELSE g[i - 1] \o seqs[i]
    <3>1. CASE i = k
      <4>1. k # 1 => k - 1 \in 1 .. k /\ k - 1 # k
        OBVIOUS
      <4> QED BY <3>1, <4>1
    <3>2. CASE i # k
      <4>1. i \in 1 .. k - 1 /\ (i # 1 => i - 1 \in 1 .. k /\ i - 1 # k)
        BY <3>2
      <4> QED BY <3>2, <4>1, <2>1
    <3> QED BY <3>1, <3>2
  <2>3. Upto(k, g)
    <3>1. g = [i \in 1 .. k |-> g[i]]
      OBVIOUS
    <3> HIDE DEF g
    <3> QED BY <3>1, <2>2
  <2> HIDE DEF g, Upto
  <2> QED BY <2>3
<1>5. n \in P
  <2> HIDE DEF P
  <2>1. \A k \in 0 .. n : k \in P
    BY <1>1, <1>3, <1>4, Upwards
  <2> QED BY <1>1, <2>1
<1>6. PICK f : Upto(n, f)
  BY <1>5
<1>7. \E h : h = Step(h)
  <2>1. f = [i \in 1 .. n |-> f[i]]
    BY <1>6
  <2>2. f = Step(f)
    BY <1>6, <2>1
  <2> QED BY <2>2
<1>8. flatten = Step(flatten)
  <2> HIDE DEF Step
  <2> QED BY <1>7
<1>9. Upto(n, flatten)
  <2> HIDE DEF flatten
  <2> QED BY <1>8
<1> HIDE DEF flatten
<1> QED BY <1>2, <1>9 DEF n

LEMMA Flattened ==
    ASSUME NEW S, NEW seqs \in Seq(Seq(S))
    PROVE  /\ FlattenSeq(seqs) \in Seq(S)
           /\ ToSet(FlattenSeq(seqs)) = UNION {ToSet(seqs[c]) : c \in DOMAIN seqs}
<1> DEFINE n == Len(seqs)
<1>1. n \in Nat /\ DOMAIN seqs = 1 .. n /\ \A c \in 1 .. n : seqs[c] \in Seq(S)
  BY LenProperties
<1>2. CASE seqs = <<>>
  <2>1. DOMAIN seqs = {}
    BY <1>2
  <2>2. FlattenSeq(seqs) = <<>>
    BY <1>2 DEF FlattenSeq
  <2>3. ToSet(<<>>) = {}
    BY DEF ToSet
  <2> QED BY <2>1, <2>2, <2>3, EmptySeq
<1>3. CASE seqs # <<>>
  <2>1. PICK flatten : /\ flatten[n] = FlattenSeq(seqs)
                       /\ \A i \in 1 .. n : flatten[i] = IF i = 1 THEN seqs[i] ELSE flatten[i - 1] \o seqs[i]
    BY <1>3, FlattenSteps
  <2>2. n # 0
    BY <1>3, EmptySeq
  <2> HIDE DEF n
  <2> DEFINE Parts(k) == UNION {ToSet(seqs[c]) : c \in 1 .. k}
  <2> DEFINE Q == {k \in 0 .. n : k = 0 \/ (flatten[k] \in Seq(S) /\ ToSet(flatten[k]) = Parts(k))}
  <2>9. 0 \in Q
    BY <1>1
  <2>10. ASSUME NEW k \in 1 .. n, k - 1 \in Q PROVE k \in Q
    <3>1. CASE k = 1
      <4>1. flatten[1] = seqs[1] /\ 1 \in 1 .. n
        BY <3>1, <2>1
      <4>2. Parts(1) = ToSet(seqs[1])
        <5>1. 1 .. 1 = {1}
          OBVIOUS
        <5> QED BY <5>1
      <4> HIDE DEF Parts
      <4> QED BY <3>1, <4>1, <4>2, <1>1
    <3>2. CASE k # 1
      <4>1. flatten[k - 1] \in Seq(S) /\ ToSet(flatten[k - 1]) = Parts(k - 1)
        BY <3>2, <2>10
      <4>2. flatten[k] = flatten[k - 1] \o seqs[k] /\ seqs[k] \in Seq(S)
        BY <3>2, <2>1, <1>1
      <4>3. flatten[k] \in Seq(S)
        BY <4>1, <4>2, ConcatProperties
      <4>4. ToSet(flatten[k]) = ToSet(flatten[k - 1]) \cup ToSet(seqs[k])
        BY <4>1, <4>2, <4>3, JoinedElements
      <4>5. Parts(k) = Parts(k - 1) \cup ToSet(seqs[k])
        <5>1. 1 .. k = (1 .. k - 1) \cup {k}
          OBVIOUS
        <5>2. \A x : x \in Parts(k) <=> \E c \in 1 .. k : x \in ToSet(seqs[c])
          OBVIOUS
        <5>3. \A x : x \in Parts(k - 1) <=> \E c \in 1 .. k - 1 : x \in ToSet(seqs[c])
          OBVIOUS
        <5> HIDE DEF Parts
        <5> QED BY <5>1, <5>2, <5>3
      <4>6. ToSet(flatten[k]) = Parts(k)
        <5> HIDE DEF Parts
        <5> QED BY <4>1, <4>4, <4>5
      <4> HIDE DEF Parts
      <4> QED BY <4>3, <4>6
    <3> QED BY <3>1, <3>2
  <2>11. n \in Q
    <3> HIDE DEF Q
    <3>1. \A k \in 0 .. n : k \in Q
      BY <1>1, <2>9, <2>10, Upwards
    <3> QED BY <1>1, <3>1
  <2> QED BY <2>1, <2>2, <2>11, <1>1
<1> QED BY <1>2, <1>3

\* The thread of the report for one of a container.
JsonThread(t, container) ==
    [name |-> JsonName(t, container), tid |-> t.tid, state |-> t.state,
     frames |-> t.frames, held |-> t.held, waiting |-> t.waiting]

LEMMA JsonElements ==
    ASSUME CutTypes, json
    PROVE  /\ JsonThreads(dump) \in Seq(ToSet(JsonThreads(dump)))
           /\ \A t : t \in ToSet(JsonThreads(dump)) <=>
                \E c \in DOMAIN dump : \E i \in DOMAIN dump[c].threads :
                    t = JsonThread(dump[c].threads[i], dump[c].name)
<1>1. /\ dump \in JsonDumps /\ dump \in Seq(ToSet(dump)) /\ Len(dump) \in Nat /\ DOMAIN dump = 1 .. Len(dump)
      /\ \A c \in 1 .. Len(dump) : dump[c] \in ToSet(dump)
  BY DumpIsSeq DEF CutTypes
<1> DEFINE part(c) == [i \in DOMAIN dump[c].threads |-> JsonThread(dump[c].threads[i], dump[c].name)]
<1> DEFINE seqs == [c \in DOMAIN dump |-> part(c)]
<1> DEFINE S == UNION {ToSet(seqs[c]) : c \in DOMAIN seqs}
<1>2. \A c \in 1 .. Len(dump) : /\ Len(dump[c].threads) \in Nat
                                /\ DOMAIN dump[c].threads = 1 .. Len(dump[c].threads)
  <2> TAKE c \in 1 .. Len(dump)
  <2>1. dump[c].threads \in Seq(ToSet(dump[c].threads))
    BY <1>1, DumpAssumption DEF DumpAssumption
  <2> QED BY <2>1, LenProperties
<1>3. \A c \in 1 .. Len(dump) : part(c) \in Seq(S)
  <2> TAKE c \in 1 .. Len(dump)
  <2> DEFINE m == Len(dump[c].threads)
  <2>1. m \in Nat /\ DOMAIN dump[c].threads = 1 .. m /\ c \in DOMAIN seqs
    BY <1>1, <1>2
  <2>2. \A i \in 1 .. m : part(c)[i] \in S
    <3> TAKE i \in 1 .. m
    <3>1. seqs[c] = part(c) /\ i \in DOMAIN part(c)
      BY <1>1, <2>1
    <3>2. part(c)[i] \in ToSet(seqs[c])
      <4> HIDE DEF part, seqs
      <4> QED BY <3>1 DEF ToSet
    <3> HIDE DEF part, seqs
    <3> QED BY <3>2, <2>1
  <2>3. part(c) \in [1 .. m -> S]
    <3>1. DOMAIN part(c) = 1 .. m /\ part(c) = [i \in 1 .. m |-> part(c)[i]]
      BY <2>1
    <3> HIDE DEF part, m, S
    <3> QED BY <2>2, <3>1
  <2> HIDE DEF part, S, m
  <2> QED BY <2>1, <2>3, SeqDef
<1>4. seqs \in Seq(Seq(S))
  <2>1. seqs \in [1 .. Len(dump) -> Seq(S)]
    <3> HIDE DEF S
    <3>1. \A c \in 1 .. Len(dump) : seqs[c] \in Seq(S)
      BY <1>1, <1>3
    <3>2. seqs = [c \in 1 .. Len(dump) |-> seqs[c]]
      BY <1>1
    <3> HIDE DEF seqs
    <3> QED BY <3>1, <3>2
  <2> DEFINE T == Seq(S)
  <2> HIDE DEF T
  <2>2. seqs \in [1 .. Len(dump) -> T]
    BY <2>1 DEF T
  <2>3. seqs \in Seq(T)
    <3> HIDE DEF seqs
    <3> QED BY <1>1, <2>2, SeqDef
  <2> QED BY <2>3 DEF T
<1>5. JsonThreads(dump) = FlattenSeq(seqs)
  BY DEF JsonThreads, JsonThread
<1>6. JsonThreads(dump) \in Seq(S) /\ ToSet(JsonThreads(dump)) = S
  <2> HIDE DEF seqs
  <2> QED BY <1>4, <1>5, Flattened
<1>7. ASSUME NEW t
      PROVE  t \in S <=> \E c \in DOMAIN dump : \E i \in DOMAIN dump[c].threads :
                    t = JsonThread(dump[c].threads[i], dump[c].name)
  <2>1. DOMAIN seqs = DOMAIN dump /\ \A c \in DOMAIN dump : seqs[c] = part(c)
    OBVIOUS
  <2>2. \A c \in DOMAIN dump : t \in ToSet(part(c)) <=>
          \E i \in DOMAIN dump[c].threads : t = JsonThread(dump[c].threads[i], dump[c].name)
    BY DEF ToSet
  <2>3. t \in S <=> \E c \in DOMAIN dump : t \in ToSet(part(c))
    <3> HIDE DEF seqs, part
    <3> QED BY <2>1 DEF S
  <2> QED BY <2>2, <2>3
<1> HIDE DEF S
<1> QED BY <1>6, <1>7

(* Where two sequences begin alike, what is put after them is the same.      *)
Alike(p, s, q, t) == p # <<>> /\ q # <<>> /\ p \o s = q \o t
LEMMA SameEnding ==
    ASSUME NEW S, NEW s \in Seq(S), NEW t \in Seq(S), NEW p \in Seq(S), NEW q \in Seq(S), Alike(p, s, q, t)
    PROVE  p[1] = q[1] /\ (Len(p) = Len(q) => s = t)
<1> USE DEF Alike
<1>1. /\ Len(p) \in Nat \ {0} /\ Len(q) \in Nat \ {0} /\ Len(s) \in Nat /\ Len(t) \in Nat
  BY EmptySeq, LenProperties
<1>2. /\ Len(p \o s) = Len(p) + Len(s)
      /\ \A i \in 1 .. Len(p) + Len(s) : (p \o s)[i] = IF i <= Len(p) THEN p[i] ELSE s[i - Len(p)]
  BY ConcatProperties
<1>3. /\ Len(q \o t) = Len(q) + Len(t)
      /\ \A i \in 1 .. Len(q) + Len(t) : (q \o t)[i] = IF i <= Len(q) THEN q[i] ELSE t[i - Len(q)]
  BY ConcatProperties
<1>4. PICK all : all = p \o s
  OBVIOUS
<1>5. p[1] = q[1]
  BY <1>1, <1>2, <1>3
<1>6. ASSUME Len(p) = Len(q) PROVE s = t
  <2>1. Len(s) = Len(t)
    BY <1>1, <1>2, <1>3, <1>6
  <2>2. ASSUME NEW i \in 1 .. Len(s) PROVE s[i] = t[i]
    <3>1. /\ i + Len(p) \in 1 .. Len(p) + Len(s) /\ ~(i + Len(p) <= Len(p)) /\ (i + Len(p)) - Len(p) = i
          /\ i + Len(p) \in 1 .. Len(q) + Len(t)
      BY <1>1, <1>6, <2>1
    <3>2. (p \o s)[i + Len(p)] = s[i] /\ (q \o t)[i + Len(p)] = t[i]
      BY <3>1, <1>2, <1>3, <1>6
    <3> QED BY <3>2
  <2> QED BY <2>1, <2>2, SeqEqual
<1> QED BY <1>5, <1>6

LEMMA JsonAllThere == DumpInv => JsonThreadsAllThere
<1> SUFFICES ASSUME DumpInv, HasReport, json
             PROVE  /\ {t.tid : t \in ToSet(Threads)} = UNION {{t.tid : t \in ToSet(c.threads)} : c \in ToSet(dump)}
                    /\ \A i, j \in DOMAIN Threads :
                         Threads[i].name = Threads[j].name /\ Threads[i].tid # Threads[j].tid =>
                             \E c \in ToSet(dump) : \E t \in ToSet(c.threads) : t.name = Threads[i].name
  BY DEF JsonThreadsAllThere
<1>1. CutTypes /\ ReportInv
  BY DEF DumpInv
<1>2. Threads = JsonThreads(dump)
  BY <1>1 DEF Threads, ReportInv, ReportOn
<1>3. \A t : t \in ToSet(Threads) <=>
                \E c \in DOMAIN dump : \E i \in DOMAIN dump[c].threads :
                    t = JsonThread(dump[c].threads[i], dump[c].name)
  BY <1>1, <1>2, JsonElements
<1>4. \A t : t \in ToSet(Threads) <=>
                \E c \in ToSet(dump) : \E u \in ToSet(c.threads) : t = JsonThread(u, c.name)
  BY <1>3 DEF ToSet
<1>5. \A u, c : JsonThread(u, c).tid = u.tid /\ JsonThread(u, c).name = JsonName(u, c)
  BY DEF JsonThread
<1>6. {t.tid : t \in ToSet(Threads)} = UNION {{t.tid : t \in ToSet(c.threads)} : c \in ToSet(dump)}
  <2> DEFINE A == {t.tid : t \in ToSet(Threads)}
  <2> DEFINE B == UNION {{t.tid : t \in ToSet(c.threads)} : c \in ToSet(dump)}
  <2>1. \A x : x \in A <=> \E t \in ToSet(Threads) : x = t.tid
    OBVIOUS
  <2>2. \A x : x \in B <=> \E c \in ToSet(dump) : \E u \in ToSet(c.threads) : x = u.tid
    OBVIOUS
  <2> HIDE DEF A, B
  <2>3. ASSUME NEW x \in A PROVE x \in B
    <3>1. PICK t \in ToSet(Threads) : x = t.tid
      BY <2>1
    <3>2. PICK c \in ToSet(dump) : \E u \in ToSet(c.threads) : t = JsonThread(u, c.name)
      BY <1>4
    <3> QED BY <3>1, <3>2, <1>5, <2>2
  <2>4. ASSUME NEW x \in B PROVE x \in A
    <3>1. PICK c \in ToSet(dump) : \E u \in ToSet(c.threads) : x = u.tid
      BY <2>2
    <3>2. PICK u \in ToSet(c.threads) : x = u.tid
      BY <3>1
    <3>3. JsonThread(u, c.name) \in ToSet(Threads)
      BY <1>4
    <3> QED BY <3>2, <3>3, <1>5, <2>1
  <2> QED BY <2>3, <2>4 DEF A, B
<1>7. ASSUME NEW i \in DOMAIN Threads, NEW j \in DOMAIN Threads,
             Threads[i].name = Threads[j].name, Threads[i].tid # Threads[j].tid
      PROVE  \E c \in ToSet(dump) : \E t \in ToSet(c.threads) : t.name = Threads[i].name
  <2>1. Threads[i] \in ToSet(Threads) /\ Threads[j] \in ToSet(Threads)
    BY DEF ToSet
  <2>2a. PICK c \in ToSet(dump) : \E u \in ToSet(c.threads) : Threads[i] = JsonThread(u, c.name)
    BY <2>1, <1>4
  <2>2. PICK u \in ToSet(c.threads) : Threads[i] = JsonThread(u, c.name)
    BY <2>2a
  <2>3a. PICK d \in ToSet(dump) : \E v \in ToSet(d.threads) : Threads[j] = JsonThread(v, d.name)
    BY <2>1, <1>4
  <2>3. PICK v \in ToSet(d.threads) : Threads[j] = JsonThread(v, d.name)
    BY <2>3a
  <2>4. /\ JsonName(u, c.name) = Threads[i].name /\ JsonName(v, d.name) = Threads[i].name
        /\ u.tid # v.tid
    BY <2>2, <2>3, <1>5, <1>7
  <2>5. CASE u.name # <<>>
    BY <2>4, <2>5 DEF JsonName
  <2>6. CASE v.name # <<>>
    BY <2>4, <2>6 DEF JsonName
  <2>7. CASE u.name = <<>> /\ v.name = <<>>
    <3>1. dump \in JsonDumps
      BY <1>1 DEF CutTypes
    <3>2. u.tid \in Seq(ToSet(u.tid)) /\ v.tid \in Seq(ToSet(v.tid))
      BY <3>1, DumpAssumption DEF DumpAssumption
    <3> DEFINE pre(w, e) == IF w.virtual THEN <<"VThread", e.name>> ELSE <<"Thread">>
    <3>3. pre(u, c) \o u.tid = pre(v, d) \o v.tid
      BY <2>4, <2>7 DEF JsonName
    <3>4. /\ pre(u, c)[1] = (IF u.virtual THEN "VThread" ELSE "Thread")
          /\ pre(v, d)[1] = (IF v.virtual THEN "VThread" ELSE "Thread")
          /\ pre(u, c) # <<>> /\ Len(pre(u, c)) = (IF u.virtual THEN 2 ELSE 1)
          /\ pre(v, d) # <<>> /\ Len(pre(v, d)) = (IF v.virtual THEN 2 ELSE 1)
      OBVIOUS
    <3> DEFINE S == ToSet(u.tid) \cup ToSet(v.tid) \cup {"VThread", "Thread", c.name, d.name}
    <3>5. pre(u, c) \in Seq(S) /\ pre(v, d) \in Seq(S)
      <4>1. "VThread" \in S /\ "Thread" \in S /\ c.name \in S /\ d.name \in S
        OBVIOUS
      <4> HIDE DEF S
      <4>2. <<"VThread", c.name>> \in Seq(S) /\ <<"VThread", d.name>> \in Seq(S) /\ <<"Thread">> \in Seq(S)
        BY <4>1
      <4> QED BY <4>2
    <3>6. u.tid \in Seq(S) /\ v.tid \in Seq(S)
      BY <3>2, SeqMonotonic
    <3> HIDE DEF pre, S
    <3>7. PICK p, q, s, t : p = pre(u, c) /\ q = pre(v, d) /\ s = u.tid /\ t = v.tid
      OBVIOUS
    <3>8. p \in Seq(S) /\ q \in Seq(S) /\ s \in Seq(S) /\ t \in Seq(S) /\ Alike(p, s, q, t)
      BY <3>3, <3>4, <3>5, <3>6, <3>7 DEF Alike
    <3>9. p[1] = q[1] /\ (Len(p) = Len(q) => s = t)
      BY <3>8, SameEnding
    <3> QED BY <3>4, <3>7, <3>9, <2>4
  <2> QED BY <2>5, <2>6, <2>7
<1> QED BY <1>6, <1>7

------------------------------------------------------------------------------
(* The figures.                                                              *)

\* Parts of U, no two of which have anything in common.
Parts(A, P, U) == A \in [P -> SUBSET U] /\ \A p, q \in P : p # q => A[p] \cap A[q] = {}
Together(A, s) == UNION {A[p] : p \in s}
Sizes(fun, A, P) == \A p \in P : fun[p] = Cardinality(A[p])

(* The sum of the sizes of parts is the size of all of them together.        *)
LEMMA SumOfParts ==
    ASSUME NEW U, IsFiniteSet(U), NEW P, IsFiniteSet(P), NEW A, Parts(A, P, U), NEW fun, Sizes(fun, A, P)
    PROVE  /\ SumFunctionOnSet(fun, P) = Cardinality(Together(A, P))
           /\ IsFiniteSet(Together(A, P)) /\ Together(A, P) \in SUBSET U
<1> DEFINE c(s) == CHOOSE x \in s : TRUE
<1> DEFINE Step(f) == [s \in SUBSET P |-> IF s = {} THEN 0 ELSE fun[c(s)] + f[s \ {c(s)}]]
<1> DEFINE iter == CHOOSE f : f = Step(f)
<1>1. SumFunctionOnSet(fun, P) = iter[P]
  BY DEF SumFunctionOnSet, FoldFunctionOnSet, MapThenFoldSet
<1>2. \A s \in SUBSET P : Together(A, s) \in SUBSET U /\ IsFiniteSet(Together(A, s))
  <2>1. \A s \in SUBSET P : Together(A, s) \in SUBSET U
    BY DEF Together, Parts
  <2> QED BY <2>1, FS_Subset
<1>3. \A s \in SUBSET P : s # {} => c(s) \in s
  OBVIOUS
<1> HIDE DEF c
<1>4. ASSUME NEW s \in SUBSET P, s # {}
      PROVE  Cardinality(Together(A, s)) = fun[c(s)] + Cardinality(Together(A, s \ {c(s)}))
  <2> DEFINE x == c(s)
  <2> DEFINE rest == Together(A, s \ {x})
  <2>1. x \in s /\ x \in P /\ s \ {x} \in SUBSET P
    BY <1>3, <1>4
  <2> HIDE DEF x
  <2>2. Together(A, s) = A[x] \cup rest /\ A[x] \cap rest = {}
    BY <2>1 DEF Together, Parts
  <2>3. IsFiniteSet(A[x]) /\ IsFiniteSet(rest) /\ Cardinality(A[x]) \in Nat /\ Cardinality(rest) \in Nat
    <3>1. A[x] \in SUBSET U
      BY <2>1 DEF Parts
    <3>2. IsFiniteSet(A[x]) /\ IsFiniteSet(rest)
      BY <3>1, <2>1, <1>2, FS_Subset
    <3> HIDE DEF rest
    <3> QED BY <3>2, FS_CardinalityType
  <2> HIDE DEF rest
  <2>4. Cardinality(A[x] \cup rest) = Cardinality(A[x]) + Cardinality(rest)
    <3>1. Cardinality(A[x] \cup rest) = Cardinality(A[x]) + Cardinality(rest) - Cardinality(A[x] \cap rest)
      BY <2>3, FS_Union
    <3>2. Cardinality(A[x] \cap rest) = 0
      BY <2>2, FS_EmptySet
    <3> QED BY <3>1, <3>2, <2>3
  <2>5. fun[x] = Cardinality(A[x])
    BY <2>1 DEF Sizes
  <2>6. Cardinality(Together(A, s)) = fun[x] + Cardinality(rest)
    BY <2>2, <2>4, <2>5
  <2> QED BY <2>6 DEF x, rest
<1>5. Cardinality(Together(A, {})) = 0
  <2>1. Together(A, {}) = {}
    BY DEF Together
  <2> QED BY <2>1, FS_EmptySet
<1>6. \E f : f = Step(f)
  <2> DEFINE f == [s \in SUBSET P |-> Cardinality(Together(A, s))]
  <2>1. ASSUME NEW s \in SUBSET P
        PROVE  f[s] = IF s = {} THEN 0 ELSE fun[c(s)] + f[s \ {c(s)}]
    <3>1. CASE s = {}
      BY <3>1, <1>5
    <3>2. CASE s # {}
      <4>1. s \ {c(s)} \in SUBSET P
        OBVIOUS
      <4>2. f[s] = Cardinality(Together(A, s)) /\ f[s \ {c(s)}] = Cardinality(Together(A, s \ {c(s)}))
        BY <4>1
      <4> HIDE DEF f
      <4> QED BY <3>2, <4>2, <1>4
    <3> QED BY <3>1, <3>2
  <2>2. f = [s \in SUBSET P |-> f[s]]
    OBVIOUS
  <2> HIDE DEF f
  <2>3. f = Step(f)
    BY <2>1, <2>2
  <2> HIDE DEF Step
  <2> QED BY <2>3
<1>7. iter = Step(iter)
  <2> HIDE DEF Step
  <2> QED BY <1>6
<1>8. \A s \in SUBSET P : iter[s] = IF s = {} THEN 0 ELSE fun[c(s)] + iter[s \ {c(s)}]
  <2> HIDE DEF iter
  <2> QED BY <1>7
<1> HIDE DEF iter
<1> DEFINE Bad == {s \in SUBSET P : iter[s] # Cardinality(Together(A, s))}
<1> DEFINE sizes == {n \in Nat : \E s \in Bad : Cardinality(s) = n}
<1>9. \A s \in SUBSET P : IsFiniteSet(s) /\ Cardinality(s) \in Nat
  BY FS_Subset, FS_CardinalityType
<1>10. ASSUME NEW s \in Bad PROVE FALSE
  <2>1. sizes \in SUBSET Nat /\ sizes # {}
    BY <1>9, <1>10
  <2>2. PICK n \in sizes : \A m \in sizes : n <= m
    <3> HIDE DEF sizes
    <3> QED BY <2>1, Least
  <2>3. PICK t \in Bad : Cardinality(t) = n
    BY <2>2
  <2>4. t \in SUBSET P /\ iter[t] # Cardinality(Together(A, t)) /\ n \in Nat
    BY <2>2, <2>3
  <2>5. t # {}
    BY <2>4, <1>5, <1>8
  <2> DEFINE u == t \ {c(t)}
  <2>6. c(t) \in t /\ u \in SUBSET P
    BY <1>3, <2>4, <2>5
  <2>7. Cardinality(u) = n - 1
    BY <2>3, <2>4, <2>6, <1>9, FS_RemoveElement
  <2>8. iter[u] # Cardinality(Together(A, u))
    BY <2>4, <2>5, <1>4, <1>8
  <2> HIDE DEF u
  <2>9. u \in Bad
    BY <2>6, <2>8
  <2> HIDE DEF Bad
  <2>10. n - 1 \in sizes
    BY <2>4, <2>6, <2>7, <2>9, <1>9
  <2> HIDE DEF sizes
  <2> QED BY <2>2, <2>4, <2>10
<1>11. iter[P] = Cardinality(Together(A, P))
  <2>1. P \notin Bad /\ P \in SUBSET P
    BY <1>10
  <2> QED BY <2>1
<1> QED BY <1>1, <1>2, <1>11

\* The threads of a report: a sequence, and so is the stack of each.
IsThreads(ts) ==
    /\ Len(ts) \in Nat /\ DOMAIN ts = 1 .. Len(ts)
    /\ \A i \in 1 .. Len(ts) : ts[i].frames \in Seq(ToSet(ts[i].frames))

(* The frames of a block are a sequence.                                     *)
LEMMA FramesAreSeq ==
    ASSUME NEW T, NEW b \in Seq(T)
    PROVE  FramesOf(b) \in Seq(ToSet(FramesOf(b)))
<1>1. Len(b) \in Nat /\ \A f \in 1 .. Len(b) : b[f] \in T
  BY LenProperties
<1> DEFINE marks == {m \in 1 .. Len(b) : b[m].kind = "mounted"}
<1>2. PICK mark : mark = SelectInSeq(b, LAMBDA l : l.kind = "mounted")
  OBVIOUS
<1>3. mark = IF marks # {} THEN Min(marks) ELSE 0
  BY <1>2 DEF SelectInSeq
<1>4. mark \in Nat
  <2>1. CASE marks = {}
    BY <1>3, <2>1
  <2>2. CASE marks # {}
    <3>1. marks \in SUBSET Nat
      BY <1>1
    <3> HIDE DEF marks
    <3>2. \E x \in marks : \A y \in marks : x <= y
      BY <3>1, <2>2, Least
    <3>3. Min(marks) \in marks
      BY <3>2 DEF Min
    <3> QED BY <3>1, <3>3, <1>3, <2>2
  <2> QED BY <2>1, <2>2
<1> DEFINE rest == SubSeq(b, mark + 1, Len(b))
<1>5. rest \in Seq(T)
  <2>1. \A f \in mark + 1 .. Len(b) : b[f] \in T
    BY <1>1, <1>4
  <2> QED BY <2>1, <1>1, <1>4, SubSeqProperties
<1> DEFINE some == Kind(rest, "frame")
<1>6. Len(rest) \in Nat /\ DOMAIN rest = 1 .. Len(rest)
  BY <1>5, LenProperties
<1> DEFINE c == Cardinality(OfKind(rest, "frame"))
<1>7. c \in Nat /\ DOMAIN some = 1 .. c
  <2> HIDE DEF rest
  <2> QED BY <1>6, KindLines
<1>8. FramesOf(b) = [i \in DOMAIN some |-> some[i].of]
  BY <1>2 DEF FramesOf
<1> HIDE DEF some, c
<1>9. DOMAIN FramesOf(b) = 1 .. c /\ FramesOf(b) = [i \in 1 .. c |-> FramesOf(b)[i]]
  BY <1>7, <1>8
<1> DEFINE U == ToSet(FramesOf(b))
<1>10. \A i \in 1 .. c : FramesOf(b)[i] \in U
  BY <1>9 DEF ToSet
<1> HIDE DEF U
<1>11. FramesOf(b) \in [1 .. c -> U]
  BY <1>9, <1>10
<1>12. FramesOf(b) \in Seq(U)
  BY <1>7, <1>11, SeqDef
<1> QED BY <1>12 DEF U

LEMMA ReportedThreads ==
    DumpInv /\ HasReport => IsThreads(Threads) /\ \E n : report = ReportOn(Threads, n)
<1> SUFFICES ASSUME DumpInv, HasReport
             PROVE  IsThreads(Threads) /\ \E n : report = ReportOn(Threads, n)
  OBVIOUS
<1>1. CutTypes /\ ReportInv
  BY DEF DumpInv
<1>2. ASSUME NEW ts, NEW n, report = ReportOn(ts, n) PROVE Threads = ts
  BY <1>2 DEF Threads, ReportOn
<1>3. CASE json
  <2>1. Threads = JsonThreads(dump) /\ report = ReportOn(JsonThreads(dump), 0)
    BY <1>1, <1>2, <1>3 DEF ReportInv
  <2>2. Threads \in Seq(ToSet(Threads))
    BY <2>1, <1>1, <1>3, JsonElements
  <2>3. Len(Threads) \in Nat /\ DOMAIN Threads = 1 .. Len(Threads)
    BY <2>2, LenProperties
  <2>4. ASSUME NEW i \in 1 .. Len(Threads) PROVE Threads[i].frames \in Seq(ToSet(Threads[i].frames))
    <3>1. Threads[i] \in ToSet(JsonThreads(dump))
      BY <2>1, <2>3 DEF ToSet
    <3>2. PICK c \in DOMAIN dump : \E k \in DOMAIN dump[c].threads :
                Threads[i] = JsonThread(dump[c].threads[k], dump[c].name)
      BY <3>1, <1>1, <1>3, JsonElements
    <3>3. PICK k \in DOMAIN dump[c].threads : Threads[i] = JsonThread(dump[c].threads[k], dump[c].name)
      BY <3>2
    <3>4. dump[c] \in ToSet(dump) /\ dump[c].threads[k] \in ToSet(dump[c].threads) /\ dump \in JsonDumps
      BY <1>1, <1>3 DEF CutTypes, ToSet
    <3>5. Threads[i].frames = dump[c].threads[k].frames
      BY <3>3 DEF JsonThread
    <3> QED BY <3>4, <3>5, DumpAssumption DEF DumpAssumption
  <2> QED BY <2>1, <2>3, <2>4 DEF IsThreads
<1>4. CASE ~json
  <2> DEFINE ts == [i \in DOMAIN tblocks |-> Thread(tblocks[i])]
  <2>1. Threads = ts /\ report = ReportOn(ts, Len(Deadlocks(deadlines)))
    BY <1>1, <1>2, <1>4 DEF ReportInv
  <2>2. Len(tblocks) \in Nat /\ DOMAIN tblocks = 1 .. Len(tblocks)
    BY <1>1, ClosedBlocks
  <2>3. Len(Threads) = Len(tblocks) /\ DOMAIN Threads = 1 .. Len(tblocks)
        /\ \A i \in 1 .. Len(tblocks) : Threads[i] = Thread(tblocks[i])
    BY <2>1, <2>2
  <2>4. ASSUME NEW i \in 1 .. Len(tblocks) PROVE FramesOf(tblocks[i]) \in Seq(ToSet(FramesOf(tblocks[i])))
    <3>1. tblocks[i] \in Seq(ToSet(dump))
      BY <1>1, <2>2, ElementOfSeq DEF CutTypes
    <3> QED BY <3>1, FramesAreSeq
  <2>6. ASSUME NEW b PROVE Thread(b).frames = FramesOf(b)
    BY DEF Thread
  <2>5. \A i \in 1 .. Len(tblocks) : Threads[i].frames = FramesOf(tblocks[i])
    BY <2>3, <2>6
  <2> HIDE DEF ts
  <2> QED BY <2>1, <2>2, <2>3, <2>4, <2>5 DEF IsThreads
<1> QED BY <1>3, <1>4

(* A set of naturals that is not empty and has a bound has a greatest        *)
(* element, which is its Max.                                                *)
LEMMA Greatest ==
    ASSUME NEW n \in Nat, NEW S \in SUBSET (0 .. n), S # {}
    PROVE  Max(S) \in S /\ \A y \in S : y <= Max(S)
<1> DEFINE T == {n - x : x \in S}
<1>1. T \in SUBSET Nat /\ T # {}
  <2>1. \A x \in S : n - x \in Nat
    OBVIOUS
  <2> QED BY <2>1
<1>2. PICK y \in T : \A z \in T : y <= z
  <2> HIDE DEF T
  <2> QED BY <1>1, Least
<1>3. PICK x \in S : y = n - x
  BY <1>2
<1>4. \A z \in S : z <= x
  <2>1. ASSUME NEW z \in S PROVE z <= x
    <3>1. n - z \in T
      OBVIOUS
    <3>2. n - x <= n - z
      BY <3>1, <1>2, <1>3
    <3>3. x \in Nat /\ z \in Nat
      OBVIOUS
    <3> QED BY <3>2, <3>3
  <2> QED BY <2>1
<1>5. \E z \in S : \A y2 \in S : z >= y2
  BY <1>4
<1>6. Max(S) = CHOOSE z \in S : \A y2 \in S : z >= y2
  BY DEF Max
<1>7. Max(S) \in S /\ \A y2 \in S : Max(S) >= y2
  BY <1>5, <1>6
<1> QED BY <1>7

(* Two sets that have nothing in common have together as many elements.     *)
LEMMA NothingShared ==
    ASSUME NEW S, IsFiniteSet(S), NEW A \in SUBSET S, NEW B \in SUBSET S, A \cap B = {}
    PROVE  /\ Cardinality(A \cup B) = Cardinality(A) + Cardinality(B)
           /\ Cardinality(A) \in Nat /\ Cardinality(B) \in Nat
<1>1. IsFiniteSet(A) /\ IsFiniteSet(B)
  BY FS_Subset
<1>2. Cardinality(A) \in Nat /\ Cardinality(B) \in Nat
  BY <1>1, FS_CardinalityType
<1>3. Cardinality(A \cup B) = Cardinality(A) + Cardinality(B) - Cardinality(A \cap B)
  BY <1>1, FS_Union
<1>4. Cardinality(A \cap B) = 0
  BY FS_EmptySet
<1> QED BY <1>2, <1>3, <1>4

(* No thread is of two of the four groups.                                   *)
LEMMA CausesApart ==
    ASSUME NEW ts, IsThreads(ts)
    PROVE  Cardinality(ConnWaiters(ts)) + Cardinality(IoWaiters(ts)) + Cardinality(RealRunnable(ts))
             + Cardinality(Blocked(ts)) <= Len(ts)
<1> DEFINE D == DOMAIN ts
<1>1. PICK C : C = ConnWaiters(ts)
  OBVIOUS
<1>2. PICK I : I = IoWaiters(ts)
  OBVIOUS
<1>3. PICK R : R = RealRunnable(ts)
  OBVIOUS
<1>4. PICK B : B = Blocked(ts)
  OBVIOUS
<1>5. IsFiniteSet(D) /\ Cardinality(D) = Len(ts) /\ Len(ts) \in Nat
  BY FS_Interval DEF IsThreads
<1>6. C \in SUBSET {i \in D : Waiting(ts[i])}
  BY <1>1 DEF ConnWaiters, Those, Borrows
<1>7. I \in SUBSET {i \in D : Waiting(ts[i])} /\ C \cap I = {}
  BY <1>1, <1>2 DEF IoWaiters, Those
<1>8. R \in SUBSET {i \in D : ts[i].state = "RUNNABLE"}
  BY <1>3 DEF RealRunnable, Those
<1>9. B \in SUBSET {i \in D : ts[i].state = "BLOCKED"}
  BY <1>4 DEF Blocked, Those
<1>10. \A i \in D : Waiting(ts[i]) => ts[i].state # "RUNNABLE" /\ ts[i].state # "BLOCKED"
  BY DEF Waiting
<1>11. (C \cup I) \cap R = {} /\ (C \cup I \cup R) \cap B = {}
  BY <1>6, <1>7, <1>8, <1>9, <1>10
<1>12. /\ C \in SUBSET D /\ I \in SUBSET D /\ R \in SUBSET D /\ B \in SUBSET D
       /\ C \cup I \in SUBSET D /\ C \cup I \cup R \in SUBSET D
  BY <1>6, <1>7, <1>8, <1>9
<1> HIDE DEF D
<1>13. Cardinality(C \cup I) = Cardinality(C) + Cardinality(I) /\ Cardinality(C) \in Nat /\ Cardinality(I) \in Nat
  BY <1>5, <1>7, <1>12, NothingShared
<1>14. Cardinality(C \cup I \cup R) = Cardinality(C \cup I) + Cardinality(R) /\ Cardinality(R) \in Nat
  BY <1>5, <1>11, <1>12, NothingShared
<1>15. Cardinality(C \cup I \cup R \cup B) = Cardinality(C \cup I \cup R) + Cardinality(B) /\ Cardinality(B) \in Nat
  BY <1>5, <1>11, <1>12, NothingShared
<1>16. C \cup I \cup R \cup B \in SUBSET D
  BY <1>12
<1>17. Cardinality(C \cup I \cup R \cup B) <= Len(ts)
  BY <1>5, <1>16, FS_Subset
<1>18. Cardinality(C) + Cardinality(I) + Cardinality(R) + Cardinality(B) <= Len(ts)
  BY <1>13, <1>14, <1>15, <1>17
<1> QED BY <1>1, <1>2, <1>3, <1>4, <1>18

(* The holder of a lock holds it.                                            *)
LEMMA HolderIsOne ==
    ASSUME NEW ts, IsThreads(ts), NEW k, HolderOf(ts, k) # 0
    PROVE  HolderOf(ts, k) \in DOMAIN ts /\ ts[HolderOf(ts, k)].held = <<k>>
<1> DEFINE holds == {i \in DOMAIN ts : ts[i].held = <<k>>}
<1>1. HolderOf(ts, k) = IF holds = {} THEN 0 ELSE Max(holds)
  BY DEF HolderOf, Those
<1>2. holds # {} /\ HolderOf(ts, k) = Max(holds)
  BY <1>1
<1>3. Len(ts) \in Nat /\ holds \in SUBSET (0 .. Len(ts))
  BY DEF IsThreads
<1>4. Max(holds) \in holds
  <2> HIDE DEF holds
  <2> QED BY <1>2, <1>3, Greatest
<1> QED BY <1>2, <1>4

LEMMA CausesCounted == DumpInv => OneCauseEach
<1> SUFFICES ASSUME DumpInv, HasReport PROVE OneCauseEach
  BY DEF OneCauseEach
<1>1. IsThreads(Threads)
  BY ReportedThreads
<1>2. PICK ts : ts = Threads
  OBVIOUS
<1> QED BY <1>1, <1>2, CausesApart DEF OneCauseEach

LEMMA HoldersHold == DumpInv => HolderHolds
<1> SUFFICES ASSUME DumpInv, HasReport, NEW k \in DOMAIN report.holders, report.holders[k] # 0
             PROVE  \E n \in DOMAIN Threads[report.holders[k]].held : Threads[report.holders[k]].held[n] = k
  BY DEF HolderHolds
<1>1. IsThreads(Threads) /\ \E n : report = ReportOn(Threads, n)
  BY ReportedThreads
<1>2. PICK ts : ts = Threads
  OBVIOUS
<1>3. report.holders = [j \in HotLocks(ts) |-> HolderOf(ts, j)]
  BY <1>1, <1>2 DEF ReportOn
<1>4. report.holders[k] = HolderOf(ts, k)
  BY <1>3
<1>5. ts[HolderOf(ts, k)].held = <<k>>
  BY <1>1, <1>2, <1>4, HolderIsOne
<1>6. 1 \in DOMAIN <<k>> /\ <<k>>[1] = k
  OBVIOUS
<1> QED BY <1>2, <1>4, <1>5, <1>6

(* The pools make up all threads.                                            *)
LEMMA PoolsMakeAll ==
    ASSUME NEW ts, IsThreads(ts), NEW pools, pools = [p \in Pools(ts) |-> PoolSize(ts, p)]
    PROVE  SumFunction(pools) = Len(ts)
<1>1. PICK D : D = DOMAIN ts
  OBVIOUS
<1>2. IsFiniteSet(D) /\ Cardinality(D) = Len(ts)
  BY <1>1, FS_Interval DEF IsThreads
<1>3. PICK P : P = Pools(ts)
  OBVIOUS
<1>4. IsFiniteSet(P)
  <2> DEFINE f == [i \in D |-> Pool(ts[i].name)]
  <2>1. f \in Surjection(D, P)
    BY <1>1, <1>3 DEF Surjection, Pools
  <2> HIDE DEF f
  <2> QED BY <1>2, <2>1, FS_Surjection
<1> DEFINE A == [p \in P |-> {i \in D : Pool(ts[i].name) = p}]
<1>5. Parts(A, P, D)
  BY DEF Parts
<1>6. \A p \in P : pools[p] = Cardinality(A[p])
  BY <1>1, <1>3 DEF PoolSize, Those
<1>7. Together(A, P) = D
  <2>1. ASSUME NEW i \in D PROVE i \in Together(A, P)
    <3>1. Pool(ts[i].name) \in P
      BY <1>1, <1>3 DEF Pools
    <3>2. i \in A[Pool(ts[i].name)]
      BY <3>1
    <3> HIDE DEF A
    <3> QED BY <3>1, <3>2 DEF Together
  <2>2. Together(A, P) \subseteq D
    BY DEF Together
  <2> QED BY <2>1, <2>2
<1> HIDE DEF A
<1>8. PICK B : B = A
  OBVIOUS
<1>9. Parts(B, P, D) /\ Sizes(pools, B, P)
  BY <1>5, <1>6, <1>8 DEF Sizes
<1>10. SumFunctionOnSet(pools, P) = Cardinality(Together(B, P))
  BY <1>2, <1>4, <1>9, SumOfParts
<1>11. SumFunction(pools) = SumFunctionOnSet(pools, P)
  BY <1>3 DEF SumFunction
<1> QED BY <1>2, <1>7, <1>8, <1>10, <1>11

(* Every depth up to the last is in exactly one range.                       *)
LEMMA RangesFollow ==
    /\ \A r, s \in DOMAIN Ranges : r < s => Ranges[r][2] < Ranges[s][1]
    /\ \A n \in Nat : n <= Ranges[Len(Ranges)][2] =>
         \E r \in DOMAIN Ranges : Ranges[r][1] <= n /\ n <= Ranges[r][2]
<1>1. /\ Ranges \in Seq(Nat \X Nat) /\ Ranges # <<>> /\ Ranges[1][1] = 0
      /\ \A r \in DOMAIN Ranges : Ranges[r][1] <= Ranges[r][2]
      /\ \A r \in 2 .. Len(Ranges) : Ranges[r][1] = Ranges[r - 1][2] + 1
  BY DumpAssumption DEF DumpAssumption
<1>2. PICK last : last = Len(Ranges)
  OBVIOUS
<1>3. last \in Nat /\ DOMAIN Ranges = 1 .. last /\ last >= 1
  BY <1>1, <1>2, LenProperties, EmptySeq
<1>4. PICK lo, hi : lo = [r \in 1 .. last |-> Ranges[r][1]] /\ hi = [r \in 1 .. last |-> Ranges[r][2]]
  OBVIOUS
<1>5. \A r \in 1 .. last : Ranges[r] \in Nat \X Nat
  BY <1>1, <1>3, ElementOfSeq
<1>6. \A r \in 1 .. last : lo[r] \in Nat /\ hi[r] \in Nat /\ lo[r] <= hi[r]
  BY <1>1, <1>3, <1>4, <1>5
<1>7. lo[1] = 0 /\ \A r \in 2 .. last : lo[r] = hi[r - 1] + 1
  BY <1>1, <1>2, <1>3, <1>4
<1>8. \A s \in 0 .. last : \A r \in 1 .. s - 1 : hi[r] < lo[s]
  <2> DEFINE Q == {s \in 0 .. last : \A r \in 1 .. s - 1 : hi[r] < lo[s]}
  <2>1. 0 \in Q
    BY <1>3
  <2>2. ASSUME NEW s \in 1 .. last, s - 1 \in Q PROVE s \in Q
    <3> SUFFICES ASSUME NEW r \in 1 .. s - 1 PROVE hi[r] < lo[s]
      BY <1>3
    <3>1. s \in 2 .. last /\ s - 1 \in 1 .. last /\ r \in 1 .. last
      BY <1>3
    <3>2. lo[s] = hi[s - 1] + 1 /\ lo[s - 1] <= hi[s - 1]
      BY <3>1, <1>6, <1>7
    <3>3. CASE r = s - 1
      BY <3>1, <3>2, <3>3, <1>6
    <3>4. CASE r # s - 1
      <4>1. hi[r] < lo[s - 1]
        BY <3>4, <2>2, <1>3
      <4> QED BY <4>1, <3>1, <3>2, <1>6
    <3> QED BY <3>3, <3>4
  <2>3. \A s \in 0 .. last : s \in Q
    <3> HIDE DEF Q
    <3> QED BY <2>1, <2>2, <1>3, Upwards
  <2> QED BY <2>3
<1>9. ASSUME NEW n \in Nat, n <= hi[last] PROVE \E r \in 1 .. last : lo[r] <= n /\ n <= hi[r]
  <2> DEFINE Fit == {r \in 1 .. last : n <= hi[r]}
  <2>1. Fit \in SUBSET Nat /\ Fit # {}
    BY <1>3, <1>9
  <2>2. PICK r \in Fit : \A s \in Fit : r <= s
    <3> HIDE DEF Fit
    <3> QED BY <2>1, Least
  <2>3. r \in 1 .. last /\ n <= hi[r]
    OBVIOUS
  <2>4. lo[r] <= n
    <3>1. CASE r = 1
      BY <3>1, <1>7
    <3>2. CASE r # 1
      <4>1. r - 1 \in 1 .. last /\ r \in 2 .. last
        BY <2>3, <3>2, <1>3
      <4>2. r - 1 \notin Fit
        BY <4>1, <2>2
      <4>3. hi[r - 1] < n
        BY <4>1, <4>2, <1>6
      <4> QED BY <4>1, <4>3, <1>6, <1>7
    <3> QED BY <3>1, <3>2
  <2> QED BY <2>3, <2>4
<1>10. ASSUME NEW r \in DOMAIN Ranges, NEW s \in DOMAIN Ranges, r < s PROVE Ranges[r][2] < Ranges[s][1]
  <2>1. s \in 0 .. last /\ r \in 1 .. s - 1
    BY <1>3, <1>10
  <2>2. hi[r] < lo[s]
    BY <2>1, <1>8
  <2> QED BY <2>2, <1>3, <1>4
<1>11. ASSUME NEW n \in Nat, n <= Ranges[Len(Ranges)][2]
       PROVE  \E r \in DOMAIN Ranges : Ranges[r][1] <= n /\ n <= Ranges[r][2]
  <2>1. n <= hi[last]
    BY <1>11, <1>2, <1>3, <1>4
  <2>2. PICK r \in 1 .. last : lo[r] <= n /\ n <= hi[r]
    BY <2>1, <1>9
  <2> QED BY <2>2, <1>3, <1>4
<1> QED BY <1>10, <1>11

(* The ranges of depth make up all threads, if none is deeper than they go.   *)
LEMMA DepthsMakeAll ==
    ASSUME NEW ts, IsThreads(ts), NEW depths, depths = [r \in DOMAIN Ranges |-> DepthCount(ts, r)],
           \A t \in ToSet(ts) : Len(t.frames) <= Last(Ranges)[2]
    PROVE  SumFunction(depths) = Len(ts)
<1>1. PICK D : D = DOMAIN ts
  OBVIOUS
<1>2. IsFiniteSet(D) /\ Cardinality(D) = Len(ts)
  BY <1>1, FS_Interval DEF IsThreads
<1>3. PICK P : P = DOMAIN Ranges
  OBVIOUS
<1>4. IsFiniteSet(P) /\ P \subseteq Nat
  <2>1. Len(Ranges) \in Nat /\ P = 1 .. Len(Ranges)
    BY <1>3, LenProperties, DumpAssumption DEF DumpAssumption
  <2> QED BY <2>1, FS_Interval
<1>5. PICK n : n = [i \in D |-> Len(ts[i].frames)]
  OBVIOUS
<1>6. \A i \in D : n[i] \in Nat
  BY <1>1, <1>5, LenProperties DEF IsThreads
<1>7. \A i \in D : n[i] <= Ranges[Len(Ranges)][2]
  BY <1>1, <1>5 DEF Last, ToSet
<1>8. \A r \in P : Ranges[r][1] \in Nat /\ Ranges[r][2] \in Nat /\ Ranges[r][1] <= Ranges[r][2]
  <2>1. \A r \in P : Ranges[r] \in Nat \X Nat
    BY <1>3, ElementOfSeq, LenProperties, DumpAssumption DEF DumpAssumption
  <2> QED BY <2>1, <1>3, DumpAssumption DEF DumpAssumption
<1> DEFINE A == [r \in P |-> {i \in D : Ranges[r][1] <= n[i] /\ n[i] <= Ranges[r][2]}]
<1>9. ASSUME NEW r \in P, NEW s \in P, r < s PROVE A[r] \cap A[s] = {}
  <2>1. Ranges[r][2] < Ranges[s][1]
    BY <1>3, <1>9, RangesFollow
  <2> SUFFICES ASSUME NEW i \in A[r] \cap A[s] PROVE FALSE
    OBVIOUS
  <2>2. n[i] <= Ranges[r][2] /\ Ranges[s][1] <= n[i] /\ n[i] \in Nat
    BY <1>6
  <2> QED BY <2>1, <2>2, <1>8
<1>10. Parts(A, P, D)
  <2>1. A \in [P -> SUBSET D]
    OBVIOUS
  <2>2. ASSUME NEW r \in P, NEW s \in P, r # s PROVE A[r] \cap A[s] = {}
    <3> HIDE DEF A
    <3>1. r < s \/ s < r
      BY <2>2, <1>4
    <3> QED BY <3>1, <1>9
  <2> HIDE DEF A
  <2> QED BY <2>1, <2>2 DEF Parts
<1>11. \A r \in P : depths[r] = Cardinality(A[r])
  BY <1>1, <1>3, <1>5 DEF DepthCount, Those
<1>12. Together(A, P) = D
  <2>1. ASSUME NEW i \in D PROVE i \in Together(A, P)
    <3>1. PICK r \in P : Ranges[r][1] <= n[i] /\ n[i] <= Ranges[r][2]
      BY <1>3, <1>6, <1>7, RangesFollow
    <3>2. i \in A[r]
      BY <3>1
    <3> HIDE DEF A
    <3> QED BY <3>2 DEF Together
  <2>2. Together(A, P) \subseteq D
    BY DEF Together
  <2> QED BY <2>1, <2>2
<1> HIDE DEF A
<1>13. PICK B : B = A
  OBVIOUS
<1>14. Parts(B, P, D) /\ Sizes(depths, B, P)
  BY <1>10, <1>11, <1>13 DEF Sizes
<1>15. SumFunctionOnSet(depths, P) = Cardinality(Together(B, P))
  BY <1>2, <1>4, <1>14, SumOfParts
<1>16. SumFunction(depths) = SumFunctionOnSet(depths, P)
  BY <1>3 DEF SumFunction
<1> QED BY <1>2, <1>12, <1>13, <1>15, <1>16

\* The path to the n-th method of a thread from its entry, those it counts for
\* in the flame graph, and how many of some threads went through each.
PathTo(t, n) == SubSeq(Reverse(t.frames), 1, n)
Went(t) ==
    IF t.state # "RUNNABLE" \/ t.frames = <<>> THEN {} ELSE {PathTo(t, n) : n \in 0 .. Len(t.frames)}
Through(ts, s, p) == {i \in s : p \in Went(ts[i])}
Ways(ts, s) == {<<>>} \cup UNION {Went(ts[i]) : i \in s}
Widths(ts, s) == [p \in Ways(ts, s) |-> Cardinality(Through(ts, s, p))]

\* The graph with a thread more, as Flame adds it.
Wider(g, t) ==
    IF t.state # "RUNNABLE" \/ t.frames = <<>> THEN g
    ELSE [p \in DOMAIN g \cup {PathTo(t, n) : n \in 0 .. Len(t.frames)} |->
            (IF p \in DOMAIN g THEN g[p] ELSE 0)
              + (IF p \in {PathTo(t, n) : n \in 0 .. Len(t.frames)} THEN 1 ELSE 0)]

(* A path has the length of its number, and goes on from the one before it.   *)
LEMMA PathsGoOn ==
    ASSUME NEW t, t.frames \in Seq(ToSet(t.frames))
    PROVE  /\ Len(t.frames) \in Nat
           /\ \A n \in 0 .. Len(t.frames) : Len(PathTo(t, n)) = n
           /\ \A n \in 1 .. Len(t.frames) : SubSeq(PathTo(t, n), 1, n - 1) = PathTo(t, n - 1)
           /\ PathTo(t, 0) = <<>>
<1>1. PICK r : r = Reverse(t.frames)
  OBVIOUS
<1>2. PICK T : T = ToSet(t.frames)
  OBVIOUS
<1>3. PICK len : len = Len(t.frames)
  OBVIOUS
<1>4. len \in Nat /\ \A i \in 1 .. len : t.frames[i] \in T
  BY <1>2, <1>3, ElementOfSeq, LenProperties
<1>5. r \in Seq(T) /\ Len(r) = len
  <2>1. \A i \in 1 .. len : (len - i) + 1 \in 1 .. len
    BY <1>4
  <2>2. r = [i \in 1 .. len |-> t.frames[(len - i) + 1]]
    BY <1>1, <1>3 DEF Reverse
  <2>3. r \in [1 .. len -> T]
    BY <2>1, <2>2, <1>4
  <2>4. r \in Seq(T) /\ DOMAIN r = 1 .. len
    BY <2>3, <1>4, SeqDef
  <2> QED BY <2>4, <1>4, LenProperties
<1>6. \A n \in 0 .. len : /\ SubSeq(r, 1, n) \in Seq(T) /\ Len(SubSeq(r, 1, n)) = n
                          /\ \A i \in 1 .. n : SubSeq(r, 1, n)[i] = r[i]
  BY <1>4, <1>5, SubSeqProperties
<1>7. ASSUME NEW n \in 1 .. len PROVE SubSeq(SubSeq(r, 1, n), 1, n - 1) = SubSeq(r, 1, n - 1)
  <2>1. n \in 0 .. len /\ n - 1 \in 0 .. len
    BY <1>4
  <2>2. PICK p, q : p = SubSeq(r, 1, n) /\ q = SubSeq(r, 1, n - 1)
    OBVIOUS
  <2>3. p \in Seq(T) /\ Len(p) = n /\ \A i \in 1 .. n : p[i] = r[i]
    BY <2>1, <2>2, <1>6
  <2>4. q \in Seq(T) /\ Len(q) = n - 1 /\ \A i \in 1 .. n - 1 : q[i] = r[i]
    BY <2>1, <2>2, <1>6
  <2>5. /\ SubSeq(p, 1, n - 1) \in Seq(T) /\ Len(SubSeq(p, 1, n - 1)) = n - 1
        /\ \A i \in 1 .. n - 1 : SubSeq(p, 1, n - 1)[i] = p[i]
    BY <2>1, <2>3, SubSeqProperties
  <2>6. \A i \in 1 .. n - 1 : SubSeq(p, 1, n - 1)[i] = q[i]
    BY <2>3, <2>4, <2>5
  <2>7. SubSeq(p, 1, n - 1) = q
    BY <2>4, <2>5, <2>6, SeqEqual
  <2> QED BY <2>2, <2>7
<1>8. SubSeq(r, 1, 0) = <<>>
  <2>1. 0 \in 0 .. len
    BY <1>4
  <2> QED BY <2>1, <1>6, EmptySeq
<1> QED BY <1>1, <1>3, <1>4, <1>6, <1>7, <1>8 DEF PathTo

(* One thread more.                                                          *)
LEMMA WidthsOfMore ==
    ASSUME NEW ts, IsThreads(ts), NEW s \in SUBSET DOMAIN ts, NEW x \in s
    PROVE  Widths(ts, s) = Wider(Widths(ts, s \ {x}), ts[x])
<1> DEFINE w == Went(ts[x])
<1> DEFINE u == s \ {x}
<1> DEFINE g == Widths(ts, u)
<1>1. Ways(ts, s) = Ways(ts, u) \cup w
  BY DEF Ways
<1>2. DOMAIN g = Ways(ts, u) /\ \A p \in Ways(ts, u) : g[p] = Cardinality(Through(ts, u, p))
  BY DEF Widths
<1> HIDE DEF g
<1>3. \A p : IsFiniteSet(Through(ts, u, p)) /\ Cardinality(Through(ts, u, p)) \in Nat
  <2> SUFFICES ASSUME NEW p PROVE IsFiniteSet(Through(ts, u, p)) /\ Cardinality(Through(ts, u, p)) \in Nat
    OBVIOUS
  <2>1. IsFiniteSet(DOMAIN ts)
    BY FS_Interval DEF IsThreads
  <2>2. Through(ts, u, p) \in SUBSET DOMAIN ts
    BY DEF Through
  <2> QED BY <2>1, <2>2, FS_Subset, FS_CardinalityType
<1>4. ASSUME NEW p
      PROVE  Through(ts, s, p) = Through(ts, u, p) \cup (IF p \in w THEN {x} ELSE {}) /\ x \notin Through(ts, u, p)
  BY DEF Through
<1> HIDE DEF w
<1>5. ASSUME NEW p
      PROVE  Cardinality(Through(ts, s, p)) = Cardinality(Through(ts, u, p)) + (IF p \in w THEN 1 ELSE 0)
  <2> HIDE DEF u
  <2>1. x \notin Through(ts, u, p)
    BY <1>4
  <2>2. CASE p \in w
    <3>1. Through(ts, s, p) = Through(ts, u, p) \cup {x}
      BY <1>4, <2>2
    <3> QED BY <3>1, <2>1, <2>2, <1>3, FS_AddElement
  <2>3. CASE p \notin w
    <3>1. Through(ts, s, p) = Through(ts, u, p)
      BY <1>4, <2>3
    <3> QED BY <3>1, <2>3, <1>3
  <2> QED BY <2>2, <2>3
<1>6. ASSUME NEW p, p \notin Ways(ts, u) PROVE Cardinality(Through(ts, u, p)) = 0
  <2>1. Through(ts, u, p) = {}
    BY <1>6 DEF Through, Ways
  <2> QED BY <2>1, FS_EmptySet
<1>7. CASE ts[x].state # "RUNNABLE" \/ ts[x].frames = <<>>
  <2>1. w = {}
    BY <1>7 DEF Went, w
  <2> HIDE DEF u
  <2>2. Ways(ts, s) = Ways(ts, u) /\ \A p : Cardinality(Through(ts, s, p)) = Cardinality(Through(ts, u, p))
    BY <2>1, <1>1, <1>3, <1>5
  <2>3. Widths(ts, s) = g
    BY <2>2 DEF Widths, g
  <2>4. Wider(g, ts[x]) = g
    BY <1>7 DEF Wider
  <2> QED BY <2>3, <2>4 DEF g, u
<1>8. CASE ~(ts[x].state # "RUNNABLE" \/ ts[x].frames = <<>>)
  <2>1. w = {PathTo(ts[x], n) : n \in 0 .. Len(ts[x].frames)}
    BY <1>8 DEF Went, w
  <2> HIDE DEF u
  <2>2. Ways(ts, s) = DOMAIN g \cup w
    BY <1>1, <1>2
  <2>3. ASSUME NEW p \in DOMAIN g \cup w
        PROVE  Cardinality(Through(ts, s, p)) = (IF p \in DOMAIN g THEN g[p] ELSE 0) + (IF p \in w THEN 1 ELSE 0)
    BY <1>2, <1>5, <1>6
  <2>4. Widths(ts, s) = [p \in DOMAIN g \cup w |-> (IF p \in DOMAIN g THEN g[p] ELSE 0) + (IF p \in w THEN 1 ELSE 0)]
    BY <2>2, <2>3 DEF Widths
  <2>5. Widths(ts, s) = Wider(g, ts[x])
    BY <2>1, <2>4, <1>8 DEF Wider
  <2> QED BY <2>5 DEF g, u
<1> QED BY <1>7, <1>8

(* The flame graph counts for each path the threads that went through it.    *)
LEMMA FlameCounts ==
    ASSUME NEW ts, IsThreads(ts)
    PROVE  Flame(ts) = Widths(ts, DOMAIN ts)
<1> DEFINE nothing == [p \in {<<>>} |-> 0]
<1> DEFINE Step(f) == [s \in SUBSET DOMAIN ts |->
                         IF s = {} THEN nothing ELSE Wider(f[s \ {Max(s)}], ts[Max(s)])]
<1> DEFINE iter == CHOOSE f : f = Step(f)
<1>1. Flame(ts) = iter[DOMAIN ts]
  BY DEF Flame, FoldLeft, MapThenFoldSet, PathTo, Wider
<1>2. ASSUME NEW s \in SUBSET DOMAIN ts, s # {} PROVE Max(s) \in s
  <2>1. Len(ts) \in Nat /\ s \in SUBSET (0 .. Len(ts))
    BY DEF IsThreads
  <2> QED BY <2>1, <1>2, Greatest
<1>3. Widths(ts, {}) = nothing
  <2>1. Ways(ts, {}) = {<<>>} /\ \A p : Through(ts, {}, p) = {}
    BY DEF Ways, Through
  <2>2. Cardinality({}) = 0
    BY FS_EmptySet
  <2> QED BY <2>1, <2>2 DEF Widths
<1>4. ASSUME NEW s \in SUBSET DOMAIN ts, s # {}
      PROVE  Widths(ts, s) = Wider(Widths(ts, s \ {Max(s)}), ts[Max(s)])
  BY <1>2, <1>4, WidthsOfMore
<1> HIDE DEF nothing
<1>5. \E f : f = Step(f)
  <2> DEFINE f == [s \in SUBSET DOMAIN ts |-> Widths(ts, s)]
  <2>1. ASSUME NEW s \in SUBSET DOMAIN ts
        PROVE  f[s] = IF s = {} THEN nothing ELSE Wider(f[s \ {Max(s)}], ts[Max(s)])
    BY <1>3, <1>4
  <2>2. f = [s \in SUBSET DOMAIN ts |-> f[s]]
    OBVIOUS
  <2> HIDE DEF f
  <2>3. f = Step(f)
    BY <2>1, <2>2
  <2> HIDE DEF Step
  <2> QED BY <2>3
<1>6. iter = Step(iter)
  <2> HIDE DEF Step
  <2> QED BY <1>5
<1>7. \A s \in SUBSET DOMAIN ts : iter[s] = IF s = {} THEN nothing ELSE Wider(iter[s \ {Max(s)}], ts[Max(s)])
  <2> HIDE DEF iter
  <2> QED BY <1>6
<1> HIDE DEF iter
<1> DEFINE n == Len(ts)
<1>8. n \in Nat /\ DOMAIN ts = 1 .. n
  BY DEF IsThreads
<1> DEFINE Q == {k \in 0 .. n : iter[1 .. k] = Widths(ts, 1 .. k)}
<1>9. 0 \in Q
  <2>1. 1 .. 0 = {} /\ {} \in SUBSET DOMAIN ts
    OBVIOUS
  <2>2. iter[{}] = nothing
    BY <2>1, <1>7
  <2> QED BY <2>1, <2>2, <1>3, <1>8
<1>10. ASSUME NEW k \in 1 .. n, k - 1 \in Q PROVE k \in Q
  <2> HIDE DEF n
  <2>1. 1 .. k \in SUBSET DOMAIN ts /\ 1 .. k # {} /\ (1 .. k) \ {k} = 1 .. k - 1
    BY <1>8
  <2>2. Max(1 .. k) = k
    <3>1. 1 .. k \in SUBSET (0 .. k) /\ k \in Nat /\ k \in 1 .. k
      BY <1>8
    <3>2. Max(1 .. k) \in 1 .. k /\ k <= Max(1 .. k)
      BY <3>1, Greatest
    <3> QED BY <3>1, <3>2
  <2>3. iter[1 .. k] = Wider(iter[1 .. k - 1], ts[k])
    BY <2>1, <2>2, <1>7
  <2>4. Widths(ts, 1 .. k) = Wider(Widths(ts, 1 .. k - 1), ts[k])
    BY <2>1, <2>2, <1>4
  <2> QED BY <2>3, <2>4, <1>10
<1>11. n \in Q
  <2> HIDE DEF Q
  <2>1. \A k \in 0 .. n : k \in Q
    <3> HIDE DEF n
    <3> QED BY <1>8, <1>9, <1>10, Upwards
  <2> QED BY <2>1, <1>8
<1> QED BY <1>1, <1>8, <1>11

(* No path is wider than those before it: who went on from one went there.   *)
LEMMA FlameNarrows ==
    ASSUME NEW ts, IsThreads(ts), NEW p \in Ways(ts, DOMAIN ts), NEW on,
           on = {q \in Ways(ts, DOMAIN ts) : Len(q) = Len(p) + 1 /\ SubSeq(q, 1, Len(p)) = p}
    PROVE  SumFunctionOnSet(Widths(ts, DOMAIN ts), on) <= Widths(ts, DOMAIN ts)[p]
<1>1. PICK D : D = DOMAIN ts
  OBVIOUS
<1>2. IsFiniteSet(D)
  BY <1>1, FS_Interval DEF IsThreads
<1>3. ASSUME NEW i \in D, NEW q \in Went(ts[i])
      PROVE  /\ Len(ts[i].frames) \in Nat /\ Len(q) \in 0 .. Len(ts[i].frames)
             /\ q = PathTo(ts[i], Len(q))
             /\ Len(q) # 0 => SubSeq(q, 1, Len(q) - 1) = PathTo(ts[i], Len(q) - 1)
                              /\ PathTo(ts[i], Len(q) - 1) \in Went(ts[i])
  <2>1. PICK t : t = ts[i]
    OBVIOUS
  <2>2. t.frames \in Seq(ToSet(t.frames))
    BY <2>1, <1>1 DEF IsThreads
  <2>3. Went(t) = {PathTo(t, n) : n \in 0 .. Len(t.frames)}
    BY <2>1 DEF Went
  <2>4. PICK n \in 0 .. Len(t.frames) : q = PathTo(t, n)
    BY <2>1, <2>3
  <2>5. Len(t.frames) \in Nat /\ Len(q) = n
    BY <2>2, <2>4, PathsGoOn
  <2>6. n # 0 => n \in 1 .. Len(t.frames) /\ n - 1 \in 0 .. Len(t.frames)
    BY <2>5
  <2>7. n # 0 => SubSeq(q, 1, n - 1) = PathTo(t, n - 1) /\ PathTo(t, n - 1) \in Went(t)
    BY <2>2, <2>3, <2>4, <2>6, PathsGoOn
  <2> QED BY <2>1, <2>4, <2>5, <2>7
<1>4. Len(p) \in Nat
  <2>1. CASE p = <<>>
    BY <2>1
  <2>2. CASE p # <<>>
    <3>1. PICK i \in D : p \in Went(ts[i])
      BY <2>2, <1>1 DEF Ways
    <3> QED BY <3>1, <1>3
  <2> QED BY <2>1, <2>2
<1>5. ASSUME NEW q \in on PROVE /\ q # <<>> /\ Len(q) = Len(p) + 1 /\ SubSeq(q, 1, Len(p)) = p
                                /\ \E i \in D : q \in Went(ts[i])
  <2>1. q \in Ways(ts, D) /\ Len(q) = Len(p) + 1 /\ SubSeq(q, 1, Len(p)) = p
    BY <1>1
  <2>2. q # <<>>
    BY <2>1, <1>4
  <2> QED BY <2>1, <2>2 DEF Ways
<1>6. ASSUME NEW i \in D, NEW q \in on, q \in Went(ts[i])
      PROVE  q = PathTo(ts[i], Len(p) + 1) /\ p \in Went(ts[i])
  <2>1. Len(q) = Len(p) + 1 /\ SubSeq(q, 1, Len(p)) = p /\ Len(q) # 0 /\ Len(q) - 1 = Len(p)
    BY <1>4, <1>5
  <2> QED BY <2>1, <1>3, <1>6
<1> DEFINE A == [q \in on |-> Through(ts, D, q)]
<1>7. Parts(A, on, D)
  <2>1. \A q \in on : A[q] \in SUBSET D
    BY DEF Through
  <2>2. ASSUME NEW q \in on, NEW r \in on, NEW i \in A[q] \cap A[r] PROVE q = r
    <3>1. i \in D /\ q \in Went(ts[i]) /\ r \in Went(ts[i])
      BY DEF Through
    <3> QED BY <3>1, <1>6
  <2>3. A \in [on -> SUBSET D]
    BY <2>1
  <2> HIDE DEF A
  <2> QED BY <2>2, <2>3 DEF Parts
<1>8. IsFiniteSet(on)
  <2> DEFINE went == {i \in D : \E q \in on : q \in Went(ts[i])}
  <2> DEFINE f == [i \in went |-> PathTo(ts[i], Len(p) + 1)]
  <2>1. \A i \in went : f[i] \in on
    BY <1>6
  <2>2. \A q \in on : \E i \in went : f[i] = q
    BY <1>5, <1>6
  <2>3. f \in [went -> on]
    BY <2>1
  <2>4. IsFiniteSet(went)
    BY <1>2, FS_Subset
  <2> HIDE DEF f, went
  <2>5. f \in Surjection(went, on)
    BY <2>2, <2>3 DEF Surjection
  <2> QED BY <2>4, <2>5, FS_Surjection
<1>9. Together(A, on) \subseteq Through(ts, D, p)
  <2> SUFFICES ASSUME NEW q \in on, NEW i \in A[q] PROVE i \in Through(ts, D, p)
    BY DEF Together
  <2>1. i \in D /\ q \in Went(ts[i])
    BY DEF Through
  <2> QED BY <2>1, <1>6 DEF Through
<1>10. PICK g : g = Widths(ts, D)
  OBVIOUS
<1>11. \A q \in Ways(ts, D) : g[q] = Cardinality(Through(ts, D, q))
  BY <1>10 DEF Widths
<1>12. \A q \in on : g[q] = Cardinality(A[q])
  BY <1>1, <1>11
<1> HIDE DEF A
<1>13. PICK B : B = A
  OBVIOUS
<1>14. Parts(B, on, D) /\ Sizes(g, B, on)
  BY <1>7, <1>12, <1>13 DEF Sizes
<1>15. SumFunctionOnSet(g, on) = Cardinality(Together(B, on))
  BY <1>2, <1>8, <1>14, SumOfParts
<1>16. Cardinality(Together(B, on)) <= Cardinality(Through(ts, D, p))
  <2>1. Through(ts, D, p) \in SUBSET D
    BY DEF Through
  <2>2. IsFiniteSet(Through(ts, D, p))
    BY <2>1, <1>2, FS_Subset
  <2> QED BY <2>2, <1>9, <1>13, FS_Subset
<1>17. g[p] = Cardinality(Through(ts, D, p))
  BY <1>1, <1>11
<1> QED BY <1>1, <1>10, <1>15, <1>16, <1>17

LEMMA CountsMakeAll == DumpInv => CountsAgree
<1> SUFFICES ASSUME DumpInv, HasReport PROVE CountsAgree
  BY DEF CountsAgree
<1>1. IsThreads(Threads) /\ \E n : report = ReportOn(Threads, n)
  BY ReportedThreads
<1>2. PICK ts : ts = Threads
  OBVIOUS
<1>3. /\ report.pools = [p \in Pools(ts) |-> PoolSize(ts, p)]
      /\ report.depths = [r \in DOMAIN Ranges |-> DepthCount(ts, r)]
      /\ report.flame = Flame(ts)
  BY <1>1, <1>2 DEF ReportOn
<1>4. PICK pools, depths, g : pools = report.pools /\ depths = report.depths /\ g = report.flame
  OBVIOUS
<1>5. SumFunction(pools) = Len(ts)
  BY <1>1, <1>2, <1>3, <1>4, PoolsMakeAll
<1>6. (\A t \in ToSet(ts) : Len(t.frames) <= Last(Ranges)[2]) => SumFunction(depths) = Len(ts)
  BY <1>1, <1>2, <1>3, <1>4, DepthsMakeAll
<1>7. g = Widths(ts, DOMAIN ts)
  BY <1>1, <1>2, <1>3, <1>4, FlameCounts
<1>8. ASSUME NEW p \in DOMAIN g
      PROVE  SumFunctionOnSet(g, {q \in DOMAIN g : Len(q) = Len(p) + 1 /\ SubSeq(q, 1, Len(p)) = p}) <= g[p]
  <2>1. DOMAIN g = Ways(ts, DOMAIN ts)
    BY <1>7 DEF Widths
  <2>2. PICK on : on = {q \in Ways(ts, DOMAIN ts) : Len(q) = Len(p) + 1 /\ SubSeq(q, 1, Len(p)) = p}
    OBVIOUS
  <2>3. SumFunctionOnSet(Widths(ts, DOMAIN ts), on) <= Widths(ts, DOMAIN ts)[p]
    BY <1>1, <1>2, <2>1, <2>2, FlameNarrows
  <2> QED BY <2>1, <2>2, <2>3, <1>7
<1> QED BY <1>2, <1>4, <1>5, <1>6, <1>8 DEF CountsAgree

LEMMA FiguresAgree == DumpInv => DumpFiguresAgree
BY CausesCounted, HoldersHold, CountsMakeAll DEF DumpFiguresAgree

------------------------------------------------------------------------------
(* What a report of a thread dump says, for any dump.                        *)

(* The blocks and the section of the deadlocks are pieces of the dump, and a *)
(* report is made of them (parse_jstack).                                    *)
THEOREM DumpInvariance == ReportsSpec => []DumpInv
<1>1. ReportsInit => DumpInv
  BY DumpInvAtFirst, NothingIsAnInput DEF ReportsInit, NothingDumped, DumpInit
<1>2. [ReportsNext]_reportsVars => [DumpNext]_dumpVars
  BY DEF ReportsNext, reportsVars, dumpVars
<1>3. DumpInv /\ [ReportsNext]_reportsVars => DumpInv'
  BY <1>2, DumpInvKept
<1>4. QED
  BY <1>1, <1>3, PTL DEF ReportsSpec

(* A block begins with the line of its thread and there is one in progress   *)
(* just when a thread is being read; a report has one of three verdicts.     *)
THEOREM DumpTypeCorrect == ReportsSpec => []DumpTypeOK
<1>1. QED
  BY DumpTypes, DumpInvariance, PTL

(* Of a dump in JSON every thread is in the report, however deep its         *)
(* container, under a name of its own (_parse_jstack_json); and a deadlock   *)
(* written before the references makes a report critical (_parse_deadlocks), *)
(* whatever else is in the dump.                                             *)
THEOREM AllThreadsReported == ReportsSpec => [](JsonThreadsAllThere /\ DeadlockIsCritical)
<1>1. DumpInv => JsonThreadsAllThere /\ DeadlockIsCritical
  BY JsonAllThere, DeadlocksReported
<1>2. QED
  BY <1>1, DumpInvariance, PTL

(* A dump as the JVM prints it is reported as it is: every thread with its   *)
(* own state and stack, the deadlock, and the thread that is asked for by    *)
(* its name.                                                                 *)
THEOREM DumpsAreReported ==
    ASSUME Printed
    PROVE  ReportsSpec => []DumpIsReported
<1>1. DumpInv => DumpIsReported
  BY TheirOwn, JsonAllThere, DeadlocksReported, NamedShown DEF DumpIsReported
<1>2. QED
  BY <1>1, DumpInvariance, PTL

(* The figures of a report fit its threads and each other, whatever was      *)
(* uploaded: no thread counts for two causes, the pools and the depths leave *)
(* none out, the holder of a hot lock holds it, and no path of the flame     *)
(* graph is wider than the one it goes on from.                              *)
THEOREM FiguresFit == ReportsSpec => []DumpFiguresAgree
<1>1. DumpInv => DumpFiguresAgree
  BY FiguresAgree
<1>2. QED
  BY <1>1, DumpInvariance, PTL


------------------------------------------------------------------------------
(* Logs of Java 8.                                                           *)

\* Lines in the order of their blocks.
Rising(s) == \A i, j \in DOMAIN s : i <= j => s[i].block <= s[j].block
\* The c-th of some sequences has the lines of block c.
Keyed(seqs) == \A c \in DOMAIN seqs : \A l \in ToSet(seqs[c]) : l.block = c

LEMMA JoinedInOrder ==
    ASSUME NEW S, NEW s \in Seq(S), NEW t \in Seq(S), Rising(s), Rising(t),
           \A l \in ToSet(s) : \A m \in ToSet(t) : l.block <= m.block
    PROVE  Rising(s \o t)
<1>1. /\ s \o t \in Seq(S) /\ Len(s \o t) = Len(s) + Len(t) /\ Len(s) \in Nat /\ Len(t) \in Nat
      /\ \A i \in 1 .. Len(s) + Len(t) : (s \o t)[i] = IF i <= Len(s) THEN s[i] ELSE t[i - Len(s)]
  BY ConcatProperties, LenProperties
<1>2. DOMAIN (s \o t) = 1 .. Len(s) + Len(t) /\ DOMAIN s = 1 .. Len(s) /\ DOMAIN t = 1 .. Len(t)
  BY <1>1, LenProperties
<1> DEFINE both == s \o t
<1> HIDE DEF both
<1>3. \A i \in 1 .. Len(s) : both[i] = s[i] /\ i \in DOMAIN s /\ s[i] \in ToSet(s)
  BY <1>1, <1>2 DEF both, ToSet
<1>4. \A i \in Len(s) + 1 .. Len(s) + Len(t) :
         both[i] = t[i - Len(s)] /\ i - Len(s) \in DOMAIN t /\ t[i - Len(s)] \in ToSet(t)
  BY <1>1, <1>2 DEF both, ToSet
<1>5. ASSUME NEW i \in DOMAIN both, NEW j \in DOMAIN both, i <= j PROVE both[i].block <= both[j].block
  <2>1. i \in 1 .. Len(s) + Len(t) /\ j \in 1 .. Len(s) + Len(t) /\ i \in Nat /\ j \in Nat
    BY <1>1, <1>2 DEF both
  <2>2. CASE j <= Len(s)
    <3>1. i \in 1 .. Len(s) /\ j \in 1 .. Len(s)
      BY <2>1, <2>2, <1>1, <1>5
    <3> QED BY <3>1, <1>3, <1>5 DEF Rising
  <2>3. CASE i <= Len(s) /\ ~(j <= Len(s))
    <3>1. i \in 1 .. Len(s) /\ j \in Len(s) + 1 .. Len(s) + Len(t)
      BY <2>1, <2>3, <1>1
    <3> QED BY <3>1, <1>3, <1>4
  <2>4. CASE ~(i <= Len(s))
    <3>1. i \in Len(s) + 1 .. Len(s) + Len(t) /\ j \in Len(s) + 1 .. Len(s) + Len(t) /\ i - Len(s) <= j - Len(s)
      BY <2>1, <2>4, <1>1, <1>5
    <3> QED BY <3>1, <1>4 DEF Rising
  <2> QED BY <2>2, <2>3, <2>4
<1> QED BY <1>5 DEF Rising, both

LEMMA FlattenedInOrder ==
    ASSUME NEW S, NEW seqs \in Seq(Seq(S)), Keyed(seqs)
    PROVE  Rising(FlattenSeq(seqs))
<1> DEFINE n == Len(seqs)
<1>1. n \in Nat /\ DOMAIN seqs = 1 .. n /\ \A c \in 1 .. n : seqs[c] \in Seq(S)
  BY LenProperties
<1>2. \A c \in 1 .. n : Rising(seqs[c]) /\ \A l \in ToSet(seqs[c]) : l.block = c
  <2> SUFFICES ASSUME NEW c \in 1 .. n PROVE Rising(seqs[c]) /\ \A l \in ToSet(seqs[c]) : l.block = c
    OBVIOUS
  <2>1. \A l \in ToSet(seqs[c]) : l.block = c
    BY <1>1 DEF Keyed
  <2>2. \A i \in DOMAIN seqs[c] : seqs[c][i].block = c
    BY <2>1 DEF ToSet
  <2>3. c <= c
    BY <1>1
  <2> QED BY <2>1, <2>2, <2>3 DEF Rising
<1>3. CASE seqs = <<>>
  <2>1. FlattenSeq(seqs) = <<>>
    BY <1>3 DEF FlattenSeq
  <2> QED BY <2>1 DEF Rising
<1>4. CASE seqs # <<>>
  <2>1. PICK f : f[n] = FlattenSeq(seqs) /\ \A i \in 1 .. n : f[i] = IF i = 1 THEN seqs[i] ELSE f[i - 1] \o seqs[i]
    BY <1>4, FlattenSteps
  <2>2. n # 0
    BY <1>4, EmptySeq
  <2> HIDE DEF n
  <2> DEFINE Q == {k \in 0 .. n : k = 0 \/ (f[k] \in Seq(S) /\ Rising(f[k]) /\ \A l \in ToSet(f[k]) : l.block \in 1 .. k)}
  <2>3. 0 \in Q
    BY <1>1
  <2>4. ASSUME NEW k \in 1 .. n, k - 1 \in Q PROVE k \in Q
    <3>1. CASE k = 1
      <4>1. f[1] = seqs[1] /\ 1 \in 1 .. n
        BY <2>1, <3>1
      <4>2. f[1] \in Seq(S) /\ Rising(f[1]) /\ \A l \in ToSet(f[1]) : l.block \in 1 .. 1
        BY <4>1, <1>1, <1>2
      <4> QED BY <3>1, <4>2
    <3>2. CASE k # 1
      <4>1. f[k - 1] \in Seq(S) /\ Rising(f[k - 1]) /\ \A l \in ToSet(f[k - 1]) : l.block \in 1 .. k - 1
        BY <2>4, <3>2
      <4>2. f[k] = f[k - 1] \o seqs[k] /\ seqs[k] \in Seq(S)
        BY <2>1, <3>2, <1>1
      <4>3. PICK s, t : s = f[k - 1] /\ t = seqs[k]
        OBVIOUS
      <4>4. \A l \in ToSet(s) : \A m \in ToSet(t) : l.block <= m.block
        BY <4>1, <4>3, <1>2
      <4>5. Rising(s \o t)
        BY <4>1, <4>2, <4>3, <4>4, <1>2, JoinedInOrder
      <4>6. s \o t \in Seq(S) /\ ToSet(s \o t) = ToSet(s) \cup ToSet(t)
        BY <4>1, <4>2, <4>3, ConcatProperties, JoinedElements
      <4>7. \A l \in ToSet(s \o t) : l.block \in 1 .. k
        BY <4>1, <4>3, <4>6, <1>2
      <4>8. f[k] = s \o t /\ s \o t \in Seq(S)
        BY <4>1, <4>2, <4>3, <4>6
      <4>9. f[k] \in Seq(S) /\ Rising(f[k]) /\ \A l \in ToSet(f[k]) : l.block \in 1 .. k
        <5> HIDE DEF Q
        <5> QED BY <4>5, <4>7, <4>8
      <4> QED BY <4>9
    <3> QED BY <3>1, <3>2
  <2>5. \A k \in 0 .. n : k \in Q
    <3> HIDE DEF Q
    <3> QED BY <2>3, <2>4, <1>1, Upwards
  <2>6. n \in Q
    BY <2>5, <1>1
  <2> QED BY <2>1, <2>2, <2>6
<1> QED BY <1>3, <1>4

(* The text of a log: lines of its blocks, one block after the other.        *)
LEMMA TextOfBlocks ==
    ASSUME NEW g \in Logs8, NEW t, t = FlattenSeq([n \in DOMAIN g |-> Numbered(n, g[n])])
    PROVE  /\ t \in Seq(ToSet(t)) /\ Rising(t)
           /\ \A l \in ToSet(t) : l.block \in DOMAIN g /\ l.block \in Nat
           /\ \A l \in ToSet(t) : l.block >= 1 /\ \E m \in ToSet(g[l.block].lines) : m.marks = l.marks
<1> DEFINE seqs == [n \in DOMAIN g |-> Numbered(n, g[n])]
<1> DEFINE S == UNION {ToSet(Numbered(n, g[n])) : n \in DOMAIN g}
<1>1. g \in Seq(ToSet(g)) /\ \A b \in ToSet(g) : b.lines \in Seq(ToSet(b.lines))
  BY Log8Assumption DEF Log8Assumption
<1>2. Len(g) \in Nat /\ DOMAIN g = 1 .. Len(g) /\ \A n \in DOMAIN g : g[n] \in ToSet(g)
  BY <1>1, LenProperties DEF ToSet
<1>3. ASSUME NEW n \in DOMAIN g
      PROVE  /\ Numbered(n, g[n]) \in Seq(S)
             /\ \A l \in ToSet(Numbered(n, g[n])) : l.block = n /\ \E m \in ToSet(g[n].lines) : m.marks = l.marks
  <2>1. PICK some : some = Numbered(n, g[n])
    OBVIOUS
  <2>2. Len(g[n].lines) \in Nat /\ DOMAIN g[n].lines = 1 .. Len(g[n].lines)
    BY <1>1, <1>2, LenProperties
  <2>3. DOMAIN some = 1 .. Len(g[n].lines) /\ some = [i \in 1 .. Len(g[n].lines) |-> some[i]]
        /\ \A i \in DOMAIN some : some[i].block = n /\ some[i].marks = g[n].lines[i].marks
    BY <2>1, <2>2 DEF Numbered
  <2>4. \A i \in DOMAIN some : some[i] \in ToSet(some)
    BY DEF ToSet
  <2>5. ToSet(some) \subseteq S
    BY <2>1
  <2> HIDE DEF S
  <2>6. some \in [1 .. Len(g[n].lines) -> S]
    BY <2>3, <2>4, <2>5
  <2>7. some \in Seq(S)
    BY <2>2, <2>6, SeqDef
  <2>8. \A l \in ToSet(some) : l.block = n /\ \E m \in ToSet(g[n].lines) : m.marks = l.marks
    BY <2>2, <2>3 DEF ToSet
  <2> QED BY <2>1, <2>7, <2>8
<1> HIDE DEF S
<1>4. DOMAIN seqs = 1 .. Len(g) /\ \A n \in 1 .. Len(g) : seqs[n] \in Seq(S)
  BY <1>2, <1>3
<1>5. seqs \in [1 .. Len(g) -> Seq(S)]
  BY <1>2, <1>3
<1>6. Keyed(seqs)
  BY <1>3 DEF Keyed
<1> HIDE DEF seqs
<1>7. seqs \in Seq(Seq(S))
  BY <1>2, <1>5, SeqDef
<1>8. t = FlattenSeq(seqs)
  BY DEF seqs
<1>9. t \in Seq(S) /\ ToSet(t) = UNION {ToSet(seqs[c]) : c \in DOMAIN seqs}
  BY <1>7, <1>8, Flattened
<1>10. Rising(t)
  BY <1>6, <1>7, <1>8, FlattenedInOrder
<1>11. /\ \A l \in ToSet(t) : l.block \in DOMAIN g /\ l.block \in Nat
       /\ \A l \in ToSet(t) : l.block >= 1 /\ \E m \in ToSet(g[l.block].lines) : m.marks = l.marks
  <2> SUFFICES ASSUME NEW l \in ToSet(t)
               PROVE  /\ l.block \in DOMAIN g /\ l.block \in Nat
                      /\ l.block >= 1 /\ \E m \in ToSet(g[l.block].lines) : m.marks = l.marks
    OBVIOUS
  <2>1. PICK c \in DOMAIN seqs : l \in ToSet(seqs[c])
    BY <1>9
  <2>2. l.block = c
    BY <2>1, <1>6 DEF Keyed
  <2>3. c \in DOMAIN g /\ seqs[c] = Numbered(c, g[c])
    BY <1>2, <1>4 DEF seqs
  <2> QED BY <2>1, <2>2, <2>3, <1>2, <1>3
<1>12. t \in Seq(ToSet(t))
  <2>1. Len(t) \in Nat /\ DOMAIN t = 1 .. Len(t) /\ t \in [1 .. Len(t) -> S]
    BY <1>9, LenProperties
  <2>2. t \in [1 .. Len(t) -> ToSet(t)]
    BY <2>1 DEF ToSet
  <2> QED BY <2>1, <2>2, SeqDef
<1> QED BY <1>10, <1>11, <1>12

\* The lines of the text, those read, and the next.
TextInv8 ==
    /\ text \in Seq(ToSet(text)) /\ Rising(text)
    /\ \A l \in ToSet(text) : l.block \in DOMAIN blocks /\ l.block \in Nat
    /\ pos \in 0 .. Len(text)

\* The groups are of lines of the text, none is empty, and they begin in the
\* order of the text: before the one in progress and what is still to be read.
GroupsInv8 ==
    /\ st \in {"SEEKING", "IN_HEAP_BEFORE", "IN_HEAP_AFTER", "IN_EVENT", "JDK9"}
    /\ cur \in Seq(ToSet(text))
    /\ raw \in Seq(Seq(ToSet(text)) \ {<<>>})
    /\ at = 0 => (st = "IN_EVENT" => cur # <<>>) /\ (st = "SEEKING" => cur = <<>>)
Begins(g) == Head(g).block
InOrder8 ==
    /\ \A i, j \in DOMAIN raw : i <= j => Begins(raw[i]) <= Begins(raw[j])
    /\ cur # <<>> => \A i \in DOMAIN raw : Begins(raw[i]) <= Begins(cur)
    /\ \A k \in pos + 1 .. Len(text) :
         /\ \A i \in DOMAIN raw : Begins(raw[i]) <= text[k].block
         /\ cur # <<>> => Begins(cur) <= text[k].block

\* The events are of blocks of the log, in its order, and before the groups
\* that are still to be classified.
EventsInv8 ==
    /\ at \in 0 .. Len(raw) + 2
    /\ at = 0 => events8 = <<>>
    /\ \E S : events8 \in Seq(S)
    /\ \A i \in DOMAIN events8 : events8[i].block \in DOMAIN blocks /\ events8[i].block \in Nat
    /\ Rising(events8)
    /\ \A i \in DOMAIN events8, k \in DOMAIN raw : at <= k => events8[i].block <= Begins(raw[k])
    /\ collector8 \in {"None", "Unknown", "G1", "Parallel", "Serial", "CMS"}

(* What holds of a log while it is read and classified.                      *)
Inv8 == TextInv8 /\ GroupsInv8 /\ InOrder8 /\ EventsInv8

LEMMA Inv8AtFirst == Log8Init => Inv8
<1> SUFFICES ASSUME Log8Init PROVE Inv8
  OBVIOUS
<1>1. text \in Seq(ToSet(text)) /\ Rising(text) /\ \A l \in ToSet(text) : l.block \in DOMAIN blocks /\ l.block \in Nat
  BY TextOfBlocks DEF Log8Init
<1>2. Len(text) \in Nat
  BY <1>1, LenProperties
<1>3. TextInv8
  BY <1>1, <1>2 DEF TextInv8, Log8Init
<1>4. \A S : <<>> \in Seq(S) /\ DOMAIN <<>> = {}
  OBVIOUS
<1>5. GroupsInv8 /\ InOrder8
  BY <1>4 DEF GroupsInv8, InOrder8, Log8Init
<1>6. EventsInv8
  <2>1. Len(raw) = 0
    BY DEF Log8Init
  <2> QED BY <1>4, <2>1 DEF EventsInv8, Log8Init, Rising
<1> QED BY <1>3, <1>5, <1>6 DEF Inv8

(* A group more.                                                             *)
LEMMA GroupAdded ==
    ASSUME NEW T, NEW groups \in Seq(Seq(T) \ {<<>>}), NEW g \in Seq(T), g # <<>>,
           NEW more, more = Append(groups, g)
    PROVE  /\ more \in Seq(Seq(T) \ {<<>>})
           /\ \A i \in DOMAIN more : \/ i \in DOMAIN groups /\ more[i] = groups[i]
                                     \/ i = Len(groups) + 1 /\ more[i] = g
           /\ DOMAIN groups = 1 .. Len(groups) /\ Len(groups) \in Nat
<1>1. g \in Seq(T) \ {<<>>}
  OBVIOUS
<1> DEFINE G == Seq(T) \ {<<>>}
<1> HIDE DEF G
<1>2. /\ more \in Seq(G) /\ Len(more) = Len(groups) + 1
      /\ \A i \in 1 .. Len(groups) : more[i] = groups[i]
      /\ more[Len(groups) + 1] = g
  BY <1>1, AppendProperties DEF G
<1>3. DOMAIN groups = 1 .. Len(groups) /\ Len(groups) \in Nat /\ DOMAIN more = 1 .. Len(more)
  BY <1>2, LenProperties DEF G
<1> QED BY <1>2, <1>3 DEF G

\* A sequence with an element more.
Grown(s, e) == Append(s, e)

\* A step of the machine that takes line l: the group in progress becomes next,
\* and the group done is added, if it is not empty.
Steps8(l, done, next) ==
    /\ raw' = IF done = <<>> THEN raw ELSE Grown(raw, done)
    /\ cur' = next
    /\ \/ done = <<>>
       \/ done = cur
       \/ done = Grown(cur, l) /\ cur # <<>>
       \/ done = <<l>> /\ cur = <<>>
    /\ \/ next = <<>>
       \/ next = <<l>>
       \/ next = cur /\ done = <<>>
       \/ next = Grown(cur, l) /\ cur # <<>> /\ done = <<>>
    /\ st' \in {"SEEKING", "IN_HEAP_BEFORE", "IN_HEAP_AFTER", "IN_EVENT"}
    /\ st' = "IN_EVENT" => next # <<>>
    /\ st' = "SEEKING" => next = <<>>

LEMMA ReadIsStep ==
    ASSUME Inv8, ReadLine
    PROVE  \E done, next : Steps8(Line, done, next)
<1>1. at = 0 /\ (st = "IN_EVENT" => cur # <<>>) /\ (st = "SEEKING" => cur = <<>>)
  BY DEF ReadLine, Inv8, GroupsInv8
<1>2. ASSUME NEW l PROVE <<l>> # <<>> /\ Grown(cur, l) # <<>>
  <2>1. cur \in Seq(ToSet(text))
    BY DEF Inv8, GroupsInv8
  <2>2. cur \in Seq(ToSet(text) \cup {l})
    BY <2>1, SeqMonotonic
  <2> QED BY <2>2, AppendProperties DEF Grown
<1>3. CASE EnterHeapBlock
  <2>1. Steps8(Line, <<>>, cur)
    BY <1>1, <1>3 DEF EnterHeapBlock, Steps8
  <2> QED BY <2>1
<1>4. CASE OpenEvent
  <2>1. Steps8(Line, <<>>, <<Line>>)
    BY <1>2, <1>4 DEF OpenEvent, Holds, Steps8
  <2> QED BY <2>1
<1>5. CASE Standalone
  <2>1. Steps8(Line, <<Line>>, cur)
    BY <1>1, <1>2, <1>5 DEF Standalone, Emit, Steps8, Grown
  <2> QED BY <2>1
<1>6. CASE Ignore
  <2>1. Steps8(Line, <<>>, cur)
    BY <1>1, <1>6 DEF Ignore, Steps8
  <2> QED BY <2>1
<1>7. CASE LeaveHeapBlock
  <2>1. Steps8(Line, cur, <<>>)
    BY <1>7 DEF LeaveHeapBlock, Emit, Holds, Steps8, Grown
  <2> QED BY <2>1
<1>8. CASE Continue
  <2>1. Steps8(Line, <<>>, Grown(cur, Line))
    BY <1>1, <1>2, <1>8 DEF Continue, Steps8, Grown
  <2> QED BY <2>1
<1>9. CASE Reopen
  <2>1. Steps8(Line, cur, <<Line>>)
    BY <1>2, <1>9 DEF Reopen, Emit, Holds, Steps8, Grown
  <2> QED BY <2>1
<1>10. CASE CloseEvent
  <2>1. Steps8(Line, Grown(cur, Line), <<>>)
    BY <1>1, <1>10 DEF CloseEvent, Emit, Holds, Steps8, Grown
  <2> QED BY <2>1
<1>11. CASE Suspend
  <2>1. Steps8(Line, <<>>, cur)
    BY <1>11 DEF Suspend, Steps8
  <2> QED BY <2>1
<1>12. CASE Interrupt
  <2>1. Steps8(Line, cur, <<>>)
    BY <1>12 DEF Interrupt, Emit, Holds, Steps8, Grown
  <2> QED BY <2>1
<1> QED BY <1>3, <1>4, <1>5, <1>6, <1>7, <1>8, <1>9, <1>10, <1>11, <1>12 DEF ReadLine

LEMMA GroupHeads ==
    ASSUME NEW T, NEW g \in Seq(T), NEW l \in T
    PROVE  /\ g # <<>> => Head(g) \in T /\ Head(Grown(g, l)) = Head(g)
           /\ Grown(g, l) \in Seq(T) /\ Grown(g, l) # <<>>
           /\ <<l>> \in Seq(T) /\ <<l>> # <<>> /\ Head(<<l>>) = l
<1>1. Append(g, l) \in Seq(T) /\ Append(g, l) # <<>>
  BY AppendProperties
<1>2. g # <<>> => Head(g) \in T
  BY HeadTailProperties
<1>3. g # <<>> => Head(Append(g, l)) = Head(g)
  <2> SUFFICES ASSUME g # <<>> PROVE Head(Append(g, l)) = Head(g)
    OBVIOUS
  <2>1. Len(g) \in Nat /\ Len(g) # 0
    BY LenProperties, EmptySeq
  <2>2. Append(g, l)[1] = g[1]
    BY <2>1, AppendProperties
  <2> QED BY <2>1, <2>2, <1>1
<1> QED BY <1>1, <1>2, <1>3 DEF Grown

LEMMA ReadKeeps8 ==
    ASSUME Inv8, ReadLine
    PROVE  Inv8'
<1>1. PICK done, next : Steps8(Line, done, next)
  BY ReadIsStep
<1>2. PICK l : l = Line
  OBVIOUS
<1>3. PICK T : T = ToSet(text)
  OBVIOUS
<1>4. PICK n : n = Len(text)
  OBVIOUS
<1>5. /\ pos < n /\ pos' = pos + 1 /\ at = 0 /\ events8 = <<>>
      /\ UNCHANGED <<blocks, text, at, events8, gens, collector8>>
  BY <1>4 DEF ReadLine, Inv8, EventsInv8
<1>6. n \in Nat /\ pos \in 0 .. n - 1 /\ DOMAIN text = 1 .. n /\ l = text[pos + 1] /\ l \in T
  <2>1. n \in Nat /\ pos \in 0 .. n - 1 /\ DOMAIN text = 1 .. n
    BY <1>4, <1>5, LenProperties DEF Inv8, TextInv8
  <2>2. l = text[pos + 1] /\ pos + 1 \in DOMAIN text
    BY <2>1, <1>2 DEF Line
  <2> QED BY <2>1, <2>2, <1>3 DEF ToSet
<1>7. TextInv8'
  BY <1>4, <1>5, <1>6 DEF Inv8, TextInv8
<1>8. l.block \in Nat /\ \A k \in pos + 2 .. n : l.block <= text[k].block
  <2>1. l.block \in Nat
    BY <1>3, <1>6 DEF Inv8, TextInv8
  <2>2. \A k \in pos + 2 .. n : pos + 1 \in DOMAIN text /\ k \in DOMAIN text /\ pos + 1 <= k
    BY <1>6
  <2> QED BY <2>1, <2>2, <1>6 DEF Inv8, TextInv8, Rising
<1>9. \A k \in pos + 2 .. n : text[k].block \in Nat
  <2>1. \A k \in pos + 2 .. n : k \in DOMAIN text
    BY <1>6
  <2> QED BY <2>1 DEF Inv8, TextInv8, ToSet
<1>10. raw \in Seq(Seq(T) \ {<<>>}) /\ cur \in Seq(T)
  BY <1>3 DEF Inv8, GroupsInv8
<1>10a. cur # <<>> => Grown(cur, l) \in Seq(T) /\ Head(Grown(cur, l)) = Head(cur)
  BY <1>6, <1>10, GroupHeads
<1>11. ASSUME NEW g \in Seq(T), g # <<>> PROVE Begins(g) \in Nat
  <2>1. Head(g) \in T
    BY <1>6, <1>11, GroupHeads
  <2> QED BY <2>1, <1>3 DEF Begins, Inv8, TextInv8
<1>12. DOMAIN raw = 1 .. Len(raw) /\ Len(raw) \in Nat /\ \A i \in DOMAIN raw : raw[i] \in Seq(T) /\ raw[i] # <<>>
  BY <1>10, LenProperties
<1>13. /\ \A i \in DOMAIN raw : Begins(raw[i]) <= l.block
       /\ cur # <<>> => Begins(cur) <= l.block
  <2>1. pos + 1 \in pos + 1 .. Len(text)
    BY <1>4, <1>6
  <2> QED BY <2>1, <1>6 DEF Inv8, InOrder8
<1>14. /\ done \in Seq(T)
       /\ done # <<>> => Begins(done) \in Nat /\ Begins(done) <= l.block
                         /\ \A i \in DOMAIN raw : Begins(raw[i]) <= Begins(done)
  <2>1. CASE done = <<>>
    BY <2>1
  <2>2. CASE done = cur \/ (done = Grown(cur, l) /\ cur # <<>>)
    <3>1. done \in Seq(T) /\ (done # <<>> => cur # <<>> /\ Begins(done) = Begins(cur))
      BY <2>2, <1>10, <1>10a DEF Begins
    <3> QED BY <3>1, <1>10, <1>11, <1>13 DEF Inv8, InOrder8
  <2>3. CASE done = <<l>>
    <3>1. done \in Seq(T) /\ Begins(done) = l.block
      BY <2>3, <1>6, <1>10, GroupHeads DEF Begins
    <3> QED BY <3>1, <1>8, <1>13
  <2> QED BY <2>1, <2>2, <2>3, <1>1, <1>2 DEF Steps8
<1>15. /\ next \in Seq(T)
       /\ next # <<>> => \/ Begins(next) = l.block
                         \/ cur # <<>> /\ Begins(next) = Begins(cur) /\ done = <<>>
  <2>1. CASE next = <<>>
    BY <2>1
  <2>2. CASE done = <<>> /\ (next = cur \/ (next = Grown(cur, l) /\ cur # <<>>))
    BY <2>2, <1>10, <1>10a DEF Begins
  <2>3. CASE next = <<l>>
    BY <2>3, <1>6, <1>10, GroupHeads DEF Begins
  <2> QED BY <2>1, <2>2, <2>3, <1>1, <1>2 DEF Steps8
<1>16. /\ raw' \in Seq(Seq(T) \ {<<>>}) /\ cur' = next
       /\ \A i \in DOMAIN raw' : \/ i \in DOMAIN raw /\ raw'[i] = raw[i]
                                 \/ i = Len(raw) + 1 /\ done # <<>> /\ raw'[i] = done
  <2>1. cur' = next /\ raw' = IF done = <<>> THEN raw ELSE Append(raw, done)
    BY <1>1 DEF Steps8, Grown
  <2>2. CASE done = <<>>
    BY <2>1, <2>2, <1>10
  <2>3. CASE done # <<>>
    <3>1. PICK more : more = Append(raw, done)
      OBVIOUS
    <3>2. /\ more \in Seq(Seq(T) \ {<<>>})
          /\ \A i \in DOMAIN more : \/ i \in DOMAIN raw /\ more[i] = raw[i]
                                    \/ i = Len(raw) + 1 /\ more[i] = done
      BY <3>1, <2>3, <1>10, <1>14, GroupAdded
    <3> QED BY <2>1, <2>3, <3>1, <3>2
  <2> QED BY <2>2, <2>3
<1>17. st' \in {"SEEKING", "IN_HEAP_BEFORE", "IN_HEAP_AFTER", "IN_EVENT"}
       /\ (st' = "IN_EVENT" => next # <<>>) /\ (st' = "SEEKING" => next = <<>>)
  BY <1>1 DEF Steps8
<1>18. GroupsInv8'
  BY <1>3, <1>5, <1>15, <1>16, <1>17 DEF GroupsInv8
<1>19. \A i \in DOMAIN raw' : Begins(raw'[i]) \in Nat /\ Begins(raw'[i]) <= l.block
  BY <1>11, <1>12, <1>13, <1>14, <1>16
<1>20. \A i, j \in DOMAIN raw' : i <= j => Begins(raw'[i]) <= Begins(raw'[j])
  <2> SUFFICES ASSUME NEW i \in DOMAIN raw', NEW j \in DOMAIN raw', i <= j PROVE Begins(raw'[i]) <= Begins(raw'[j])
    OBVIOUS
  <2>1. CASE i \in DOMAIN raw /\ j \in DOMAIN raw /\ raw'[i] = raw[i] /\ raw'[j] = raw[j]
    BY <2>1, <1>12 DEF Inv8, InOrder8
  <2>2. CASE i \in DOMAIN raw /\ raw'[i] = raw[i] /\ done # <<>> /\ raw'[j] = done
    BY <2>2, <1>14
  <2>3. CASE i = Len(raw) + 1 /\ j \in DOMAIN raw
    BY <2>3, <1>12
  <2>4. CASE raw'[i] = done /\ raw'[j] = done
    BY <2>4, <1>19
  <2> QED BY <2>1, <2>2, <2>3, <2>4, <1>16
<1>21. next # <<>> => \A i \in DOMAIN raw' : Begins(raw'[i]) <= Begins(next)
  <2>1. CASE Begins(next) = l.block
    BY <2>1, <1>19
  <2>2. CASE cur # <<>> /\ Begins(next) = Begins(cur) /\ done = <<>>
    BY <2>2, <1>16 DEF Inv8, InOrder8
  <2> QED BY <2>1, <2>2, <1>15
<1>22. next # <<>> => Begins(next) \in Nat /\ Begins(next) <= l.block
  BY <1>8, <1>11, <1>13, <1>15
<1>23. \A k \in pos + 2 .. n :
          /\ \A i \in DOMAIN raw' : Begins(raw'[i]) <= text[k].block
          /\ next # <<>> => Begins(next) <= text[k].block
  BY <1>8, <1>9, <1>19, <1>22
<1>24. InOrder8'
  <2>1. (pos + 1) + 1 = pos + 2
    BY <1>6
  <2> QED BY <2>1, <1>4, <1>5, <1>16, <1>20, <1>21, <1>23 DEF InOrder8, Begins
<1>25. EventsInv8'
  <2>1. Len(raw') \in Nat
    BY <1>16, LenProperties
  <2>2. \A S : <<>> \in Seq(S) /\ DOMAIN <<>> = {}
    OBVIOUS
  <2>3. events8' = <<>> /\ at' = 0 /\ collector8' = collector8
    BY <1>5
  <2> QED BY <2>1, <2>2, <2>3 DEF EventsInv8, Rising, Inv8
<1> QED BY <1>7, <1>18, <1>24, <1>25 DEF Inv8

LEMMA EndKeeps8 ==
    ASSUME Inv8, EndOfText
    PROVE  Inv8'
<1>1. /\ at = 0 /\ at' = 1 /\ pos = Len(text) /\ cur' = <<>> /\ events8 = <<>>
      /\ raw' = IF cur = <<>> THEN raw ELSE Append(raw, cur)
      /\ UNCHANGED <<blocks, text, pos, st, depth, events8, gens, collector8>>
  BY DEF EndOfText, Emit, Inv8, EventsInv8
<1>2. PICK T : T = ToSet(text)
  OBVIOUS
<1>3. raw \in Seq(Seq(T) \ {<<>>}) /\ cur \in Seq(T)
  BY <1>2 DEF Inv8, GroupsInv8
<1>4. TextInv8' /\ Len(text) \in Nat
  BY <1>1, LenProperties DEF Inv8, TextInv8
<1>5. /\ raw' \in Seq(Seq(T) \ {<<>>})
      /\ \A i \in DOMAIN raw' : \/ i \in DOMAIN raw /\ raw'[i] = raw[i]
                                \/ i = Len(raw) + 1 /\ cur # <<>> /\ raw'[i] = cur
  <2>1. CASE cur = <<>>
    BY <1>1, <1>3, <2>1
  <2>2. CASE cur # <<>>
    <3>1. PICK more : more = Append(raw, cur)
      OBVIOUS
    <3>2. /\ more \in Seq(Seq(T) \ {<<>>})
          /\ \A i \in DOMAIN more : \/ i \in DOMAIN raw /\ more[i] = raw[i]
                                    \/ i = Len(raw) + 1 /\ more[i] = cur
      BY <3>1, <2>2, <1>3, GroupAdded
    <3> QED BY <1>1, <2>2, <3>1, <3>2
  <2> QED BY <2>1, <2>2
<1>6. GroupsInv8'
  <2>1. <<>> \in Seq(T)
    OBVIOUS
  <2> QED BY <2>1, <1>1, <1>2, <1>5 DEF Inv8, GroupsInv8
<1>7. DOMAIN raw = 1 .. Len(raw) /\ Len(raw) \in Nat
  BY <1>3, LenProperties
<1>8. \A i, j \in DOMAIN raw' : i <= j => Begins(raw'[i]) <= Begins(raw'[j])
  <2> SUFFICES ASSUME NEW i \in DOMAIN raw', NEW j \in DOMAIN raw', i <= j PROVE Begins(raw'[i]) <= Begins(raw'[j])
    OBVIOUS
  <2>1. CASE i \in DOMAIN raw /\ j \in DOMAIN raw /\ raw'[i] = raw[i] /\ raw'[j] = raw[j]
    BY <2>1, <1>7 DEF Inv8, InOrder8
  <2>2. CASE i \in DOMAIN raw /\ raw'[i] = raw[i] /\ cur # <<>> /\ raw'[j] = cur
    BY <2>2 DEF Inv8, InOrder8
  <2>3. CASE i = Len(raw) + 1 /\ j \in DOMAIN raw
    BY <2>3, <1>7
  <2>4. CASE cur # <<>> /\ raw'[i] = cur /\ raw'[j] = cur
    <3>1. Head(cur) \in T
      BY <2>4, <1>3, HeadTailProperties
    <3>2. Begins(cur) \in Nat
      BY <3>1, <1>2 DEF Begins, Inv8, TextInv8
    <3> QED BY <2>4, <3>2
  <2> QED BY <2>1, <2>2, <2>3, <2>4, <1>5
<1>9. InOrder8'
  <2>1. pos + 1 .. Len(text) = {}
    BY <1>1, <1>4
  <2> QED BY <2>1, <1>1, <1>8 DEF InOrder8, Begins
<1>10. EventsInv8'
  <2>1. Len(raw') \in Nat
    BY <1>5, LenProperties
  <2>2. \A S : <<>> \in Seq(S) /\ DOMAIN <<>> = {}
    OBVIOUS
  <2> QED BY <1>1, <2>1, <2>2 DEF EventsInv8, Rising, Inv8
<1> QED BY <1>4, <1>6, <1>9, <1>10 DEF Inv8

(* The group that closes a Full GC is a later one.                           *)
LEMMA ClosingIsLater ==
    ASSUME NEW i \in DOMAIN raw, raw \in Seq(Seq(ToSet(text)) \ {<<>>}), ClosingGroup(i) # 0
    PROVE  ClosingGroup(i) \in i + 1 .. Len(raw)
<1> DEFINE to == IF i + LookAhead - 1 < Len(raw) THEN i + LookAhead - 1 ELSE Len(raw)
<1> DEFINE Fit == {j \in i + 1 .. to : FirstHeap(raw[j]) # 0
                                       /\ \E k \in FirstHeap(raw[j]) .. Len(raw[j]) :
                                              raw[j][k].marks \cap {"close", "times"} # {}}
<1>1. ClosingGroup(i) = IF Fit # {} THEN Min(Fit) ELSE 0
  BY DEF ClosingGroup, SelectInSubSeq
<1>2. Len(raw) \in Nat /\ i \in 1 .. Len(raw) /\ LookAhead \in Nat
  BY LenProperties, Log8Assumption DEF Log8Assumption
<1>3. Fit \in SUBSET (i + 1 .. Len(raw)) /\ Fit # {}
  <2>1. to \in Int /\ to <= Len(raw)
    BY <1>2
  <2> HIDE DEF to
  <2>2. \A j \in Fit : j \in i + 1 .. Len(raw)
    BY <2>1, <1>2
  <2>3. Fit # {}
    BY <1>1
  <2> HIDE DEF Fit
  <2> QED BY <2>2, <2>3
<1>4. Min(Fit) \in Fit
  <2> HIDE DEF Fit
  <2>1. Fit \in SUBSET Nat
    BY <1>2, <1>3
  <2>2. PICK x \in Fit : \A y \in Fit : x <= y
    BY <2>1, <1>3, Least
  <2> QED BY <2>2 DEF Min
<1> HIDE DEF Fit
<1> QED BY <1>1, <1>3, <1>4

\* A step of the loop that takes the group and gives an event of it, or none.
Passes8(i, e) ==
    /\ i \in at + 1 .. Len(raw) + 1 /\ at' = i
    /\ e.block = Begins(raw[at])
    /\ events8' = events8 \/ events8' = events8 \o <<e>>

LEMMA PassIsOne ==
    ASSUME NEW i, NEW new, Pass(i, new), i \in at + 1 .. Len(raw) + 1,
           \/ new = <<>>
           \/ \E cat, heap, time : new = <<Event8(cat, raw[at], heap, time)>>,
           \E S : events8 \in Seq(S)
    PROVE  \E e : Passes8(i, e)
<1>1. CASE new = <<>>
  <2>1. events8 \o <<>> = events8
    BY ConcatEmptySeq
  <2>2. events8' = events8 /\ at' = i
    BY <1>1, <2>1 DEF Pass
  <2>3. Event8("Full", raw[at], 0, 0).block = Begins(raw[at])
    BY DEF Event8, Begins
  <2> QED BY <2>2, <2>3 DEF Passes8
<1>2. CASE \E cat, heap, time : new = <<Event8(cat, raw[at], heap, time)>>
  <2>1. PICK cat, heap, time : new = <<Event8(cat, raw[at], heap, time)>>
    BY <1>2
  <2>2. Event8(cat, raw[at], heap, time).block = Begins(raw[at])
    BY DEF Event8, Begins
  <2>3. events8' = events8 \o <<Event8(cat, raw[at], heap, time)>> /\ at' = i
    BY <2>1 DEF Pass
  <2> QED BY <2>2, <2>3 DEF Passes8
<1> QED BY <1>1, <1>2

LEMMA CollectorsNamed ==
    /\ \A names : Collector(names) \in {"None", "Parallel", "Serial", "CMS"}
    /\ \A a, b : First(a, b) \in {a, b}
BY DEF Collector, First

LEMMA ClassifyIsPass ==
    ASSUME Inv8, ClassifyGroup
    PROVE  /\ \E i, e : Passes8(i, e)
           /\ collector8' \in {"None", "Unknown", "G1", "Parallel", "Serial", "CMS"}
           /\ UNCHANGED <<blocks, text, pos, st, cur, depth, raw>>
<1>1. at \in DOMAIN raw /\ raw \in Seq(Seq(ToSet(text)) \ {<<>>})
      /\ collector8 \in {"None", "Unknown", "G1", "Parallel", "Serial", "CMS"}
      /\ \E S : events8 \in Seq(S)
  BY DEF ClassifyGroup, Inv8, GroupsInv8, EventsInv8
<1>2. at + 1 \in at + 1 .. Len(raw) + 1 /\ at \in 1 .. Len(raw) /\ Len(raw) \in Nat
  BY <1>1, LenProperties
<1>3. ClosingGroup(at) # 0 => ClosingGroup(at) + 1 \in at + 1 .. Len(raw) + 1
  <2> SUFFICES ASSUME ClosingGroup(at) # 0 PROVE ClosingGroup(at) + 1 \in at + 1 .. Len(raw) + 1
    OBVIOUS
  <2>1. ClosingGroup(at) \in at + 1 .. Len(raw)
    BY <1>1, ClosingIsLater
  <2> QED BY <2>1, <1>2
<1>4. ASSUME NEW new, Pass(at + 1, new),
             \/ new = <<>>
             \/ \E cat, heap, time : new = <<Event8(cat, raw[at], heap, time)>>
      PROVE  \E i, e : Passes8(i, e)
  <2>1. PICK i : i = at + 1
    OBVIOUS
  <2>2. Pass(i, new) /\ i \in at + 1 .. Len(raw) + 1
    BY <2>1, <1>2, <1>4
  <2>3. \E e : Passes8(i, e)
    BY <2>2, <1>1, <1>4, PassIsOne
  <2> QED BY <2>3
<1>5. ASSUME NEW cat, NEW heap, NEW time, Pass(at + 1, <<Event8(cat, Group, heap, time)>>)
      PROVE  \E i, e : Passes8(i, e)
  <2>1. PICK new : new = <<Event8(cat, raw[at], heap, time)>>
    OBVIOUS
  <2> QED BY <2>1, <1>4, <1>5 DEF Group
<1>6. ASSUME Pass(at + 1, <<>>) PROVE \E i, e : Passes8(i, e)
  BY <1>4, <1>6
<1>7. ASSUME NEW new, NEW i, Pass(i, new) PROVE UNCHANGED <<blocks, text, pos, st, cur, depth, raw>>
  BY <1>7 DEF Pass
<1>8. CASE SkipGroup
  BY <1>1, <1>6, <1>7, <1>8 DEF SkipGroup
<1>9. CASE FullGc
  <2>1. CASE HeapOf(Group) # 0
    BY <2>1, <1>1, <1>5, <1>7, <1>9 DEF FullGc
  <2>2. CASE HeapOf(Group) = 0 /\ ClosingGroup(at) # 0
    <3>1. PICK j : j = ClosingGroup(at)
      OBVIOUS
    <3>2. PICK new : new = <<Event8("Full", raw[at], FirstHeapOf(raw[j]), ClosingTime(raw[j]))>>
      OBVIOUS
    <3>3. Pass(j + 1, new) /\ collector8' = collector8
      BY <2>2, <3>1, <3>2, <1>9 DEF FullGc, Group
    <3>4. PICK i : i = j + 1
      OBVIOUS
    <3>5. Pass(i, new) /\ i \in at + 1 .. Len(raw) + 1
      BY <2>2, <3>1, <3>3, <3>4, <1>3
    <3>6. \E e : Passes8(i, e)
      BY <3>2, <3>5, <1>1, PassIsOne
    <3> QED BY <3>3, <3>5, <3>6, <1>1, <1>7
  <2>3. CASE HeapOf(Group) = 0 /\ ClosingGroup(at) = 0
    BY <2>3, <1>1, <1>6, <1>7, <1>9 DEF FullGc
  <2> QED BY <2>1, <2>2, <2>3
<1>10. CASE Concurrent
  <2>1. PICK time : Pass(at + 1, <<Event8("Concurrent", Group, 0, time)>>)
    BY <1>10 DEF Concurrent
  <2> QED BY <2>1, <1>1, <1>5, <1>7, <1>10 DEF Concurrent
<1>11. CASE Deduplication
  BY <1>1, <1>5, <1>7, <1>11 DEF Deduplication
<1>12. CASE MarkStart
  <2>1. collector8' \in {collector8, "G1"}
    BY <1>12, CollectorsNamed DEF MarkStart
  <2> QED BY <2>1, <1>1, <1>5, <1>7, <1>12 DEF MarkStart
<1>13. CASE Remark
  <2>1. PICK time : Pass(at + 1, <<Event8("Remark", Group, 0, time)>>)
    BY <1>13 DEF Remark
  <2> QED BY <2>1, <1>1, <1>5, <1>7, <1>13 DEF Remark
<1>14. CASE G1Pause
  <2>1. collector8' \in {collector8, "G1"}
    BY <1>14, CollectorsNamed DEF G1Pause
  <2> QED BY <2>1, <1>1, <1>5, <1>7, <1>14 DEF G1Pause
<1>15. CASE Cleanup
  BY <1>1, <1>5, <1>7, <1>15 DEF Cleanup
<1>16. CASE Generational
  <2>1. collector8' \in {collector8, Collector(Seen)}
    BY <1>16, CollectorsNamed DEF Generational
  <2>2. Collector(Seen) \in {"None", "Parallel", "Serial", "CMS"}
    BY CollectorsNamed
  <2>3. \E cat : Pass(at + 1, <<>>) \/ Pass(at + 1, <<Event8(cat, Group, HeapOf(Group), TimeOf(Group))>>)
    BY <1>16 DEF Generational
  <2> QED BY <2>1, <2>2, <2>3, <1>1, <1>5, <1>6, <1>7
<1>17. CASE NoBranch
  BY <1>1, <1>6, <1>7, <1>17 DEF NoBranch
<1> QED BY <1>8, <1>9, <1>10, <1>11, <1>12, <1>13, <1>14, <1>15, <1>16, <1>17 DEF ClassifyGroup

\* A list with an event more, which is not of an earlier block.
OneMoreEvent(evs, e) == evs \o <<e>>
NoneLater(evs, e) == e.block \in Nat /\ \A i \in DOMAIN evs : evs[i].block <= e.block

(* An event more, not of an earlier block.                                   *)
LEMMA EventAdded ==
    ASSUME NEW S, NEW evs \in Seq(S), Rising(evs), NEW e, NoneLater(evs, e),
           NEW more, more = OneMoreEvent(evs, e)
    PROVE  /\ (\E U : more \in Seq(U)) /\ Rising(more)
           /\ \A i \in DOMAIN more : \/ i \in DOMAIN evs /\ more[i] = evs[i]
                                     \/ more[i] = e
<1> DEFINE T == S \cup {e}
<1>1. evs \in Seq(T) /\ <<e>> \in Seq(T)
  BY SeqMonotonic
<1> HIDE DEF T
<1>2. /\ more \in Seq(T) /\ Len(more) = Len(evs) + 1 /\ Len(evs) \in Nat
      /\ \A i \in 1 .. Len(evs) + 1 : more[i] = IF i <= Len(evs) THEN evs[i] ELSE <<e>>[i - Len(evs)]
  BY <1>1, ConcatProperties, LenProperties DEF OneMoreEvent
<1>3. DOMAIN more = 1 .. Len(evs) + 1 /\ DOMAIN evs = 1 .. Len(evs)
  BY <1>1, <1>2, LenProperties
<1>4. ASSUME NEW i \in DOMAIN more
      PROVE  \/ i \in DOMAIN evs /\ more[i] = evs[i]
             \/ i = Len(evs) + 1 /\ more[i] = e
  <2>1. CASE i <= Len(evs)
    BY <2>1, <1>2, <1>3
  <2>2. CASE ~(i <= Len(evs))
    <3>1. i = Len(evs) + 1 /\ i - Len(evs) = 1
      BY <2>2, <1>2, <1>3
    <3> QED BY <3>1, <2>2, <1>2
  <2> QED BY <2>1, <2>2
<1>5. Rising(more)
  <2> SUFFICES ASSUME NEW i \in DOMAIN more, NEW j \in DOMAIN more, i <= j PROVE more[i].block <= more[j].block
    BY DEF Rising
  <2>1. CASE i \in DOMAIN evs /\ more[i] = evs[i] /\ j \in DOMAIN evs /\ more[j] = evs[j]
    BY <2>1 DEF Rising
  <2>2. CASE i \in DOMAIN evs /\ more[i] = evs[i] /\ more[j] = e
    BY <2>2 DEF NoneLater
  <2>3. CASE i = Len(evs) + 1 /\ j \in DOMAIN evs
    BY <2>3, <1>2, <1>3
  <2>4. CASE more[i] = e /\ more[j] = e
    BY <2>4 DEF NoneLater
  <2> QED BY <2>1, <2>2, <2>3, <2>4, <1>4
<1> QED BY <1>2, <1>4, <1>5

LEMMA ClassifyKeeps8 ==
    ASSUME Inv8, ClassifyGroup
    PROVE  Inv8'
<1>1. PICK to, e : Passes8(to, e)
  BY ClassifyIsPass
<1>2. /\ UNCHANGED <<blocks, text, pos, st, cur, depth, raw>> /\ at' = to
      /\ collector8' \in {"None", "Unknown", "G1", "Parallel", "Serial", "CMS"}
  BY <1>1, ClassifyIsPass DEF Passes8
<1>3. at \in DOMAIN raw /\ raw \in Seq(Seq(ToSet(text)) \ {<<>>})
  BY DEF ClassifyGroup, Inv8, GroupsInv8
<1>4. DOMAIN raw = 1 .. Len(raw) /\ Len(raw) \in Nat /\ raw[at] \in Seq(ToSet(text)) /\ raw[at] # <<>>
  BY <1>3, LenProperties
<1>5. to \in at + 1 .. Len(raw) + 1 /\ at \in 1 .. Len(raw)
  BY <1>1, <1>3, <1>4 DEF Passes8
<1>6. e.block \in DOMAIN blocks /\ e.block \in Nat /\ e.block = Begins(raw[at])
  <2>1. Head(raw[at]) \in ToSet(text)
    BY <1>4, HeadTailProperties
  <2> QED BY <2>1, <1>1 DEF Passes8, Begins, Inv8, TextInv8
<1>7. TextInv8' /\ InOrder8'
  BY <1>2 DEF Inv8, TextInv8, InOrder8, Begins
<1>8. GroupsInv8'
  BY <1>2, <1>4, <1>5 DEF Inv8, GroupsInv8
<1>9. PICK S : events8 \in Seq(S)
  BY DEF Inv8, EventsInv8
<1>10. \A k \in DOMAIN raw : to <= k => e.block <= Begins(raw[k]) /\ at <= k
  BY <1>3, <1>4, <1>5, <1>6 DEF Inv8, InOrder8
<1>11. \A i \in DOMAIN events8 : events8[i].block <= e.block
  BY <1>3, <1>4, <1>6 DEF Inv8, EventsInv8
<1>12. /\ \E U : events8' \in Seq(U)
       /\ Rising(events8')
       /\ \A i \in DOMAIN events8' : \/ i \in DOMAIN events8 /\ events8'[i] = events8[i]
                                     \/ events8'[i] = e
  <2>1. CASE events8' = events8
    BY <2>1, <1>9 DEF Inv8, EventsInv8
  <2>2. CASE events8' = events8 \o <<e>>
    <3>1. PICK more : more = events8 \o <<e>>
      OBVIOUS
    <3>2. Rising(events8)
      BY DEF Inv8, EventsInv8
    <3>3. /\ (\E U : more \in Seq(U)) /\ Rising(more)
          /\ \A i \in DOMAIN more : \/ i \in DOMAIN events8 /\ more[i] = events8[i]
                                    \/ more[i] = e
      <4>1. PICK evs : evs = events8
        OBVIOUS
      <4>2. evs \in Seq(S) /\ Rising(evs) /\ more = OneMoreEvent(evs, e) /\ NoneLater(evs, e)
        BY <3>1, <3>2, <4>1, <1>6, <1>9, <1>11 DEF NoneLater, OneMoreEvent
      <4>3. /\ (\E U : more \in Seq(U)) /\ Rising(more)
            /\ \A i \in DOMAIN more : \/ i \in DOMAIN evs /\ more[i] = evs[i]
                                      \/ more[i] = e
        BY <4>2, EventAdded
      <4> QED BY <4>1, <4>3
    <3> QED BY <2>2, <3>1, <3>3
  <2> QED BY <2>1, <2>2, <1>1 DEF Passes8
<1>13. \A i \in DOMAIN events8' : events8'[i].block \in DOMAIN blocks /\ events8'[i].block \in Nat
  BY <1>6, <1>12 DEF Inv8, EventsInv8
<1>14. \A i \in DOMAIN events8', k \in DOMAIN raw : to <= k => events8'[i].block <= Begins(raw[k])
  BY <1>10, <1>12 DEF Inv8, EventsInv8
<1>15. to \in 0 .. Len(raw) + 2 /\ to # 0
  BY <1>4, <1>5
<1>16. EventsInv8'
  BY <1>2, <1>12, <1>13, <1>14, <1>15 DEF EventsInv8, Begins, Rising
<1> QED BY <1>7, <1>8, <1>16 DEF Inv8

LEMMA InferKeeps8 ==
    ASSUME Inv8, InferCollector
    PROVE  Inv8'
<1>1. at = Len(raw) + 1 /\ at' = at + 1 /\ UNCHANGED <<blocks, text, pos, st, cur, depth, raw, events8, gens>>
  BY DEF InferCollector
<1>2. Len(raw) \in Nat
  BY LenProperties DEF Inv8, GroupsInv8
<1>3. collector8' \in {"None", "Unknown", "G1", "Parallel", "Serial", "CMS"}
  <2> DEFINE C == {"None", "Unknown", "G1", "Parallel", "Serial", "CMS"}
  <2>1. \A a \in C, b \in C : First(a, b) \in C
    BY CollectorsNamed
  <2>2. \A f : \A c \in C : Flagged(f, c) \in C
    BY DEF Flagged
  <2>3. Collector(gens) \in C /\ collector8 \in C /\ LastGuess \in C
    BY CollectorsNamed DEF Inv8, EventsInv8, LastGuess
  <2>4. "CMS" \in C /\ "G1" \in C /\ "Parallel" \in C /\ "Serial" \in C
    OBVIOUS
  <2>5. C = {"None", "Unknown", "G1", "Parallel", "Serial", "CMS"}
    OBVIOUS
  <2> HIDE DEF C
  <2>6. PICK a : a = First(Collector(gens), LastGuess)
    OBVIOUS
  <2>7. PICK b : b = First(Flagged("UseParallel", "Parallel"), First(Flagged("UseSerial", "Serial"), a))
    OBVIOUS
  <2>8. PICK c : c = First(collector8, First(Flagged("UseG1", "G1"), b))
    OBVIOUS
  <2>9. collector8' = First(Flagged("UseCMS", "CMS"), c)
    BY <2>6, <2>7, <2>8 DEF InferCollector
  <2>10. a \in C
    BY <2>1, <2>3, <2>6
  <2>11. b \in C
    BY <2>1, <2>2, <2>4, <2>7, <2>10
  <2>12. c \in C
    BY <2>1, <2>2, <2>3, <2>4, <2>8, <2>11
  <2> QED BY <2>1, <2>2, <2>4, <2>5, <2>9, <2>12
<1>4. TextInv8' /\ GroupsInv8' /\ InOrder8'
  BY <1>1, <1>2 DEF Inv8, TextInv8, GroupsInv8, InOrder8, Begins
<1>5. EventsInv8'
  <2>1. at + 1 \in 0 .. Len(raw) + 2 /\ at + 1 # 0
    BY <1>1, <1>2
  <2>2. \A k \in DOMAIN raw : ~(at + 1 <= k)
    BY <1>1, <1>2, LenProperties DEF Inv8, GroupsInv8
  <2> QED BY <2>1, <2>2, <1>1, <1>3 DEF Inv8, EventsInv8, Begins, Rising
<1> QED BY <1>4, <1>5 DEF Inv8

LEMMA Inv8Kept == Inv8 /\ [Log8Next]_log8Vars => Inv8'
<1> SUFFICES ASSUME Inv8, [Log8Next]_log8Vars PROVE Inv8'
  OBVIOUS
<1>1. CASE UNCHANGED log8Vars
  BY <1>1 DEF log8Vars, Inv8, TextInv8, GroupsInv8, InOrder8, EventsInv8, Begins, Rising
<1> QED BY <1>1, ReadKeeps8, EndKeeps8, ClassifyKeeps8, InferKeeps8 DEF Log8Next

LEMMA Types8 == Inv8 => Log8TypeOK
<1> SUFFICES ASSUME Inv8 PROVE Log8TypeOK
  OBVIOUS
<1>1. \A i \in DOMAIN raw : raw[i] # <<>>
  BY LenProperties, ElementOfSeq DEF Inv8, GroupsInv8
<1> QED BY <1>1 DEF Inv8, TextInv8, GroupsInv8, EventsInv8, Log8TypeOK

------------------------------------------------------------------------------
(* What a report of a log of Java 8 says, for any log.                       *)

(* Lines, groups and events are in the order of the blocks, whatever the     *)
(* lines are, and every event is of a block of the log (preprocess_state.py, *)
(* jdk8/__init__.py).                                                        *)
THEOREM Java8Invariance == ReportsSpec => []Inv8
<1>1. ReportsInit => Inv8
  BY Inv8AtFirst, NothingIsAnInput DEF ReportsInit, Nothing8, Log8Init
<1>2. [ReportsNext]_reportsVars => [Log8Next]_log8Vars
  BY DEF ReportsNext, reportsVars, log8Vars
<1>3. Inv8 /\ [ReportsNext]_reportsVars => Inv8'
  BY <1>2, Inv8Kept
<1>4. QED
  BY <1>1, <1>3, PTL DEF ReportsSpec

(* The machine keeps no empty group, it has lines of the event it is in, and *)
(* a pass over the groups does not run past their end.                       *)
THEOREM Java8TypeCorrect == ReportsSpec => []Log8TypeOK
<1>1. QED
  BY Types8, Java8Invariance, PTL

(* The events of a report are in the order in which the blocks were          *)
(* written, be they torn or not: a Full GC that takes the figures of a later *)
(* group does not move its event there.                                      *)
THEOREM Java8InOrder == ReportsSpec => []Rising(events8)
<1>1. Inv8 => Rising(events8)
  BY DEF Inv8, EventsInv8
<1>2. QED
  BY <1>1, Java8Invariance, PTL

(* The types of the four hold together, whichever of them a report is of.    *)
THEOREM ReportsTypeCorrect == ReportsSpec => []ReportsTypeOK
<1>1. QED
  BY GcTypeCorrect, Java8TypeCorrect, UnifiedTypeCorrect, DumpTypeCorrect, PTL DEF ReportsTypeOK

------------------------------------------------------------------------------
(* The collector a log of Java 8 is of.                                      *)

\* The log is all of collector c, and its first block has the flags.
HasFlags(c) ==
    /\ c \in DOMAIN UseFlag
    /\ \A n \in DOMAIN blocks : blocks[n].by = c
    /\ \E i \in DOMAIN text : text[i].block = 1 /\ "flags" \in text[i].marks

\* A line of the text is one of its block.
LinesInv8 ==
    /\ blocks \in Logs8
    /\ \A l \in ToSet(text) : l.block >= 1 /\ \E m \in ToSet(blocks[l.block].lines) : m.marks = l.marks

\* What such a line may say.
SpeaksFor(l, c) ==
    /\ l.marks \cap TellTales \subseteq OwnMarks(c) \cup {UseFlag[c]}
    /\ l.block = 1 => /\ l.marks \subseteq {"flags", UseFlag[c]}
                      /\ "flags" \in l.marks => UseFlag[c] \in l.marks

\* Each line of the first block that was read is a group of its own.
FlagsRead ==
    /\ (at = 0 /\ st # "JDK9" /\ (pos = 0 \/ text[pos].block = 1)) => st = "SEEKING"
    /\ \A k \in 1 .. pos : text[k].block = 1 => \E r \in DOMAIN raw : raw[r] = <<text[k]>>

\* Only the generations of c are seen, and nothing but c is inferred of them;
\* CMS is what the flags say at the end.
Inferred(c) ==
    /\ gens \subseteq Generations \cap OwnMarks(c)
    /\ at # 0 => pos = Len(text)
    /\ (c # "CMS" /\ at # Len(raw) + 2) => collector8 \in {"None", c}
    /\ at = Len(raw) + 2 => collector8 = c

FlagsInv == LinesInv8 /\ \A c : HasFlags(c) => FlagsRead /\ Inferred(c)

LEMMA AllSpeakFor ==
    ASSUME FlagsFirst, TextInv8, LinesInv8, NEW c, HasFlags(c), NEW l \in ToSet(text)
    PROVE  SpeaksFor(l, c)
<1>1. blocks \in Logs8 /\ c \in DOMAIN UseFlag
  BY DEF LinesInv8, HasFlags
<1>2. PICK f \in ToSet(text) : f.block = 1 /\ "flags" \in f.marks
  BY DEF HasFlags, ToSet
<1>3. PICK m \in ToSet(blocks[1].lines) : "flags" \in m.marks
  BY <1>2 DEF LinesInv8
<1>4. 1 \in DOMAIN blocks
  BY <1>2 DEF TextInv8
<1>5. PICK o \in ToSet(blocks[l.block].lines) : o.marks = l.marks
  BY DEF LinesInv8
<1>6. blocks[l.block] \in ToSet(blocks)
  BY DEF TextInv8, ToSet
<1>7. (\A b \in ToSet(blocks) : b.by = c) /\ blocks # <<>>
  BY <1>4 DEF HasFlags, ToSet
<1>8. /\ \A k \in ToSet(blocks[1].lines) :
            /\ k.marks \subseteq {"flags", UseFlag[c]}
            /\ "flags" \in k.marks => UseFlag[c] \in k.marks
      /\ \A b \in ToSet(blocks) : \A k \in ToSet(b.lines) :
            k.marks \cap TellTales \subseteq OwnMarks(c) \cup {UseFlag[c]}
  <2>1. PICK g \in Logs8 : g = blocks
    BY <1>1
  <2>2. /\ \A b \in ToSet(g) : b.by = c
        /\ g # <<>>
        /\ \E k \in ToSet(g[1].lines) : "flags" \in k.marks
    BY <2>1, <1>3, <1>7
  <2> QED BY <2>1, <2>2, <1>1 DEF FlagsFirst
<1>9. l.marks \cap TellTales \subseteq OwnMarks(c) \cup {UseFlag[c]}
  BY <1>5, <1>6, <1>8
<1>10. l.block = 1 => l.marks \subseteq {"flags", UseFlag[c]} /\ ("flags" \in l.marks => UseFlag[c] \in l.marks)
  BY <1>5, <1>8
<1> QED BY <1>9, <1>10 DEF SpeaksFor

LEMMA FlagNames ==
    /\ DOMAIN UseFlag = {"G1", "CMS", "Parallel", "Serial"}
    /\ UseFlag["G1"] = "UseG1" /\ UseFlag["CMS"] = "UseCMS"
    /\ UseFlag["Parallel"] = "UseParallel" /\ UseFlag["Serial"] = "UseSerial"
    /\ OwnMarks("G1") = {"pause", "markStart"} /\ OwnMarks("Parallel") = {"PSYoungGen", "ParOldGen"}
    /\ OwnMarks("Serial") = {"DefNew", "Tenured"}
    /\ TellTales = Generations \cup {"pause", "markStart", "UseG1", "UseCMS", "UseParallel", "UseSerial"}
<1>1. /\ DOMAIN UseFlag = {"G1", "CMS", "Parallel", "Serial"}
      /\ UseFlag["G1"] = "UseG1" /\ UseFlag["CMS"] = "UseCMS"
      /\ UseFlag["Parallel"] = "UseParallel" /\ UseFlag["Serial"] = "UseSerial"
  BY DEF UseFlag
<1>2. OwnMarks("G1") = {"pause", "markStart"} /\ OwnMarks("Parallel") = {"PSYoungGen", "ParOldGen"}
      /\ OwnMarks("Serial") = {"DefNew", "Tenured"}
  BY DEF OwnMarks
<1>3. {UseFlag[c] : c \in DOMAIN UseFlag} = {"UseG1", "UseCMS", "UseParallel", "UseSerial"}
  BY <1>1
<1>4. TellTales = Generations \cup {"pause", "markStart"} \cup {"UseG1", "UseCMS", "UseParallel", "UseSerial"}
  BY <1>3 DEF TellTales
<1> QED BY <1>1, <1>2, <1>4

(* A line of the first block is passed through.                              *)
LEMMA FlagsStandAlone ==
    ASSUME NEW c, c \in DOMAIN UseFlag, st = "SEEKING", Line.marks \subseteq {"flags", UseFlag[c]}
    PROVE  Class = "other"
<1> DEFINE fit == {i \in DOMAIN Order[st] : Sees(Order[st][i])}
<1>1. Order["SEEKING"] = <<"heapBefore", "heapAfter", "open", "safepoint">>
  BY DEF Order
<1>2. UseFlag[c] \in {"UseG1", "UseCMS", "UseParallel", "UseSerial"}
  BY FlagNames
<1>3. ~Sees("heapBefore") /\ ~Sees("heapAfter") /\ ~Sees("open") /\ ~Sees("safepoint")
  BY <1>2 DEF Sees
<1>4. \A i \in DOMAIN Order[st] : ~Sees(Order[st][i])
  <2> SUFFICES ASSUME NEW i \in DOMAIN Order[st] PROVE ~Sees(Order[st][i])
    OBVIOUS
  <2>1. Order[st][i] \in {"heapBefore", "heapAfter", "open", "safepoint"}
    BY <1>1
  <2> QED BY <2>1, <1>3
<1>5. fit = {}
  BY <1>4
<1>6. Class = IF fit = {} THEN "other" ELSE Order[st][Min(fit)]
  BY DEF Class, FirstOf
<1> QED BY <1>5, <1>6

(* A branch is taken because it applies.                                     *)
LEMMA BranchApplies ==
    ASSUME NEW g, NEW seen, NEW b \in {"markStart", "pause"}, BranchOf(g, seen) = b
    PROVE  Says8(g, b)
<1> DEFINE fit == {i \in DOMAIN Branches : Applies(g, seen, Branches[i])}
<1>1. BranchOf(g, seen) = IF fit = {} THEN "none" ELSE Branches[Min(fit)]
  BY DEF BranchOf, FirstOf
<1>2. DOMAIN Branches = 1 .. 9
  BY DEF Branches
<1>3. fit # {} /\ fit \in SUBSET Nat
  BY <1>1, <1>2
<1>4. Min(fit) \in fit
  <2> HIDE DEF fit
  <2>1. PICK x \in fit : \A y \in fit : x <= y
    BY <1>3, Least
  <2> QED BY <2>1 DEF Min
<1>5. Applies(g, seen, b)
  <2>1. Branches[Min(fit)] = b
    BY <1>1, <1>3
  <2> QED BY <2>1, <1>4
<1> QED BY <1>5 DEF Applies

(* While the first block is read, nothing happens but that its lines are     *)
(* kept.                                                                     *)
LEMMA FlagsInvAtFirst == Log8Init => FlagsInv
<1> SUFFICES ASSUME Log8Init PROVE FlagsInv
  OBVIOUS
<1>1. LinesInv8
  <2>1. PICK g \in Logs8 : g = blocks
    BY DEF Log8Init
  <2>2. text = FlattenSeq([n \in DOMAIN g |-> Numbered(n, g[n])])
    BY <2>1 DEF Log8Init
  <2>3. \A l \in ToSet(text) : l.block >= 1 /\ \E m \in ToSet(g[l.block].lines) : m.marks = l.marks
    BY <2>2, TextOfBlocks
  <2> QED BY <2>1, <2>3 DEF LinesInv8
<1>2. FlagsRead
  <2>1. 1 .. pos = {}
    BY DEF Log8Init
  <2> QED BY <2>1 DEF FlagsRead, Log8Init
<1>3. \A c : Inferred(c)
  <2>1. at = 0 /\ Len(raw) = 0 /\ gens = {} /\ collector8 = "None"
    BY DEF Log8Init
  <2> QED BY <2>1 DEF Inferred
<1> QED BY <1>1, <1>2, <1>3 DEF FlagsInv

(* The groups there were stay.                                               *)
LEMMA GroupsStay ==
    ASSUME Inv8, ReadLine
    PROVE  \A r \in DOMAIN raw : r \in DOMAIN raw' /\ raw'[r] = raw[r]
<1>1. PICK done, next : Steps8(Line, done, next)
  BY ReadIsStep
<1>2. \E T : raw \in Seq(T)
  BY DEF Inv8, GroupsInv8
<1>3. CASE done = <<>>
  BY <1>1, <1>3 DEF Steps8
<1>4. CASE done # <<>>
  <2>1. PICK T : raw \in Seq(T)
    BY <1>2
  <2>2. PICK more : more = Append(raw, done)
    OBVIOUS
  <2>3. raw \in Seq(T \cup {done})
    BY <2>1, SeqMonotonic
  <2>4. /\ more \in Seq(T \cup {done}) /\ Len(more) = Len(raw) + 1
        /\ \A i \in 1 .. Len(raw) : more[i] = raw[i]
    BY <2>2, <2>3, AppendProperties
  <2>5. DOMAIN raw = 1 .. Len(raw) /\ Len(raw) \in Nat /\ DOMAIN more = 1 .. Len(raw) + 1
    BY <2>3, <2>4, LenProperties
  <2>6. raw' = more
    BY <1>1, <1>4, <2>2 DEF Steps8, Grown
  <2> QED BY <2>4, <2>5, <2>6
<1> QED BY <1>3, <1>4

LEMMA FlagsReadOn ==
    ASSUME FlagsFirst, Inv8, LinesInv8, ReadLine, NEW c, HasFlags(c), FlagsRead
    PROVE  FlagsRead'
<1>1. at = 0 /\ st # "JDK9" /\ pos < Len(text) /\ pos' = pos + 1 /\ UNCHANGED <<at, text>>
  BY DEF ReadLine
<1>2. pos \in Nat /\ pos + 1 \in DOMAIN text /\ DOMAIN text = 1 .. Len(text) /\ Len(text) \in Nat
  BY <1>1, LenProperties DEF Inv8, TextInv8
<1>3. Line \in ToSet(text) /\ Line = text[pos + 1]
  BY <1>2 DEF Line, ToSet
<1>4. ASSUME NEW k \in 1 .. pos, text[k].block = 1
      PROVE  \E r \in DOMAIN raw' : raw'[r] = <<text[k]>>
  <2>1. PICK r \in DOMAIN raw : raw[r] = <<text[k]>>
    BY <1>4 DEF FlagsRead
  <2> QED BY <2>1, GroupsStay
<1>5. CASE Line.block # 1
  BY <1>1, <1>2, <1>3, <1>4, <1>5 DEF FlagsRead
<1>6. CASE Line.block = 1
  <2>1. SpeaksFor(Line, c)
    BY <1>3, AllSpeakFor DEF Inv8
  <2>2. Line.marks \subseteq {"flags", UseFlag[c]} /\ c \in DOMAIN UseFlag
    BY <1>6, <2>1 DEF SpeaksFor, HasFlags
  <2>3. pos = 0 \/ text[pos].block = 1
    <3> SUFFICES ASSUME pos # 0 PROVE text[pos].block = 1
      OBVIOUS
    <3>1. pos \in DOMAIN text
      BY <1>2
    <3>2. text[pos].block <= text[pos + 1].block
      BY <3>1, <1>2 DEF Inv8, TextInv8, Rising
    <3>3. text[pos] \in ToSet(text)
      BY <3>1 DEF ToSet
    <3>4. text[pos].block >= 1 /\ text[pos].block \in Nat
      BY <3>3 DEF LinesInv8, Inv8, TextInv8
    <3> QED BY <3>2, <3>4, <1>3, <1>6
  <2>4. st = "SEEKING"
    BY <2>3, <1>1 DEF FlagsRead
  <2>5. Class = "other"
    BY <2>2, <2>4, FlagsStandAlone
  <2>6. Standalone
    BY <2>4, <2>5 DEF ReadLine, EnterHeapBlock, OpenEvent, Ignore, LeaveHeapBlock, Continue, Reopen, CloseEvent,
                      Suspend, Interrupt
  <2>7. st' = "SEEKING" /\ raw' = Append(raw, <<Line>>)
    <3>1. <<Line>> # <<>>
      OBVIOUS
    <3> QED BY <2>6, <2>4, <3>1 DEF Standalone, Emit
  <2>8. \E r \in DOMAIN raw' : raw'[r] = <<text[pos + 1]>>
    <3>1. PICK T : raw \in Seq(T)
      BY DEF Inv8, GroupsInv8
    <3>2. PICK g : g = <<Line>>
      OBVIOUS
    <3>3. PICK more : more = Append(raw, g)
      OBVIOUS
    <3>4. raw \in Seq(T \cup {g})
      BY <3>1, SeqMonotonic
    <3>5. more \in Seq(T \cup {g}) /\ Len(more) = Len(raw) + 1 /\ more[Len(raw) + 1] = g
      BY <3>3, <3>4, AppendProperties
    <3>6. Len(raw) \in Nat /\ DOMAIN more = 1 .. Len(raw) + 1
      BY <3>4, <3>5, LenProperties
    <3>7. Len(raw) + 1 \in DOMAIN more
      BY <3>6
    <3> QED BY <3>2, <3>3, <3>5, <3>7, <2>7, <1>3
  <2>9. \A k \in 1 .. pos + 1 : text[k].block = 1 => \E r \in DOMAIN raw' : raw'[r] = <<text[k]>>
    <3> SUFFICES ASSUME NEW k \in 1 .. pos + 1, text[k].block = 1 PROVE \E r \in DOMAIN raw' : raw'[r] = <<text[k]>>
      OBVIOUS
    <3>1. CASE k = pos + 1
      BY <3>1, <2>8
    <3>2. CASE k # pos + 1
      <4>1. k \in 1 .. pos
        BY <3>2, <1>2
      <4> QED BY <4>1, <1>4
    <3> QED BY <3>1, <3>2
  <2> QED BY <1>1, <2>7, <2>9 DEF FlagsRead
<1>7. QED BY <1>5, <1>6

\* The lines of a group are lines of the text.
LEMMA GroupsSpeakFor ==
    ASSUME FlagsFirst, Inv8, LinesInv8, NEW c, HasFlags(c), NEW i \in DOMAIN raw, NEW m \in TellTales, Says8(raw[i], m)
    PROVE  m \in OwnMarks(c) \cup {UseFlag[c]}
<1>1. raw[i] \in Seq(ToSet(text))
  BY ElementOfSeq DEF Inv8, GroupsInv8
<1>2. PICK k \in DOMAIN raw[i] : m \in raw[i][k].marks
  BY DEF Says8
<1>3. raw[i][k] \in ToSet(text)
  BY <1>1, <1>2
<1>4. PICK l \in ToSet(text) : l = raw[i][k]
  BY <1>3
<1>5. SpeaksFor(l, c)
  BY AllSpeakFor DEF Inv8
<1> QED BY <1>2, <1>4, <1>5 DEF SpeaksFor

\* No other collector is named by the lines of a group.
SaysOnly(g, c) ==
    /\ GenerationsOf(g) \subseteq Generations \cap OwnMarks(c)
    /\ \A d \in DOMAIN UseFlag : Says8(g, UseFlag[d]) => d = c
    /\ c \in {"Parallel", "Serial"} => ~Says8(g, "markStart") /\ ~Says8(g, "pause")

LEMMA GroupsSayOnly ==
    ASSUME FlagsFirst, Inv8, LinesInv8, NEW c, HasFlags(c), NEW i \in DOMAIN raw
    PROVE  SaysOnly(raw[i], c)
<1>1. c \in {"G1", "CMS", "Parallel", "Serial"}
  BY FlagNames DEF HasFlags
<1>2. \A m \in TellTales : Says8(raw[i], m) => m \in OwnMarks(c) \cup {UseFlag[c]}
  BY GroupsSpeakFor
<1>3. UseFlag[c] \notin Generations
  BY <1>1, FlagNames DEF Generations
<1>4. GenerationsOf(raw[i]) \subseteq Generations \cap OwnMarks(c)
  <2> SUFFICES ASSUME NEW m \in GenerationsOf(raw[i]) PROVE m \in Generations /\ m \in OwnMarks(c)
    OBVIOUS
  <2>1. m \in Generations /\ Says8(raw[i], m)
    BY DEF GenerationsOf
  <2>2. m \in TellTales
    BY <2>1, FlagNames
  <2> QED BY <2>1, <2>2, <1>2, <1>3
<1>5. OwnMarks("CMS") = {"ParNew", "CMS"}
  BY DEF OwnMarks
<1>6. ASSUME NEW d \in DOMAIN UseFlag, Says8(raw[i], UseFlag[d]) PROVE d = c
  <2>1. d \in {"G1", "CMS", "Parallel", "Serial"} /\ UseFlag[d] \in TellTales
    BY FlagNames
  <2>2. UseFlag[d] \in OwnMarks(c) \cup {UseFlag[c]}
    BY <1>2, <1>6, <2>1
  <2>3. UseFlag[d] = UseFlag[c]
    BY <1>1, <1>5, <2>1, <2>2, FlagNames
  <2> QED BY <1>1, <2>1, <2>3, FlagNames
<1>7. c \in {"Parallel", "Serial"} => ~Says8(raw[i], "markStart") /\ ~Says8(raw[i], "pause")
  <2>1. "markStart" \in TellTales /\ "pause" \in TellTales
    BY FlagNames
  <2> QED BY <1>2, <2>1, FlagNames
<1> QED BY <1>4, <1>6, <1>7 DEF SaysOnly

(* The generations of a collector name no other; those of CMS name Parallel. *)
LEMMA NamedByGenerations ==
    ASSUME NEW c \in {"G1", "Parallel", "Serial"}, NEW names, names \subseteq Generations \cap OwnMarks(c)
    PROVE  Collector(names) \in {"None", c}
<1>1. CASE c = "G1"
  <2>1. names = {}
    BY <1>1, FlagNames DEF Generations
  <2> QED BY <2>1 DEF Collector
<1>2. CASE c = "Parallel"
  <2>1. names \subseteq {"PSYoungGen", "ParOldGen"}
    BY <1>2, FlagNames
  <2> QED BY <2>1, <1>2 DEF Collector
<1>3. CASE c = "Serial"
  <2>1. names \subseteq {"DefNew", "Tenured"}
    BY <1>3, FlagNames
  <2> QED BY <2>1, <1>3 DEF Collector
<1> QED BY <1>1, <1>2, <1>3

LEMMA ClassifyInfers ==
    ASSUME FlagsFirst, Inv8, LinesInv8, ClassifyGroup, NEW c, HasFlags(c), Inferred(c)
    PROVE  Inferred(c)'
<1>1. at \in DOMAIN raw /\ DOMAIN raw = 1 .. Len(raw) /\ Len(raw) \in Nat
  BY LenProperties DEF ClassifyGroup, Inv8, GroupsInv8
<1>2. UNCHANGED <<blocks, text, pos, st, cur, depth, raw>> /\ at' \in at + 1 .. Len(raw) + 1
  BY ClassifyIsPass DEF Passes8
<1>3. SaysOnly(Group, c)
  BY <1>1, GroupsSayOnly DEF Group
<1>4. c \in {"G1", "CMS", "Parallel", "Serial"}
  BY FlagNames DEF HasFlags
<1>5. Seen \subseteq Generations \cap OwnMarks(c)
  BY <1>3 DEF Seen, SaysOnly, Inferred
<1>6. gens' \subseteq Generations \cap OwnMarks(c)
  BY <1>5 DEF ClassifyGroup, SkipGroup, Inferred
<1>7. c # "CMS" => collector8' \in {"None", c}
  <2> SUFFICES ASSUME c # "CMS" PROVE collector8' \in {"None", c}
    OBVIOUS
  <2>1. collector8 \in {"None", c} /\ c \in {"G1", "Parallel", "Serial"}
    BY <1>1, <1>4 DEF Inferred
  <2>2. \/ collector8' = collector8
        \/ BranchOf(Group, Seen) \in {"markStart", "pause"} /\ collector8' = First(collector8, "G1")
        \/ collector8' = First(collector8, Collector(Seen))
    BY DEF ClassifyGroup, SkipGroup, FullGc, Concurrent, Deduplication, MarkStart, Remark, G1Pause, Cleanup,
           Generational, NoBranch
  <2>3. BranchOf(Group, Seen) \in {"markStart", "pause"} => c = "G1"
    <3> SUFFICES ASSUME BranchOf(Group, Seen) \in {"markStart", "pause"} PROVE c = "G1"
      OBVIOUS
    <3>1. PICK b \in {"markStart", "pause"} : BranchOf(Group, Seen) = b
      OBVIOUS
    <3>2. Says8(Group, b)
      BY <3>1, BranchApplies
    <3> QED BY <3>2, <2>1, <1>3 DEF SaysOnly
  <2>4. Collector(Seen) \in {"None", c}
    BY <2>1, <1>5, NamedByGenerations
  <2> QED BY <2>1, <2>2, <2>3, <2>4 DEF First
<1>8. at' # Len(raw') + 2 /\ at # 0
  BY <1>1, <1>2
<1> QED BY <1>2, <1>6, <1>7, <1>8 DEF Inferred

(* The flags outrank what was inferred, or agree with it.                    *)
LEMMA FlagsName ==
    ASSUME FlagsFirst, Inv8, LinesInv8, InferCollector, NEW c, HasFlags(c), FlagsRead, Inferred(c)
    PROVE  Inferred(c)'
<1>1. /\ at = Len(raw) + 1 /\ at' = at + 1 /\ Len(raw) \in Nat
      /\ UNCHANGED <<blocks, text, pos, st, cur, depth, raw, events8, gens>>
  BY LenProperties DEF InferCollector, Inv8, GroupsInv8
<1>2. c \in {"G1", "CMS", "Parallel", "Serial"}
  BY FlagNames DEF HasFlags
<1>3. \A d \in DOMAIN UseFlag : d # c => ~Flag(UseFlag[d])
  BY GroupsSayOnly DEF Flag, SaysOnly
<1>4. Flag(UseFlag[c])
  <2>1. PICK k \in DOMAIN text : text[k].block = 1 /\ "flags" \in text[k].marks
    BY DEF HasFlags
  <2>2. pos = Len(text) /\ DOMAIN text = 1 .. Len(text)
    BY <1>1, LenProperties DEF Inferred, Inv8, TextInv8
  <2>3. PICK r \in DOMAIN raw : raw[r] = <<text[k]>>
    BY <2>1, <2>2 DEF FlagsRead
  <2>4. text[k] \in ToSet(text)
    BY DEF ToSet
  <2>5. SpeaksFor(text[k], c)
    BY <2>4, AllSpeakFor DEF Inv8
  <2>6. UseFlag[c] \in text[k].marks
    BY <2>1, <2>5 DEF SpeaksFor
  <2>7. 1 \in DOMAIN raw[r] /\ raw[r][1] = text[k]
    BY <2>3
  <2> QED BY <2>6, <2>7 DEF Flag, Says8
<1>5. c # "CMS" => collector8 \in {"None", c}
  BY <1>1 DEF Inferred
<1> DEFINE rest == First(Collector(gens), LastGuess)
<1>6. collector8' = First(Flagged("UseCMS", "CMS"), First(collector8, First(Flagged("UseG1", "G1"),
                    First(Flagged("UseParallel", "Parallel"), First(Flagged("UseSerial", "Serial"), rest)))))
  BY DEF InferCollector
<1> HIDE DEF rest
<1>7. collector8' = c
  <2>1. CASE c = "CMS"
    BY <2>1, <1>4, <1>6, FlagNames DEF Flagged, First
  <2>2. CASE c = "G1"
    BY <2>2, <1>3, <1>4, <1>5, <1>6, FlagNames DEF Flagged, First
  <2>3. CASE c = "Parallel"
    BY <2>3, <1>3, <1>4, <1>5, <1>6, FlagNames DEF Flagged, First
  <2>4. CASE c = "Serial"
    BY <2>4, <1>3, <1>4, <1>5, <1>6, FlagNames DEF Flagged, First
  <2> QED BY <2>1, <2>2, <2>3, <2>4, <1>2
<1>8. at' = Len(raw') + 2 /\ pos' = Len(text)'
  BY <1>1 DEF Inferred
<1> QED BY <1>1, <1>7, <1>8 DEF Inferred

LEMMA FlagsInvKept == FlagsFirst /\ Inv8 /\ FlagsInv /\ [Log8Next]_log8Vars => FlagsInv'
<1> SUFFICES ASSUME FlagsFirst, Inv8, FlagsInv, [Log8Next]_log8Vars PROVE FlagsInv'
  OBVIOUS
<1>1. UNCHANGED <<blocks, text>>
  BY DEF Log8Next, ReadLine, EndOfText, ClassifyGroup, InferCollector, SkipGroup, FullGc, Concurrent, Deduplication,
         MarkStart, Remark, G1Pause, Cleanup, Generational, NoBranch, Pass, log8Vars
<1>2. LinesInv8 /\ LinesInv8'
  BY <1>1 DEF FlagsInv, LinesInv8
<1>3. ASSUME NEW c, HasFlags(c)' PROVE FlagsRead' /\ Inferred(c)'
  <2>1. HasFlags(c) /\ FlagsRead /\ Inferred(c)
    BY <1>1, <1>3 DEF HasFlags, FlagsInv
  <2>2. Len(raw) \in Nat /\ DOMAIN raw = 1 .. Len(raw)
    BY LenProperties DEF Inv8, GroupsInv8
  <2>3. CASE ReadLine
    <3>1. at = 0 /\ at' = 0 /\ UNCHANGED <<gens, collector8>>
      BY <2>3 DEF ReadLine
    <3>2. Len(raw') \in Nat
      BY <2>3, ReadKeeps8, LenProperties DEF Inv8, GroupsInv8
    <3>3. Inferred(c)'
      BY <2>1, <2>2, <3>1, <3>2 DEF Inferred
    <3> QED BY <2>1, <2>3, <3>3, <1>2, FlagsReadOn
  <2>4. CASE EndOfText
    <3>1. /\ at = 0 /\ at' = 1 /\ pos = Len(text) /\ UNCHANGED <<gens, collector8, pos, text>>
          /\ (raw' = raw \/ raw' = Append(raw, cur))
      BY <2>4 DEF EndOfText, Emit
    <3>2. Len(raw') \in Nat
      BY <2>4, EndKeeps8, LenProperties DEF Inv8, GroupsInv8
    <3>3. Inferred(c)'
      BY <2>1, <2>2, <3>1, <3>2 DEF Inferred
    <3>4. \A r \in DOMAIN raw : r \in DOMAIN raw' /\ raw'[r] = raw[r]
      <4>1. CASE raw' = raw
        BY <4>1
      <4>2. CASE raw' = Append(raw, cur)
        <5>1. PICK T : raw \in Seq(T)
          BY DEF Inv8, GroupsInv8
        <5>2. PICK more : more = Append(raw, cur)
          OBVIOUS
        <5>3. raw \in Seq(T \cup {cur})
          BY <5>1, SeqMonotonic
        <5>4. /\ more \in Seq(T \cup {cur}) /\ Len(more) = Len(raw) + 1
              /\ \A i \in 1 .. Len(raw) : more[i] = raw[i]
          BY <5>2, <5>3, AppendProperties
        <5>5. DOMAIN more = 1 .. Len(raw) + 1
          BY <5>4, LenProperties
        <5> QED BY <4>2, <5>2, <5>4, <5>5, <2>2
      <4> QED BY <3>1, <4>1, <4>2
    <3>5. FlagsRead'
      BY <2>1, <3>1, <3>4 DEF FlagsRead
    <3> QED BY <3>3, <3>5
  <2>5. CASE ClassifyGroup
    <3>1. UNCHANGED <<blocks, text, pos, st, cur, depth, raw>> /\ at \in DOMAIN raw /\ \E i, e : Passes8(i, e)
      BY <2>5, ClassifyIsPass DEF ClassifyGroup
    <3>2. at' # 0
      BY <2>2, <3>1 DEF Passes8
    <3>3. FlagsRead'
      BY <2>1, <3>1, <3>2 DEF FlagsRead
    <3> QED BY <2>1, <2>5, <3>3, <1>2, ClassifyInfers
  <2>6. CASE InferCollector
    <3>1. at' # 0 /\ UNCHANGED <<text, pos, st, raw>>
      BY <2>2, <2>6 DEF InferCollector
    <3>2. FlagsRead'
      BY <2>1, <3>1 DEF FlagsRead
    <3> QED BY <2>1, <2>6, <3>2, <1>2, FlagsName
  <2>7. CASE UNCHANGED log8Vars
    BY <2>1, <2>7 DEF log8Vars, FlagsRead, Inferred
  <2> QED BY <2>3, <2>4, <2>5, <2>6, <2>7 DEF Log8Next
<1> QED BY <1>2, <1>3 DEF FlagsInv

(* The collector a report names is the one the command line named, whichever *)
(* of the four it is and whatever the log holds besides: the flags are read  *)
(* as a group of their own, no line of the log makes the loop settle on      *)
(* another before, and the flag of CMS outranks what ParNew suggests         *)
(* (jdk8/__init__.py). What the flags are taken to say is FlagsFirst.        *)
THEOREM CollectorIsNamed ==
    ASSUME FlagsFirst
    PROVE  ReportsSpec => []CollectorOfFlags
<1>1. ReportsInit => Inv8 /\ FlagsInv
  BY Inv8AtFirst, FlagsInvAtFirst, NothingIsAnInput DEF ReportsInit, Nothing8, Log8Init
<1>2. [ReportsNext]_reportsVars => [Log8Next]_log8Vars
  BY DEF ReportsNext, reportsVars, log8Vars
<1>3. Inv8 /\ FlagsInv /\ [ReportsNext]_reportsVars => (Inv8 /\ FlagsInv)'
  BY <1>2, Inv8Kept, FlagsInvKept
<1>4. FlagsInv => CollectorOfFlags
  <2> SUFFICES ASSUME FlagsInv, Finished8, st # "JDK9", NEW c \in {"G1", "CMS", "Parallel", "Serial"},
                      \A n \in DOMAIN blocks : blocks[n].by = c,
                      \E i \in DOMAIN text : text[i].block = 1 /\ "flags" \in text[i].marks
               PROVE  collector8 = c
    BY DEF CollectorOfFlags
  <2>1. HasFlags(c) /\ at = Len(raw) + 2
    BY FlagNames DEF HasFlags, Finished8
  <2> QED BY <2>1 DEF FlagsInv, Inferred
<1>5. QED
  BY <1>1, <1>3, <1>4, PTL DEF ReportsSpec

------------------------------------------------------------------------------
(* The charts.                                                               *)

\* The places of the events that paused, the longest first.
PausedAt(evs) == {i \in DOMAIN evs : ~evs[i].conc /\ evs[i].pause > 0}
Longer(evs, i, j) == evs[i].pause > evs[j].pause \/ (evs[i].pause = evs[j].pause /\ i < j)
\* A list of events whose pauses are numbers.
Timed(evs) == /\ evs \in Seq(ToSet(evs))
              /\ \A i \in DOMAIN evs : evs[i].pause \in Int /\ evs[i].at \in Int

LEMMA CountTo ==
    ASSUME NEW n \in Nat
    PROVE  IsFiniteSet(1 .. n) /\ Cardinality(1 .. n) = n
<1>1. IsFiniteSet(1 .. n) /\ Cardinality(1 .. n) = IF 1 > n THEN 0 ELSE n - 1 + 1
  BY FS_Interval
<1> QED BY <1>1

\* The place of each pause among the pauses.
Ranked(evs, rank) ==
    LET n == Cardinality(PausedAt(evs))
    IN  /\ n \in Nat
        /\ rank \in [PausedAt(evs) -> 1 .. n]
        /\ \A i, j \in PausedAt(evs) : Longer(evs, i, j) => rank[i] < rank[j]
        /\ \A i, j \in PausedAt(evs) : rank[i] = rank[j] => i = j
        /\ \A r \in 1 .. n : \E i \in PausedAt(evs) : rank[i] = r
        /\ \A i \in PausedAt(evs) :
             Cardinality({j \in PausedAt(evs) : Longer(evs, j, i)}) = rank[i] - 1

LEMMA PausesRanked ==
    ASSUME NEW evs, Timed(evs)
    PROVE  \E rank : Ranked(evs, rank)
<1> DEFINE S == PausedAt(evs)
<1>1. DOMAIN evs = 1 .. Len(evs) /\ Len(evs) \in Nat
  BY DEF Timed
<1>2. IsFiniteSet(S)
  <2>1. S \in SUBSET (1 .. Len(evs))
    BY <1>1 DEF PausedAt
  <2> HIDE DEF S
  <2> QED BY <1>1, <2>1, CountTo, FS_Subset
<1>3. PICK R : R = {x \in S \X S : x[1] = x[2] \/ Longer(evs, x[1], x[2])}
  OBVIOUS
<1>4. \A i \in S : i \in Nat /\ evs[i].pause \in Int
  BY <1>1 DEF PausedAt, Timed
<1> HIDE DEF S
<1>5. \A i, j \in S : <<i, j>> \in R <=> i = j \/ Longer(evs, i, j)
  BY <1>3
<1>6. Orders(R, S)
  <2>1. ASSUME NEW i \in S, NEW j \in S PROVE <<i, j>> \in R \/ <<j, i>> \in R
    <3>1. i = j \/ Longer(evs, i, j) \/ Longer(evs, j, i)
      BY <1>4 DEF Longer
    <3> QED BY <3>1, <1>5
  <2>2. \A i, j \in S : <<i, j>> \in R /\ <<j, i>> \in R => i = j
    BY <1>4, <1>5 DEF Longer
  <2>3. ASSUME NEW i \in S, NEW j \in S, NEW k \in S, <<i, j>> \in R, <<j, k>> \in R PROVE <<i, k>> \in R
    <3>1. (i = j \/ Longer(evs, i, j)) /\ (j = k \/ Longer(evs, j, k))
      BY <2>3, <1>5
    <3>2. PICK a \in Int, b \in Int, c \in Int : a = evs[i].pause /\ b = evs[j].pause /\ c = evs[k].pause
      BY <1>4
    <3>3. i \in Nat /\ j \in Nat /\ k \in Nat
      BY <1>4
    <3>4. i = k \/ Longer(evs, i, k)
      BY <3>1, <3>2, <3>3 DEF Longer
    <3> QED BY <3>4, <1>5
  <2> QED BY <2>1, <2>2, <2>3 DEF Orders
<1> DEFINE rank == [i \in S |-> PlaceIn(R, S, i)]
<1> DEFINE n == Cardinality(S)
<1>7. n \in Nat
  BY <1>2, FS_CardinalityType
<1>8. \A i \in S : rank[i] = PlaceIn(R, S, i)
  OBVIOUS
<1>9. \A i \in S : rank[i] \in 1 .. n
  BY <1>2, <1>6, <1>8, Ranks
<1>10. rank \in [S -> 1 .. n]
  BY <1>9
<1> HIDE DEF rank
<1>11. \A i, j \in S : i # j /\ <<i, j>> \in R => rank[i] < rank[j]
  BY <1>2, <1>6, <1>8, Ranks
<1>12. \A i, j \in S : rank[i] = rank[j] => i = j
  BY <1>2, <1>6, <1>8, Ranks
<1>13. \A r \in 1 .. n : \E i \in S : rank[i] = r
  BY <1>2, <1>6, <1>8, Ranks
<1>14. \A i, j \in S : Longer(evs, i, j) => rank[i] < rank[j]
  <2> TAKE i, j \in S
  <2> HAVE Longer(evs, i, j)
  <2>1. i # j /\ <<i, j>> \in R
    BY <1>4, <1>5 DEF Longer
  <2> QED BY <2>1, <1>11
<1>15. ASSUME NEW i \in S PROVE Cardinality({j \in S : Longer(evs, j, i)}) = rank[i] - 1
  <2> DEFINE with == {j \in S : <<j, i>> \in R}
  <2>1. with \in SUBSET S /\ i \in with /\ {j \in S : Longer(evs, j, i)} = with \ {i}
    BY <1>4, <1>5 DEF Longer
  <2>2. rank[i] = Cardinality(with)
    BY <1>8 DEF PlaceIn
  <2> HIDE DEF with
  <2>3. IsFiniteSet(with)
    BY <2>1, <1>2, FS_Subset
  <2>4. Cardinality(with \ {i}) = Cardinality(with) - 1
    BY <2>1, <2>3, FS_RemoveElement
  <2> QED BY <2>1, <2>2, <2>4
<1>16. Ranked(evs, rank)
  BY <1>7, <1>10, <1>12, <1>13, <1>14, <1>15 DEF Ranked, S, n
<1> QED BY <1>16

LEMMA TopIsRanked ==
    ASSUME NEW evs, NEW rank, Ranked(evs, rank)
    PROVE  TopPauses(evs) = {i \in PausedAt(evs) : rank[i] <= TopLimit}
<1>1. TopPauses(evs) = {i \in PausedAt(evs) : Cardinality({j \in PausedAt(evs) : Longer(evs, j, i)}) < TopLimit}
  BY DEF TopPauses, PausedAt, Longer
<1>2. \A i \in PausedAt(evs) :
        /\ Cardinality({j \in PausedAt(evs) : Longer(evs, j, i)}) = rank[i] - 1
        /\ rank[i] \in Nat
  BY DEF Ranked
<1>3. TopLimit \in Nat
  BY DiagnosisAssumption
<1>4. ASSUME NEW i \in PausedAt(evs)
      PROVE  Cardinality({j \in PausedAt(evs) : Longer(evs, j, i)}) < TopLimit <=> rank[i] <= TopLimit
  <2>1. PICK c : c = Cardinality({j \in PausedAt(evs) : Longer(evs, j, i)})
    OBVIOUS
  <2>2. c = rank[i] - 1 /\ rank[i] \in Nat
    BY <2>1, <1>2
  <2>3. c < TopLimit <=> rank[i] <= TopLimit
    BY <2>2, <1>3
  <2> QED BY <2>1, <2>3
<1> QED BY <1>1, <1>4

(* However few points are drawn, the longest pauses are among them.          *)
LEMMA WorstDrawn ==
    ASSUME NEW evs, Timed(evs), NEW i \in DOMAIN evs \ Series(evs), ~evs[i].conc, evs[i].pause > 0
    PROVE  Cardinality({j \in Series(evs) : evs[j].pause >= evs[i].pause}) >= TopLimit
<1>1. PICK rank : Ranked(evs, rank)
  BY PausesRanked
<1>2. TopLimit \in Nat
  BY DiagnosisAssumption
<1>3. i \in PausedAt(evs) /\ rank[i] > TopLimit
  <2>1. i \in PausedAt(evs) /\ i \notin TopPauses(evs)
    BY DEF PausedAt, Series
  <2>2. rank[i] \in Nat
    BY <1>1, <2>1 DEF Ranked
  <2> QED BY <1>1, <1>2, <2>1, <2>2, TopIsRanked
<1> DEFINE T == {j \in Series(evs) : evs[j].pause >= evs[i].pause}
<1>4. ASSUME NEW r \in 1 .. TopLimit PROVE \E j \in T : rank[j] = r
  <2>1. rank[i] \in 1 .. Cardinality(PausedAt(evs)) /\ Cardinality(PausedAt(evs)) \in Nat
    BY <1>1, <1>3 DEF Ranked
  <2>2. r \in 1 .. Cardinality(PausedAt(evs))
    BY <1>2, <1>3, <2>1
  <2>3. PICK j \in PausedAt(evs) : rank[j] = r
    BY <1>1, <2>2 DEF Ranked
  <2>4. j \in Series(evs)
    BY <1>1, <1>2, <2>3, TopIsRanked DEF Series
  <2>5. ~Longer(evs, i, j)
    <3>1. Longer(evs, i, j) => rank[i] < rank[j]
      BY <1>1, <1>3, <2>3 DEF Ranked
    <3> QED BY <3>1, <1>2, <1>3, <2>1, <2>3
  <2>6. evs[i].pause \in Int /\ evs[j].pause \in Int
    BY <1>3, <2>3 DEF PausedAt, Timed
  <2>7. evs[j].pause >= evs[i].pause
    BY <2>5, <2>6 DEF Longer
  <2> QED BY <2>3, <2>4, <2>7
<1> DEFINE g == [r \in 1 .. TopLimit |-> CHOOSE j \in T : rank[j] = r]
<1>5. \A r \in 1 .. TopLimit : g[r] \in T /\ rank[g[r]] = r
  <2> HIDE DEF T
  <2>1. \A r \in 1 .. TopLimit : g[r] = CHOOSE j \in T : rank[j] = r
    OBVIOUS
  <2> HIDE DEF g
  <2> QED BY <1>4, <2>1
<1>6. g \in [1 .. TopLimit -> T]
  <2> HIDE DEF T
  <2> QED BY <1>5
<1>7. IsFiniteSet(T)
  <2>1. T \in SUBSET (1 .. Len(evs)) /\ Len(evs) \in Nat
    BY DEF Timed, Series, Sampled, TopPauses
  <2> HIDE DEF T
  <2> QED BY <2>1, CountTo, FS_Subset
<1>8. Cardinality(T) \in Nat
  <2> HIDE DEF T
  <2> QED BY <1>7, FS_CardinalityType
<1> HIDE DEF g, T
<1>9. g \in Injection(1 .. TopLimit, T)
  BY <1>5, <1>6 DEF Injection, IsInjective
<1>10. Cardinality(1 .. TopLimit) <= Cardinality(T)
  BY <1>7, <1>9, FS_Injection
<1>11. Cardinality(T) >= TopLimit
  BY <1>2, <1>8, <1>10, CountTo
<1> QED BY <1>11 DEF T

------------------------------------------------------------------------------
(* The parts of the log's time.                                              *)

LEMMA PartsOfTime ==
    ASSUME NEW l
    PROVE  Len(l.events) \in Nat => BucketCount(l) \in Nat \ {0}
<1>1. SUFFICES ASSUME Len(l.events) \in Nat PROVE BucketCount(l) \in Nat \ {0}
  OBVIOUS
<1>1a. PICK n \in Nat : n = Len(l.events)
  BY <1>1
<1>2. PICK q \in Nat : q = n \div 50
  OBVIOUS
<1>3. BucketCount(l) = Min({20, Max({5, q})})
  BY <1>1a, <1>2 DEF BucketCount
<1>4. \E x \in {5, q} : \A y \in {5, q} : x >= y
  BY <1>2
<1>5. Max({5, q}) \in {5, q} /\ Max({5, q}) >= 5
  BY <1>2, <1>4 DEF Max
<1> DEFINE m == Max({5, q})
<1>6. m \in Nat /\ m >= 5
  BY <1>2, <1>5
<1> HIDE DEF m
<1>7. \E x \in {20, m} : \A y \in {20, m} : x <= y
  BY <1>6
<1>8. Min({20, m}) \in {20, m}
  BY <1>7 DEF Min
<1> QED BY <1>3, <1>6, <1>8 DEF m

LEMMA EachInOnePart ==
    ASSUME NEW l, NEW e, e.at \in Int, BucketCount(l) \in Nat \ {0}, Duration(l) \in Nat \ {0},
           0 <= e.at, e.at <= Duration(l)
    PROVE  /\ \E i \in 1 .. BucketCount(l) : InBucket(l, i, e)
           /\ \A i, j \in 1 .. BucketCount(l) : InBucket(l, i, e) /\ InBucket(l, j, e) => i = j
<1> DEFINE B == BucketCount(l)
<1> DEFINE D == Duration(l)
<1> DEFINE x == e.at * B
<1>1. B \in Nat \ {0} /\ D \in Nat \ {0} /\ x \in Nat /\ x <= B * D /\ B * D \in Nat
  <2>1. PICK a \in Nat, k \in Nat : a = e.at /\ D = a + k
    <3>1. e.at \in Nat /\ D - e.at \in Nat /\ D = e.at + (D - e.at)
      OBVIOUS
    <3> QED BY <3>1
  <2>2. B \in Nat /\ a * B \in Nat /\ B * k \in Nat
    BY <2>1
  <2> HIDE DEF B, D
  <2>3. B * D = a * B + B * k
    BY <2>1, <2>2
  <2> QED BY <2>1, <2>2, <2>3 DEF B, D
<1>2. \A i : InBucket(l, i, e) <=> /\ x >= (i - 1) * D
                                   /\ IF i = B THEN x <= i * D ELSE x < i * D
  BY DEF InBucket
<1> HIDE DEF B, D, x
<1>3. \E i \in 1 .. B : InBucket(l, i, e)
  <2>1. CASE x = B * D
    <3>1. (B - 1) * D = B * D - D
      BY <1>1
    <3>2. x >= (B - 1) * D /\ x <= B * D
      BY <1>1, <2>1, <3>1
    <3> QED BY <1>1, <1>2, <3>2
  <2>2. CASE x # B * D
    <3>1. PICK q \in Nat, r \in Nat : x = D * q + r /\ r < D
      <4>1. x \div D \in Nat /\ x % D \in Nat /\ x = D * (x \div D) + (x % D) /\ x % D < D
        BY <1>1
      <4> QED BY <4>1
    <3>2. q < B
      <4>1. SUFFICES ASSUME q >= B PROVE FALSE
        BY <1>1
      <4>2. PICK t \in Nat : q = B + t
        <5>1. q - B \in Nat /\ q = B + (q - B)
          BY <4>1, <1>1
        <5> QED BY <5>1
      <4>3. D * q = B * D + D * t /\ D * t \in Nat
        BY <4>2, <1>1
      <4> QED BY <4>3, <3>1, <2>2, <1>1
    <3>3. q + 1 \in 1 .. B
      BY <3>2, <1>1
    <3>4. ((q + 1) - 1) * D = D * q /\ (q + 1) * D = D * q + D /\ D * q \in Nat
      BY <1>1
    <3>5. x >= ((q + 1) - 1) * D /\ x < (q + 1) * D /\ x <= (q + 1) * D
      BY <3>1, <3>4, <1>1
    <3> QED BY <3>3, <3>5, <1>2
  <2> QED BY <2>1, <2>2
<1>4. ASSUME NEW i \in 1 .. B, NEW j \in 1 .. B, i < j, InBucket(l, i, e), InBucket(l, j, e)
      PROVE  FALSE
  <2>1. i # B /\ i \in Nat /\ j \in Nat
    BY <1>1, <1>4
  <2>2. x < i * D /\ x >= (j - 1) * D
    BY <1>2, <1>4, <2>1
  <2>3. PICK t \in Nat : j - 1 = i + t
    <3>1. j - 1 - i \in Nat /\ j - 1 = i + (j - 1 - i)
      BY <1>4, <2>1
    <3> QED BY <3>1
  <2>4. (j - 1) * D = i * D + t * D /\ t * D \in Nat /\ i * D \in Nat
    BY <2>1, <2>3, <1>1
  <2> QED BY <2>2, <2>4, <1>1
<1>5. ASSUME NEW i \in 1 .. B, NEW j \in 1 .. B, InBucket(l, i, e), InBucket(l, j, e)
      PROVE  i = j
  <2>1. i < j \/ j < i \/ i = j
    BY <1>1
  <2> QED BY <2>1, <1>4, <1>5
<1> QED BY <1>3, <1>5 DEF B

(* Only what happened between 0 and the log's duration is in a part of it.   *)
LEMMA PartsAreOfTime ==
    ASSUME NEW l, NEW e, e.at \in Int, BucketCount(l) \in Nat \ {0}, Duration(l) \in Nat \ {0},
           NEW i \in 1 .. BucketCount(l), InBucket(l, i, e)
    PROVE  0 <= e.at /\ e.at <= Duration(l)
<1>1. PICK B \in Nat \ {0} : B = BucketCount(l)
  OBVIOUS
<1>2. PICK D \in Nat \ {0} : D = Duration(l)
  OBVIOUS
<1>3. PICK a \in Int : a = e.at
  OBVIOUS
<1>4. a * B >= (i - 1) * D /\ a * B <= i * D /\ i \in Nat \ {0} /\ i <= B
  <2>1. i \in Nat \ {0} /\ i <= B
    BY <1>1
  <2>2. a * B \in Int /\ i * D \in Nat
    BY <1>1, <1>2, <1>3, <2>1
  <2>3. a * B >= (i - 1) * D /\ (a * B <= i * D \/ a * B < i * D)
    BY <1>1, <1>2, <1>3 DEF InBucket
  <2> QED BY <2>1, <2>2, <2>3
<1>5. 0 <= a
  <2>1. i - 1 \in Nat
    BY <1>4
  <2>2. (i - 1) * D \in Nat
    BY <2>1
  <2>3. a * B \in Int /\ a * B >= 0
    BY <1>4, <2>2
  <2>4. SUFFICES ASSUME a < 0 PROVE FALSE
    OBVIOUS
  <2>5. PICK k \in Nat : B = k + 1
    <3>1. B - 1 \in Nat /\ B = (B - 1) + 1
      OBVIOUS
    <3> QED BY <3>1
  <2>6. PICK m \in Nat : a = -m - 1
    <3>1. -a - 1 \in Nat /\ a = -(-a - 1) - 1
      BY <2>4
    <3> QED BY <3>1
  <2>7. m * k \in Nat /\ a * B = -(m * k) - m - k - 1
    BY <2>5, <2>6
  <2> QED BY <2>3, <2>7
<1>6. a <= D
  <2>1. SUFFICES ASSUME a > D PROVE FALSE
    BY <1>2
  <2>2. PICK m \in Nat : a = D + m + 1
    <3>1. a - D - 1 \in Nat /\ a = D + (a - D - 1) + 1
      BY <2>1
    <3> QED BY <3>1
  <2>3. PICK k \in Nat : B = i + k
    <3>1. B - i \in Nat /\ B = i + (B - i)
      BY <1>4
    <3> QED BY <3>1
  <2>4. m * B \in Nat /\ k * D \in Nat /\ i * D \in Nat /\ a * B = D * B + m * B + B
    BY <1>4, <2>2
  <2>5. D * B = i * D + k * D
    BY <1>4, <2>3
  <2> QED BY <1>4, <2>4, <2>5
<1> QED BY <1>2, <1>3, <1>5, <1>6

\* The places of the events between 0 and the log's duration.
InItsTime(l) == {k \in DOMAIN l.events : 0 <= l.events[k].at /\ l.events[k].at <= Duration(l)}

LEMMA PartsCountAll ==
    ASSUME NEW l, Timed(l.events), l.first \in Int, l.last \in Int, FrequencySeries(l) # <<>>
    PROVE  SumFunctionOnSet(FrequencySeries(l), DOMAIN FrequencySeries(l)) = Cardinality(InItsTime(l))
<1> DEFINE evs == l.events
<1> DEFINE n == Len(evs)
<1> DEFINE B == BucketCount(l)
<1>1. n \in Nat /\ DOMAIN evs = 1 .. n /\ B \in Nat \ {0}
  <2>1. n \in Nat /\ DOMAIN evs = 1 .. n
    BY DEF Timed
  <2> QED BY <2>1, PartsOfTime
<1>2. Duration(l) \in Nat \ {0}
  <2>1. Duration(l) # 0
    BY DEF FrequencySeries
  <2> QED BY <2>1 DEF Duration
<1> DEFINE A == [i \in 1 .. B |-> {k \in 1 .. n : InBucket(l, i, evs[k])}]
<1>3. FrequencySeries(l) = [i \in 1 .. B |-> Cardinality({k \in 1 .. n : InBucket(l, i, evs[k])})]
  BY <1>1, <1>2 DEF FrequencySeries, Count
<1> DEFINE s == FrequencySeries(l)
<1>4. DOMAIN s = 1 .. B
  BY <1>3
<1>5. Sizes(s, A, 1 .. B)
  <2>1. \A i \in 1 .. B : s[i] = Cardinality({k \in 1 .. n : InBucket(l, i, evs[k])})
    BY <1>3
  <2>2. \A i \in 1 .. B : A[i] = {k \in 1 .. n : InBucket(l, i, evs[k])}
    OBVIOUS
  <2> HIDE DEF s, A
  <2> QED BY <2>1, <2>2 DEF Sizes
<1>6. ASSUME NEW k \in InItsTime(l)
      PROVE  /\ \E i \in 1 .. B : InBucket(l, i, evs[k])
             /\ \A i, j \in 1 .. B : InBucket(l, i, evs[k]) /\ InBucket(l, j, evs[k]) => i = j
  <2>1. evs[k].at \in Int /\ 0 <= evs[k].at /\ evs[k].at <= Duration(l)
    BY DEF InItsTime, Timed
  <2> QED BY <2>1, <1>1, <1>2, EachInOnePart
<1>6a. ASSUME NEW i \in 1 .. B, NEW k \in 1 .. n, InBucket(l, i, evs[k]) PROVE k \in InItsTime(l)
  <2>1. evs[k].at \in Int
    BY <1>1 DEF Timed
  <2>2. 0 <= evs[k].at /\ evs[k].at <= Duration(l)
    BY <1>1, <1>2, <1>6a, <2>1, PartsAreOfTime
  <2> QED BY <1>1, <2>2 DEF InItsTime
<1>7. Parts(A, 1 .. B, 1 .. n)
  <2>1. A \in [1 .. B -> SUBSET (1 .. n)]
    OBVIOUS
  <2>2. \A i, j \in 1 .. B : i # j => A[i] \cap A[j] = {}
    BY <1>6, <1>6a
  <2> HIDE DEF A
  <2> QED BY <2>1, <2>2 DEF Parts
<1>8. Together(A, 1 .. B) = InItsTime(l)
  <2>1. InItsTime(l) \subseteq 1 .. n
    BY <1>1 DEF InItsTime
  <2>2. \A k \in 1 .. n : k \in InItsTime(l) <=> \E i \in 1 .. B : InBucket(l, i, evs[k])
    BY <1>6, <1>6a
  <2>3. Together(A, 1 .. B) = {k \in 1 .. n : \E i \in 1 .. B : InBucket(l, i, evs[k])}
    BY DEF Together
  <2> QED BY <2>1, <2>2, <2>3
<1> HIDE DEF s, A, B, n
<1>9. IsFiniteSet(1 .. B) /\ IsFiniteSet(1 .. n)
  BY <1>1, CountTo
<1>10. SumFunctionOnSet(s, 1 .. B) = Cardinality(Together(A, 1 .. B))
  BY <1>5, <1>7, <1>9, SumOfParts
<1> QED BY <1>4, <1>8, <1>10 DEF s

LEMMA UploadIsTimed ==
    ASSUME NEW d \in Diagnoses, NEW l \in Uploads[d]
    PROVE  Timed(l.events) /\ l.first \in Int /\ l.last \in Int
BY DiagnosisAssumption DEF DiagnosisAssumption, Timed

(* The longest pauses are drawn, however long the log is and few its points  *)
(* are (compute_stats).                                                      *)
THEOREM WorstAreDrawn == ReportsSpec => []SeriesShowsWorst
<1>1. GcInv => SeriesShowsWorst
  <2>1. SUFFICES ASSUME GcInv, NEW d \in Diagnoses, Done(d)
                 PROVE  LET evs == log[d].events
                        IN  \A i \in DOMAIN evs \ Series(evs) :
                              evs[i].conc \/ evs[i].pause <= 0
                                \/ Cardinality({j \in Series(evs) : evs[j].pause >= evs[i].pause}) >= TopLimit
    BY DEF SeriesShowsWorst
  <2>2. log[d] \in Uploads[d]
    BY <2>1 DEF GcInv, OfItsLog, Done
  <2>3. PICK evs : evs = log[d].events /\ Timed(evs)
    BY <2>2, UploadIsTimed
  <2>4. ASSUME NEW i \in DOMAIN evs \ Series(evs), ~evs[i].conc, ~(evs[i].pause <= 0)
        PROVE  Cardinality({j \in Series(evs) : evs[j].pause >= evs[i].pause}) >= TopLimit
    <3>1. evs[i].pause > 0
      BY <2>3, <2>4 DEF Timed
    <3> QED BY <2>3, <2>4, <3>1, WorstDrawn
  <2> QED BY <2>3, <2>4
<1>2. QED
  BY <1>1, GcInvariance, PTL

(* The charts show all there is: with the worst pauses, each event between 0 *)
(* and the log's duration is in one part of the log's time, and nothing else *)
(* is in any (compute_stats).                                                *)
THEOREM EventsAreCounted == ReportsSpec => []ChartsShowAll
<1>1. GcInv => BucketsCountAll
  <2>1. SUFFICES ASSUME GcInv, NEW d \in Diagnoses, Done(d), FrequencySeries(log[d]) # <<>>
                 PROVE  SumFunctionOnSet(FrequencySeries(log[d]), DOMAIN FrequencySeries(log[d]))
                          = Cardinality(InItsTime(log[d]))
    BY DEF BucketsCountAll, Count, InItsTime
  <2>2. log[d] \in Uploads[d]
    BY <2>1 DEF GcInv, OfItsLog, Done
  <2>3. Timed(log[d].events) /\ log[d].first \in Int /\ log[d].last \in Int
    BY <2>2, UploadIsTimed
  <2> QED BY <2>1, <2>3, PartsCountAll
<1>2. ReportsSpec => []BucketsCountAll
  BY <1>1, GcInvariance, PTL
<1>3. QED
  BY <1>2, WorstAreDrawn, PTL DEF ChartsShowAll

------------------------------------------------------------------------------
(* Collections somebody asked for.                                           *)

(* Places are gone through in one order only.                                *)
LEMMA OneOrder ==
    ASSUME NEW places, \A i \in places : i \in Nat, NEW p, NEW q, Selects(p, places), Selects(q, places)
    PROVE  p = q
<1> DEFINE n == Cardinality(places)
<1>1. n \in Nat /\ p \in [1 .. n -> places] /\ q \in [1 .. n -> places]
  BY DEF Selects
<1>2. /\ \A i \in places : \E k \in 1 .. n : p[k] = i
      /\ \A i \in places : \E k \in 1 .. n : q[k] = i
      /\ \A k, m \in 1 .. n : k < m => p[k] < p[m]
      /\ \A k, m \in 1 .. n : k < m => q[k] < q[m]
  BY DEF Selects
<1> HIDE DEF n
<1> DEFINE Bad == {m \in 1 .. n : p[m] # q[m]}
<1>3. ASSUME Bad # {} PROVE FALSE
  <2>1. Bad \in SUBSET Nat
    BY <1>1
  <2>2. PICK m \in Bad : \A k \in Bad : m <= k
    <3> HIDE DEF Bad
    <3> QED BY <1>3, <2>1, Least
  <2>3. m \in 1 .. n /\ p[m] # q[m] /\ \A k \in 1 .. n : k < m => p[k] = q[k]
    BY <2>2, <1>1
  <2>4. p[m] \in places /\ q[m] \in places /\ p[m] \in Nat /\ q[m] \in Nat
    BY <1>1, <2>3
  <2>5. CASE p[m] < q[m]
    <3>1. PICK k \in 1 .. n : q[k] = p[m]
      BY <1>2, <2>4
    <3>2. k < m \/ k = m \/ m < k
      BY <1>1, <2>3
    <3>3. CASE k < m
      <4>1. p[k] = p[m] /\ p[k] < p[m]
        BY <3>1, <3>3, <2>3, <1>2
      <4> QED BY <4>1, <2>4
    <3>4. CASE m < k
      <4>1. q[m] < q[k]
        BY <3>4, <2>3, <1>2
      <4> QED BY <4>1, <3>1, <2>4, <2>5
    <3> QED BY <3>1, <3>2, <3>3, <3>4, <2>3
  <2>6. CASE q[m] < p[m]
    <3>1. PICK k \in 1 .. n : p[k] = q[m]
      BY <1>2, <2>4
    <3>2. k < m \/ k = m \/ m < k
      BY <1>1, <2>3
    <3>3. CASE k < m
      <4>1. q[k] = q[m] /\ q[k] < q[m]
        BY <3>1, <3>3, <2>3, <1>2
      <4> QED BY <4>1, <2>4
    <3>4. CASE m < k
      <4>1. p[m] < p[k]
        BY <3>4, <2>3, <1>2
      <4> QED BY <4>1, <3>1, <2>4, <2>6
    <3> QED BY <3>1, <3>2, <3>3, <3>4, <2>3
  <2> QED BY <2>3, <2>4, <2>5, <2>6
<1>4. \A m \in 1 .. n : p[m] = q[m]
  BY <1>3
<1> QED BY <1>1, <1>4

\* The events of a list that are in E.
In(evs, E) == {i \in DOMAIN evs : evs[i] \in E}
Chosen(evs, E) == EventsAt(evs, In(evs, E))

LEMMA EventsSelected ==
    ASSUME NEW evs, NEW places, IsFiniteSet(places), \A i \in places : i \in Nat
    PROVE  \E p : /\ Selects(p, places)
                  /\ EventsAt(evs, places) = [m \in 1 .. Cardinality(places) |-> evs[p[m]]]
<1>1. EventsAt(evs, places) = LinesAt(evs, places)
  BY DEF EventsAt, LinesAt
<1> QED BY <1>1, LinesSelected

(* To select of what was selected is to select once.                         *)
LEMMA SelectedTwice ==
    ASSUME NEW evs, NEW n \in Nat, DOMAIN evs = 1 .. n, NEW D, NEW E, NEW F, F = D \cap E
    PROVE  Chosen(Chosen(evs, D), E) = Chosen(evs, F)
<1>1. PICK P : P = In(evs, D)
  OBVIOUS
<1>2. PICK Q : Q = In(evs, F)
  OBVIOUS
<1>3. P \in SUBSET (1 .. n) /\ Q \in SUBSET P /\ Q = {i \in P : evs[i] \in E}
  BY <1>1, <1>2 DEF In
<1>3a. /\ IsFiniteSet(P) /\ IsFiniteSet(Q)
       /\ \A i \in P : i \in Nat
       /\ \A i \in Q : i \in Nat
  <2>1. P \in SUBSET (1 .. n) /\ Q \in SUBSET (1 .. n)
    BY <1>3
  <2>2. IsFiniteSet(P) /\ IsFiniteSet(Q)
    BY <2>1, CountTo, FS_Subset
  <2> QED BY <2>1, <2>2
<1>4. PICK p : Selects(p, P) /\ EventsAt(evs, P) = [m \in 1 .. Cardinality(P) |-> evs[p[m]]]
  <2>1. IsFiniteSet(P)
    BY <1>3a
  <2>2. \A i \in P : i \in Nat
    BY <1>3a
  <2>3. \E p : Selects(p, P) /\ EventsAt(evs, P) = [m \in 1 .. Cardinality(P) |-> evs[p[m]]]
    BY ONLY <2>1, <2>2, EventsSelected
  <2> QED BY <2>3
<1>5. PICK t : t = EventsAt(evs, P)
  OBVIOUS
<1>6. PICK c \in Nat : c = Cardinality(P)
  BY <1>4 DEF Selects
<1>7. /\ DOMAIN t = 1 .. c /\ \A m \in 1 .. c : t[m] = evs[p[m]]
      /\ p \in [1 .. c -> P]
      /\ \A i \in P : \E m \in 1 .. c : p[m] = i
      /\ \A k, m \in 1 .. c : k < m => p[k] < p[m]
  BY <1>4, <1>5, <1>6 DEF Selects
<1>8. PICK R : R = In(t, E)
  OBVIOUS
<1>9. R \in SUBSET (1 .. c) /\ R = {m \in 1 .. c : p[m] \in Q}
  BY <1>3, <1>7, <1>8 DEF In
<1>10. PICK r : Selects(r, R) /\ EventsAt(t, R) = [m \in 1 .. Cardinality(R) |-> t[r[m]]]
  <2>1. IsFiniteSet(R)
    BY <1>9, CountTo, FS_Subset
  <2>2. \A i \in R : i \in Nat
    BY <1>9
  <2>3. \E r : Selects(r, R) /\ EventsAt(t, R) = [m \in 1 .. Cardinality(R) |-> t[r[m]]]
    BY ONLY <2>1, <2>2, EventsSelected
  <2> QED BY <2>3
<1>11. PICK q : Selects(q, Q) /\ EventsAt(evs, Q) = [m \in 1 .. Cardinality(Q) |-> evs[q[m]]]
  <2>1. IsFiniteSet(Q)
    BY <1>3a
  <2>2. \A i \in Q : i \in Nat
    BY <1>3a
  <2>3. \E q : Selects(q, Q) /\ EventsAt(evs, Q) = [m \in 1 .. Cardinality(Q) |-> evs[q[m]]]
    BY ONLY <2>1, <2>2, EventsSelected
  <2> QED BY <2>3
<1>12. Cardinality(R) = Cardinality(Q) /\ Cardinality(Q) \in Nat
  <2>1. IsFiniteSet(R)
    BY <1>9, CountTo, FS_Subset
  <2> DEFINE b == [m \in R |-> p[m]]
  <2>2. b \in [R -> Q]
    BY <1>9
  <2>3. \A k, m \in R : b[k] = b[m] => k = m
    <3>1. \A k, m \in R : k # m => p[k] # p[m]
      <4> SUFFICES ASSUME NEW k \in R, NEW m \in R, k # m PROVE p[k] # p[m]
        OBVIOUS
      <4>1. k \in 1 .. c /\ m \in 1 .. c /\ (k < m \/ m < k)
        BY <1>9
      <4>2. p[k] < p[m] \/ p[m] < p[k]
        BY <4>1, <1>7
      <4>3. p[k] \in Nat /\ p[m] \in Nat
        <5>1. p[k] \in P /\ p[m] \in P
          BY <4>1, <1>7
        <5> QED BY <5>1, <1>3a
      <4> QED BY <4>2, <4>3
    <3> QED BY <3>1
  <2>4. \A i \in Q : \E m \in R : b[m] = i
    BY <1>3, <1>7, <1>9
  <2> HIDE DEF b
  <2>5. b \in Bijection(R, Q)
    BY <2>2, <2>3, <2>4 DEF Bijection, Injection, Surjection, IsInjective
  <2>6. ExistsBijection(R, Q)
    BY <2>5 DEF ExistsBijection
  <2>7. Cardinality(R) = Cardinality(Q)
    BY <2>1, <2>6, FS_Bijection
  <2> QED BY <2>7, <1>11 DEF Selects
<1>13. PICK k \in Nat : k = Cardinality(Q) /\ k = Cardinality(R)
  BY <1>12
<1>14. /\ r \in [1 .. k -> R]
       /\ \A i \in R : \E m \in 1 .. k : r[m] = i
       /\ \A j, m \in 1 .. k : j < m => r[j] < r[m]
  BY <1>10, <1>13 DEF Selects
<1> DEFINE b == [m \in 1 .. k |-> p[r[m]]]
<1>15. b \in [1 .. k -> Q]
  BY <1>9, <1>14
<1>16. \A i \in Q : \E m \in 1 .. k : b[m] = i
  <2> TAKE i \in Q
  <2>1. PICK j \in R : p[j] = i
    BY <1>3, <1>7, <1>9
  <2>2. PICK m \in 1 .. k : r[m] = j
    BY <1>14
  <2> QED BY <2>1, <2>2
<1>17. \A j, m \in 1 .. k : j < m => b[j] < b[m]
  <2> TAKE j, m \in 1 .. k
  <2> HAVE j < m
  <2>1. r[j] < r[m] /\ r[j] \in 1 .. c /\ r[m] \in 1 .. c
    BY <1>9, <1>14
  <2> QED BY <2>1, <1>7
<1>18. \A m \in 1 .. k : b[m] = p[r[m]]
  OBVIOUS
<1> HIDE DEF b
<1>19. Selects(b, Q)
  BY <1>12, <1>13, <1>15, <1>16, <1>17 DEF Selects
<1>20. b = q
  <2>1. \A i \in Q : i \in Nat
    BY <1>3
  <2> QED BY <1>11, <1>19, <2>1, OneOrder
<1>21. \A m \in 1 .. k : t[r[m]] = evs[q[m]]
  BY <1>7, <1>9, <1>14, <1>18, <1>20
<1>22. EventsAt(t, R) = EventsAt(evs, Q)
  BY <1>10, <1>11, <1>13, <1>21
<1> QED BY <1>1, <1>2, <1>5, <1>8, <1>22 DEF Chosen

\* A list of events, each of them in U.
ListOf(evs, U) == \E n \in Nat : DOMAIN evs = 1 .. n /\ \A i \in 1 .. n : evs[i] \in U

(* What is selected is of the list, and all of the list that is meant.       *)
LEMMA SelectedIsOf ==
    ASSUME NEW evs, NEW U, ListOf(evs, U), NEW E
    PROVE  LET some == Chosen(evs, E)
           IN  /\ ListOf(some, U) /\ ListOf(some, E)
               /\ \A i \in DOMAIN evs : evs[i] \in E => \E k \in DOMAIN some : some[k] = evs[i]
               /\ \A k \in DOMAIN some : \E i \in DOMAIN evs : some[k] = evs[i]
<1>1. PICK n \in Nat : DOMAIN evs = 1 .. n /\ \A i \in 1 .. n : evs[i] \in U
  BY DEF ListOf
<1>2. PICK P : P = In(evs, E)
  OBVIOUS
<1>3. P \in SUBSET (1 .. n) /\ \A i \in P : evs[i] \in E
  BY <1>1, <1>2 DEF In
<1>3a. \A i \in DOMAIN evs : evs[i] \in E => i \in P
  BY <1>2 DEF In
<1>4. PICK p : Selects(p, P) /\ EventsAt(evs, P) = [m \in 1 .. Cardinality(P) |-> evs[p[m]]]
  <2>1. IsFiniteSet(P)
    BY <1>3, CountTo, FS_Subset
  <2>2. \A i \in P : i \in Nat
    BY <1>3
  <2>3. \E p : Selects(p, P) /\ EventsAt(evs, P) = [m \in 1 .. Cardinality(P) |-> evs[p[m]]]
    BY ONLY <2>1, <2>2, EventsSelected
  <2> QED BY <2>3
<1>5. PICK c \in Nat : c = Cardinality(P)
  BY <1>4 DEF Selects
<1>6. p \in [1 .. c -> P] /\ \A i \in P : \E m \in 1 .. c : p[m] = i
  BY <1>4, <1>5 DEF Selects
<1>7. PICK some : some = EventsAt(evs, P)
  OBVIOUS
<1>8. DOMAIN some = 1 .. c /\ \A m \in 1 .. c : some[m] = evs[p[m]] /\ p[m] \in P /\ p[m] \in 1 .. n
  BY <1>3, <1>4, <1>5, <1>6, <1>7
<1>9. ListOf(some, U) /\ ListOf(some, E)
  BY <1>1, <1>3, <1>8 DEF ListOf
<1>10. \A i \in DOMAIN evs : evs[i] \in E => \E k \in DOMAIN some : some[k] = evs[i]
  BY <1>3a, <1>6, <1>8
<1>11. \A k \in DOMAIN some : \E i \in DOMAIN evs : some[k] = evs[i]
  BY <1>1, <1>8
<1> QED BY <1>2, <1>7, <1>9, <1>10, <1>11 DEF Chosen

\* Of U those are in F that are in D and in E.
Meet(U, D, E, F) == \A e \in U : e \in F <=> e \in D /\ e \in E

LEMMA SelectedAgain ==
    ASSUME NEW evs, NEW U, ListOf(evs, U), NEW D, NEW E, NEW F, Meet(U, D, E, F)
    PROVE  Chosen(Chosen(evs, D), E) = Chosen(evs, F)
<1>1. PICK n \in Nat : DOMAIN evs = 1 .. n /\ \A i \in 1 .. n : evs[i] \in U
  BY DEF ListOf
<1>2. In(evs, F) = In(evs, D \cap E)
  BY <1>1 DEF In, Meet
<1>3. PICK G : G = D \cap E
  OBVIOUS
<1>4. Chosen(Chosen(evs, D), E) = Chosen(evs, G)
  BY <1>1, <1>3, SelectedTwice
<1> QED BY <1>2, <1>3, <1>4 DEF Chosen

\* What the four rules that lead to an alarm look at.
AskedFor(e) == e.cat = "Full" /\ IsManualFullGc(e)
Unasked(U) == {e \in U : ~AskedFor(e)}
Reclaimable(U, c) == {e \in U : e.cat = c /\ e.before > 0 /\ e.after >= 0 /\ ~(c = "Full" /\ IsManualFullGc(e))}
MixedOf(U) == {e \in U : e.cat = "Mixed" /\ e.before > 0}
FullOf(U) == {e \in U : e.cat = "Full" /\ e.total > 0 /\ ~IsManualFullGc(e)}
Among(U, c) == {e \in U : e.cat = c}

LEMMA OfCategory ==
    ASSUME NEW evs, NEW U, ListOf(evs, U), NEW c
    PROVE  Of(evs, {c}) = Chosen(evs, Among(U, c))
<1>1. {i \in DOMAIN evs : evs[i].cat \in {c}} = In(evs, Among(U, c))
  BY DEF ListOf, In, Among
<1>2. Of(evs, {c}) = EventsAt(evs, {i \in DOMAIN evs : evs[i].cat \in {c}})
  BY DEF Of, Select
<1> QED BY <1>1, <1>2 DEF Chosen

LEMMA ReclaimIs ==
    ASSUME NEW l, NEW U, ListOf(l.events, U), NEW c
    PROVE  ReclaimLowEvents(l, c) = Chosen(l.events, Reclaimable(U, c))
<1>1. PICK evs : evs = l.events /\ ListOf(evs, U)
  OBVIOUS
<1>2. PICK A : A = Among(U, c)
  OBVIOUS
<1>3. PICK M : M = {e \in U : e.before > 0 /\ e.after >= 0}
  OBVIOUS
<1>4. PICK N : N = {e \in U : ~(c = "Full" /\ IsManualFullGc(e))}
  OBVIOUS
<1>5. PICK B : B = {e \in U : e.cat = c /\ e.before > 0 /\ e.after >= 0}
  OBVIOUS
<1>6. PICK a : a = Chosen(evs, A) /\ ListOf(a, U) /\ a = Of(evs, {c})
  <2>1. Of(evs, {c}) = Chosen(evs, A)
    BY <1>1, <1>2, OfCategory
  <2>2. ListOf(Chosen(evs, A), U)
    BY <1>1, SelectedIsOf
  <2> QED BY <2>1, <2>2
<1>7. PICK b : b = Chosen(a, M) /\ b = Measured(a)
  <2>1. {i \in DOMAIN a : a[i].before > 0 /\ a[i].after >= 0} = In(a, M)
    BY <1>3, <1>6 DEF ListOf, In
  <2>2. Measured(a) = EventsAt(a, {i \in DOMAIN a : a[i].before > 0 /\ a[i].after >= 0})
    BY DEF Measured, Select
  <2> QED BY <2>1, <2>2 DEF Chosen
<1>8. b = Chosen(evs, B) /\ ListOf(b, U)
  <2>1. Meet(U, A, M, B)
    BY <1>2, <1>3, <1>5 DEF Meet, Among
  <2>2. b = Chosen(evs, B)
    <3>1. ListOf(evs, U)
      BY <1>1
    <3>2. Chosen(Chosen(evs, A), M) = Chosen(evs, B)
      BY ONLY <2>1, <3>1, SelectedAgain
    <3> QED BY <3>2, <1>6, <1>7
  <2> QED BY <1>1, <2>2, SelectedIsOf
<1>9. PICK R : R = Reclaimable(U, c)
  OBVIOUS
<1>10. ReclaimLowEvents(l, c) = Chosen(b, N)
  <2>1. {i \in DOMAIN b : ~(c = "Full" /\ IsManualFullGc(b[i]))} = In(b, N)
    BY <1>4, <1>8 DEF ListOf, In
  <2>2. ReclaimLowEvents(l, c) = EventsAt(b, {i \in DOMAIN b : ~(c = "Full" /\ IsManualFullGc(b[i]))})
    BY <1>1, <1>6, <1>7 DEF ReclaimLowEvents, Select
  <2> QED BY <2>1, <2>2 DEF Chosen
<1>11. Chosen(b, N) = Chosen(evs, R)
  <2>1. Meet(U, B, N, R)
    BY <1>4, <1>5, <1>9 DEF Reclaimable, Meet
  <2> QED BY <1>1, <1>8, <2>1, SelectedAgain
<1> QED BY <1>1, <1>9, <1>10, <1>11

LEMMA MixedIs ==
    ASSUME NEW evs, NEW U, ListOf(evs, U)
    PROVE  Select(Of(evs, {"Mixed"}), LAMBDA e : e.before > 0) = Chosen(evs, MixedOf(U))
<1>2. PICK A : A = Among(U, "Mixed")
  OBVIOUS
<1>3. PICK M : M = {e \in U : e.before > 0}
  OBVIOUS
<1>6. PICK a : a = Chosen(evs, A) /\ ListOf(a, U) /\ a = Of(evs, {"Mixed"})
  BY <1>2, SelectedIsOf, OfCategory
<1>7. Select(a, LAMBDA e : e.before > 0) = Chosen(a, M)
  <2>1. {i \in DOMAIN a : a[i].before > 0} = In(a, M)
    BY <1>3, <1>6 DEF ListOf, In
  <2>2. Select(a, LAMBDA e : e.before > 0) = EventsAt(a, {i \in DOMAIN a : a[i].before > 0})
    BY DEF Select
  <2> QED BY <2>1, <2>2 DEF Chosen
<1>9. PICK R : R = MixedOf(U)
  OBVIOUS
<1>11. Chosen(a, M) = Chosen(evs, R)
  <2>1. Meet(U, A, M, R)
    BY <1>2, <1>3, <1>9 DEF MixedOf, Meet, Among
  <2>2. ListOf(evs, U)
    OBVIOUS
  <2>3. Chosen(Chosen(evs, A), M) = Chosen(evs, R)
    BY ONLY <2>1, <2>2, SelectedAgain
  <2> QED BY <2>3, <1>6
<1> QED BY <1>6, <1>7, <1>9, <1>11

LEMMA FullIs ==
    ASSUME NEW evs, NEW U, ListOf(evs, U)
    PROVE  Select(Of(evs, {"Full"}), LAMBDA e : e.total > 0 /\ ~IsManualFullGc(e))
             = Chosen(evs, FullOf(U))
<1>2. PICK A : A = Among(U, "Full")
  OBVIOUS
<1>3. PICK M : M = {e \in U : e.total > 0 /\ ~IsManualFullGc(e)}
  OBVIOUS
<1>6. PICK a : a = Chosen(evs, A) /\ ListOf(a, U) /\ a = Of(evs, {"Full"})
  BY <1>2, SelectedIsOf, OfCategory
<1>7. Select(a, LAMBDA e : e.total > 0 /\ ~IsManualFullGc(e)) = Chosen(a, M)
  <2>1. {i \in DOMAIN a : a[i].total > 0 /\ ~IsManualFullGc(a[i])} = In(a, M)
    BY <1>3, <1>6 DEF ListOf, In
  <2>2. Select(a, LAMBDA e : e.total > 0 /\ ~IsManualFullGc(e))
          = EventsAt(a, {i \in DOMAIN a : a[i].total > 0 /\ ~IsManualFullGc(a[i])})
    BY DEF Select
  <2> QED BY <2>1, <2>2 DEF Chosen
<1>9. PICK R : R = FullOf(U)
  OBVIOUS
<1>11. Chosen(a, M) = Chosen(evs, R)
  <2>1. Meet(U, A, M, R)
    BY <1>2, <1>3, <1>9 DEF FullOf, Meet, Among
  <2>2. ListOf(evs, U)
    OBVIOUS
  <2>3. Chosen(Chosen(evs, A), M) = Chosen(evs, R)
    BY ONLY <2>1, <2>2, SelectedAgain
  <2> QED BY <2>3, <1>6
<1> QED BY <1>6, <1>7, <1>9, <1>11

\* A log whose events are of U, and the rest of it without what was asked for.
LogOf(l, U) ==
    /\ l = [collector |-> l.collector, first |-> l.first, last |-> l.last, events |-> l.events]
    /\ ListOf(l.events, U)

LEMMA RestOfLog ==
    ASSUME NEW l, NEW U, LogOf(l, U)
    PROVE  LET w == WithoutManual(l)
           IN  /\ w.collector = l.collector
               /\ w.events = Chosen(l.events, Unasked(U))
               /\ ListOf(w.events, U)
<1>1. PICK evs : evs = Select(l.events, LAMBDA e : ~(e.cat = "Full" /\ IsManualFullGc(e)))
  OBVIOUS
<1>2. WithoutManual(l) = [l EXCEPT !.events = evs]
  BY <1>1 DEF WithoutManual
<1>3. WithoutManual(l).collector = l.collector /\ WithoutManual(l).events = evs
  BY <1>2 DEF LogOf
<1>4. evs = EventsAt(l.events, {i \in DOMAIN l.events : ~AskedFor(l.events[i])})
  BY <1>1 DEF Select, AskedFor
<1>5. {i \in DOMAIN l.events : ~AskedFor(l.events[i])} = In(l.events, Unasked(U))
  BY DEF LogOf, ListOf, In, Unasked
<1>6. evs = Chosen(l.events, Unasked(U))
  BY <1>4, <1>5 DEF Chosen
<1>7. ListOf(evs, U)
  BY <1>6, SelectedIsOf DEF LogOf
<1> QED BY <1>3, <1>6, <1>7

LEMMA SameOfTheRest ==
    ASSUME NEW l, NEW U, LogOf(l, U), NEW E, \A e \in U : e \in E => ~AskedFor(e)
    PROVE  Chosen(WithoutManual(l).events, E) = Chosen(l.events, E)
<1>1. PICK D : D = Unasked(U)
  OBVIOUS
<1>2. Meet(U, D, E, E)
  BY <1>1 DEF Meet, Unasked
<1>3. WithoutManual(l).events = Chosen(l.events, D)
  BY <1>1, RestOfLog
<1>4. ListOf(l.events, U)
  BY DEF LogOf
<1>5. Chosen(Chosen(l.events, D), E) = Chosen(l.events, E)
  BY <1>2, <1>4, SelectedAgain
<1> QED BY <1>3, <1>5

(* The four rules find the same without what was asked for.                  *)
LEMMA ReclaimOfTheRest ==
    ASSUME NEW l, NEW U, LogOf(l, U)
    PROVE  RuleReclaimLow(WithoutManual(l)) = RuleReclaimLow(l)
<1> DEFINE Said(evs) ==
      LET ratios == [i \in 1 .. Len(evs) |-> Reclaimed(evs[i])]
          sum == ReclaimSum(evs)
      IN  IF Len(evs) < 3 \/ sum >= 50 * Len(evs) THEN {}
          ELSE Finding("reclaim_low",
                       IF sum <= 20 * Len(evs) \/ SlopeBelow(ratios, -2) THEN "high" ELSE "medium")
<1>1. PICK w : w = WithoutManual(l)
  OBVIOUS
<1>2. \A x : RuleReclaimLow(x) = UNION {Said(ReclaimLowEvents(x, c)) : c \in {"Full", "Mixed"}}
  BY DEF RuleReclaimLow
<1> HIDE DEF Said
<1>3. ASSUME NEW c \in {"Full", "Mixed"} PROVE ReclaimLowEvents(w, c) = ReclaimLowEvents(l, c)
  <2>1. PICK E : E = Reclaimable(U, c)
    OBVIOUS
  <2>2. \A e \in U : e \in E => ~AskedFor(e)
    BY <2>1 DEF Reclaimable, AskedFor
  <2>3. Chosen(w.events, E) = Chosen(l.events, E)
    BY <1>1, <2>2, SameOfTheRest
  <2>4. ListOf(w.events, U) /\ ListOf(l.events, U)
    BY <1>1, RestOfLog DEF LogOf
  <2>5. ReclaimLowEvents(w, c) = Chosen(w.events, E)
    BY <2>1, <2>4, ReclaimIs
  <2>6. ReclaimLowEvents(l, c) = Chosen(l.events, E)
    BY <2>1, <2>4, ReclaimIs
  <2> QED BY <2>3, <2>5, <2>6
<1>4. Said(ReclaimLowEvents(w, "Full")) = Said(ReclaimLowEvents(l, "Full"))
      /\ Said(ReclaimLowEvents(w, "Mixed")) = Said(ReclaimLowEvents(l, "Mixed"))
  BY <1>3
<1>5. \A x : RuleReclaimLow(x) = Said(ReclaimLowEvents(x, "Full")) \cup Said(ReclaimLowEvents(x, "Mixed"))
  BY <1>2
<1> QED BY <1>1, <1>4, <1>5

LEMMA MixedOfTheRest ==
    ASSUME NEW l, NEW U, LogOf(l, U)
    PROVE  RuleG1MixedIneffective(WithoutManual(l)) = RuleG1MixedIneffective(l)
<1> DEFINE Said(mixed) ==
      IF Len(mixed) >= 3 /\ SlopeAboveHalf([i \in 1 .. Len(mixed) |-> mixed[i].before])
      THEN Finding("g1_mixed_ineffective", "medium") ELSE {}
<1> DEFINE mixed(x) == Select(Of(x.events, {"Mixed"}), LAMBDA e : e.before > 0)
<1>1. PICK w : w = WithoutManual(l)
  OBVIOUS
<1>2. \A x : RuleG1MixedIneffective(x) = Said(mixed(x))
  BY DEF RuleG1MixedIneffective
<1> HIDE DEF Said
<1>3. PICK E : E = MixedOf(U)
  OBVIOUS
<1>4. \A e \in U : e \in E => ~AskedFor(e)
  BY <1>3 DEF MixedOf, AskedFor
<1>5. Chosen(w.events, E) = Chosen(l.events, E)
  BY <1>1, <1>4, SameOfTheRest
<1>6. ListOf(w.events, U) /\ ListOf(l.events, U)
  BY <1>1, RestOfLog DEF LogOf
<1>7. mixed(w) = Chosen(w.events, E) /\ mixed(l) = Chosen(l.events, E)
  BY <1>3, <1>6, MixedIs
<1> HIDE DEF mixed
<1> QED BY <1>1, <1>2, <1>5, <1>7

LEMMA FragmentationOfTheRest ==
    ASSUME NEW l, NEW U, LogOf(l, U)
    PROVE  RuleCmsFragmentation(WithoutManual(l)) = RuleCmsFragmentation(l)
<1> DEFINE Said(full) ==
      IF Len(full) < 3 \/ SumOf(full, LAMBDA e : (e.after * 1000) \div e.total) >= 700 * Len(full) THEN {}
      ELSE Finding("cms_fragmentation", "medium")
<1> DEFINE full(x) == Select(Of(x.events, {"Full"}), LAMBDA e : e.total > 0 /\ ~IsManualFullGc(e))
<1>1. PICK w : w = WithoutManual(l)
  OBVIOUS
<1>2. \A x : RuleCmsFragmentation(x) = Said(full(x))
  BY DEF RuleCmsFragmentation
<1> HIDE DEF Said
<1>3. PICK E : E = FullOf(U)
  OBVIOUS
<1>4. \A e \in U : e \in E => ~AskedFor(e)
  BY <1>3 DEF FullOf, AskedFor
<1>5. Chosen(w.events, E) = Chosen(l.events, E)
  BY <1>1, <1>4, SameOfTheRest
<1>6. ListOf(w.events, U) /\ ListOf(l.events, U)
  BY <1>1, RestOfLog DEF LogOf
<1>7. full(w) = Chosen(w.events, E) /\ full(l) = Chosen(l.events, E)
  BY <1>3, <1>6, FullIs
<1> HIDE DEF full
<1> QED BY <1>1, <1>2, <1>5, <1>7

\* No event of U was asked for and tells of a failure as well.
NeverBoth(U) == \A e \in U : IsManualFullGc(e) => ~Says(e, FailurePhrases)

LEMMA FailureIsUnasked ==
    ASSUME NEW U, NeverBoth(U), NEW phrases, phrases \subseteq FailurePhrases, NEW e \in U, Says(e, phrases)
    PROVE  ~IsManualFullGc(e)
BY DEF NeverBoth, Says

LEMMA FailureOfTheRest ==
    ASSUME NEW l, NEW U, LogOf(l, U), NeverBoth(U)
    PROVE  RuleAllocFailureFull(WithoutManual(l)) = RuleAllocFailureFull(l)
<1> DEFINE failed(e) == e.cat = "Full" /\ Says(e, {"allocation failure"}) /\ e.after > 0 /\ LeavesAtLeast(e, 85)
<1>1. PICK w : w = WithoutManual(l)
  OBVIOUS
<1>2. \A x : RuleAllocFailureFull(x) =
               IF \E i \in DOMAIN x.events : failed(x.events[i]) THEN Finding("alloc_failure_full", "high") ELSE {}
  BY DEF RuleAllocFailureFull, ToSet
<1>3. \A e \in U : failed(e) => e \in Unasked(U)
  <2>1. {"allocation failure"} \subseteq FailurePhrases
    BY DEF FailurePhrases
  <2> QED BY <2>1, FailureIsUnasked DEF Unasked, AskedFor
<1> HIDE DEF failed
<1>4. PICK E : E = Unasked(U)
  OBVIOUS
<1>5. w.events = Chosen(l.events, E) /\ ListOf(l.events, U)
  BY <1>1, <1>4, RestOfLog DEF LogOf
<1>6. /\ \A i \in DOMAIN l.events : l.events[i] \in E => \E k \in DOMAIN w.events : w.events[k] = l.events[i]
      /\ \A k \in DOMAIN w.events : \E i \in DOMAIN l.events : w.events[k] = l.events[i]
  BY <1>5, SelectedIsOf
<1>7. \A i \in DOMAIN l.events : l.events[i] \in U
  BY <1>5 DEF ListOf
<1>8. (\E i \in DOMAIN w.events : failed(w.events[i])) <=> (\E i \in DOMAIN l.events : failed(l.events[i]))
  BY <1>3, <1>4, <1>6, <1>7
<1> QED BY <1>1, <1>2, <1>8

------------------------------------------------------------------------------
(* Which findings decide whether there is an alarm.                          *)

AlarmRules == LeakRules \cup OomRules
\* The findings of the four rules.
OfTheFour(l) ==
    RuleReclaimLow(l) \cup RuleAllocFailureFull(l)
      \cup (IF l.collector = "G1" THEN RuleG1MixedIneffective(l) ELSE {})
      \cup (IF l.collector = "CMS" THEN RuleCmsFragmentation(l) ELSE {})

LEMMA FourOfCollector ==
    ASSUME NEW l, NEW f, f.rule \in AlarmRules
    PROVE  f \in CollectorRules(l) <=>
             \/ l.collector = "G1" /\ f \in RuleG1MixedIneffective(l)
             \/ l.collector = "CMS" /\ f \in RuleCmsFragmentation(l)
<1>0. f.rule \in {"g1_mixed_ineffective", "cms_fragmentation", "reclaim_low", "alloc_failure_full"}
  BY DEF AlarmRules, LeakRules, OomRules
<1>1. f \notin RuleG1FullGc(l)
  <2> DEFINE severity == FullGcSeverity(Of(l.events, {"Full"}), {"to-space exhausted", "evacuation failure"})
  <2>1. RuleG1FullGc(l) \subseteq Finding("g1_full_gc", severity)
    BY DEF RuleG1FullGc
  <2> HIDE DEF severity
  <2> QED BY <1>0, <2>1 DEF Finding
<1>2. f \notin RuleCmsFullGc(l)
  <2> DEFINE severity == FullGcSeverity(Of(l.events, {"Full"}), {"concurrent mode failure"})
  <2>1. RuleCmsFullGc(l) \subseteq Finding("cms_full_gc", severity)
    BY DEF RuleCmsFullGc
  <2> HIDE DEF severity
  <2> QED BY <1>0, <2>1 DEF Finding
<1>3. f \notin RuleG1CompactionPause(l)
  <2>1. Saying(RuleG1CompactionPause(l), "g1_compaction_pause")
    BY GradedSays DEF RuleG1CompactionPause
  <2> QED BY <1>0, <2>1 DEF Saying
<1>4. f \notin RuleG1HumongousAllocation(l)
  <2>1. Saying(RuleG1HumongousAllocation(l), "g1_humongous_allocation")
    BY GradedSays DEF RuleG1HumongousAllocation
  <2> QED BY <1>0, <2>1 DEF Saying
<1>5. f \notin RuleCmsConcurrentModeFailure(l) /\ f \notin RuleCmsPromotionFailed(l)
  <2>1. /\ Saying(RuleCmsConcurrentModeFailure(l), "cms_concurrent_mode_failure")
        /\ Saying(RuleCmsPromotionFailed(l), "cms_promotion_failed")
    BY SomeEventSays DEF RuleCmsConcurrentModeFailure, RuleCmsPromotionFailed
  <2> QED BY <1>0, <2>1 DEF Saying
<1>6. f \notin RuleZgcAllocationStall(l) /\ f \notin RuleZgcConcurrentCycleFailure(l)
  <2>1. /\ Saying(RuleZgcAllocationStall(l), "zgc_allocation_stall")
        /\ Saying(RuleZgcConcurrentCycleFailure(l), "zgc_concurrent_cycle_failure")
    BY SomeEventSays DEF RuleZgcAllocationStall, RuleZgcConcurrentCycleFailure
  <2> QED BY <1>0, <2>1 DEF Saying
<1>7. f \notin RuleCmsRemarkTooLong(l) /\ f \notin RuleZgcPauseExceedsTarget(l)
  <2>1. /\ Saying(RuleCmsRemarkTooLong(l), "cms_remark_too_long")
        /\ Saying(RuleZgcPauseExceedsTarget(l), "zgc_pause_exceeds_target")
    BY PercentileSays DEF RuleCmsRemarkTooLong, RuleZgcPauseExceedsTarget
  <2> QED BY <1>0, <2>1 DEF Saying
<1>8. CASE l.collector = "G1"
  BY <1>1, <1>3, <1>4, <1>8 DEF CollectorRules
<1>9. CASE l.collector = "CMS"
  BY <1>2, <1>5, <1>7, <1>9 DEF CollectorRules
<1>10. CASE l.collector = "Z"
  BY <1>6, <1>7, <1>10 DEF CollectorRules
<1>11. CASE l.collector \notin {"G1", "CMS", "Z"}
  BY <1>11 DEF CollectorRules
<1> QED BY <1>8, <1>9, <1>10, <1>11

LEMMA FourOfAll ==
    ASSUME NEW l, NEW f, f.rule \in AlarmRules
    PROVE  f \in Findings(l) <=> f \in OfTheFour(l)
<1>0. f.rule \in {"g1_mixed_ineffective", "cms_fragmentation", "reclaim_low", "alloc_failure_full"}
  BY DEF AlarmRules, LeakRules, OomRules
<1>1. f \notin RuleThroughputLow(l) /\ f \notin RuleStwTimeRatioHigh(l)
  BY <1>0 DEF RuleThroughputLow, RuleStwTimeRatioHigh, Finding
<1>2. f \notin RuleYoungGcFrequency(l) /\ f \notin RuleFullGcFrequency(l)
  <2>1. Saying(RuleYoungGcFrequency(l), "gc_frequency_high")
    BY DEF Saying, RuleYoungGcFrequency, Finding
  <2>2. Saying(RuleFullGcFrequency(l), "gc_frequency_high")
    BY DEF Saying, RuleFullGcFrequency, Finding
  <2> QED BY <1>0, <2>1, <2>2 DEF Saying
<1>3. f \notin RuleEvacuationFailure(l) /\ f \notin RuleExplicitGcCalled(l)
  <2>1. /\ Saying(RuleEvacuationFailure(l), "evacuation_failure")
        /\ Saying(RuleExplicitGcCalled(l), "explicit_gc_called")
    BY GradedSays DEF RuleEvacuationFailure, RuleExplicitGcCalled
  <2> QED BY <1>0, <2>1 DEF Saying
<1>4. f \notin RuleMetaspacePressure(l)
  <2>1. Saying(RuleMetaspacePressure(l), "metaspace_pressure")
    BY DEF Saying, RuleMetaspacePressure, Finding
  <2> QED BY <1>0, <2>1 DEF Saying
<1>5. f \notin RuleSinglePauseLong(l)
  BY <1>0, PauseSays DEF Saying
<1>6. f \in Findings(l) <=> f \in CollectorRules(l) \/ f \in RuleReclaimLow(l) \/ f \in RuleAllocFailureFull(l)
  BY <1>1, <1>2, <1>3, <1>4, <1>5 DEF Findings, RuleGcFrequencyHigh
<1> QED BY <1>6, FourOfCollector DEF OfTheFour

\* Both have fired the same rules of the alarms.
FiredAlike(fs, gs) == \A r \in AlarmRules : r \in Fired(fs) <=> r \in Fired(gs)

(* There is an OOM risk if one of two rules has fired; a leak risk if there  *)
(* is none of OOM but one of the other two has.                              *)
LEMMA RisksOfFired ==
    ASSUME NEW fs, Given(fs)
    PROVE  /\ OomRisk(fs) = "none" <=> Fired(fs) \cap OomRules = {}
           /\ LeakRisk(fs) = IF OomRisk(fs) = "none" /\ Fired(fs) \cap LeakRules # {}
                             THEN "medium" ELSE "none"
<1>1. FiredHigh(fs) \subseteq Fired(fs)
  BY DEF Fired, FiredHigh
<1>2. OomRisk(fs) = "none" <=> Fired(fs) \cap OomRules = {}
  BY <1>1 DEF OomRisk, RiskOf, OomRules
<1>3. CASE OomRisk(fs) # "none"
  BY <1>2, <1>3, OneRiskAtMost
<1>4. CASE OomRisk(fs) = "none"
  <2>1. "reclaim_low" \notin Fired(fs)
    BY <1>2, <1>4 DEF OomRules
  <2>2. FiredHigh(fs) \cap {"g1_mixed_ineffective", "cms_fragmentation"} = {}
    BY DEF Given, FiredHigh
  <2>3. FiredHigh(fs) \cap LeakRules = {}
    BY <1>1, <2>1, <2>2 DEF LeakRules
  <2>4. RiskOf(fs, LeakRules) = IF Fired(fs) \cap LeakRules # {} THEN "medium" ELSE "none"
    BY <2>3 DEF RiskOf
  <2> QED BY <1>2, <1>4, <2>4 DEF LeakRisk
<1> QED BY <1>2, <1>3, <1>4

LEMMA RisksAlike ==
    ASSUME NEW fs, NEW gs, Given(fs), Given(gs), FiredAlike(fs, gs)
    PROVE  /\ OomRisk(fs) = "none" <=> OomRisk(gs) = "none"
           /\ LeakRisk(fs) = LeakRisk(gs)
<1>1. Fired(fs) \cap OomRules = {} <=> Fired(gs) \cap OomRules = {}
  BY DEF FiredAlike, AlarmRules
<1>2. Fired(fs) \cap LeakRules = {} <=> Fired(gs) \cap LeakRules = {}
  BY DEF FiredAlike, AlarmRules
<1>3. OomRisk(fs) = "none" <=> OomRisk(gs) = "none"
  BY <1>1, RisksOfFired
<1>4. LeakRisk(fs) = LeakRisk(gs)
  BY <1>2, <1>3, RisksOfFired
<1> QED BY <1>3, <1>4

(* What is found in what was selected is found in the list, at a place that  *)
(* was.                                                                      *)
LEMMA FoundInSelected ==
    ASSUME NEW evs, NEW U, ListOf(evs, U), NEW E, NEW phrases
    PROVE  (\E e \in ToSet(Chosen(evs, E)) : Says(e, phrases))
             <=> \E i \in DOMAIN evs : evs[i] \in E /\ Says(evs[i], phrases)
<1>1. PICK some : some = Chosen(evs, E)
  OBVIOUS
<1>2. /\ \A k \in DOMAIN some : some[k] \in E
      /\ \A i \in DOMAIN evs : evs[i] \in E => \E k \in DOMAIN some : some[k] = evs[i]
      /\ \A k \in DOMAIN some : \E i \in DOMAIN evs : some[k] = evs[i]
  <2>1. /\ ListOf(some, E)
        /\ \A i \in DOMAIN evs : evs[i] \in E => \E k \in DOMAIN some : some[k] = evs[i]
        /\ \A k \in DOMAIN some : \E i \in DOMAIN evs : some[k] = evs[i]
    BY <1>1, SelectedIsOf
  <2> QED BY <2>1 DEF ListOf
<1>3. (\E k \in DOMAIN some : Says(some[k], phrases)) <=> \E i \in DOMAIN evs : evs[i] \in E /\ Says(evs[i], phrases)
  BY <1>2
<1>4. (\E e \in ToSet(some) : Says(e, phrases)) <=> \E k \in DOMAIN some : Says(some[k], phrases)
  BY DEF ToSet
<1> QED BY <1>1, <1>3, <1>4

(* The full collections of a log, and of the rest of it.                     *)
Forced(U) == {e \in U : e.cat = "Full" /\ ~IsManualFullGc(e)}

LEMMA FullOfTheRest ==
    ASSUME NEW l, NEW U, LogOf(l, U)
    PROVE  /\ Of(l.events, {"Full"}) = Chosen(l.events, Among(U, "Full"))
           /\ Of(WithoutManual(l).events, {"Full"}) = Chosen(l.events, Forced(U))
<1>1. PICK evs : evs = l.events /\ ListOf(evs, U)
  BY DEF LogOf
<1>2. PICK A : A = Among(U, "Full")
  OBVIOUS
<1>3. PICK D : D = Unasked(U)
  OBVIOUS
<1>4. PICK w : w = WithoutManual(l).events /\ w = Chosen(evs, D) /\ ListOf(w, U)
  BY <1>1, <1>3, RestOfLog
<1>5. Of(evs, {"Full"}) = Chosen(evs, A) /\ Of(w, {"Full"}) = Chosen(w, A)
  BY <1>1, <1>2, <1>4, OfCategory
<1>6. PICK F : F = Forced(U)
  OBVIOUS
<1>7. Meet(U, D, A, F)
  BY <1>2, <1>3, <1>6 DEF Meet, Unasked, AskedFor, Among, Forced
<1>8. Chosen(Chosen(evs, D), A) = Chosen(evs, F)
  BY <1>1, <1>7, SelectedAgain
<1> QED BY <1>1, <1>2, <1>4, <1>5, <1>6, <1>8

(* Failures are found in the rest of the log, since nobody asked for them.   *)
LEMMA FailuresOfTheRest ==
    ASSUME NEW l, NEW U, LogOf(l, U), NeverBoth(U), NEW phrases, phrases \subseteq FailurePhrases, NEW rule
    PROVE  LET w == WithoutManual(l)
           IN  /\ SomeEvent(w.events, phrases, rule) = SomeEvent(l.events, phrases, rule)
               /\ SomeEvent(Of(w.events, {"Full"}), phrases, rule)
                    = SomeEvent(Of(l.events, {"Full"}), phrases, rule)
<1>1. PICK evs : evs = l.events /\ ListOf(evs, U)
  BY DEF LogOf
<1>2. PICK w : w = WithoutManual(l).events /\ w = Chosen(evs, Unasked(U))
  BY <1>1, RestOfLog
<1>3. /\ Of(evs, {"Full"}) = Chosen(evs, Among(U, "Full"))
      /\ Of(w, {"Full"}) = Chosen(evs, Forced(U))
  BY <1>1, <1>2, FullOfTheRest
<1>4. \A i \in DOMAIN evs : evs[i] \in U /\ (Says(evs[i], phrases) => ~IsManualFullGc(evs[i]))
  <2>1. \A i \in DOMAIN evs : evs[i] \in U
    BY <1>1 DEF ListOf
  <2> QED BY <2>1, FailureIsUnasked
<1>5. (\E e \in ToSet(w) : Says(e, phrases)) <=> \E e \in ToSet(evs) : Says(e, phrases)
  <2>1. (\E e \in ToSet(w) : Says(e, phrases)) <=> \E i \in DOMAIN evs : evs[i] \in Unasked(U) /\ Says(evs[i], phrases)
    BY <1>1, <1>2, FoundInSelected
  <2>2. \A i \in DOMAIN evs : Says(evs[i], phrases) => evs[i] \in Unasked(U)
    BY <1>4 DEF Unasked, AskedFor
  <2>3. (\E e \in ToSet(evs) : Says(e, phrases)) <=> \E i \in DOMAIN evs : Says(evs[i], phrases)
    BY DEF ToSet
  <2> QED BY <2>1, <2>2, <2>3
<1>6. PICK a, b : a = Chosen(evs, Among(U, "Full")) /\ b = Chosen(evs, Forced(U))
  OBVIOUS
<1>7. (\E e \in ToSet(b) : Says(e, phrases)) <=> \E e \in ToSet(a) : Says(e, phrases)
  <2>1. (\E e \in ToSet(a) : Says(e, phrases)) <=> \E i \in DOMAIN evs : evs[i] \in Among(U, "Full") /\ Says(evs[i], phrases)
    BY <1>1, <1>6, FoundInSelected
  <2>2. (\E e \in ToSet(b) : Says(e, phrases)) <=> \E i \in DOMAIN evs : evs[i] \in Forced(U) /\ Says(evs[i], phrases)
    BY <1>1, <1>6, FoundInSelected
  <2>3. \A i \in DOMAIN evs : Says(evs[i], phrases) => (evs[i] \in Among(U, "Full") <=> evs[i] \in Forced(U))
    BY <1>4 DEF Among, Forced
  <2> QED BY <2>1, <2>2, <2>3
<1>8. SomeEvent(w, phrases, rule) = SomeEvent(evs, phrases, rule)
  BY <1>5 DEF SomeEvent
<1>9. SomeEvent(b, phrases, rule) = SomeEvent(a, phrases, rule)
  BY <1>7 DEF SomeEvent
<1> QED BY <1>1, <1>2, <1>3, <1>6, <1>8, <1>9

(* What is selected is a sequence with one element for each place.           *)
LEMMA SelectedIsSeq ==
    ASSUME NEW evs, NEW U, ListOf(evs, U), NEW E
    PROVE  /\ Chosen(evs, E) \in Seq(U)
           /\ IsFiniteSet(In(evs, E)) /\ Len(Chosen(evs, E)) = Cardinality(In(evs, E))
<1>1. PICK n \in Nat : DOMAIN evs = 1 .. n /\ \A i \in 1 .. n : evs[i] \in U
  BY DEF ListOf
<1>2. PICK P : P = In(evs, E)
  OBVIOUS
<1>3. P \in SUBSET (1 .. n)
  BY <1>1, <1>2 DEF In
<1>4. IsFiniteSet(P) /\ \A i \in P : i \in Nat
  <2>1. IsFiniteSet(P)
    BY <1>3, CountTo, FS_Subset
  <2>2. \A i \in P : i \in Nat
    BY <1>3
  <2> QED BY <2>1, <2>2
<1>5. PICK p : Selects(p, P) /\ EventsAt(evs, P) = [m \in 1 .. Cardinality(P) |-> evs[p[m]]]
  <2>1. IsFiniteSet(P)
    BY <1>4
  <2>2. \A i \in P : i \in Nat
    BY <1>4
  <2>3. \E p : Selects(p, P) /\ EventsAt(evs, P) = [m \in 1 .. Cardinality(P) |-> evs[p[m]]]
    BY ONLY <2>1, <2>2, EventsSelected
  <2> QED BY <2>3
<1>6. PICK c \in Nat : c = Cardinality(P)
  BY <1>5 DEF Selects
<1>7. \A m \in 1 .. c : evs[p[m]] \in U
  BY <1>1, <1>3, <1>5, <1>6 DEF Selects
<1>8. PICK some : some = [m \in 1 .. c |-> evs[p[m]]]
  OBVIOUS
<1>9. some \in [1 .. c -> U]
  BY <1>7, <1>8
<1>10. some \in Seq(U) /\ Len(some) = c
  BY <1>9
<1> QED BY <1>2, <1>4, <1>5, <1>6, <1>8, <1>10 DEF Chosen

(* The loop that counts the manual collections ends at a failure, and nobody *)
(* asked for that one: it counts all of them only if there is none else.     *)
LEMMA CountedManual ==
    ASSUME NEW U, NeverBoth(U), NEW full \in Seq(U), NEW signals, signals \subseteq FailurePhrases
    PROVE  ManualBefore(full, signals) < Len(full) <=> \E e \in ToSet(full) : ~IsManualFullGc(e)
<1>1. PICK n \in Nat : n = Len(full) /\ DOMAIN full = 1 .. n /\ \A i \in 1 .. n : full[i] \in U
  OBVIOUS
<1>2. (\E e \in ToSet(full) : ~IsManualFullGc(e)) <=> \E i \in 1 .. n : ~IsManualFullGc(full[i])
  BY <1>1 DEF ToSet
<1>3. PICK I : I = {i \in 1 .. n : Says(full[i], signals)}
  OBVIOUS
<1>4. ManualBefore(full, signals)
        = LET stop == IF I # {} THEN Min(I) ELSE 0
          IN  Count(IF stop = 0 THEN full ELSE SubSeq(full, 1, stop), IsManualFullGc)
  BY <1>1, <1>3 DEF ManualBefore, SelectInSeq
<1>5. CASE I = {}
  <2>1. PICK M : M = {i \in 1 .. n : IsManualFullGc(full[i])}
    OBVIOUS
  <2>2. ManualBefore(full, signals) = Cardinality(M)
    BY <1>1, <1>4, <1>5, <2>1 DEF Count
  <2>3. IsFiniteSet(1 .. n) /\ Cardinality(1 .. n) = n /\ M \in SUBSET (1 .. n)
    BY <2>1, CountTo
  <2>4. Cardinality(M) \in Nat /\ Cardinality(M) <= n /\ (M # 1 .. n => Cardinality(M) # n)
    BY <2>3, FS_Subset, FS_CardinalityType
  <2>5. Cardinality(M) < n <=> M # 1 .. n
    BY <2>3, <2>4
  <2>6. M # 1 .. n <=> \E i \in 1 .. n : ~IsManualFullGc(full[i])
    BY <2>1
  <2> QED BY <1>1, <1>2, <2>2, <2>5, <2>6
<1>6. CASE I # {}
  <2>1. I \in SUBSET Nat
    BY <1>3
  <2>2. \E i \in I : \A j \in I : i <= j
    BY <1>6, <2>1, Least
  <2>3. PICK stop : stop = Min(I) /\ stop \in I
    BY <2>2 DEF Min
  <2>4. stop \in 1 .. n /\ Says(full[stop], signals)
    BY <1>3, <2>3
  <2>5. ~IsManualFullGc(full[stop])
    BY <1>1, <2>4, FailureIsUnasked
  <2>6. PICK M : M = {i \in 1 .. stop : IsManualFullGc(full[i])}
    OBVIOUS
  <2>7. PICK some : some = SubSeq(full, 1, stop)
    OBVIOUS
  <2>8. DOMAIN some = 1 .. stop /\ \A i \in 1 .. stop : some[i] = full[i]
    BY <1>1, <2>4, <2>7
  <2>9. Count(some, IsManualFullGc) = Cardinality(M)
    <3>1. {i \in DOMAIN some : IsManualFullGc(some[i])} = M
      BY <2>6, <2>8
    <3> QED BY <3>1 DEF Count
  <2>10. ManualBefore(full, signals) = Cardinality(M)
    BY <1>4, <1>6, <2>3, <2>4, <2>7, <2>9
  <2>11. stop \in Nat /\ stop <= n /\ stop \in 1 .. stop
    BY <2>4
  <2>12. IsFiniteSet(1 .. stop) /\ Cardinality(1 .. stop) = stop
    BY <2>11, CountTo
  <2>13. M \in SUBSET (1 .. stop) /\ M # 1 .. stop
    BY <2>5, <2>6, <2>11
  <2>14. Cardinality(M) \in Nat /\ Cardinality(M) <= stop /\ Cardinality(M) # stop
    BY <2>12, <2>13, FS_Subset, FS_CardinalityType
  <2>15. Cardinality(M) < n
    BY <2>11, <2>14
  <2> QED BY <1>1, <1>2, <2>4, <2>5, <2>10, <2>15
<1> QED BY <1>5, <1>6

LEMMA MixedIsHigh ==
    ASSUME NEW l, NEW U, LogOf(l, U), NeverBoth(U), l.collector = "G1"
    PROVE  (\E f \in RuleG1FullGc(l) : f.severity = "high") <=> MixedFull(l)
<1>1. PICK full : full = Of(l.events, {"Full"})
  OBVIOUS
<1>2. full \in Seq(U)
  <2>1. PICK evs : evs = l.events /\ ListOf(evs, U)
    BY DEF LogOf
  <2>2. PICK A : A = Among(U, "Full")
    OBVIOUS
  <2>3. Chosen(evs, A) \in Seq(U)
    BY <2>1, SelectedIsSeq
  <2> QED BY <1>1, <2>1, <2>2, <2>3, OfCategory
<1>3. PICK signals : signals = {"to-space exhausted", "evacuation failure"} /\ signals \subseteq FailurePhrases
  BY DEF FailurePhrases
<1>4. ManualBefore(full, signals) < Len(full) <=> \E e \in ToSet(full) : ~IsManualFullGc(e)
  BY <1>2, <1>3, CountedManual
<1>5. MixedFull(l) <=> Len(full) >= 3 /\ ManualBefore(full, signals) < Len(full)
  BY <1>1, <1>4 DEF MixedFull
<1>6. FullGcSeverity(full, signals) = IF MixedFull(l) THEN "high" ELSE "medium"
  BY <1>5 DEF FullGcSeverity
<1>7. RuleG1FullGc(l) = IF full = <<>> THEN {} ELSE Finding("g1_full_gc", FullGcSeverity(full, signals))
  BY <1>1, <1>3 DEF RuleG1FullGc
<1>8. full = <<>> => ~MixedFull(l)
  <2>1. MixedFull(l) => Len(full) >= 3
    BY <1>1 DEF MixedFull
  <2>2. full = <<>> => Len(full) = 0
    OBVIOUS
  <2> QED BY <2>1, <2>2
<1>9. \E f \in Finding("g1_full_gc", FullGcSeverity(full, signals)) :
        f.severity = FullGcSeverity(full, signals)
  BY DEF Finding
<1>10. \A f \in Finding("g1_full_gc", FullGcSeverity(full, signals)) :
         f.severity = FullGcSeverity(full, signals)
  BY DEF Finding
<1> QED BY <1>6, <1>7, <1>8, <1>9, <1>10

(* Three real full collections are three full collections.                   *)
LEMMA MixedOfTheWhole ==
    ASSUME NEW l, NEW U, LogOf(l, U), MixedFull(WithoutManual(l))
    PROVE  MixedFull(l)
<1>1. PICK evs : evs = l.events /\ ListOf(evs, U)
  BY DEF LogOf
<1>2. PICK A, F : A = Among(U, "Full") /\ F = Forced(U) /\ F \subseteq A
  BY DEF Among, Forced
<1>3. PICK a, b : a = Chosen(evs, A) /\ b = Chosen(evs, F)
  OBVIOUS
<1>4. a = Of(l.events, {"Full"}) /\ b = Of(WithoutManual(l).events, {"Full"})
  BY <1>1, <1>2, <1>3, FullOfTheRest
<1>5. /\ a \in Seq(U) /\ IsFiniteSet(In(evs, A)) /\ Len(a) = Cardinality(In(evs, A))
      /\ b \in Seq(U) /\ Len(b) = Cardinality(In(evs, F))
  BY <1>1, <1>3, SelectedIsSeq
<1>6. In(evs, F) \subseteq In(evs, A)
  BY <1>2 DEF In
<1>7. Len(b) <= Len(a)
  BY <1>5, <1>6, FS_Subset
<1>8. l.collector = "G1" /\ Len(b) >= 3 /\ \E e \in ToSet(b) : ~IsManualFullGc(e)
  <2>1. WithoutManual(l).collector = l.collector
    BY RestOfLog
  <2> QED BY <1>4, <2>1 DEF MixedFull
<1>9. Len(a) >= 3
  BY <1>5, <1>7, <1>8
<1>10. \E e \in ToSet(a) : ~IsManualFullGc(e)
  <2>1. PICK k \in DOMAIN b : ~IsManualFullGc(b[k])
    BY <1>8 DEF ToSet
  <2>2. ListOf(b, F) /\ \E i \in DOMAIN evs : b[k] = evs[i]
    BY <1>1, <1>3, <2>1, SelectedIsOf
  <2>3. b[k] \in A
    BY <1>2, <2>1, <2>2 DEF ListOf
  <2>4. \E m \in DOMAIN a : a[m] = b[k]
    BY <1>1, <1>3, <2>2, <2>3, SelectedIsOf
  <2> QED BY <2>1, <2>4 DEF ToSet
<1> QED BY <1>4, <1>8, <1>9, <1>10 DEF MixedFull

(* The rules that escalate are all the collector's.                          *)
LEMMA EscalatorsOfAll ==
    ASSUME NEW l, NEW f, f.rule \in EscalatingRules
    PROVE  f \in Findings(l) <=>
             \/ l.collector = "G1" /\ f \in RuleG1FullGc(l)
             \/ l.collector = "CMS" /\ f \in RuleCmsConcurrentModeFailure(l) \cup RuleCmsPromotionFailed(l)
             \/ l.collector = "Z" /\ f \in RuleZgcAllocationStall(l) \cup RuleZgcConcurrentCycleFailure(l)
<1>0. f.rule \in {"g1_full_gc", "zgc_allocation_stall", "zgc_concurrent_cycle_failure",
                  "cms_concurrent_mode_failure", "cms_promotion_failed"}
  BY DEF EscalatingRules
<1>1. f \notin RuleThroughputLow(l) /\ f \notin RuleStwTimeRatioHigh(l) /\ f \notin RuleAllocFailureFull(l)
  <2>1. /\ Saying(RuleThroughputLow(l), "throughput_low")
        /\ Saying(RuleStwTimeRatioHigh(l), "stw_time_ratio_high")
    BY DEF Saying, RuleThroughputLow, RuleStwTimeRatioHigh, Finding
  <2>2. RuleAllocFailureFull(l) \subseteq Finding("alloc_failure_full", "high")
    BY DEF RuleAllocFailureFull
  <2>3. Saying(RuleAllocFailureFull(l), "alloc_failure_full")
    BY <2>2 DEF Saying, Finding
  <2> QED BY <1>0, <2>1, <2>3 DEF Saying
<1>2. f \notin RuleYoungGcFrequency(l) /\ f \notin RuleFullGcFrequency(l)
  <2>1. Saying(RuleYoungGcFrequency(l), "gc_frequency_high")
    BY DEF Saying, RuleYoungGcFrequency, Finding
  <2>2. Saying(RuleFullGcFrequency(l), "gc_frequency_high")
    BY DEF Saying, RuleFullGcFrequency, Finding
  <2> QED BY <1>0, <2>1, <2>2 DEF Saying
<1>3. f \notin RuleEvacuationFailure(l) /\ f \notin RuleExplicitGcCalled(l)
  <2>1. /\ Saying(RuleEvacuationFailure(l), "evacuation_failure")
        /\ Saying(RuleExplicitGcCalled(l), "explicit_gc_called")
    BY GradedSays DEF RuleEvacuationFailure, RuleExplicitGcCalled
  <2> QED BY <1>0, <2>1 DEF Saying
<1>4. f \notin RuleMetaspacePressure(l) /\ f \notin RuleReclaimLow(l)
  <2>1. Saying(RuleMetaspacePressure(l), "metaspace_pressure")
    BY DEF Saying, RuleMetaspacePressure, Finding
  <2>2. Saying(RuleReclaimLow(l), "reclaim_low")
    BY DEF Saying, RuleReclaimLow, Finding
  <2> QED BY <1>0, <2>1, <2>2 DEF Saying
<1>5. f \notin RuleSinglePauseLong(l)
  BY <1>0, PauseSays DEF Saying
<1>6. f \in Findings(l) <=> f \in CollectorRules(l)
  BY <1>1, <1>2, <1>3, <1>4, <1>5 DEF Findings, RuleGcFrequencyHigh
<1>7. f \notin RuleG1MixedIneffective(l) /\ f \notin RuleCmsFragmentation(l)
  BY <1>0, QuietRules DEF Quietly
<1>8. f \notin RuleCmsFullGc(l)
  <2> DEFINE severity == FullGcSeverity(Of(l.events, {"Full"}), {"concurrent mode failure"})
  <2>1. RuleCmsFullGc(l) \subseteq Finding("cms_full_gc", severity)
    BY DEF RuleCmsFullGc
  <2> HIDE DEF severity
  <2> QED BY <1>0, <2>1 DEF Finding
<1>9. f \notin RuleG1CompactionPause(l) /\ f \notin RuleG1HumongousAllocation(l)
  <2>1. /\ Saying(RuleG1CompactionPause(l), "g1_compaction_pause")
        /\ Saying(RuleG1HumongousAllocation(l), "g1_humongous_allocation")
    BY GradedSays DEF RuleG1CompactionPause, RuleG1HumongousAllocation
  <2> QED BY <1>0, <2>1 DEF Saying
<1>10. f \notin RuleCmsRemarkTooLong(l) /\ f \notin RuleZgcPauseExceedsTarget(l)
  <2>1. /\ Saying(RuleCmsRemarkTooLong(l), "cms_remark_too_long")
        /\ Saying(RuleZgcPauseExceedsTarget(l), "zgc_pause_exceeds_target")
    BY PercentileSays DEF RuleCmsRemarkTooLong, RuleZgcPauseExceedsTarget
  <2> QED BY <1>0, <2>1 DEF Saying
<1>11. CASE l.collector = "G1"
  BY <1>6, <1>7, <1>9, <1>11 DEF CollectorRules
<1>12. CASE l.collector = "CMS"
  BY <1>6, <1>7, <1>8, <1>10, <1>12 DEF CollectorRules
<1>13. CASE l.collector = "Z"
  BY <1>6, <1>10, <1>13 DEF CollectorRules
<1>14. CASE l.collector \notin {"G1", "CMS", "Z"}
  BY <1>6, <1>14 DEF CollectorRules
<1> QED BY <1>11, <1>12, <1>13, <1>14

(* Of the rules that escalate, only one counts the mixed full collections.   *)
LEMMA EscalatedOfTheRest ==
    ASSUME NEW l, NEW U, LogOf(l, U), NeverBoth(U)
    PROVE  LET w == WithoutManual(l)
               escalated(x) == \E f \in Findings(x) : f.severity = "high" /\ f.rule \in EscalatingRules
           IN  /\ MixedFull(l) => escalated(l)
               /\ ~MixedFull(l) => (escalated(l) <=> escalated(w))
<1>1. PICK w : w = WithoutManual(l) /\ w.collector = l.collector
  BY RestOfLog
<1>2. LogOf(w, U)
  <2>1. ListOf(w.events, U)
    BY <1>1, RestOfLog
  <2>2. w = [collector |-> w.collector, first |-> w.first, last |-> w.last, events |-> w.events]
    <3>1. w = [l EXCEPT !.events = Select(@, LAMBDA e : ~(e.cat = "Full" /\ IsManualFullGc(e)))]
      BY <1>1 DEF WithoutManual
    <3>2. PICK rest : w = [l EXCEPT !.events = rest]
      BY <3>1
    <3>3. l = [collector |-> l.collector, first |-> l.first, last |-> l.last, events |-> l.events]
      BY DEF LogOf
    <3> QED BY <3>2, <3>3
  <2> QED BY <2>1, <2>2 DEF LogOf
<1>3. ASSUME NEW x \in {l, w}, x.collector = "G1"
      PROVE  (\E f \in RuleG1FullGc(x) : f.severity = "high") <=> MixedFull(x)
  BY <1>2, <1>3, MixedIsHigh
<1>4. MixedFull(w) => MixedFull(l)
  BY <1>1, MixedOfTheWhole
<1>5. ASSUME NEW x \in {l, w}
      PROVE  MixedFull(x) <=> \E f \in Findings(x) : f.rule = "g1_full_gc" /\ f.severity = "high"
  <2>1. ASSUME NEW f, f.rule = "g1_full_gc"
        PROVE  f \in Findings(x) <=> x.collector = "G1" /\ f \in RuleG1FullGc(x)
    <3>1. f.rule \in EscalatingRules
      BY <2>1 DEF EscalatingRules
    <3>2. f \notin RuleCmsConcurrentModeFailure(x) /\ f \notin RuleCmsPromotionFailed(x)
      <4>1. /\ Saying(RuleCmsConcurrentModeFailure(x), "cms_concurrent_mode_failure")
            /\ Saying(RuleCmsPromotionFailed(x), "cms_promotion_failed")
        BY SomeEventSays DEF RuleCmsConcurrentModeFailure, RuleCmsPromotionFailed
      <4> QED BY <2>1, <4>1 DEF Saying
    <3>3. f \notin RuleZgcAllocationStall(x) /\ f \notin RuleZgcConcurrentCycleFailure(x)
      <4>1. /\ Saying(RuleZgcAllocationStall(x), "zgc_allocation_stall")
            /\ Saying(RuleZgcConcurrentCycleFailure(x), "zgc_concurrent_cycle_failure")
        BY SomeEventSays DEF RuleZgcAllocationStall, RuleZgcConcurrentCycleFailure
      <4> QED BY <2>1, <4>1 DEF Saying
    <3> QED BY <3>1, <3>2, <3>3, EscalatorsOfAll
  <2>2. \A f \in RuleG1FullGc(x) : f.rule = "g1_full_gc"
    BY FullSays DEF Saying
  <2>3. MixedFull(x) => x.collector = "G1"
    BY DEF MixedFull
  <2> QED BY <1>3, <2>1, <2>2, <2>3
<1>6. ASSUME NEW f, f.rule \in EscalatingRules, f.rule # "g1_full_gc"
      PROVE  f \in Findings(l) <=> f \in Findings(w)
  <2>1. f \notin RuleG1FullGc(l) /\ f \notin RuleG1FullGc(w)
    BY <1>6, FullSays DEF Saying
  <2>2. /\ RuleCmsConcurrentModeFailure(w) = RuleCmsConcurrentModeFailure(l)
        /\ RuleCmsPromotionFailed(w) = RuleCmsPromotionFailed(l)
    <3>1. {"concurrent mode failure"} \subseteq FailurePhrases /\ {"promotion failed"} \subseteq FailurePhrases
      BY DEF FailurePhrases
    <3> QED BY <1>1, <3>1, FailuresOfTheRest DEF RuleCmsConcurrentModeFailure, RuleCmsPromotionFailed
  <2>3. /\ RuleZgcAllocationStall(w) = RuleZgcAllocationStall(l)
        /\ RuleZgcConcurrentCycleFailure(w) = RuleZgcConcurrentCycleFailure(l)
    <3>1. {"allocation stall"} \subseteq FailurePhrases /\ {"concurrent cycle failure"} \subseteq FailurePhrases
      BY DEF FailurePhrases
    <3> QED BY <1>1, <3>1, FailuresOfTheRest DEF RuleZgcAllocationStall, RuleZgcConcurrentCycleFailure
  <2> QED BY <1>1, <1>6, <2>1, <2>2, <2>3, EscalatorsOfAll
<1>7. "g1_full_gc" \in EscalatingRules
  BY DEF EscalatingRules
<1>8. MixedFull(l) => \E f \in Findings(l) : f.severity = "high" /\ f.rule \in EscalatingRules
  BY <1>5, <1>7
<1>9. ASSUME ~MixedFull(l), NEW f, f.rule \in EscalatingRules, f.severity = "high"
      PROVE  f \in Findings(l) <=> f \in Findings(w)
  <2>1. f.rule = "g1_full_gc" => f \notin Findings(l) /\ f \notin Findings(w)
    BY <1>4, <1>5, <1>9
  <2> QED BY <1>6, <1>9, <2>1
<1> QED BY <1>1, <1>8, <1>9

LEMMA AlarmsOfTheRest ==
    ASSUME NEW l, NEW U, LogOf(l, U), NeverBoth(U)
    PROVE  LET without == Findings(WithoutManual(l))
               raised == MixedFull(l) /\ "reclaim_low" \in Fired(without)
           IN  /\ OomRisk(Findings(l)) = IF raised THEN "high" ELSE OomRisk(without)
               /\ LeakRisk(Findings(l)) = LeakRisk(without)
<1>1. PICK w : w = WithoutManual(l)
  OBVIOUS
<1>2. OfTheFour(w) = OfTheFour(l)
  <2>1. w.collector = l.collector
    BY <1>1, RestOfLog
  <2>2. /\ RuleReclaimLow(w) = RuleReclaimLow(l) /\ RuleAllocFailureFull(w) = RuleAllocFailureFull(l)
        /\ RuleG1MixedIneffective(w) = RuleG1MixedIneffective(l)
        /\ RuleCmsFragmentation(w) = RuleCmsFragmentation(l)
    BY <1>1, ReclaimOfTheRest, FailureOfTheRest, MixedOfTheRest, FragmentationOfTheRest
  <2> QED BY <2>1, <2>2 DEF OfTheFour
<1>3. PICK fs, gs : fs = Findings(l) /\ gs = Findings(w)
  OBVIOUS
<1>4. \A f : f.rule \in AlarmRules => (f \in fs <=> f \in gs)
  BY <1>2, <1>3, FourOfAll
<1>5. FiredAlike(fs, gs)
  BY <1>4 DEF FiredAlike, Fired
<1>6. Given(fs) /\ Given(gs)
  BY <1>3, FindingsSay DEF Given
<1>7. LeakRisk(fs) = LeakRisk(gs)
  BY <1>5, <1>6, RisksAlike
<1>8. RiskOf(fs, OomRules) = RiskOf(gs, OomRules)
  <2>1. FiredHigh(fs) \cap OomRules = FiredHigh(gs) \cap OomRules
    BY <1>4 DEF FiredHigh, AlarmRules
  <2>2. Fired(fs) \cap OomRules = Fired(gs) \cap OomRules
    BY <1>4 DEF Fired, AlarmRules
  <2> QED BY <2>1, <2>2 DEF RiskOf
<1>9. "reclaim_low" \in Fired(fs) <=> "reclaim_low" \in Fired(gs)
  BY <1>5 DEF FiredAlike, AlarmRules, OomRules
<1>10. /\ MixedFull(l) => FiredHigh(fs) \cap EscalatingRules # {}
       /\ ~MixedFull(l) => (FiredHigh(fs) \cap EscalatingRules # {} <=> FiredHigh(gs) \cap EscalatingRules # {})
  <2>1. ASSUME NEW hs
        PROVE  FiredHigh(hs) \cap EscalatingRules # {}
                 <=> \E f \in hs : f.severity = "high" /\ f.rule \in EscalatingRules
    BY DEF FiredHigh
  <2> QED BY <1>1, <1>3, <2>1, EscalatedOfTheRest
<1>11. CASE MixedFull(l) /\ "reclaim_low" \in Fired(gs)
  <2>1. OomRisk(fs) = "high"
    BY <1>9, <1>10, <1>11 DEF OomRisk
  <2> QED BY <1>1, <1>3, <1>7, <1>11, <2>1
<1>12. CASE ~(MixedFull(l) /\ "reclaim_low" \in Fired(gs))
  <2>1. OomRisk(fs) = OomRisk(gs)
    BY <1>8, <1>9, <1>10, <1>12 DEF OomRisk
  <2> QED BY <1>1, <1>3, <1>7, <1>12, <2>1
<1> QED BY <1>11, <1>12

(* Collections that somebody asked for raise no alarm but where they are     *)
(* mixed with others: without them a report has the same risks, except that  *)
(* in a log of G1 they may make up the three full collections of which one   *)
(* was not asked for (_rule_g1_full_gc, _is_manual_full_gc and the rules     *)
(* that ask it), in logs in which none of them tells of a failure as well.   *)
THEOREM AskedForCountsOnlyMixed ==
    ASSUME AskedIsNoFailure
    PROVE  ReportsSpec => []ManualCountsOnlyMixed
<1>1. ASSUME NEW d \in Diagnoses, NEW l \in Uploads[d] PROVE \E U : LogOf(l, U) /\ NeverBoth(U)
  <2> DEFINE U == {l.events[i] : i \in DOMAIN l.events}
  <2>1. NeverBoth(U)
    BY DEF AskedIsNoFailure, NeverBoth
  <2>2. l.events \in Seq(ToSet(l.events))
    BY DiagnosisAssumption DEF DiagnosisAssumption
  <2>3. ListOf(l.events, U)
    BY <2>2 DEF ListOf
  <2>4. l = [collector |-> l.collector, first |-> l.first, last |-> l.last, events |-> l.events]
    BY DiagnosisAssumption DEF DiagnosisAssumption
  <2> QED BY <2>1, <2>3, <2>4 DEF LogOf
<1>2. GcInv => ManualCountsOnlyMixed
  <2>1. SUFFICES ASSUME GcInv, NEW d \in Diagnoses, Done(d)
                 PROVE  LET without == Findings(WithoutManual(log[d]))
                            raised == MixedFull(log[d]) /\ "reclaim_low" \in Fired(without)
                        IN  /\ verdict[d].oom = IF raised THEN "high" ELSE OomRisk(without)
                            /\ verdict[d].leak = LeakRisk(without)
    BY DEF ManualCountsOnlyMixed
  <2>2. /\ log[d] \in Uploads[d] /\ findings[d] = Findings(log[d])
        /\ \E note : verdict[d] = Verdict(log[d], findings[d], note)
    BY <2>1 DEF GcInv, OfItsLog, Done
  <2>3. verdict[d].oom = OomRisk(Findings(log[d])) /\ verdict[d].leak = LeakRisk(Findings(log[d]))
    BY <2>2 DEF Verdict
  <2>4. PICK U : LogOf(log[d], U) /\ NeverBoth(U)
    BY <1>1, <2>2
  <2> QED BY <2>3, <2>4, AlarmsOfTheRest
<1>3. QED
  BY <1>2, GcInvariance, PTL
=============================================================================
