------------------------------ MODULE MCReports ------------------------------
EXTENDS Reports

Diagnosed == INSTANCE SampleDiagnoses
Java8     == INSTANCE SampleLogs8
Unified   == INSTANCE SampleLogs9
Dumped    == INSTANCE SampleDumps

MCDiagnoses == Diagnosed!MCDiagnoses
MCUploads   == Diagnosed!MCUploads
MCLogs8     == Java8!MCLogs8 \cup {<<>>}
MCLogs9     == Unified!MCLogs9 \cup {<<>>}
MCDumps     == Dumped!MCDumps \cup {<<>>}
MCJsonDumps == Dumped!MCJsonDumps
MCWithin    == Dumped!MCWithin
MCRanges    == Dumped!MCRanges

(* No sample event is both asked for and tells of a failure, which the        *)
(* theorem AskedForCountsOnlyMixed asks.                                      *)
ASSUME EventsAskedFor == AskedIsNoFailure

(* The sample logs are worded as the theorems UnifiedIsReported and           *)
(* CollectorIsNamed ask.                                                      *)
ASSUME LogsAreWorded == Worded
ASSUME LogsAreFlagged == FlagsFirst

(* The sample dumps are printed as the theorem DumpsAreReported asks.         *)
ASSUME DumpsArePrinted == Printed
=============================================================================
