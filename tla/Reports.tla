------------------------------- MODULE Reports -------------------------------
(***************************************************************************)
(* What the report routes do with one upload: read a GC log of Java 8, read *)
(* a unified one (parse_gc_log asks which), read a thread dump, or diagnose *)
(* the events of logs already read.  The four share no state; the           *)
(* specification chooses one of them and leaves the others as they start.   *)
(***************************************************************************)
EXTENDS GcDiagnosis, GcLog8, GcLog9, ThreadDump

VARIABLE subject   \* which of the four

reportsVars == <<subject, gcVars, log8Vars, log9Vars, dumpVars>>

ASSUME NothingIsAnInput == <<>> \in Logs8 /\ <<>> \in Logs9 /\ <<>> \in Dumps

Nothing8 == blocks = <<>> /\ Log8Init
Nothing9 == cycles = <<>> /\ clocked = TRUE /\ Log9Init
NothingDumped == dump = <<>> /\ json = FALSE /\ DumpInit

ReportsInit ==
    /\ GcInit
    /\ \/ subject = "diagnosis" /\ Nothing8 /\ Nothing9 /\ NothingDumped
       \/ subject = "java8" /\ Log8Init /\ Nothing9 /\ NothingDumped
       \/ subject = "unified" /\ Nothing8 /\ Log9Init /\ NothingDumped
       \/ subject = "dump" /\ Nothing8 /\ Nothing9 /\ DumpInit

ReportsNext ==
    \/ subject = "diagnosis" /\ GcNext /\ UNCHANGED <<subject, log8Vars, log9Vars, dumpVars>>
    \/ subject = "java8" /\ Log8Next /\ UNCHANGED <<subject, gcVars, log9Vars, dumpVars>>
    \/ subject = "unified" /\ Log9Next /\ UNCHANGED <<subject, gcVars, log8Vars, dumpVars>>
    \/ subject = "dump" /\ DumpNext /\ UNCHANGED <<subject, gcVars, log8Vars, log9Vars>>

ReportsSpec == ReportsInit /\ [][ReportsNext]_reportsVars
(* Types of the four.                                                        *)
ReportsTypeOK == GcTypeOK /\ Log8TypeOK /\ Log9TypeOK /\ DumpTypeOK
=============================================================================
