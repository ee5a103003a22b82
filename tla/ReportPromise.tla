----------------------------- MODULE ReportPromise -----------------------------
(***************************************************************************)
(* What the heap-dump pipeline promises about a report, seen from its list: *)
(* an uploaded report is live until it is done or disowned (cancelled,     *)
(* failed or deleted); being disowned is for good; and the heap dump is    *)
(* there as long as the report is not disowned.                            *)
(***************************************************************************)
CONSTANT Reports
VARIABLES phase, dump
vars == <<phase, dump>>

Init ==
    /\ phase = [r \in Reports |-> "absent"]
    /\ dump  = [r \in Reports |-> FALSE]

Upload(r) ==
    /\ phase[r] = "absent"
    /\ phase' = [phase EXCEPT ![r] = "live"]
    /\ dump' = [dump EXCEPT ![r] = TRUE]

Complete(r) ==
    /\ phase[r] = "live"
    /\ phase' = [phase EXCEPT ![r] = "done"]
    /\ UNCHANGED dump

\* One report is cancelled or fails, or a whole session is deleted.
Disown(S) ==
    /\ \A r \in S : phase[r] \in {"live", "done"}
    /\ phase' = [r \in Reports |-> IF r \in S THEN "disowned" ELSE phase[r]]
    /\ UNCHANGED dump

RemoveDump(r) ==
    /\ phase[r] = "disowned"
    /\ dump' = [dump EXCEPT ![r] = FALSE]
    /\ UNCHANGED phase

Next ==
    \/ \E r \in Reports : Upload(r) \/ Complete(r) \/ RemoveDump(r)
    \/ \E S \in SUBSET Reports : Disown(S)

Spec == Init /\ [][Next]_vars
=============================================================================
