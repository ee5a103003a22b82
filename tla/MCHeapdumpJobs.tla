---------------------------- MODULE MCHeapdumpJobs ----------------------------
(* Instances of HeapdumpJobs for TLC: which faults and requests a run admits. *)
EXTENDS HeapdumpJobs, TLC

Only(some) == [f \in Faults |-> IF f \in DOMAIN some THEN some[f] ELSE 0]

\* Users cancel and delete; nothing goes wrong.
Requests == Only([cancel |-> 2, delete |-> 1])
\* Anything may go wrong, once.
Everything == Only([crash |-> 1, stop |-> 1, stall |-> 1, db |-> 1, cancel |-> 2, delete |-> 1])
\* Processes die, heartbeats are lost and a write fails while users cancel.
Hardship == Only([crash |-> 1, stall |-> 1, db |-> 1, cancel |-> 1])
Crashes  == Only([crash |-> 2])
Crash1   == Only([crash |-> 1])
Stall1   == Only([stall |-> 1])
Cancel1  == Only([cancel |-> 1])
StallCancel == Only([stall |-> 1, cancel |-> 1])
=============================================================================
