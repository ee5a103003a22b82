------------------------------ MODULE MCBackend ------------------------------
EXTENDS Backend, TLC

CONSTANTS t1, t2, fact1, fact2

\* A question and an answer of the session's history.
U(n) == [kind |-> "H", size |-> n]
M(n) == [kind |-> "A", size |-> n]

\* A new session, and one whose history does not fit into the budget and ends
\* with two questions nobody answered.
MCHistories == {<<>>, <<U(1), M(3), U(1), U(1)>>}
MCIterations == t1 :> 1 @@ t2 :> 1

MCFactSize == fact1 :> 2 @@ fact2 :> 3 @@ Summary :> 2
=============================================================================
