-------------------------- MODULE StreamAdapter_proofs --------------------------
(***************************************************************************)
(* Proofs about StreamAdapter, for queues of any size and answers of any    *)
(* length: what is saved is the whole answer, or the turn was cut short.    *)
(***************************************************************************)
EXTENDS StreamAdapter, TLAPS

USE DEF graphVars, genVars, GraphLabels, GenLabels, Past, Length

LEMMA InitAInv == Init => AInv
<1> SUFFICES ASSUME Init PROVE AInv
  OBVIOUS
<1>1. /\ put \in 0 .. MaxItems /\ taken \in 0 .. MaxItems /\ saved \in -1 .. MaxItems
      /\ progress \in 0 .. ProgressSize /\ reports \in 0 .. MaxReports
  BY AdapterAssumption DEF Init, AdapterAssumption
<1>2. TypeOK
  BY <1>1 DEF Init, TypeOK
<1>3. ~(saved >= 0)
  BY DEF Init
<1>4. MarkerLast /\ LoopComplete
  BY DEF Init, MarkerLast, LoopComplete
<1> QED BY <1>2, <1>3, <1>4 DEF AInv, SavedIsTaken, AnswerIsWhole, NoAnswerAfterError

LEMMA GraphKeeps ==
    ASSUME AInv, GraphStep
    PROVE  AInv'
<1> USE AdapterAssumption
    DEF AInv, TypeOK, MarkerLast, LoopComplete, SavedIsTaken, AnswerIsWhole, NoAnswerAfterError, AdapterAssumption
<1>1. CASE Emit         BY <1>1 DEF Emit
<1>2. CASE Put          BY <1>2 DEF Put
<1>3. CASE PutGivesUp   BY <1>3 DEF PutGivesUp
<1>4. CASE GraphReturns BY <1>4 DEF GraphReturns
<1>5. CASE PutMarker    BY <1>5 DEF PutMarker
<1>6. CASE GraphDone    BY <1>6 DEF GraphDone
<1>7. CASE Report       BY <1>7 DEF Report
<1> QED BY <1>1, <1>2, <1>3, <1>4, <1>5, <1>6, <1>7 DEF GraphStep

LEMMA LoopKeeps ==
    ASSUME AInv,
           \/ StartGraph \/ CheckStop \/ SendProgress \/ NoProgress
           \/ Get \/ GetMarker \/ GetTimeout \/ CheckDone \/ Sent
    PROVE  AInv'
<1> USE AdapterAssumption
    DEF AInv, TypeOK, MarkerLast, LoopComplete, SavedIsTaken, AnswerIsWhole, NoAnswerAfterError, AdapterAssumption
<1>1. CASE StartGraph   BY <1>1 DEF StartGraph
<1>2. CASE CheckStop
  <2>1. stopDrain' \in BOOLEAN /\ pc' \in {"top", "drain", "join"} /\ (pc' = "join" => stop)
    BY <1>2 DEF CheckStop
  <2>2. UNCHANGED <<graphVars, taken, gone, closed, saved, marker, progress, stop, left>> /\ pc \notin Past
    BY <1>2 DEF CheckStop
  <2> QED BY <2>1, <2>2
<1>3. CASE SendProgress BY <1>3 DEF SendProgress
<1>4. CASE NoProgress   BY <1>4 DEF NoProgress
<1>5. CASE Get          BY <1>5 DEF Get
<1>6. CASE GetMarker    BY <1>6 DEF GetMarker
<1>7. CASE GetTimeout   BY <1>7 DEF GetTimeout
<1>8. CASE CheckDone    BY <1>8 DEF CheckDone
<1>9. CASE Sent         BY <1>9 DEF Sent
<1> QED BY <1>1, <1>2, <1>3, <1>4, <1>5, <1>6, <1>7, <1>8, <1>9

LEMMA EndingKeeps ==
    ASSUME AInv, Join \/ SendLeftover \/ NoLeftover \/ RaiseError \/ NoError \/ Save
    PROVE  AInv'
<1> USE AdapterAssumption
    DEF AInv, TypeOK, MarkerLast, LoopComplete, SavedIsTaken, AnswerIsWhole, NoAnswerAfterError, AdapterAssumption
<1>1. CASE Join         BY <1>1 DEF Join
<1>2. CASE SendLeftover BY <1>2 DEF SendLeftover
<1>3. CASE NoLeftover   BY <1>3 DEF NoLeftover
<1>4. CASE RaiseError   BY <1>4 DEF RaiseError
<1>5. CASE NoError      BY <1>5 DEF NoError
<1>6. CASE Save         BY <1>6 DEF Save
<1> QED BY <1>1, <1>2, <1>3, <1>4, <1>5, <1>6

LEMMA ClosingKeeps ==
    ASSUME AInv, CloseAtStart \/ CloseInLoop \/ CloseAtLeftover
    PROVE  AInv'
<1> USE AdapterAssumption
    DEF AInv, TypeOK, MarkerLast, LoopComplete, SavedIsTaken, AnswerIsWhole, NoAnswerAfterError, AdapterAssumption
<1>1. CASE CloseAtStart    BY <1>1 DEF CloseAtStart
<1>2. CASE CloseInLoop     BY <1>2 DEF CloseInLoop
<1>3. CASE CloseAtLeftover BY <1>3 DEF CloseAtLeftover
<1> QED BY <1>1, <1>2, <1>3

LEMMA ClientKeeps ==
    ASSUME AInv, Client
    PROVE  AInv'
<1> USE AdapterAssumption
    DEF AInv, TypeOK, MarkerLast, LoopComplete, SavedIsTaken, AnswerIsWhole, NoAnswerAfterError, AdapterAssumption
<1>1. CASE ClientLeaves BY <1>1 DEF ClientLeaves
<1>2. CASE PressStop    BY <1>2 DEF PressStop
<1> QED BY <1>1, <1>2 DEF Client

-----------------------------------------------------------------------------
(* The marker comes last, the loop is left with everything taken unless it is cut *)
(* short, and what is saved is what was taken.                                    *)
THEOREM AdapterInvariance == Spec => []AInv
<1>1. AInv /\ [Next]_vars => AInv'
  <2> SUFFICES ASSUME AInv, [Next]_vars PROVE AInv'
    OBVIOUS
  <2>1. CASE UNCHANGED vars
    BY <2>1 DEF vars, AInv, TypeOK, MarkerLast, LoopComplete, SavedIsTaken, AnswerIsWhole,
       NoAnswerAfterError
  <2>2. CASE Next
    BY <2>2, GraphKeeps, LoopKeeps, EndingKeeps, ClosingKeeps, ClientKeeps DEF Next, GenStep
  <2> QED BY <2>1, <2>2
<1> QED BY InitAInv, <1>1, PTL DEF Spec

(* A saved answer is all the graph emitted, or the user or the client cut it short. *)
THEOREM SavedWhole == Spec => []AnswerIsWhole
<1>1. AInv => AnswerIsWhole
  BY DEF AInv
<1> QED BY <1>1, AdapterInvariance, PTL

(* No answer is saved after an error of the graph. *)
THEOREM ErrorsNotSaved == Spec => []NoAnswerAfterError
<1>1. AInv => NoAnswerAfterError
  BY DEF AInv
<1> QED BY <1>1, AdapterInvariance, PTL
=============================================================================
