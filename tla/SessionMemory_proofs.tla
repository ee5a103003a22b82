-------------------------- MODULE SessionMemory_proofs --------------------------
(* Proofs about SessionMemory: what is dropped has been summarised, what is *)
(* deleted is gone where foreign keys are enforced, what is cleared between *)
(* turns is forgotten, and the table of messages stays small.               *)
EXTENDS SessionMemory, FiniteSetTheorems, TLAPS

\* Newest selects.
LEMMA NewestSubset == \A S, n : Newest(S, n) \subseteq S
  BY DEF Newest

\* The prompt is taken from the history.
LEMMA PromptFromHistory == Prompt \subseteq history
  <1>1. Newest(history \ {m \in questions : m \in Newest(history, 1)}, MaxHistory - 1)
            \subseteq history \ {m \in questions : m \in Newest(history, 1)}
    BY NewestSubset
  <1> QED
    BY <1>1 DEF Prompt

-----------------------------------------------------------------------------
(* TypeOK in three parts. *)
Flags ==
    /\ exists \in BOOLEAN /\ removal \in BOOLEAN
    /\ pc \in {"idle", "ask", "call", "answer", "count", "llm", "write", "drop"}
Counts == turns \in 0 .. MaxTurns /\ clears \in 0 .. MaxClears /\ fails \in 0 .. MaxFails
Ids ==
    /\ next \in Nat
    /\ \A S \in {rows, questions, summary, history, shown, snap, cleared, loadedRows, loadedSummary} :
          S \subseteq 0 .. next - 1
    /\ quietly \subseteq cleared /\ forgotten \subseteq cleared

LEMMA TypeParts == TypeOK <=> Flags /\ Counts /\ Ids
  <1>1. TypeOK => Flags /\ Counts
    BY DEF TypeOK, Flags, Counts
  <1>2. TypeOK => Ids
    BY DEF TypeOK, Ids
  <1>3. Flags /\ Counts /\ Ids => TypeOK
    BY DEF TypeOK, Flags, Counts, Ids
  <1> QED
    BY <1>1, <1>2, <1>3

LEMMA TypeInit == Init => TypeOK
  <1> SUFFICES ASSUME Init PROVE Flags /\ Counts /\ Ids
    BY TypeParts
  <1>1. Flags
    BY DEF Init, Flags
  <1>2. Counts
    BY MemoryAssumption DEF Init, Counts, MemoryAssumption
  <1>3. Ids
    BY DEF Init, Ids
  <1> QED
    BY <1>1, <1>2, <1>3

LEMMA FlagsStep == Flags /\ [Next]_vars => Flags'
  <1> SUFFICES ASSUME Flags, [Next]_vars PROVE Flags'
    OBVIOUS
  <1> USE DEF Flags
  <1>1. CASE Begin \/ BeginBlind \/ Ask \/ AskFails \/ CallModel \/ Answer \/ NoAnswer
    BY <1>1 DEF Begin, BeginBlind, Ask, AskFails, CallModel, Answer, NoAnswer, removeVars
  <1>2. CASE CountMessages \/ CallSummarizer \/ WriteSummary \/ DropMessages \/ SummaryFails
    BY <1>2 DEF CountMessages, CallSummarizer, WriteSummary, DropMessages, SummaryFails,
       removeVars
  <1>3. CASE Clear \/ LoadSession \/ DeleteSession
    BY <1>3 DEF Clear, LoadSession, DeleteSession, removeVars
  <1>4. CASE UNCHANGED vars
    BY <1>4 DEF vars, removeVars
  <1> QED
    BY <1>1, <1>2, <1>3, <1>4 DEF Next, TurnStep

LEMMA CountsStep == Counts /\ [Next]_vars => Counts'
  <1> SUFFICES ASSUME Counts, [Next]_vars PROVE Counts'
    OBVIOUS
  <1> USE MemoryAssumption DEF MemoryAssumption, Counts, Fail, turnVars, clearVars
  <1>1. CASE Begin \/ BeginBlind \/ AskFails
    BY <1>1 DEF Begin, BeginBlind, AskFails
  <1>2. CASE Clear \/ SummaryFails
    BY <1>2 DEF Clear, SummaryFails
  <1>3. CASE UNCHANGED <<turns, clears, fails>>
    BY <1>3
  <1>4. Begin \/ BeginBlind \/ AskFails \/ Clear \/ SummaryFails \/ UNCHANGED <<turns, clears, fails>>
    BY DEF Next, TurnStep, vars, Ask, CallModel, Answer, NoAnswer, CountMessages, CallSummarizer,
           WriteSummary, DropMessages, LoadSession, DeleteSession
  <1> QED
    BY <1>1, <1>2, <1>3, <1>4

\* Ids only grow, and whatever is moved between the sets is in range.
LEMMA IdsStep == Ids /\ [Next]_vars => Ids'
  <1> SUFFICES ASSUME Ids, [Next]_vars PROVE Ids'
    OBVIOUS
  <1> USE DEF Ids, turnVars, removeVars, clearVars
  <1>1. CASE Begin \/ BeginBlind
    BY <1>1 DEF Begin, BeginBlind
  <1>2. CASE Ask \/ Answer
    <2>1. 0 .. next - 1 \subseteq 0 .. (next + 1) - 1 /\ next \in 0 .. (next + 1) - 1
      OBVIOUS
    <2>2. CASE Writable
      <3>1. next' = next + 1
        BY <1>2, <2>2 DEF Ask, Answer, Append
      <3>2. rows' \subseteq rows \cup {next} /\ questions' \subseteq questions \cup {next}
        BY <1>2, <2>2 DEF Ask, Answer, Append
      <3>3. UNCHANGED <<summary, history, shown, snap, cleared, quietly, forgotten, loadedRows, loadedSummary>>
        BY <1>2 DEF Ask, Answer
      <3> QED
        BY <2>1, <3>1, <3>2, <3>3
    <2>3. CASE ~Writable
      BY <1>2, <2>3 DEF Ask, Answer, Append
    <2> QED
      BY <2>2, <2>3
  <1>3. CASE CallModel
    BY <1>3, PromptFromHistory DEF CallModel
  <1>4. CASE CountMessages \/ WriteSummary
    BY <1>4 DEF CountMessages, WriteSummary
  <1>5. CASE DropMessages
    BY <1>5, NewestSubset DEF DropMessages
  <1>6. CASE AskFails \/ NoAnswer \/ CallSummarizer \/ SummaryFails
    BY <1>6 DEF AskFails, NoAnswer, CallSummarizer, SummaryFails
  <1>7. CASE Clear
    BY <1>7 DEF Clear
  <1>8. CASE LoadSession \/ DeleteSession
    BY <1>8 DEF LoadSession, DeleteSession
  <1>9. CASE UNCHANGED vars
    BY <1>9 DEF vars
  <1> QED
    BY <1>1, <1>2, <1>3, <1>4, <1>5, <1>6, <1>7, <1>8, <1>9 DEF Next, TurnStep

LEMMA TypeStep == TypeOK /\ [Next]_vars => TypeOK'
  <1>1. TypeOK' <=> Flags' /\ Counts' /\ Ids'
    BY TypeParts, PTL
  <1> QED
    BY <1>1, TypeParts, FlagsStep, CountsStep, IdsStep

-----------------------------------------------------------------------------
\* What has been read for the summary cannot grow before it is dropped: only the
\* turn itself appends, and a clear takes everything.
LEMMA SummaryStep == TypeOK /\ SummaryInTime /\ [Next]_vars => SummaryInTime'
  <1> SUFFICES ASSUME TypeOK, SummaryInTime, [Next]_vars, exists' PROVE SummaryInTime'
    BY DEF SummaryInTime
  <1> USE DEF SummaryInTime, turnVars, removeVars, clearVars
  <1>1. ASSUME Begin \/ BeginBlind \/ Ask \/ AskFails \/ CallModel \/ Answer \/ NoAnswer
        PROVE  SummaryInTime'
    BY <1>1 DEF Begin, BeginBlind, Ask, AskFails, CallModel, Answer, NoAnswer
  <1>2. ASSUME CountMessages \/ CallSummarizer PROVE SummaryInTime'
    BY <1>2 DEF CountMessages, CallSummarizer
  <1>3. ASSUME WriteSummary PROVE SummaryInTime'
    BY <1>3 DEF WriteSummary, Writable
  <1>4. ASSUME DropMessages \/ SummaryFails PROVE SummaryInTime'
    BY <1>4 DEF DropMessages, SummaryFails
  <1>5. ASSUME Clear PROVE SummaryInTime'
    BY <1>5 DEF Clear
  <1>6. ASSUME LoadSession \/ DeleteSession PROVE SummaryInTime'
    BY <1>6 DEF LoadSession, DeleteSession
  <1>7. ASSUME UNCHANGED vars PROVE SummaryInTime'
    BY <1>7 DEF vars
  <1> QED
    BY <1>1, <1>2, <1>3, <1>4, <1>5, <1>6, <1>7 DEF Next, TurnStep

-----------------------------------------------------------------------------
\* New ids have not been cleared, and what is read comes from the table.
LEMMA ClearedStep == TypeOK /\ ClearedAreGone /\ [Next]_vars => ClearedAreGone'
  <1> SUFFICES ASSUME TypeOK, ClearedAreGone, [Next]_vars PROVE ClearedAreGone'
    OBVIOUS
  <1> USE DEF ClearedAreGone, turnVars, removeVars, clearVars
  <1>a. rows \cap quietly = {}
    BY DEF TypeOK
  <1>1. ASSUME Begin \/ BeginBlind PROVE ClearedAreGone'
    BY <1>a, <1>1 DEF Begin, BeginBlind
  <1>2. ASSUME Ask \/ Answer PROVE ClearedAreGone'
    <2>1. next \notin cleared
      BY DEF TypeOK
    <2> QED
      BY <1>2, <2>1 DEF Ask, Answer, Append
  <1>3. ASSUME AskFails \/ CallModel \/ NoAnswer \/ CallSummarizer PROVE ClearedAreGone'
    BY <1>3 DEF AskFails, CallModel, NoAnswer, CallSummarizer
  <1>4. ASSUME CountMessages PROVE ClearedAreGone'
    BY <1>a, <1>4 DEF CountMessages
  <1>5. ASSUME WriteSummary PROVE ClearedAreGone'
    BY <1>5 DEF WriteSummary
  <1>6. ASSUME DropMessages \/ SummaryFails PROVE ClearedAreGone'
    BY <1>6, NewestSubset DEF DropMessages, SummaryFails
  <1>7. ASSUME Clear PROVE ClearedAreGone'
    BY <1>7 DEF Clear
  <1>8. ASSUME LoadSession \/ DeleteSession PROVE ClearedAreGone'
    BY <1>8 DEF LoadSession, DeleteSession
  <1>9. ASSUME UNCHANGED vars PROVE ClearedAreGone'
    BY <1>9 DEF vars
  <1> QED
    BY <1>1, <1>2, <1>3, <1>4, <1>5, <1>6, <1>7, <1>8, <1>9 DEF Next, TurnStep

-----------------------------------------------------------------------------
\* Nothing can be written that refers to a session that is gone.
LEMMA DeletedStep ==
  ASSUME ForeignKeys
  PROVE  TypeOK /\ DeletedIsGone /\ [Next]_vars => DeletedIsGone'
  <1> SUFFICES ASSUME TypeOK, DeletedIsGone, [Next]_vars, ~exists' PROVE rows' = {} /\ summary' = {}
    BY DEF DeletedIsGone
  <1> USE DEF DeletedIsGone, turnVars, removeVars, clearVars
  <1>1. ASSUME Begin \/ BeginBlind \/ Clear \/ LoadSession PROVE rows' = {} /\ summary' = {}
    BY <1>1 DEF Begin, BeginBlind, Clear, LoadSession
  <1>2. ASSUME Ask \/ Answer PROVE rows' = {} /\ summary' = {}
    BY <1>2 DEF Ask, Answer, Append, Writable
  <1>3. ASSUME AskFails \/ CallModel \/ NoAnswer \/ CountMessages \/ CallSummarizer \/ SummaryFails
        PROVE  rows' = {} /\ summary' = {}
    BY <1>3 DEF AskFails, CallModel, NoAnswer, CountMessages, CallSummarizer, SummaryFails
  <1>4. ASSUME WriteSummary PROVE rows' = {} /\ summary' = {}
    BY <1>4 DEF WriteSummary, Writable
  <1>5. ASSUME DropMessages PROVE rows' = {} /\ summary' = {}
    BY <1>5, NewestSubset DEF DropMessages
  <1>6. ASSUME DeleteSession PROVE rows' = {} /\ summary' = {}
    BY <1>6 DEF DeleteSession
  <1>7. ASSUME UNCHANGED vars PROVE rows' = {} /\ summary' = {}
    BY <1>7 DEF vars
  <1> QED
    BY <1>1, <1>2, <1>3, <1>4, <1>5, <1>6, <1>7 DEF Next, TurnStep

-----------------------------------------------------------------------------
\* What the model is shown comes from the history read and the summary in place.
LEMMA ForgetsStep ==
    TypeOK /\ ClearedAreGone /\ ForgetsQuietClears /\ [Next]_vars => ForgetsQuietClears'
  <1> SUFFICES ASSUME TypeOK, ClearedAreGone, ForgetsQuietClears, [Next]_vars
               PROVE  ForgetsQuietClears'
    OBVIOUS
  <1> USE DEF ForgetsQuietClears, turnVars, removeVars, clearVars
  <1>1. ASSUME Begin \/ BeginBlind PROVE ForgetsQuietClears'
    BY <1>1 DEF Begin, BeginBlind
  <1>2. ASSUME CallModel PROVE ForgetsQuietClears'
    <2>1. Prompt \cap quietly = {} /\ summary \cap quietly = {} /\ shown \cap quietly = {}
      BY <1>2, PromptFromHistory DEF ClearedAreGone, CallModel
    <2> QED
      BY <1>2, <2>1 DEF CallModel
  <1>3. ASSUME UNCHANGED <<shown, quietly>>, pc # "idle" \/ pc' = "idle" PROVE ForgetsQuietClears'
    BY <1>3
  <1>4. ASSUME Clear PROVE ForgetsQuietClears'
    BY <1>4 DEF Clear
  <1>5. \/ Begin \/ BeginBlind \/ CallModel \/ Clear
        \/ UNCHANGED <<shown, quietly>> /\ (pc # "idle" \/ pc' = "idle")
    BY DEF Next, TurnStep, vars, Ask, AskFails, Answer, NoAnswer, CountMessages, CallSummarizer,
           WriteSummary, DropMessages, SummaryFails, LoadSession, DeleteSession
  <1> QED
    BY <1>1, <1>2, <1>3, <1>4, <1>5

-----------------------------------------------------------------------------
(* MInv is an invariant: the turn, the summary and the two requests that take *)
(* no lock keep to it.                                                        *)
THEOREM MemoryInvariance == Spec => []MInv
  <1>1. Init => MInv
    BY TypeInit DEF Init, MInv, SummaryInTime, ClearedAreGone, DeletedIsGone, ForgetsQuietClears
  <1>2. MInv /\ [Next]_vars => MInv'
    BY TypeStep, SummaryStep, ClearedStep, DeletedStep, ForgetsStep DEF MInv
  <1> QED
    BY <1>1, <1>2, PTL DEF Spec

(* Where foreign keys are enforced a deleted session leaves neither messages *)
(* nor a summary, whatever its last turn still tries to write (delete_session). *)
THEOREM DeletedLeavesNothing ==
  ASSUME ForeignKeys
  PROVE  Spec => []DeletedIsGone
  <1>1. MInv => DeletedIsGone
    BY DEF MInv
  <1> QED
    BY <1>1, MemoryInvariance, PTL

(* What was cleared while no turn was running is never shown to the model   *)
(* again, whatever is cleared, summarised or deleted afterwards, and when   *)
(* (clear_messages).                                                        *)
THEOREM QuietClearsHold == Spec => []ForgetsQuietClears
  <1>1. MInv => ForgetsQuietClears
    BY DEF MInv
  <1> QED
    BY <1>1, MemoryInvariance, PTL

(* No message leaves the table unsummarised, other than by a clear or with its *)
(* session (maybe_summarize, delete_messages).                                *)
THEOREM NothingUnsummarised == Spec => DroppedAreSummarised
  <1> DEFINE Kept == \A m \in rows \ rows' : m \in summary' \cup cleared' \/ ~exists'
  <1>1. ASSUME MInv, [Next]_vars PROVE Kept
    <2> USE DEF turnVars, removeVars, clearVars
    <2>1. CASE DropMessages
      BY <1>1, <2>1 DEF DropMessages, MInv, SummaryInTime
    <2>2. CASE Clear
      BY <2>2 DEF Clear
    <2>3. CASE DeleteSession
      BY <2>3 DEF DeleteSession
    <2>4. CASE Ask \/ Answer
      BY <2>4 DEF Ask, Answer, Append
    <2>5. CASE UNCHANGED rows
      BY <2>5
    <2>6. DropMessages \/ Clear \/ DeleteSession \/ Ask \/ Answer \/ UNCHANGED rows
      BY <1>1 DEF Next, TurnStep, vars, Begin, BeginBlind, AskFails, CallModel, NoAnswer,
                  CountMessages, CallSummarizer, WriteSummary, SummaryFails, LoadSession
    <2> QED
      BY <2>1, <2>2, <2>3, <2>4, <2>5, <2>6
  <1>2. MInv /\ [Next]_vars => Kept
    BY <1>1
  <1>3. MInv /\ [Next]_vars => [Kept]_vars
    BY <1>2
  <1> QED
    BY <1>3, MemoryInvariance, PTL DEF Spec, DroppedAreSummarised

-----------------------------------------------------------------------------
(* How much there is to remember *)

(* Of some messages one is the oldest: what is not newer than a message is a *)
(* set, and finite sets are well-founded under inclusion.                    *)
LEMMA Oldest ==
    ASSUME NEW N \in SUBSET Nat, IsFiniteSet(N), N # {}
    PROVE  \E m \in N : \A k \in N : m <= k
<1> DEFINE Until(m) == {k \in N : k <= m}
<1> DEFINE T == {Until(m) : m \in N}
<1> DEFINE R == StrictSubsetOrdering(N)
<1>1. IsWellFoundedOn(R, SUBSET N)
  BY FS_StrictSubsetOrderingWellFounded, FS_FiniteSubsetsOfFinite
<1>2. T \subseteq SUBSET N /\ T # {}
  OBVIOUS
<1>3. \A A, B \in SUBSET N : <<A, B>> \in R <=> A \subseteq B /\ A # B
  BY DEF StrictSubsetOrdering
<1>4. \E X \in T : \A Y \in T : ~(<<Y, X>> \in R)
  <2> HIDE DEF R, T
  <2>1. QED
    BY <1>1, <1>2, WFMin
<1>5. PICK m \in N : \A Y \in T : ~(<<Y, Until(m)>> \in R)
  BY <1>4
<1>6. ASSUME NEW k \in N, k < m PROVE FALSE
  <2>1. Until(k) \in T /\ Until(k) \in SUBSET N /\ Until(m) \in SUBSET N
    BY <1>5
  <2>2. k \in Nat /\ m \in Nat /\ \A j \in N : j \in Nat
    BY <1>5, <1>6
  <2>3. Until(k) \subseteq Until(m) /\ m \in Until(m) /\ m \notin Until(k)
    <3>1. k \in N /\ m \in N
      BY <1>5, <1>6
    <3>2. \A j \in N : j <= k => j <= m
      BY <1>6, <2>2
    <3>3. m <= m /\ ~(m <= k)
      BY <1>6, <2>2
    <3>4. QED
      BY <3>1, <3>2, <3>3
  <2>4. <<Until(k), Until(m)>> \in R
    <3> HIDE DEF R, Until
    <3>1. QED
      BY <1>3, <2>1, <2>3
  <2>5. QED
    BY <1>5, <2>1, <2>4
<1>7. QED
  BY <1>5, <1>6

(* The newest n messages are at most n: all of them are newer than the oldest *)
(* one among them, or that one.                                               *)
LEMMA NewestBounded ==
    ASSUME NEW S \in SUBSET Nat, IsFiniteSet(S), NEW n \in Nat
    PROVE  IsFiniteSet(Newest(S, n)) /\ Cardinality(Newest(S, n)) <= n
<1> DEFINE N == Newest(S, n)
<1>1. N \subseteq S /\ IsFiniteSet(N)
  BY NewestSubset, FS_Subset
<1>2. CASE N = {}
  BY <1>1, <1>2, FS_EmptySet
<1>3. CASE N # {}
  <2>1. PICK m \in N : \A k \in N : m <= k
    BY <1>1, <1>3, Oldest
  <2> DEFINE A == {k \in S : k > m}
  <2>2. Cardinality(A) < n
    BY <2>1 DEF Newest
  <2>3. IsFiniteSet(A) /\ Cardinality(A) \in Nat
    BY FS_Subset, FS_CardinalityType
  <2>4. N \subseteq A \cup {m}
    <3> SUFFICES ASSUME NEW k \in N PROVE k \in A \/ k = m
      OBVIOUS
    <3> HIDE DEF N
    <3>1. k \in S /\ k \in Nat /\ m \in Nat /\ m <= k
      BY <1>1, <2>1
    <3>2. QED
      BY <3>1
  <2> HIDE DEF A, N
  <2>5. IsFiniteSet(A \cup {m}) /\ Cardinality(A \cup {m}) <= Cardinality(A) + 1
    BY <2>3, FS_AddElement
  <2>6. Cardinality(N) <= Cardinality(A \cup {m}) /\ Cardinality(N) \in Nat
        /\ Cardinality(A \cup {m}) \in Nat
    BY <1>1, <2>4, <2>5, FS_Subset, FS_CardinalityType
  <2>7. QED
    BY <1>1, <2>2, <2>3, <2>5, <2>6 DEF N
<1>4. QED
  BY <1>2, <1>3

\* How many of its own messages the turn has added.
Added == CASE pc \in {"idle", "ask"} -> 0
           [] pc \in {"call", "answer"} -> 1
           [] OTHER -> 2

\* A summary that fails leaves the turn's two messages to the next turn.
Room == Cardinality(rows) <= Threshold + Added + 2 * fails

(* Every step of the turn, a clear and a deletion leave room. *)
LEMMA RoomStep ==
    ASSUME MInv, MInv', Room, [Next]_vars PROVE Room'
<1>1. /\ rows \subseteq Nat /\ IsFiniteSet(rows) /\ Cardinality(rows) \in Nat
      /\ fails \in Nat /\ Threshold \in Nat /\ KeepLast \in Nat /\ KeepLast <= Threshold
  <2>1. rows \subseteq 0 .. next - 1 /\ next \in Nat /\ fails \in Nat
    BY MemoryAssumption DEF MInv, TypeOK
  <2>2. IsFiniteSet(rows)
    <3>1. IsFiniteSet(0 .. next - 1)
      BY <2>1, FS_Interval
    <3>2. QED
      BY <2>1, <3>1, FS_Subset
  <2>3. QED
    BY <2>1, <2>2, MemoryAssumption, FS_CardinalityType
<1>2. Added \in {0, 1, 2} /\ pc \in {"idle", "ask", "call", "answer", "count", "llm", "write", "drop"}
  BY DEF Added, MInv, TypeOK
<1> USE DEF turnVars, removeVars, clearVars
<1>3. ASSUME rows' \subseteq rows PROVE Cardinality(rows') <= Cardinality(rows) /\ Cardinality(rows') \in Nat
  BY <1>1, <1>3, FS_Subset, FS_CardinalityType
<1>4. CASE Begin \/ BeginBlind
  <2>1. rows' = rows /\ Added = 0 /\ Added' = 0 /\ (fails' = fails \/ fails' = fails + 1)
    BY <1>4 DEF Begin, BeginBlind, Added, Fail
  <2>2. QED
    BY <1>1, <2>1 DEF Room
<1>5. CASE Ask \/ Answer
  <2>1. Added' = Added + 1 /\ fails' = fails
    BY <1>5 DEF Ask, Answer, Added
  <2>2. rows' = rows \/ rows' = rows \cup {next}
    BY <1>5 DEF Ask, Answer, Append
  <2>3. Cardinality(rows') <= Cardinality(rows) + 1 /\ Cardinality(rows') \in Nat
    BY <1>1, <2>2, FS_AddElement, FS_CardinalityType
  <2>4. QED
    BY <1>1, <1>2, <2>1, <2>3 DEF Room
<1>6. CASE AskFails \/ CallModel \/ NoAnswer \/ CallSummarizer
  <2>1. rows' = rows /\ Added' >= Added /\ Added' \in {0, 1, 2} /\ (fails' = fails \/ fails' = fails + 1)
    BY <1>2, <1>6 DEF AskFails, CallModel, NoAnswer, CallSummarizer, Added, Fail
  <2>2. QED
    BY <1>1, <1>2, <2>1 DEF Room
<1>7. CASE CountMessages
  <2>1. rows' = rows /\ fails' = fails /\ Added = 2
    BY <1>7 DEF CountMessages, Added
  <2>2. CASE Cardinality(rows) > Threshold
    <3>1. Added' = 2
      BY <1>7, <2>2 DEF CountMessages, Added
    <3>2. QED
      BY <1>1, <2>1, <3>1 DEF Room
  <2>3. CASE ~(Cardinality(rows) > Threshold)
    <3>1. Added' = 0
      BY <1>7, <2>3 DEF CountMessages, Added
    <3>2. QED
      BY <1>1, <2>1, <2>3, <3>1 DEF Room
  <2>4. QED
    BY <2>2, <2>3
<1>8. CASE WriteSummary
  <2>1. rows' = rows /\ fails' = fails /\ Added = 2
    BY <1>8 DEF WriteSummary, Added
  <2>2. CASE Writable
    <3>1. Added' = 2
      BY <1>8, <2>2 DEF WriteSummary, Added
    <3>2. QED
      BY <1>1, <2>1, <3>1 DEF Room
  <2>3. CASE ~Writable
    <3>1. Added' = 0 /\ rows = {}
      BY <1>8, <2>3 DEF WriteSummary, Added, Writable, MInv, DeletedIsGone, TypeOK
    <3>2. QED
      BY <1>1, <2>1, <3>1, FS_EmptySet DEF Room
  <2>4. QED
    BY <2>2, <2>3
<1>9. CASE DropMessages
  <2>1. rows' = Newest(rows, KeepLast) /\ Added' = 0 /\ fails' = fails
    BY <1>9 DEF DropMessages, Added
  <2>2. Cardinality(rows') <= KeepLast /\ Cardinality(rows') \in Nat
    BY <1>1, <2>1, NewestBounded, FS_CardinalityType
  <2>3. QED
    BY <1>1, <2>1, <2>2 DEF Room
<1>10. CASE SummaryFails
  <2>1. rows' = rows /\ Added = 2 /\ Added' = 0 /\ fails' = fails + 1
    BY <1>10 DEF SummaryFails, Added, Fail
  <2>2. QED
    BY <1>1, <2>1 DEF Room
<1>11. CASE Clear \/ LoadSession \/ DeleteSession \/ UNCHANGED vars
  <2>1. rows' \subseteq rows /\ pc' = pc /\ fails' = fails
    BY <1>11 DEF Clear, LoadSession, DeleteSession, vars
  <2>2. Added' = Added
    BY <2>1 DEF Added
  <2>3. QED
    BY <1>1, <1>2, <1>3, <2>1, <2>2 DEF Room
<1>12. QED
  BY <1>4, <1>5, <1>6, <1>7, <1>8, <1>9, <1>10, <1>11 DEF Next, TurnStep

(* However long the session, its table holds no more than the threshold, the  *)
(* messages of one turn, and two for each summary that failed                  *)
(* (maybe_summarize).                                                          *)
THEOREM HistoryStaysBounded == Spec => []HistoryBounded
<1>1. Init => Room
  BY FS_EmptySet, MemoryAssumption DEF Init, Room, Added
<1>2. MInv /\ MInv' /\ Room /\ [Next]_vars => Room'
  BY RoomStep
<1>3. MInv /\ Room => HistoryBounded
  <2> SUFFICES ASSUME MInv, Room PROVE HistoryBounded
    OBVIOUS
  <2>1. rows \subseteq 0 .. next - 1 /\ next \in Nat /\ fails \in Nat
    BY MemoryAssumption DEF MInv, TypeOK
  <2>2. Cardinality(rows) \in Nat
    <3>1. IsFiniteSet(0 .. next - 1)
      BY <2>1, FS_Interval
    <3>2. QED
      BY <2>1, <3>1, FS_Subset, FS_CardinalityType
  <2>3. Added \in {0, 1, 2}
    BY DEF Added
  <2>4. QED
    BY <2>1, <2>2, <2>3, MemoryAssumption DEF Room, HistoryBounded
<1>4. QED
  BY <1>1, <1>2, <1>3, MemoryInvariance, PTL DEF Spec
=============================================================================
