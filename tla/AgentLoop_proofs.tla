--------------------------- MODULE AgentLoop_proofs ---------------------------
(***************************************************************************)
(* A turn of the agent, for every number of turns, calls, threads and       *)
(* rounds and every history: what the model is shown is a conversation,     *)
(* what is told of calls has happened, and the rounds are counted right.    *)
(***************************************************************************)
EXTENDS AgentLoop, FiniteSetTheorems, SequenceTheorems, TLAPS

(* Naturals and sequences. *)

(* A set of naturals that is not empty has a least element: the sets 0 .. x *)
(* for its elements are well-founded under inclusion.  Whatever is proved   *)
(* by induction below is proved by it.                                      *)
LEMMA Least ==
  ASSUME NEW S \in SUBSET Nat, S # {}
  PROVE \E x \in S : \A y \in S : x <= y
<1>1. PICK s \in S : TRUE
  OBVIOUS
<1> DEFINE T == {0 .. x : x \in S \cap (0 .. s)}
<1> DEFINE R == StrictSubsetOrdering(0 .. s)
<1>2. IsWellFoundedOn(R, SUBSET (0 .. s))
  <2>1. IsFiniteSet(0 .. s)
    BY <1>1, FS_Interval
  <2> QED BY <2>1, FS_StrictSubsetOrderingWellFounded, FS_FiniteSubsetsOfFinite
<1>3. T \subseteq SUBSET (0 .. s) /\ T # {}
  BY <1>1
<1>4. \A A, B \in SUBSET (0 .. s) : <<A, B>> \in R <=> A \subseteq B /\ A # B
  BY DEF StrictSubsetOrdering
<1>5. \E X \in T : \A Y \in T : ~(<<Y, X>> \in R)
  <2> HIDE DEF R, T
  <2> QED BY <1>2, <1>3, WFMin
<1>6. PICK x \in S \cap (0 .. s) : \A Y \in T : ~(<<Y, 0 .. x>> \in R)
  BY <1>5
<1>7. ASSUME NEW y \in S, y < x PROVE FALSE
  <2>1. y \in 0 .. s /\ y \in Nat /\ x \in Nat
    BY <1>7, <1>1
  <2>2. 0 .. y \in T
    BY <2>1
  <2>3. 0 .. y \subseteq 0 .. x /\ x \in 0 .. x /\ x \notin 0 .. y
    BY <2>1, <1>7
  <2>4. <<0 .. y, 0 .. x>> \in R
    <3>1. 0 .. y \in SUBSET (0 .. s) /\ 0 .. x \in SUBSET (0 .. s) /\ 0 .. y # 0 .. x
      BY <2>1, <2>2, <2>3, <1>3, <1>6
    <3> HIDE DEF R
    <3> QED BY <1>4, <2>3, <3>1
  <2> QED BY <2>2, <2>4, <1>6
<1> QED BY <1>6, <1>7

(* Induction up to a bound, over the set of what it holds of.               *)
LEMMA Upwards ==
    ASSUME NEW n \in Nat, NEW P, 0 \in P, \A k \in 1 .. n : k - 1 \in P => k \in P
    PROVE  \A k \in 0 .. n : k \in P
<1> SUFFICES ASSUME NEW k \in 0 .. n, k \notin P PROVE FALSE
  OBVIOUS
<1> DEFINE Out == {j \in 0 .. n : j \notin P}
<1>1. Out \in SUBSET Nat /\ Out # {}
  OBVIOUS
<1>2. PICK j \in Out : \A i \in Out : j <= i
  <2> HIDE DEF Out
  <2> QED BY <1>1, Least
<1>3. j # 0 /\ j - 1 \in 0 .. n /\ j \in 1 .. n
  OBVIOUS
<1>4. j - 1 \in P
  BY <1>2, <1>3
<1> QED BY <1>3, <1>4

\* The sets of the first k places.
Places(k) == SUBSET (1 .. k)

(* The last of so many places is the greatest. *)
LEMMA Segments ==
    ASSUME NEW k \in Nat
    PROVE  /\ \A s \in Places(k + 1) : k + 1 \in s => Max(s) = k + 1 /\ s \ {k + 1} \in Places(k)
           /\ \A s \in Places(k + 1) : k + 1 \notin s => s \in Places(k)
<1>1. \A s \in Places(k + 1) : \A x \in s : x \in 1 .. k + 1 /\ (x # k + 1 => x \in 1 .. k)
  BY DEF Places
<1>2. ASSUME NEW s \in Places(k + 1), k + 1 \in s
      PROVE  Max(s) = k + 1
  <2>1. \A y \in s : k + 1 >= y
    BY <1>1
  <2>2. \A x \in s : (\A y \in s : x >= y) => x = k + 1
    BY <1>1, <1>2
  <2> QED BY <1>2, <2>1, <2>2 DEF Max
<1> QED BY <1>1, <1>2 DEF Places

LEMMA UpTo ==
    ASSUME NEW k \in Nat \ {0}
    PROVE  /\ k \in 1 .. k
           /\ Max(1 .. k) = k
           /\ (1 .. k) \ {k} = 1 .. (k - 1)
<1>1. k \in 1 .. k
  OBVIOUS
<1>2. Max(1 .. k) = k
  <2>1. k - 1 \in Nat /\ (k - 1) + 1 = k
    OBVIOUS
  <2>2. 1 .. k \in Places(k)
    BY DEF Places
  <2> QED BY <1>1, <2>1, <2>2, Segments
<1>3. (1 .. k) \ {k} = 1 .. (k - 1)
  OBVIOUS
<1>4. QED BY <1>1, <1>2, <1>3

\* it is what a fold from the left of step computes, of each set of places.
Folds(it, n, base, step) ==
    \A s \in Places(n) : it[s] = IF s = {} THEN base ELSE step[<<it[s \ {Max(s)}], Max(s)>>]

(* Such a fold is defined, whatever the step is. *)
LEMMA FoldDefined ==
    ASSUME NEW n \in Nat, NEW S, NEW base \in S, NEW step \in [S \X (1 .. n) -> S]
    PROVE  \E it \in [Places(n) -> S] : Folds(it, n, base, step)
<1> DEFINE P == {k \in 0 .. n : \E it \in [Places(k) -> S] : Folds(it, k, base, step)}
<1>1. 0 \in P
  <2>1. Places(0) = {{}}
    BY DEF Places
  <2>2. [s \in Places(0) |-> base] \in [Places(0) -> S] /\ Folds([s \in Places(0) |-> base], 0, base, step)
    BY <2>1 DEF Folds
  <2> QED BY <2>2
<1>2. ASSUME NEW k \in 1 .. n, k - 1 \in P
      PROVE  k \in P
  <2>1. PICK it \in [Places(k - 1) -> S] : Folds(it, k - 1, base, step)
    BY <1>2
  <2>2. /\ k - 1 \in Nat /\ (k - 1) + 1 = k
        /\ \A s \in Places(k) : k \in s => Max(s) = k /\ s \ {k} \in Places(k - 1)
        /\ \A s \in Places(k) : k \notin s => s \in Places(k - 1)
    <3>1. k - 1 \in Nat /\ (k - 1) + 1 = k
      OBVIOUS
    <3> QED BY <3>1, Segments
  <2> DEFINE up == [s \in Places(k) |-> IF k \in s THEN step[<<it[s \ {k}], k>>] ELSE it[s]]
  <2>3. \A s \in Places(k) : k \in s => it[s \ {k}] \in S /\ up[s] \in S
    BY <2>2, <2>1
  <2>4. up \in [Places(k) -> S]
    BY <2>2, <2>3, <2>1
  <2>5. Places(k - 1) \subseteq Places(k) /\ \A s \in Places(k - 1) : k \notin s /\ up[s] = it[s]
    BY DEF Places
  <2>7. Folds(up, k, base, step)
    <3> SUFFICES ASSUME NEW s \in Places(k)
                 PROVE  up[s] = IF s = {} THEN base ELSE step[<<up[s \ {Max(s)}], Max(s)>>]
      BY DEF Folds
    <3>1. CASE k \in s
      BY <3>1, <2>2, <2>5
    <3>2. CASE k \notin s
      <4>1. s \in Places(k - 1) /\ up[s] = it[s] /\ s \ {Max(s)} \in Places(k - 1)
        BY <3>2, <2>2, <2>5 DEF Places
      <4>2. up[s \ {Max(s)}] = it[s \ {Max(s)}]
        BY <4>1, <2>5
      <4> QED BY <4>1, <4>2, <2>1 DEF Folds
    <3> QED BY <3>1, <3>2
  <2>8. \E x \in [Places(k) -> S] : Folds(x, k, base, step)
    <3> HIDE DEF up
    <3> QED BY <2>4, <2>7
  <2> QED BY <2>8
<1>3. \A k \in 0 .. n : k \in P
  <2> HIDE DEF P
  <2> QED BY <1>1, <1>2, Upwards
<1> QED BY <1>3

(* The greatest of some places is one of them. *)
LEMMA GreatestIsOne ==
    ASSUME NEW n \in Nat
    PROVE  \A s \in Places(n) : s # {} => Max(s) \in s
<1> DEFINE P == {k \in 0 .. n : \A s \in Places(k) : s # {} => Max(s) \in s}
<1>1. 0 \in P
  <2>1. Places(0) = {{}}
    BY DEF Places
  <2> QED BY <2>1
<1>2. ASSUME NEW k \in 1 .. n, k - 1 \in P
      PROVE  k \in P
  <2>1. k - 1 \in Nat /\ (k - 1) + 1 = k
    OBVIOUS
  <2>2. /\ \A s \in Places(k) : k \in s => Max(s) = k
        /\ \A s \in Places(k) : k \notin s => s \in Places(k - 1)
    BY <2>1, Segments
  <2> QED BY <1>2, <2>2
<1>3. n \in P
  <2> HIDE DEF P
  <2> QED BY <1>1, <1>2, Upwards
<1> QED BY <1>3

(* What holds of the base and is kept by the step holds of the fold. *)
LEMMA FoldTyped ==
    ASSUME NEW n \in Nat, NEW S, NEW it, it[{}] \in S,
           \A k \in 1 .. n : it[1 .. (k - 1)] \in S => it[1 .. k] \in S
    PROVE  \A k \in 0 .. n : it[1 .. k] \in S
<1> DEFINE P == {k \in 0 .. n : it[1 .. k] \in S}
<1>1. 0 \in P
  <2>1. 1 .. 0 = {}
    OBVIOUS
  <2> QED BY <2>1
<1>2. \A k \in 1 .. n : k - 1 \in P => k \in P
  OBVIOUS
<1>3. \A k \in 0 .. n : k \in P
  <2> HIDE DEF P
  <2> QED BY <1>1, <1>2, Upwards
<1> QED BY <1>3

\* A sequence, of whatever it is.
IsSeq(s) == \E S : s \in Seq(S)

(* The domain of a sequence. *)
LEMMA Sequence ==
    ASSUME NEW s, IsSeq(s) PROVE Len(s) \in Nat /\ DOMAIN s = 1 .. Len(s)
BY DEF IsSeq

(* What Append gives. *)
LEMMA Appended ==
    ASSUME NEW s, IsSeq(s), NEW x
    PROVE  /\ IsSeq(Append(s, x)) /\ Len(Append(s, x)) = Len(s) + 1
           /\ \A i \in 1 .. Len(s) : Append(s, x)[i] = s[i]
           /\ Append(s, x)[Len(s) + 1] = x
<1>1. PICK S : s \in Seq(S)
  BY DEF IsSeq
<1>2. s \in Seq(S \cup {x}) /\ x \in S \cup {x}
  BY <1>1
<1>3. QED
  BY <1>2, AppendProperties DEF IsSeq

(* What \o gives. *)
LEMMA Joined ==
    ASSUME NEW s, IsSeq(s), NEW r, IsSeq(r)
    PROVE  /\ IsSeq(s \o r) /\ Len(s \o r) = Len(s) + Len(r)
           /\ \A i \in 1 .. Len(s) : (s \o r)[i] = s[i]
           /\ \A i \in 1 .. Len(r) : (s \o r)[Len(s) + i] = r[i]
<1>1. PICK S : s \in Seq(S)
  BY DEF IsSeq
<1>2. PICK R : r \in Seq(R)
  BY DEF IsSeq
<1>3. s \in Seq(S \cup R) /\ r \in Seq(S \cup R)
  BY <1>1, <1>2
<1>4. QED
  BY <1>3, ConcatProperties DEF IsSeq

(* The end of a sequence. *)
LEMMA PartOf ==
    ASSUME NEW s, IsSeq(s), NEW a \in 1 .. Len(s) + 1
    PROVE  /\ IsSeq(SubSeq(s, a, Len(s))) /\ Len(SubSeq(s, a, Len(s))) = Len(s) - a + 1
           /\ \A i \in 1 .. Len(s) - a + 1 : SubSeq(s, a, Len(s))[i] = s[a + i - 1]
<1>1. PICK S : s \in Seq(S)
  BY DEF IsSeq
<1>2. QED
  BY <1>1, SubSeqProperties DEF IsSeq

(* A sequence of one. *)
LEMMA Single == ASSUME NEW x PROVE IsSeq(<<x>>) /\ Len(<<x>>) = 1 /\ <<x>>[1] = x
<1>1. <<x>> \in Seq({x})
  OBVIOUS
<1>2. QED
  BY <1>1 DEF IsSeq

(* The sequence of none. *)
LEMMA Empty == IsSeq(<<>>) /\ Len(<<>>) = 0 /\ \A s : IsSeq(s) /\ Len(s) = 0 => s = <<>>
<1>1. <<>> \in Seq({})
  OBVIOUS
<1>2. QED
  BY <1>1, EmptySeq DEF IsSeq

(* A function on 1 .. n is a sequence. *)
LEMMA Sized ==
    ASSUME NEW n \in Nat, NEW f, DOMAIN f = 1 .. n, f = [i \in 1 .. n |-> f[i]]
    PROVE  IsSeq(f) /\ Len(f) = n
<1>1. f \in Seq({f[i] : i \in 1 .. n})
  OBVIOUS
<1>2. QED
  BY <1>1 DEF IsSeq

-----------------------------------------------------------------------------
(* Conversations. *)

\* Of a message.
Fields == {"kind", "at", "calls", "call", "ok"}

\* After the system message, all of the session from somewhere on; only the
\* model calls, and an answer follows the message that calls for it.
Conversation(m) ==
    /\ IsSeq(m) /\ Len(m) > 1
    /\ m[1].kind = "S" /\ m[1].calls = <<>>
    /\ \A i \in 1 .. Len(m) :
        /\ DOMAIN m[i] = Fields /\ m[i].at \in Nat
        /\ IsSeq(m[i].calls) /\ Len(m[i].calls) <= MaxCalls
        /\ m[i].calls # <<>> => m[i].kind = "A"
        /\ m[i].kind = "T" => \E j \in 1 .. i - 1 : \E n \in 1 .. Len(m[j].calls) : j + n = i
    /\ HasNoGap(m)

\* The calls of the first k messages have their answers.
Answered(m, k) ==
    \A i \in 1 .. k : \A n \in 1 .. Len(m[i].calls) :
        i + n \in 1 .. Len(m) /\ m[i + n].kind = "T" /\ m[i + n].call = m[i].calls[n]

\* The first message, and those from s on.
Ending(p, m, s) ==
    /\ IsSeq(p) /\ Len(p) = Len(m) - s + 2
    /\ p[1] = m[1] /\ \A i \in 2 .. Len(p) : p[i] = m[s + i - 2]

(* From the first message and an ending that does not begin with an answer   *)
(* no call is cut off from its answers, nor an answer from its call.        *)
LEMMA EndingIsWhole ==
    ASSUME NEW m, Conversation(m), Answered(m, Len(m)),
           NEW s \in 2 .. Len(m), m[s].kind # "T", NEW p, Ending(p, m, s)
    PROVE  IsAccepted(p) /\ HasNoGap(p)
<1>1. /\ Len(m) \in Nat /\ s \in Nat /\ 2 <= s /\ s <= Len(m) /\ Len(p) = Len(m) - s + 2
      /\ Len(p) \in Nat /\ Len(p) > 1 /\ DOMAIN p = 1 .. Len(p)
  BY Sequence DEF Ending, Conversation
<1>2. p[1] = m[1] /\ \A i \in 2 .. Len(p) : p[i] = m[s + i - 2] /\ s + i - 2 \in 1 .. Len(m)
  BY <1>1 DEF Ending
<1>3. \A i \in 1 .. Len(m) : DOMAIN m[i].calls = 1 .. Len(m[i].calls) /\ Len(m[i].calls) \in Nat
  BY Sequence DEF Conversation
<1>4. m[1].calls = <<>> /\ m[1].kind # "T"
  BY DEF Conversation
<1>5. HasNoGap(p)
  <2>1. \A i \in 2 .. Len(m) - 1 : m[i + 1].at = m[i].at + 1
    BY DEF Conversation, HasNoGap
  <2> SUFFICES ASSUME NEW i \in 2 .. Len(p) - 1 PROVE p[i + 1].at = p[i].at + 1
    BY DEF HasNoGap
  <2>2. i \in 2 .. Len(p) /\ i + 1 \in 2 .. Len(p) /\ s + i - 2 \in 2 .. Len(m) - 1
        /\ s + (i + 1) - 2 = (s + i - 2) + 1
    BY <1>1
  <2>3. p[i] = m[s + i - 2] /\ p[i + 1] = m[(s + i - 2) + 1]
    BY <1>2, <2>2
  <2>4. QED
    BY <2>1, <2>2, <2>3
<1>6. ASSUME NEW i \in 1 .. Len(p), NEW n \in DOMAIN p[i].calls
      PROVE  i + n \in DOMAIN p /\ p[i + n].kind = "T" /\ p[i + n].call = p[i].calls[n]
  <2>1. i # 1
    BY <1>2, <1>4, <1>6
  <2>2. i \in 2 .. Len(p)
    BY <1>1, <2>1
  <2> DEFINE k == s + i - 2
  <2>3. p[i] = m[k] /\ k \in 1 .. Len(m)
    BY <1>2, <2>2
  <2>4. n \in 1 .. Len(m[k].calls) /\ Len(m[k].calls) \in Nat
    BY <1>3, <1>6, <2>3
  <2>5. k + n \in 1 .. Len(m) /\ m[k + n].kind = "T" /\ m[k + n].call = m[k].calls[n]
    BY <2>3, <2>4 DEF Answered
  <2>6. i + n \in 2 .. Len(p) /\ s + (i + n) - 2 = k + n
    BY <1>1, <2>2, <2>4, <2>5
  <2>7. p[i + n] = m[k + n]
    BY <1>2, <2>6
  <2>8. QED
    BY <1>1, <2>3, <2>5, <2>6, <2>7
<1>7. ASSUME NEW i \in 1 .. Len(p), p[i].kind = "T"
      PROVE  \E j \in 1 .. i - 1 : \E n \in DOMAIN p[j].calls : j + n = i
  <2>1. i # 1
    BY <1>2, <1>4, <1>7
  <2>2. i \in 2 .. Len(p)
    BY <1>1, <2>1
  <2> DEFINE k == s + i - 2
  <2>3. p[i] = m[k] /\ k \in 1 .. Len(m)
    BY <1>2, <2>2
  <2>4. PICK j \in 1 .. k - 1 : \E n \in 1 .. Len(m[j].calls) : j + n = k
    BY <1>7, <2>3 DEF Conversation
  <2>5. PICK n \in 1 .. Len(m[j].calls) : j + n = k
    BY <2>4
  <2>6. j \in 1 .. Len(m) /\ j \in Nat /\ n \in Nat /\ Len(m[j].calls) \in Nat
    <3>1. j \in 1 .. Len(m)
      BY <1>1, <2>3, <2>4
    <3>2. QED
      BY <1>3, <2>5, <3>1
  <2>7. j >= s
    <3> SUFFICES ASSUME j < s PROVE FALSE
      BY <1>1, <2>6
    <3>1. s - j \in 1 .. Len(m[j].calls) /\ j + (s - j) = s
      BY <1>1, <2>2, <2>5, <2>6
    <3>2. m[j + (s - j)].kind = "T"
      BY <3>1, <2>6 DEF Answered
    <3>3. QED
      BY <3>1, <3>2
  <2> DEFINE l == j - s + 2
  <2>8. l \in 2 .. Len(p) /\ l \in 1 .. i - 1 /\ s + l - 2 = j /\ l + n = i
    BY <1>1, <2>2, <2>5, <2>6, <2>7
  <2>9. p[l] = m[j]
    BY <1>2, <2>8
  <2>10. QED
    BY <1>3, <2>5, <2>6, <2>8, <2>9
<1>8. QED
  BY <1>1, <1>5, <1>6, <1>7 DEF IsAccepted

(* Of the last MAX_HISTORY_MESSAGES some message is no answer: a round's      *)
(* answers are fewer.                                                       *)
LEMMA SomethingElse ==
    ASSUME NEW m, Conversation(m), Len(m) - 1 > MAX_HISTORY_MESSAGES
    PROVE  \E i \in Len(m) - MAX_HISTORY_MESSAGES + 1 .. Len(m) : m[i].kind # "T"
<1> USE DEF Conversation
<1>1. Len(m) \in Nat /\ MaxCalls \in Nat /\ MAX_HISTORY_MESSAGES \in Nat
      /\ MaxCalls < MAX_HISTORY_MESSAGES
  BY Sequence, LoopAssumption
<1>2. CASE m[Len(m)].kind # "T"
  BY <1>1, <1>2
<1>3. CASE m[Len(m)].kind = "T"
  <2>1. PICK j \in 1 .. Len(m) - 1 : \E n \in 1 .. Len(m[j].calls) : j + n = Len(m)
    <3>1. Len(m) \in 1 .. Len(m)
      BY <1>1
    <3>2. QED
      BY <3>1, <1>3
  <2>2. IsSeq(m[j].calls) /\ Len(m[j].calls) \in Nat /\ Len(m[j].calls) <= MaxCalls
        /\ (m[j].calls # <<>> => m[j].kind = "A")
    BY <1>1, <2>1, Sequence
  <2>3. j \in Len(m) - MAX_HISTORY_MESSAGES + 1 .. Len(m)
    BY <1>1, <2>1, <2>2
  <2>4. m[j].calls # <<>>
    BY <2>1
  <2>5. QED
    BY <2>2, <2>3, <2>4
<1>4. QED
  BY <1>2, <1>3

(* _trim_history keeps the first message and such an ending. *)
LEMMA TrimIsEnding ==
    ASSUME NEW m, Conversation(m)
    PROVE  \E s \in 2 .. Len(m) : m[s].kind # "T" /\ Ending(TrimHistory(m), m, s)
<1> DEFINE M == MAX_HISTORY_MESSAGES
           recent == LastOf(m, M)
           whole == {i \in DOMAIN recent : \A j \in 1 .. i : recent[j].kind = "T"}
<1>1. Len(m) \in Nat /\ M \in Nat /\ IsSeq(m) /\ Len(m) > 1 /\ M > 0
  BY Sequence, LoopAssumption DEF Conversation
<1>2. CASE Len(m) - 1 <= M
  <2>1. TrimHistory(m) = m
    BY <1>2 DEF TrimHistory
  <2>2. m[2].kind # "T"
    <3> SUFFICES ASSUME m[2].kind = "T" PROVE FALSE
      OBVIOUS
    <3>1. \E n \in 1 .. Len(m[1].calls) : 1 + n = 2
      BY <1>1 DEF Conversation
    <3>2. QED
      BY <3>1 DEF Conversation
  <2>3. Ending(m, m, 2)
    BY <1>1 DEF Ending
  <2>4. QED
    BY <1>1, <2>1, <2>2, <2>3
<1>3. CASE Len(m) - 1 > M
  <2> DEFINE a == Len(m) - M + 1
  <2>1. /\ IsSeq(recent) /\ Len(recent) = M /\ DOMAIN recent = 1 .. M
        /\ \A i \in 1 .. M : recent[i] = m[a + i - 1]
    <3>0. a \in 1 .. Len(m) + 1 /\ Len(m) - a + 1 = M /\ M < Len(m)
      BY <1>1, <1>3
    <3>1. recent = SubSeq(m, a, Len(m))
      BY <3>0, Zenon DEF LastOf
    <3>2. QED
      BY <1>1, <3>0, <3>1, PartOf, Sequence
  <2>2. \E f \in 1 .. M : recent[f].kind # "T" /\ \A i \in 1 .. f - 1 : recent[i].kind = "T"
    <3> DEFINE others == {i \in 1 .. M : recent[i].kind # "T"}
    <3> HIDE DEF recent
    <3>1. PICK o \in a .. Len(m) : m[o].kind # "T"
      BY <1>3, SomethingElse
    <3>2. o - a + 1 \in 1 .. M /\ recent[o - a + 1] = m[o]
      BY <1>1, <2>1, <3>1
    <3>3. others # {} /\ others \in SUBSET Nat
      BY <3>1, <3>2
    <3>4. \E x \in others : \A y \in others : x <= y
      <4> HIDE DEF others
      <4>1. QED
        BY <3>3, Least
    <3>5. PICK f \in others : \A y \in others : f <= y
      BY <3>4
    <3>6. \A i \in 1 .. f - 1 : recent[i].kind = "T"
      <4> SUFFICES ASSUME NEW k \in 1 .. f - 1, recent[k].kind # "T" PROVE FALSE
        OBVIOUS
      <4>1. k \in others /\ k < f
        BY <1>1, <3>5
      <4>2. QED
        BY <3>5, <4>1, <3>3
    <3>7. QED
      BY <3>5, <3>6
  <2>3. PICK f \in 1 .. M : recent[f].kind # "T" /\ \A i \in 1 .. f - 1 : recent[i].kind = "T"
    BY <2>2
  <2>4. Cardinality(whole) = f - 1
    <3>1. whole = 1 .. f - 1
      <4> HIDE DEF recent
      <4>1. ASSUME NEW i \in whole PROVE i \in 1 .. f - 1
        BY <2>1, <2>3
      <4>2. ASSUME NEW i \in 1 .. f - 1 PROVE i \in whole
        BY <1>1, <2>1, <2>3
      <4>3. QED
        BY <4>1, <4>2
    <3>2. Cardinality(1 .. f - 1) = f - 1
      <4>1. 1 \in Int /\ f - 1 \in Int /\ f - 1 >= 0
        BY <1>1, <2>3
      <4>2. Cardinality(1 .. f - 1) = IF 1 > f - 1 THEN 0 ELSE (f - 1) - 1 + 1
        BY <4>1, FS_Interval
      <4>3. QED
        BY <4>1, <4>2
    <3>3. QED
      BY <3>1, <3>2
  <2>5. TrimHistory(m) = <<m[1]>> \o SubSeq(recent, f, Len(recent))
    <3>0. ~(Len(m) - 1 <= MAX_HISTORY_MESSAGES)
      BY <1>1, <1>3
    <3>1. TrimHistory(m) = <<m[1]>> \o SubSeq(recent, Cardinality(whole) + 1, Len(recent))
      BY <3>0, Zenon DEF TrimHistory
    <3>2. f - 1 + 1 = f
      BY <2>3
    <3>3. QED
      BY <2>4, <3>1, <3>2
  <2>6. a - 1 + f \in 2 .. Len(m) /\ m[a - 1 + f].kind # "T"
    <3>1. recent[f] = m[a + f - 1] /\ a + f - 1 = a - 1 + f
      BY <1>1, <2>1, <2>3
    <3>2. QED
      BY <1>1, <1>3, <2>3, <3>1
  <2>7. Ending(TrimHistory(m), m, a - 1 + f)
    <3> DEFINE part == SubSeq(recent, f, Len(recent))
    <3> HIDE DEF recent
    <3>1. /\ IsSeq(part) /\ Len(part) = M - f + 1
          /\ \A i \in 1 .. M - f + 1 : part[i] = recent[f + i - 1]
      BY <1>1, <2>1, <2>3, PartOf
    <3>2. \A i \in 1 .. M - f + 1 : part[i] = m[a + f + i - 2]
      BY <1>1, <2>1, <2>3, <3>1
    <3> HIDE DEF part
    <3>3. /\ IsSeq(<<m[1]>> \o part) /\ Len(<<m[1]>> \o part) = M - f + 2
          /\ (<<m[1]>> \o part)[1] = m[1]
          /\ \A i \in 1 .. M - f + 1 : (<<m[1]>> \o part)[1 + i] = part[i]
      BY <1>1, <2>3, <3>1, Joined, Single
    <3>4. \A i \in 2 .. M - f + 2 : (<<m[1]>> \o part)[i] = m[(a - 1 + f) + i - 2]
      <4> SUFFICES ASSUME NEW i \in 2 .. M - f + 2
                   PROVE (<<m[1]>> \o part)[i] = m[(a - 1 + f) + i - 2]
        OBVIOUS
      <4>1. i - 1 \in 1 .. M - f + 1 /\ 1 + (i - 1) = i
            /\ a + f + (i - 1) - 2 = (a - 1 + f) + i - 2
        BY <1>1, <2>3
      <4>2. QED
        BY <3>2, <3>3, <4>1
    <3>5. Len(m) - (a - 1 + f) + 2 = M - f + 2
      BY <1>1, <2>3
    <3>6. QED
      BY <2>5, <3>3, <3>4, <3>5 DEF Ending, part
  <2>8. QED
    BY <2>6, <2>7
<1>4. QED
  BY <1>1, <1>2, <1>3

(* What agent_node shows the model is accepted and has no gap. *)
LEMMA TrimmedIsWhole ==
    ASSUME NEW m, Conversation(m), Answered(m, Len(m))
    PROVE  IsAccepted(TrimHistory(m)) /\ HasNoGap(TrimHistory(m))
BY TrimIsEnding, EndingIsWhole

\* Every call has its answer.
Closed(m) == Conversation(m) /\ Answered(m, Len(m))

(* assemble_with_budget keeps an ending of the history, whatever the cost of *)
(* its messages.                                                            *)
LEMMA Assembled ==
    ASSUME NEW h \in Histories
    PROVE  /\ Len(h) \in Nat
           /\ \E a \in 0 .. Len(h) : Assemble(h) = [i \in 1 .. Len(h) - a |-> a + i]
<1> DEFINE tail == LastOf(h, KeepLastTurns)
           head == SubSeq(h, 1, Len(h) - Len(tail))
           fits(k) == SystemSize + Cost(LastOf(head, k)) <= Budget
           Right(k) == (k = 0 \/ fits(k)) /\ (k = Len(head) \/ ~fits(k + 1))
           n == CHOOSE k \in 0 .. Len(head) : Right(k)
<1>1. IsSeq(h) /\ Len(h) \in Nat
  BY LoopAssumption, Sequence DEF IsSeq
<1>2. IsSeq(tail) /\ Len(tail) \in 0 .. Len(h)
  <2> DEFINE k == IF KeepLastTurns < Len(h) THEN KeepLastTurns ELSE Len(h)
  <2>1. k \in 0 .. Len(h)
    BY <1>1, LoopAssumption
  <2>2. Len(h) - k + 1 \in 1 .. Len(h) + 1 /\ Len(h) - (Len(h) - k + 1) + 1 = k
    BY <1>1, <2>1
  <2>3. tail = SubSeq(h, Len(h) - k + 1, Len(h))
    BY Zenon DEF LastOf
  <2> HIDE DEF k, tail
  <2>4. QED
    BY <1>1, <2>1, <2>2, <2>3, PartOf
<1>3. Len(head) = Len(h) - Len(tail)
  <2> HIDE DEF tail
  <2>1. PICK S : h \in Seq(S)
    BY <1>1 DEF IsSeq
  <2>2. QED
    BY <1>1, <1>2, <2>1, SubSeqProperties
<1> HIDE DEF tail, head, fits
<1>4. Len(head) \in Nat
  BY <1>1, <1>2, <1>3
<1>5. \E k \in 0 .. Len(head) : Right(k)
  <2> DEFINE full == {k \in 0 .. Len(head) : k = Len(head) \/ ~fits(k + 1)}
  <2>1. full \in SUBSET Nat /\ full # {}
    BY <1>4
  <2>2. PICK k \in full : \A j \in full : k <= j
    <3> HIDE DEF full
    <3>1. QED
      BY <2>1, Least
  <2>3. k = 0 \/ fits(k)
    <3> SUFFICES ASSUME k # 0 PROVE fits(k)
      OBVIOUS
    <3>1. k - 1 \in 0 .. Len(head) /\ k - 1 # Len(head) /\ k - 1 < k /\ k - 1 + 1 = k
      BY <1>4, <2>2
    <3>2. k - 1 \notin full
      <4>1. ~(k <= k - 1)
        BY <1>4, <2>1, <2>2
      <4> HIDE DEF full
      <4>2. QED
        BY <2>2, <4>1, Zenon
    <3>3. QED
      BY <3>1, <3>2
  <2>4. QED
    BY <2>2, <2>3
<1>6. n \in 0 .. Len(head)
  <2> HIDE DEF Right
  <2>1. QED
    BY <1>5
<1>7. Assemble(h) = [i \in 1 .. n + Len(tail) |-> Len(head) - n + i]
  BY Zenon DEF Assemble, n, Right, fits, head, tail
<1> HIDE DEF n
<1>8. Len(head) - n \in 0 .. Len(h) /\ Len(h) - (Len(head) - n) = n + Len(tail)
  BY <1>1, <1>2, <1>3, <1>6
<1>9. QED
  BY <1>1, <1>7, <1>8

(* A turn starts with a conversation in which nothing is asked of a tool. *)
LEMMA Starts ==
    ASSUME NEW h \in Histories
    PROVE  /\ Closed(InitialMessages(h))
           /\ \A i \in 1 .. Len(InitialMessages(h)) : InitialMessages(h)[i].kind # "T"
<1> DEFINE first == Message("S", 0)
           kept  == [i \in DOMAIN Assemble(h) |-> Message(h[Assemble(h)[i]].kind, Assemble(h)[i])]
           asked == kept # <<>> /\ Last(kept).kind = "H"
           rest  == IF asked THEN kept ELSE Append(kept, Message("H", Len(h) + 1))
           m     == InitialMessages(h)
<1>1. PICK a \in 0 .. Len(h) : Assemble(h) = [i \in 1 .. Len(h) - a |-> a + i]
  BY Assembled
<1>2. Len(h) \in Nat /\ \A i \in 1 .. Len(h) : h[i].kind \in {"H", "A"}
  <2> DEFINE R == [kind : {"H", "A"}, size : Nat \ {0}]
  <2>1. h \in Seq(R) /\ \A r \in R : r.kind \in {"H", "A"}
    BY LoopAssumption
  <2> HIDE DEF R
  <2>2. QED
    BY <2>1, ElementOfSeq, LenProperties
<1> DEFINE n == Len(h) - a
<1>3. n \in Nat /\ kept = [i \in 1 .. n |-> Message(h[a + i].kind, a + i)]
  BY <1>1, <1>2
<1>4. /\ IsSeq(kept) /\ Len(kept) = n
      /\ \A i \in 1 .. n : /\ kept[i].kind \in {"H", "A"} /\ kept[i].calls = <<>>
                           /\ kept[i].at = a + i /\ DOMAIN kept[i] = Fields
  <2> HIDE DEF kept
  <2>1. IsSeq(kept) /\ Len(kept) = n
    <3>1. DOMAIN kept = 1 .. n /\ kept = [i \in 1 .. n |-> kept[i]]
      BY <1>3
    <3> HIDE DEF n
    <3>2. QED
      BY <1>3, <3>1, Sized
  <2>2. ASSUME NEW i \in 1 .. n
        PROVE  /\ kept[i].kind \in {"H", "A"} /\ kept[i].calls = <<>> /\ kept[i].at = a + i
               /\ DOMAIN kept[i] = Fields
    <3>1. a + i \in 1 .. Len(h)
      BY <1>2
    <3>2. QED
      BY <1>2, <1>3, <3>1 DEF Message, Fields
  <2>3. QED
    BY <2>1, <2>2
<1> DEFINE l == Len(rest)
<1>5. /\ IsSeq(rest) /\ l \in Nat /\ l > 0
      /\ \A i \in 1 .. l : /\ rest[i].kind \in {"H", "A"} /\ rest[i].calls = <<>>
                           /\ rest[i].at = a + i /\ DOMAIN rest[i] = Fields
  <2> HIDE DEF kept
  <2>1. CASE asked
    <3>1. Len(kept) # 0 /\ rest = kept
      BY <1>4, <2>1, Empty
    <3> HIDE DEF rest, asked, n
    <3>2. l = n
      BY <1>4, <3>1
    <3>3. QED
      BY <1>3, <1>4, <3>1, <3>2
  <2>2. CASE ~asked
    <3> DEFINE x == Message("H", Len(h) + 1)
    <3>1. x.kind = "H" /\ x.calls = <<>> /\ x.at = a + (n + 1) /\ DOMAIN x = Fields
      BY <1>2 DEF Message, Fields
    <3>2. rest = Append(kept, x)
      BY <2>2
    <3> HIDE DEF rest, asked, x, n
    <3>3. /\ IsSeq(rest) /\ l = n + 1 /\ rest[n + 1] = x
          /\ \A i \in 1 .. n : rest[i] = kept[i]
      BY <1>4, <3>2, Appended
    <3>4. QED
      BY <1>3, <1>4, <3>1, <3>3
  <2>3. QED
    BY <2>1, <2>2
<1>6. m = <<first>> \o rest
  BY Zenon DEF InitialMessages
<1>7. first.kind = "S" /\ first.calls = <<>> /\ first.at = 0 /\ DOMAIN first = Fields
  BY DEF Message, Fields
<1> HIDE DEF first, rest, m, kept, asked, l
<1>8. /\ IsSeq(m) /\ Len(m) = 1 + l /\ m[1] = first
      /\ \A i \in 1 .. l : m[1 + i] = rest[i]
  BY <1>5, <1>6, Single, Joined DEF l
<1>9. \A i \in 2 .. Len(m) : /\ m[i].kind \in {"H", "A"} /\ m[i].calls = <<>>
                               /\ m[i].at = a + i - 1 /\ DOMAIN m[i] = Fields
  <2> SUFFICES ASSUME NEW i \in 2 .. Len(m)
               PROVE  /\ m[i].kind \in {"H", "A"} /\ m[i].calls = <<>>
                      /\ m[i].at = a + i - 1 /\ DOMAIN m[i] = Fields
    OBVIOUS
  <2>1. i - 1 \in 1 .. l /\ 1 + (i - 1) = i /\ a + (i - 1) = a + i - 1
    BY <1>2, <1>5, <1>8
  <2>2. m[i] = rest[i - 1]
    BY <1>8, <2>1
  <2>3. QED
    BY <1>5, <2>1, <2>2
<1>10. Len(m) \in Nat /\ Len(m) > 1
  BY <1>5, <1>8
<1>11. \A i \in 1 .. Len(m) : /\ m[i].kind # "T" /\ m[i].calls = <<>>
                                /\ m[i].at \in Nat /\ DOMAIN m[i] = Fields
  <2> SUFFICES ASSUME NEW i \in 1 .. Len(m)
               PROVE  /\ m[i].kind # "T" /\ m[i].calls = <<>>
                      /\ m[i].at \in Nat /\ DOMAIN m[i] = Fields
    OBVIOUS
  <2>1. CASE i = 1
    BY <1>7, <1>8, <2>1
  <2>2. CASE i # 1
    <3>1. i \in 2 .. Len(m) /\ a + i - 1 \in Nat
      BY <1>2, <1>10, <2>2
    <3>2. QED
      BY <1>9, <3>1
  <2>3. QED
    BY <2>1, <2>2
<1>12. Answered(m, Len(m))
  BY <1>11, Empty DEF Answered
<1>13. HasNoGap(m)
  <2> SUFFICES ASSUME NEW i \in 2 .. Len(m) - 1 PROVE m[i + 1].at = m[i].at + 1
    BY DEF HasNoGap
  <2>1. i \in 2 .. Len(m) /\ i + 1 \in 2 .. Len(m)
    BY <1>10
  <2>2. m[i].at = a + i - 1 /\ m[i + 1].at = a + (i + 1) - 1
    BY <1>9, <2>1
  <2>3. QED
    BY <1>2, <2>2
<1>14. \A i \in 1 .. Len(m) : IsSeq(m[i].calls) /\ Len(m[i].calls) <= MaxCalls
  BY <1>11, Empty, LoopAssumption
<1>15. Conversation(m)
  BY <1>7, <1>8, <1>10, <1>11, <1>13, <1>14 DEF Conversation
<1>16. QED
  BY <1>11, <1>12, <1>15 DEF Closed, m

\* The last message has calls that are still to be answered.
Asking(m) == Conversation(m) /\ Answered(m, Len(m) - 1) /\ m[Len(m)].calls # <<>>

(* The model's answer, or a question, goes on with the conversation. *)
LEMMA Extended ==
    ASSUME NEW m, Closed(m), NEW x, x.kind \in {"A", "H"}, DOMAIN x = Fields, x.at = m[Len(m)].at + 1,
           IsSeq(x.calls), Len(x.calls) <= MaxCalls, x.calls # <<>> => x.kind = "A"
    PROVE  /\ Conversation(Append(m, x))
           /\ x.calls = <<>> => Closed(Append(m, x))
           /\ x.calls # <<>> => Asking(Append(m, x))
<1> DEFINE e == Append(m, x)
           l == Len(m)
<1>1. IsSeq(m) /\ l \in Nat /\ l > 1
  BY Sequence DEF Closed, Conversation
<1>2. /\ IsSeq(e) /\ Len(e) = l + 1 /\ \A i \in 1 .. l : e[i] = m[i]
      /\ e[l + 1] = x
  BY <1>1, Appended
<1> HIDE DEF e
<1>3. \A i \in 1 .. Len(e) : i \in 1 .. l \/ (i = l + 1 /\ e[i] = x)
  BY <1>1, <1>2
<1>4. \A i \in 1 .. l :
        /\ DOMAIN m[i] = Fields /\ m[i].at \in Nat /\ IsSeq(m[i].calls) /\ Len(m[i].calls) <= MaxCalls
        /\ m[i].calls # <<>> => m[i].kind = "A"
        /\ m[i].kind = "T" => \E j \in 1 .. i - 1 : \E n \in 1 .. Len(m[j].calls) : j + n = i
  BY DEF Closed, Conversation
<1>5. ASSUME NEW i \in 1 .. Len(e)
      PROVE  /\ DOMAIN e[i] = Fields /\ e[i].at \in Nat /\ IsSeq(e[i].calls) /\ Len(e[i].calls) <= MaxCalls
             /\ e[i].calls # <<>> => e[i].kind = "A"
             /\ e[i].kind = "T" => \E j \in 1 .. i - 1 : \E n \in 1 .. Len(e[j].calls) : j + n = i
  <2>1. CASE i \in 1 .. l
    <3>1. e[i] = m[i] /\ \A j \in 1 .. i - 1 : e[j] = m[j]
      BY <1>1, <1>2, <2>1
    <3>2. QED
      BY <1>4, <2>1, <3>1
  <2>2. CASE i = l + 1 /\ e[i] = x
    <3>1. l \in 1 .. l
      BY <1>1
    <3>2. QED
      BY <1>4, <2>2, <3>1
  <2>3. QED
    BY <1>3, <2>1, <2>2
<1>6. HasNoGap(e)
  <2> SUFFICES ASSUME NEW i \in 2 .. Len(e) - 1 PROVE e[i + 1].at = e[i].at + 1
    BY DEF HasNoGap
  <2>1. i \in 1 .. l /\ e[i] = m[i]
    BY <1>1, <1>2
  <2>2. CASE i = l
    BY <1>2, <2>1, <2>2
  <2>3. CASE i # l
    <3>1. i \in 2 .. l - 1 /\ i + 1 \in 1 .. l
      BY <1>1, <2>1, <2>3
    <3>2. m[i + 1].at = m[i].at + 1
      BY <3>1 DEF Closed, Conversation, HasNoGap
    <3>3. QED
      BY <1>2, <2>1, <3>1, <3>2
  <2>4. QED
    BY <2>2, <2>3
<1>7. Conversation(e)
  <2>1. e[1] = m[1] /\ m[1].kind = "S" /\ m[1].calls = <<>> /\ Len(e) > 1
    BY <1>1, <1>2 DEF Closed, Conversation
  <2>2. QED
    BY <1>2, <1>5, <1>6, <2>1 DEF Conversation
<1>8. Answered(e, l)
  <2> SUFFICES ASSUME NEW i \in 1 .. l, NEW n \in 1 .. Len(e[i].calls)
               PROVE  i + n \in 1 .. Len(e) /\ e[i + n].kind = "T" /\ e[i + n].call = e[i].calls[n]
    BY DEF Answered
  <2>1. e[i] = m[i]
    BY <1>2
  <2>2. i + n \in 1 .. l /\ m[i + n].kind = "T" /\ m[i + n].call = m[i].calls[n]
    BY <2>1 DEF Closed, Answered
  <2>3. QED
    BY <1>1, <1>2, <2>1, <2>2
<1>9. ASSUME x.calls = <<>> PROVE Answered(e, l + 1)
  <2> SUFFICES ASSUME NEW i \in 1 .. l + 1, NEW n \in 1 .. Len(e[i].calls)
               PROVE  i + n \in 1 .. Len(e) /\ e[i + n].kind = "T" /\ e[i + n].call = e[i].calls[n]
    BY DEF Answered
  <2>1. i \in 1 .. l
    BY <1>1, <1>2, <1>9, Empty
  <2>2. QED
    BY <1>8, <2>1 DEF Answered
<1>10. l + 1 - 1 = l
  BY <1>1
<1>11. QED
  BY <1>2, <1>7, <1>8, <1>9, <1>10 DEF Closed, Asking, e

\* c answers the first calls of the last message, in order.
Answers(m, c) ==
    /\ IsSeq(c) /\ Len(c) <= Len(m[Len(m)].calls)
    /\ \A n \in 1 .. Len(c) :
        /\ c[n].kind = "T" /\ c[n].calls = <<>> /\ c[n].call = m[Len(m)].calls[n]
        /\ c[n].at = m[Len(m)].at + n /\ DOMAIN c[n] = Fields

(* With the answers of a round nothing is open any more. *)
LEMMA RoundIsWhole ==
    ASSUME NEW m, Asking(m), NEW c, Answers(m, c), Len(c) = Len(m[Len(m)].calls)
    PROVE  Closed(m \o c)
<1> DEFINE e == m \o c
           l == Len(m)
           k == Len(c)
<1>1. IsSeq(m) /\ l \in Nat /\ l > 1 /\ IsSeq(c) /\ k \in Nat
  BY Sequence DEF Asking, Conversation, Answers
<1>2. /\ IsSeq(e) /\ Len(e) = l + k /\ \A i \in 1 .. l : e[i] = m[i]
      /\ \A i \in 1 .. k : e[l + i] = c[i]
  <2>1. IsSeq(m) /\ IsSeq(c)
    BY <1>1
  <2>2. IsSeq(e) /\ Len(e) = l + k
    BY <2>1, Joined
  <2>3. \A i \in 1 .. l : e[i] = m[i]
    BY <2>1, Joined
  <2>4. \A i \in 1 .. k : e[l + i] = c[i]
    BY <2>1, Joined
  <2>5. QED
    BY <2>2, <2>3, <2>4
<1> HIDE DEF e
<1>3. \A i \in 1 .. Len(e) : i \in 1 .. l \/ (i - l \in 1 .. k /\ e[i] = c[i - l])
  <2> SUFFICES ASSUME NEW i \in 1 .. Len(e), i \notin 1 .. l
               PROVE  i - l \in 1 .. k /\ e[i] = c[i - l]
    OBVIOUS
  <2>1. i - l \in 1 .. k /\ l + (i - l) = i
    BY <1>1, <1>2
  <2>2. QED
    BY <1>2, <2>1
<1>4. \A i \in 1 .. l :
        /\ DOMAIN m[i] = Fields /\ m[i].at \in Nat /\ IsSeq(m[i].calls) /\ Len(m[i].calls) <= MaxCalls
        /\ m[i].calls # <<>> => m[i].kind = "A"
        /\ m[i].kind = "T" => \E j \in 1 .. i - 1 : \E n \in 1 .. Len(m[j].calls) : j + n = i
  BY DEF Asking, Conversation
<1>5. \A n \in 1 .. k : /\ c[n].kind = "T" /\ c[n].calls = <<>> /\ c[n].call = m[l].calls[n]
                        /\ c[n].at = m[l].at + n /\ DOMAIN c[n] = Fields
  BY DEF Answers
<1>6. l \in 1 .. l /\ m[l].at \in Nat /\ k = Len(m[l].calls) /\ MaxCalls \in Nat
  BY <1>1, <1>4, LoopAssumption
<1>7. ASSUME NEW i \in 1 .. Len(e)
      PROVE  /\ DOMAIN e[i] = Fields /\ e[i].at \in Nat /\ IsSeq(e[i].calls) /\ Len(e[i].calls) <= MaxCalls
             /\ e[i].calls # <<>> => e[i].kind = "A"
             /\ e[i].kind = "T" => \E j \in 1 .. i - 1 : \E n \in 1 .. Len(e[j].calls) : j + n = i
  <2>1. CASE i \in 1 .. l
    <3>1. e[i] = m[i] /\ \A j \in 1 .. i - 1 : e[j] = m[j]
      BY <1>1, <1>2, <2>1
    <3>2. QED
      BY <1>4, <2>1, <3>1
  <2>2. CASE i - l \in 1 .. k /\ e[i] = c[i - l]
    <3>1. /\ e[i].kind = "T" /\ e[i].calls = <<>> /\ e[i].at = m[l].at + (i - l)
          /\ DOMAIN e[i] = Fields
      BY <1>5, <2>2
    <3>2. l \in 1 .. i - 1 /\ i - l \in 1 .. Len(e[l].calls) /\ l + (i - l) = i
      <4> HIDE DEF l, k
      <4>1. e[l] = m[l]
        BY <1>2, <1>6
      <4>2. i \in Int /\ 1 <= i - l /\ i - l <= k
        BY <1>1, <1>2, <2>2
      <4>3. QED
        BY <1>1, <1>6, <4>1, <4>2
    <3>3. m[l].at + (i - l) \in Nat
      BY <1>1, <1>6, <2>2
    <3>4. QED
      BY <1>6, <3>1, <3>2, <3>3, Empty
  <2>3. QED
    BY <1>3, <2>1, <2>2
<1>8. HasNoGap(e)
  <2> SUFFICES ASSUME NEW i \in 2 .. Len(e) - 1 PROVE e[i + 1].at = e[i].at + 1
    BY DEF HasNoGap
  <2>1. i \in 1 .. Len(e) /\ i + 1 \in 1 .. Len(e)
    BY <1>1, <1>2
  <2>2. CASE i \in 2 .. l - 1
    <3>1. i \in 1 .. l /\ i + 1 \in 1 .. l
      BY <1>1, <2>2
    <3>2. m[i + 1].at = m[i].at + 1
      BY <2>2 DEF Asking, Conversation, HasNoGap
    <3>3. QED
      BY <1>2, <3>1, <3>2
  <2>3. CASE i = l
    <3>1. 1 \in 1 .. k
      BY <1>1, <1>2, <2>3
    <3>2. e[l + 1].at = m[l].at + 1 /\ e[l] = m[l]
      BY <1>2, <1>5, <1>6, <3>1
    <3>3. QED
      BY <2>3, <3>2
  <2>4. CASE i \notin 2 .. l - 1 /\ i # l
    <3>1. i - l \in 1 .. k /\ i + 1 - l \in 1 .. k /\ l + (i - l) = i /\ l + (i + 1 - l) = i + 1
      BY <1>1, <1>2, <2>4
    <3>2. e[i].at = m[l].at + (i - l) /\ e[i + 1].at = m[l].at + (i + 1 - l)
      <4>1. e[i] = c[i - l] /\ e[i + 1] = c[i + 1 - l]
        BY <1>2, <3>1
      <4>2. QED
        BY <1>5, <3>1, <4>1
    <3>3. QED
      BY <1>1, <1>6, <3>2
  <2>5. QED
    BY <2>2, <2>3, <2>4
<1>9. Conversation(e)
  <2>1. e[1] = m[1] /\ m[1].kind = "S" /\ m[1].calls = <<>> /\ Len(e) > 1
    BY <1>1, <1>2 DEF Asking, Conversation
  <2>2. QED
    BY <1>2, <1>7, <1>8, <2>1 DEF Conversation
<1>10. Answered(e, Len(e))
  <2> SUFFICES ASSUME NEW i \in 1 .. Len(e), NEW n \in 1 .. Len(e[i].calls)
               PROVE  i + n \in 1 .. Len(e) /\ e[i + n].kind = "T" /\ e[i + n].call = e[i].calls[n]
    BY DEF Answered
  <2>1. CASE i \in 1 .. l - 1
    <3>1. i \in 1 .. l /\ e[i] = m[i]
      BY <1>1, <1>2, <2>1
    <3>2. i + n \in 1 .. l /\ m[i + n].kind = "T" /\ m[i + n].call = m[i].calls[n]
      BY <2>1, <3>1 DEF Asking, Answered
    <3>3. e[i + n] = m[i + n] /\ i + n \in 1 .. l + k
      BY <1>1, <1>2, <3>2
    <3>4. QED
      BY <1>2, <3>1, <3>2, <3>3
  <2>2. CASE i = l
    <3>1. e[l] = m[l] /\ n \in 1 .. k
      BY <1>2, <1>6, <2>2
    <3>2. e[l + n] = c[n] /\ l + n \in 1 .. Len(e)
      BY <1>1, <1>2, <3>1
    <3>3. QED
      BY <1>5, <2>2, <3>1, <3>2
  <2>3. CASE i \notin 1 .. l - 1 /\ i # l
    <3>1. i - l \in 1 .. k /\ e[i] = c[i - l]
      BY <1>1, <1>3, <2>3
    <3>2. Len(e[i].calls) = 0
      BY <1>5, <3>1, Empty
    <3>3. QED
      BY <3>2
  <2>4. QED
    BY <2>1, <2>2, <2>3
<1>11. QED
  BY <1>9, <1>10 DEF Closed, e

(* What force_final_node shows the model is accepted and has no gap. *)
LEMMA StruckIsWhole ==
    ASSUME NEW m, Asking(m)
    PROVE  IsAccepted(FinalPrompt(m)) /\ HasNoGap(FinalPrompt(m))
<1> DEFINE l == Len(m)
           s == [m EXCEPT ![l].calls = <<>>]
           x == Message("H", Last(m).at + 1)
<1>1. IsSeq(m) /\ l \in Nat /\ l > 1 /\ DOMAIN m = 1 .. l /\ l \in 1 .. l
  BY Sequence DEF Asking, Conversation
<1>2. m[l].calls # <<>> /\ m[l].kind = "A" /\ m[l].at \in Nat /\ DOMAIN m[l] = Fields
  BY <1>1 DEF Asking, Conversation
<1>3. /\ IsSeq(s) /\ Len(s) = l /\ \A i \in 1 .. l : i # l => s[i] = m[i]
      /\ s[l] = [m[l] EXCEPT !.calls = <<>>]
  <2> DEFINE y == [m[l] EXCEPT !.calls = <<>>]
  <2>1. s = [m EXCEPT ![l] = y]
    OBVIOUS
  <2> HIDE DEF s, y
  <2>2. PICK S : m \in Seq(S)
    BY <1>1 DEF IsSeq
  <2>3. m \in Seq(S \cup {y}) /\ y \in S \cup {y}
    BY <2>2
  <2>4. s \in Seq(S \cup {y}) /\ Len(s) = l
    BY <1>1, <2>1, <2>3, ExceptSeq
  <2>5. QED
    BY <1>1, <2>1, <2>4 DEF IsSeq, y
<1>4. /\ s[l].kind = m[l].kind /\ s[l].at = m[l].at /\ s[l].calls = <<>>
      /\ DOMAIN s[l] = Fields
  <2> HIDE DEF s
  <2>1. QED
    BY <1>2, <1>3 DEF Fields
<1>5. x.kind = "H" /\ x.at = s[l].at + 1 /\ x.calls = <<>> /\ DOMAIN x = Fields
  BY <1>4 DEF Message, Last, Fields
<1>6. FinalPrompt(m) = TrimHistory(Append(s, x))
  BY Zenon DEF FinalPrompt
<1> HIDE DEF s, x
<1>7. Closed(s)
  <2>0. MaxCalls \in Nat
    BY LoopAssumption
  <2>1. ASSUME NEW i \in 1 .. l
        PROVE  /\ s[i].at = m[i].at /\ s[i].kind = m[i].kind /\ s[i].at \in Nat
               /\ DOMAIN s[i] = Fields /\ IsSeq(s[i].calls) /\ Len(s[i].calls) <= MaxCalls
               /\ s[i].calls # <<>> => s[i].kind = "A"
    <3>1. CASE i = l
      BY <1>2, <1>4, <2>0, <3>1, Empty
    <3>2. CASE i # l
      BY <1>3, <3>2 DEF Asking, Conversation
    <3>3. QED
      BY <3>1, <3>2
  <2>2. ASSUME NEW i \in 1 .. l, s[i].kind = "T"
        PROVE  \E j \in 1 .. i - 1 : \E n \in 1 .. Len(s[j].calls) : j + n = i
    <3>1. m[i].kind = "T"
      BY <2>1, <2>2
    <3>2. \E j \in 1 .. i - 1 : \E n \in 1 .. Len(m[j].calls) : j + n = i
      BY <3>1 DEF Asking, Conversation
    <3>3. \A j \in 1 .. i - 1 : s[j] = m[j]
      BY <1>1, <1>3
    <3>4. QED
      BY <3>2, <3>3
  <2>3. HasNoGap(s)
    <3> SUFFICES ASSUME NEW i \in 2 .. Len(s) - 1 PROVE s[i + 1].at = s[i].at + 1
      BY DEF HasNoGap
    <3>1. m[i + 1].at = m[i].at + 1
      BY <1>3 DEF Asking, Conversation, HasNoGap
    <3>2. i \in 1 .. l /\ i + 1 \in 1 .. l
      BY <1>1, <1>3
    <3>3. QED
      BY <2>1, <3>1, <3>2
  <2>4. Conversation(s)
    <3>1. s[1] = m[1] /\ m[1].kind = "S" /\ m[1].calls = <<>>
      BY <1>1, <1>3 DEF Asking, Conversation
    <3>2. QED
      BY <1>1, <1>3, <2>1, <2>2, <2>3, <3>1 DEF Conversation
  <2>5. Answered(s, l)
    <3> SUFFICES ASSUME NEW i \in 1 .. l, NEW n \in 1 .. Len(s[i].calls)
                 PROVE  i + n \in 1 .. l /\ s[i + n].kind = "T" /\ s[i + n].call = s[i].calls[n]
      BY <1>3 DEF Answered
    <3>1. i # l
      BY <1>4, Empty
    <3>2. i \in 1 .. l - 1 /\ s[i] = m[i]
      BY <1>1, <1>3, <3>1
    <3>3. i + n \in 1 .. l /\ m[i + n].kind = "T" /\ m[i + n].call = m[i].calls[n]
      BY <3>2 DEF Asking, Answered
    <3>4. i + n # l
      BY <1>2, <3>3
    <3>5. QED
      BY <1>3, <3>2, <3>3, <3>4
  <2>6. QED
    BY <1>3, <2>4, <2>5 DEF Closed
<1>8. Closed(Append(s, x))
  <2>1. x.kind \in {"A", "H"} /\ x.at = s[Len(s)].at + 1 /\ IsSeq(x.calls) /\ Len(x.calls) <= MaxCalls
    BY <1>3, <1>5, Empty, LoopAssumption
  <2>2. QED
    BY <1>5, <1>7, <2>1, Extended
<1>9. QED
  BY <1>6, <1>8, TrimmedIsWhole DEF Closed

-----------------------------------------------------------------------------
(* Turns. *)

\* A turn at some stage: its messages, the answers collected, the last prompt
\* and the calls executed.  This is what every node relies on and leaves.
Talk(t, m, at, c, p, done) ==
    /\ IsSeq(m)
    /\ at \in {"agent", "post_tools"} => Closed(m)
    /\ at \in {"tools", "inline", "collect", "force_final"} => Asking(m)
    /\ at = "inline" => Len(m[Len(m)].calls) = 1 /\ c = <<>>
    /\ at = "collect" => /\ Answers(m, c)
                         /\ \A n \in 1 .. Len(c) : c[n].ok => <<t, c[n].call>> \in done
    /\ at = "over" => m[Len(m)].kind = "A" /\ m[Len(m)].calls = <<>>
    /\ \A i \in 1 .. Len(m) : m[i].kind = "T" /\ m[i].ok => <<t, m[i].call>> \in done
    /\ IsAccepted(p) /\ HasNoGap(p)

Talks(t) == Talk(t, messages[t], stage[t], collected[t], prompt[t], executed)

TalkInv ==
    /\ history \in [Turns -> Histories]
    /\ messages = [t \in Turns |-> messages[t]] /\ stage = [t \in Turns |-> stage[t]]
    /\ collected = [t \in Turns |-> collected[t]] /\ prompt = [t \in Turns |-> prompt[t]]
    /\ \A t \in Turns : Talks(t)

(* A call that has been executed stays so. *)
LEMMA StillTrue ==
    ASSUME NEW t, NEW m, NEW at, NEW c, NEW p, NEW x, NEW y, x \subseteq y, Talk(t, m, at, c, p, x)
    PROVE  Talk(t, m, at, c, p, y)
BY DEF Talk

(* Nothing has been said. *)
LEMMA TalkAtFirst == LoopInit => TalkInv
<1> SUFFICES ASSUME LoopInit PROVE TalkInv
  OBVIOUS
<1>1. IsSeq(<<>>) /\ Len(<<>>) = 0
  BY Empty
<1>2. IsAccepted(<<>>) /\ HasNoGap(<<>>)
  BY <1>1 DEF IsAccepted, HasNoGap
<1>3. ASSUME NEW t \in Turns PROVE Talks(t)
  <2>1. messages[t] = <<>> /\ stage[t] = "begin" /\ prompt[t] = <<>>
    BY DEF LoopInit
  <2>2. Talk(t, <<>>, "begin", collected[t], <<>>, executed)
    BY <1>1, <1>2 DEF Talk
  <2>3. QED
    BY <2>1, <2>2 DEF Talks
<1>4. QED
  BY <1>3 DEF LoopInit, TalkInv

(* One turn's step is no other's. *)
LEMMA Elsewhere ==
    ASSUME TalkInv, NEW t \in Turns, executed \subseteq executed',
           NEW m, messages' = [messages EXCEPT ![t] = m],
           NEW at, stage' = [stage EXCEPT ![t] = at],
           NEW c, collected' = [collected EXCEPT ![t] = c],
           NEW p, prompt' = [prompt EXCEPT ![t] = p],
           Talk(t, m, at, c, p, executed'), UNCHANGED history
    PROVE  TalkInv'
<1>1. ASSUME NEW u \in Turns PROVE Talks(u)'
  <2>1. CASE u = t
    <3>1. messages'[u] = m /\ stage'[u] = at /\ collected'[u] = c /\ prompt'[u] = p
      BY <2>1 DEF TalkInv
    <3>2. QED
      BY <2>1, <3>1 DEF Talks
  <2>2. CASE u # t
    <3>1. /\ messages'[u] = messages[u] /\ stage'[u] = stage[u]
          /\ collected'[u] = collected[u] /\ prompt'[u] = prompt[u]
      BY <2>2 DEF TalkInv
    <3>2. Talk(u, messages[u], stage[u], collected[u], prompt[u], executed')
      BY StillTrue DEF TalkInv, Talks
    <3>3. QED
      BY <3>1, <3>2 DEF Talks
  <2>3. QED
    BY <2>1, <2>2
<1>2. QED
  BY <1>1 DEF TalkInv

(* Every node keeps the conversation, and the pool disturbs none. *)
LEMMA TalkKept == TalkInv /\ [LoopNext]_loopVars => TalkInv'
<1> SUFFICES ASSUME TalkInv, [LoopNext]_loopVars PROVE TalkInv'
  OBVIOUS
<1>0. ASSUME NEW t \in Turns
      PROVE  /\ Talk(t, messages[t], stage[t], collected[t], prompt[t], executed)
             /\ messages = [messages EXCEPT ![t] = messages[t]]
             /\ stage = [stage EXCEPT ![t] = stage[t]]
             /\ collected = [collected EXCEPT ![t] = collected[t]]
             /\ prompt = [prompt EXCEPT ![t] = prompt[t]]
  BY DEF TalkInv, Talks
<1>1. ASSUME NEW t \in Turns, BeginTurn(t) PROVE TalkInv'
  <2> DEFINE m == InitialMessages(history[t])
  <2>1. Closed(m) /\ \A i \in 1 .. Len(m) : m[i].kind # "T"
    <3>1. history[t] \in Histories
      BY DEF TalkInv
    <3>2. QED
      BY <3>1, Starts
  <2> HIDE DEF m
  <2>2. Talk(t, m, "agent", collected[t], prompt[t], executed)
    BY <1>0, <2>1 DEF Talk, Closed, Conversation
  <2>3. /\ messages' = [messages EXCEPT ![t] = m] /\ stage' = [stage EXCEPT ![t] = "agent"]
        /\ collected' = [collected EXCEPT ![t] = collected[t]]
        /\ prompt' = [prompt EXCEPT ![t] = prompt[t]] /\ executed' = executed
        /\ UNCHANGED history
    BY <1>0, <1>1 DEF BeginTurn, Go, poolVars, m
  <2>4. QED
    BY <2>2, <2>3, Elsewhere
<1>2. ASSUME NEW t \in Turns, Agent(t) PROVE TalkInv'
  <2> DEFINE m == messages[t]
             p == TrimHistory(m)
  <2>1. Closed(m) /\ IsAccepted(p) /\ HasNoGap(p)
    <3>1. Closed(m)
      BY <1>0, <1>2 DEF Agent, Talk
    <3>2. QED
      BY <3>1, TrimmedIsWhole DEF Closed
  <2>2. /\ prompt' = [prompt EXCEPT ![t] = p] /\ executed' = executed
        /\ collected' = [collected EXCEPT ![t] = collected[t]] /\ UNCHANGED history
    BY <1>0, <1>2 DEF Agent, poolVars
  <2> HIDE DEF p
  <2>3. ASSUME stage' = [stage EXCEPT ![t] = "failed"], UNCHANGED messages PROVE TalkInv'
    <3>1. Talk(t, m, "failed", collected[t], p, executed)
      BY <1>0, <2>1 DEF Talk
    <3>2. QED
      BY <1>0, <2>2, <2>3, <3>1, Elsewhere
  <2>4. ASSUME NEW n \in 0 .. MaxCalls, NEW calls, calls = [i \in 1 .. n |-> Called(t) + i],
               messages' = [messages EXCEPT ![t] = Append(@,
                                [Message("A", Last(@).at + 1) EXCEPT !.calls = calls])],
               stage' = [stage EXCEPT ![t] = ShouldContinue(t, calls)]
        PROVE  TalkInv'
    <3> DEFINE x == [Message("A", Last(m).at + 1) EXCEPT !.calls = calls]
               e == Append(m, x)
               at == ShouldContinue(t, calls)
    <3>1. IsSeq(calls) /\ Len(calls) = n
      <4>1. DOMAIN calls = 1 .. n /\ calls = [i \in 1 .. n |-> calls[i]]
        BY <2>4
      <4>2. QED
        BY <2>4, <4>1, Sized
    <3>2. /\ x.kind = "A" /\ x.calls = calls /\ DOMAIN x = Fields
          /\ x.at = m[Len(m)].at + 1
      BY DEF Message, Fields, Last
    <3> HIDE DEF x
    <3>3. Len(calls) <= MaxCalls
      BY <2>4, <3>1, LoopAssumption
    <3>4. /\ Conversation(e) /\ (calls = <<>> => Closed(e)) /\ (calls # <<>> => Asking(e))
      BY <2>1, <3>1, <3>2, <3>3, Extended
    <3>5. /\ IsSeq(m) /\ Len(m) \in Nat
          /\ IsSeq(e) /\ Len(e) = Len(m) + 1 /\ e[Len(m) + 1] = x
          /\ \A i \in 1 .. Len(m) : e[i] = m[i]
      BY <2>1, Appended, Sequence DEF Closed, Conversation
    <3>6. at \in {"over", "force_final", "tools"} /\ (at = "over" <=> calls = <<>>)
      BY DEF ShouldContinue
    <3>7. messages' = [messages EXCEPT ![t] = e] /\ stage' = [stage EXCEPT ![t] = at]
      <4>1. messages' = [messages EXCEPT ![t] = Append(messages[t],
                            [Message("A", Last(messages[t]).at + 1) EXCEPT !.calls = calls])]
        BY <2>4 DEF TalkInv
      <4>2. QED
        BY <2>4, <4>1 DEF x
    <3> HIDE DEF at, e
    <3>8. \A i \in 1 .. Len(e) : e[i].kind = "T" /\ e[i].ok => <<t, e[i].call>> \in executed
      <4> SUFFICES ASSUME NEW i \in 1 .. Len(e), e[i].kind = "T", e[i].ok
                   PROVE <<t, e[i].call>> \in executed
        OBVIOUS
      <4>1. i # Len(m) + 1
        BY <3>2, <3>5
      <4>2. i \in 1 .. Len(m) /\ e[i] = m[i]
        BY <3>5, <4>1
      <4>3. QED
        BY <1>0, <4>2 DEF Talk
    <3>9. Talk(t, e, at, collected[t], p, executed)
      BY <2>1, <3>2, <3>4, <3>5, <3>6, <3>8 DEF Talk
    <3>10. QED
      BY <2>2, <3>7, <3>9, Elsewhere
  <2>5. QED
    BY <1>2, <2>3, <2>4 DEF Agent, Go
<1>3. ASSUME NEW t \in Turns, ForceFinal(t) PROVE TalkInv'
  <2> DEFINE m == messages[t]
             p == FinalPrompt(m)
             x == Message("A", Last(m).at + 1)
             e == Append(m, x)
  <2>1. Asking(m) /\ IsAccepted(p) /\ HasNoGap(p)
    <3>1. Asking(m)
      BY <1>0, <1>3 DEF ForceFinal, Talk
    <3>2. QED
      BY <3>1, StruckIsWhole
  <2> HIDE DEF p
  <2>2. /\ prompt' = [prompt EXCEPT ![t] = p] /\ executed' = executed
        /\ collected' = [collected EXCEPT ![t] = collected[t]] /\ UNCHANGED history
    BY <1>0, <1>3 DEF ForceFinal, poolVars, p
  <2>3. ASSUME stage' = [stage EXCEPT ![t] = "failed"], UNCHANGED messages PROVE TalkInv'
    <3>1. Talk(t, m, "failed", collected[t], p, executed)
      BY <1>0, <2>1 DEF Talk
    <3>2. QED
      BY <1>0, <2>2, <2>3, <3>1, Elsewhere
  <2>4. ASSUME messages' = [messages EXCEPT ![t] = Append(@, Message("A", Last(@).at + 1))],
               stage' = [stage EXCEPT ![t] = "over"]
        PROVE  TalkInv'
    <3>1. messages' = [messages EXCEPT ![t] = e]
      BY <2>4 DEF TalkInv
    <3>2. x.kind = "A" /\ x.calls = <<>>
      BY DEF Message
    <3> HIDE DEF x
    <3>3. /\ IsSeq(m) /\ Len(m) \in Nat
          /\ IsSeq(e) /\ Len(e) = Len(m) + 1 /\ e[Len(m) + 1] = x
          /\ \A i \in 1 .. Len(m) : e[i] = m[i]
      BY <2>1, Appended, Sequence DEF Asking, Conversation
    <3> HIDE DEF e
    <3>4. \A i \in 1 .. Len(e) : e[i].kind = "T" /\ e[i].ok => <<t, e[i].call>> \in executed
      <4> SUFFICES ASSUME NEW i \in 1 .. Len(e), e[i].kind = "T", e[i].ok
                   PROVE <<t, e[i].call>> \in executed
        OBVIOUS
      <4>1. i # Len(m) + 1
        BY <3>2, <3>3
      <4>2. i \in 1 .. Len(m) /\ e[i] = m[i]
        BY <3>3, <4>1
      <4>3. QED
        BY <1>0, <4>2 DEF Talk
    <3>5. Talk(t, e, "over", collected[t], p, executed)
      BY <2>1, <3>2, <3>3, <3>4 DEF Talk
    <3>6. QED
      BY <2>2, <2>4, <3>1, <3>5, Elsewhere
  <2>5. QED
    BY <1>3, <2>3, <2>4 DEF ForceFinal, Go
<1>4. ASSUME NEW t \in Turns, RunTools(t) PROVE TalkInv'
  <2> DEFINE m == messages[t]
  <2>1. /\ collected' = [collected EXCEPT ![t] = <<>>] /\ executed' = executed
        /\ messages' = [messages EXCEPT ![t] = m]
        /\ prompt' = [prompt EXCEPT ![t] = prompt[t]] /\ UNCHANGED history
    BY <1>0, <1>4 DEF RunTools
  <2>2. Asking(m) /\ IsSeq(m[Len(m)].calls) /\ Len(m[Len(m)].calls) \in Nat
    <3>1. Asking(m)
      BY <1>0, <1>4 DEF RunTools, Talk
    <3>2. Len(m) \in 1 .. Len(m)
      BY <3>1, Sequence DEF Asking, Conversation
    <3>3. QED
      BY <3>1, <3>2, Sequence DEF Asking, Conversation
  <2>3. ASSUME stage' = [stage EXCEPT ![t] = "inline"], Len(Calls(t)) = 1 PROVE TalkInv'
    <3>1. Talk(t, m, "inline", <<>>, prompt[t], executed)
      BY <1>0, <2>2, <2>3 DEF Talk, Calls, Last
    <3>2. QED
      BY <2>1, <2>3, <3>1, Elsewhere
  <2>4. ASSUME stage' = [stage EXCEPT ![t] = "collect"] PROVE TalkInv'
    <3>1. Answers(m, <<>>)
      BY <2>2, Empty DEF Answers
    <3>2. Talk(t, m, "collect", <<>>, prompt[t], executed)
      BY <1>0, <2>2, <3>1, Empty DEF Talk
    <3>3. QED
      BY <2>1, <2>4, <3>2, Elsewhere
  <2>5. QED
    BY <1>4, <2>3, <2>4 DEF RunTools, Go
<1>5. ASSUME NEW t \in Turns, RunInline(t) PROVE TalkInv'
  <2> DEFINE m == messages[t]
             a == Answer(t, Calls(t)[1], TRUE)
  <2>1. /\ collected' = [collected EXCEPT ![t] = <<a>>] /\ stage' = [stage EXCEPT ![t] = "collect"]
        /\ messages' = [messages EXCEPT ![t] = m]
        /\ prompt' = [prompt EXCEPT ![t] = prompt[t]] /\ UNCHANGED history
    BY <1>0, <1>5 DEF RunInline, Go
  <2>2. executed \subseteq executed' /\ <<t, m[Len(m)].calls[1]>> \in executed'
    BY <1>5 DEF RunInline, Calls, Last
  <2>3. Asking(m) /\ Len(m[Len(m)].calls) = 1
    BY <1>0, <1>5 DEF RunInline, Talk
  <2>4. /\ a.kind = "T" /\ a.calls = <<>> /\ a.call = m[Len(m)].calls[1] /\ DOMAIN a = Fields
        /\ a.at = m[Len(m)].at + 1
    <3>1. Len(collected[t]) = 0
      BY <1>0, <1>5, Empty DEF RunInline, Talk
    <3>2. m[Len(m)].at \in Nat
      <4>1. Len(m) \in 1 .. Len(m)
        BY <2>3, Sequence DEF Asking, Conversation
      <4>2. QED
        BY <2>3, <4>1 DEF Asking, Conversation
    <3>3. a.at = m[Len(m)].at + Len(collected[t]) + 1
      BY DEF Answer, Message, Last
    <3>4. /\ a.kind = "T" /\ a.calls = <<>> /\ a.call = m[Len(m)].calls[1]
          /\ DOMAIN a = Fields
      BY DEF Answer, Message, Calls, Last, Fields
    <3> HIDE DEF a, m
    <3>5. m[Len(m)].at + Len(collected[t]) + 1 = m[Len(m)].at + 1
      BY <3>1, <3>2
    <3>6. QED
      BY <3>3, <3>4, <3>5
  <2> HIDE DEF a
  <2>5. IsSeq(<<a>>) /\ Len(<<a>>) = 1 /\ \A n \in 1 .. 1 : <<a>>[n] = a /\ n = 1
    BY Single
  <2>6. Answers(m, <<a>>)
    BY <2>3, <2>4, <2>5 DEF Answers
  <2>7. Talk(t, m, "collect", <<a>>, prompt[t], executed')
    BY <1>0, <2>2, <2>3, <2>4, <2>5, <2>6, StillTrue DEF Talk
  <2>8. QED
    BY <2>1, <2>2, <2>7, Elsewhere
<1>6. ASSUME NEW t \in Turns, Collect(t) PROVE TalkInv'
  <2> DEFINE m == messages[t]
             c == collected[t]
             k == Len(c)
             calls == m[Len(m)].calls
             a == Answer(t, Next1(t), IsDone(t, Next1(t)))
  <2>1. /\ collected' = [collected EXCEPT ![t] = Append(c, a)]
        /\ stage' = [stage EXCEPT ![t] = "collect"]
        /\ messages' = [messages EXCEPT ![t] = m] /\ executed' = executed
        /\ prompt' = [prompt EXCEPT ![t] = prompt[t]] /\ UNCHANGED history
    BY <1>0, <1>6 DEF Collect, Waits, poolVars, TalkInv
  <2>2. /\ Asking(m) /\ Answers(m, c)
        /\ \A n \in 1 .. k : c[n].ok => <<t, c[n].call>> \in executed
        /\ k < Len(calls)
    BY <1>0, <1>6 DEF Collect, Waits, Talk, Calls, Last
  <2>3. k \in Nat /\ IsSeq(c) /\ Len(calls) \in Nat
    <3>1. Len(m) \in 1 .. Len(m)
      BY <2>2, Sequence DEF Asking, Conversation
    <3>2. QED
      BY <2>2, <3>1, Sequence DEF Answers, Asking, Conversation
  <2>4. /\ a.kind = "T" /\ a.calls = <<>> /\ a.call = calls[k + 1] /\ DOMAIN a = Fields
        /\ a.at = m[Len(m)].at + k + 1 /\ (a.ok => <<t, a.call>> \in executed)
    BY DEF Answer, Message, Next1, IsDone, Calls, Last, Fields
  <2> HIDE DEF a
  <2> DEFINE d == Append(c, a)
  <2>5. IsSeq(d) /\ Len(d) = k + 1 /\ (\A n \in 1 .. k : d[n] = c[n]) /\ d[k + 1] = a
    BY <2>3, Appended
  <2> HIDE DEF d
  <2>6. ASSUME NEW n \in 1 .. Len(d)
        PROVE  /\ d[n].kind = "T" /\ d[n].calls = <<>> /\ d[n].call = calls[n]
               /\ d[n].at = m[Len(m)].at + n /\ DOMAIN d[n] = Fields
               /\ d[n].ok => <<t, d[n].call>> \in executed
    <3>1. CASE n \in 1 .. k
      BY <2>2, <2>5, <3>1 DEF Answers
    <3>2. CASE n = k + 1
      <4>1. m[Len(m)].at \in Nat
        <5>1. Len(m) \in 1 .. Len(m)
          BY <2>2, Sequence DEF Asking, Conversation
        <5>2. QED
          BY <2>2, <5>1 DEF Asking, Conversation
      <4>2. m[Len(m)].at + k + 1 = m[Len(m)].at + (k + 1)
        BY <2>3, <4>1
      <4>3. QED
        BY <2>4, <2>5, <3>2, <4>2
    <3>3. QED
      BY <2>3, <2>5, <3>1, <3>2
  <2>7. Answers(m, d)
    <3>1. IsSeq(d) /\ Len(d) <= Len(calls)
      BY <2>2, <2>3, <2>5
    <3>2. QED
      BY <2>6, <3>1 DEF Answers
  <2>8. Talk(t, m, "collect", d, prompt[t], executed)
    BY <1>0, <2>2, <2>6, <2>7 DEF Talk
  <2>9. QED
    BY <2>1, <2>8, Elsewhere DEF d
<1>7. ASSUME NEW t \in Turns, ToolsDone(t) PROVE TalkInv'
  <2> DEFINE m == messages[t]
             c == collected[t]
             e == m \o c
  <2>1. /\ collected' = [collected EXCEPT ![t] = c]
        /\ stage' = [stage EXCEPT ![t] = "post_tools"]
        /\ messages' = [messages EXCEPT ![t] = e] /\ executed' = executed
        /\ prompt' = [prompt EXCEPT ![t] = prompt[t]] /\ UNCHANGED history
    BY <1>0, <1>7 DEF ToolsDone, AddAnswers, Go, poolVars, TalkInv
  <2>2. /\ Asking(m) /\ Answers(m, c) /\ Len(c) = Len(m[Len(m)].calls)
        /\ \A n \in 1 .. Len(c) : c[n].ok => <<t, c[n].call>> \in executed
        /\ \A i \in 1 .. Len(m) : m[i].kind = "T" /\ m[i].ok => <<t, m[i].call>> \in executed
    BY <1>0, <1>7 DEF ToolsDone, Talk, Calls, Last
  <2>3. Closed(e)
    BY <2>2, RoundIsWhole
  <2>4. IsSeq(m) /\ IsSeq(c)
    BY <2>2 DEF Asking, Answers, Conversation
  <2>5. Len(m) \in Nat /\ Len(c) \in Nat
    BY <2>4, Sequence
  <2>6. /\ IsSeq(e) /\ Len(e) = Len(m) + Len(c)
        /\ \A i \in 1 .. Len(m) : e[i] = m[i]
        /\ \A i \in 1 .. Len(c) : e[Len(m) + i] = c[i]
    <3> HIDE DEF m, c
    <3>1. IsSeq(e) /\ Len(e) = Len(m) + Len(c)
      BY <2>4, Joined
    <3>2. \A i \in 1 .. Len(m) : e[i] = m[i]
      BY <2>4, Joined
    <3>3. \A i \in 1 .. Len(c) : e[Len(m) + i] = c[i]
      BY <2>4, Joined
    <3>4. QED
      BY <3>1, <3>2, <3>3
  <2> HIDE DEF e
  <2>7. ASSUME NEW i \in 1 .. Len(e), e[i].kind = "T", e[i].ok
        PROVE  <<t, e[i].call>> \in executed
    <3>1. CASE i \in 1 .. Len(m)
      BY <2>2, <2>6, <2>7, <3>1
    <3>2. CASE i \notin 1 .. Len(m)
      <4>1. i - Len(m) \in 1 .. Len(c) /\ Len(m) + (i - Len(m)) = i
        <5> HIDE DEF m, c
        <5>1. QED
          BY <2>5, <2>6, <3>2
      <4>2. e[i] = c[i - Len(m)]
        BY <2>6, <4>1
      <4>3. QED
        BY <2>2, <2>7, <4>1, <4>2
    <3>3. QED
      BY <3>1, <3>2
  <2>8. Talk(t, e, "post_tools", c, prompt[t], executed)
    BY <1>0, <2>3, <2>6, <2>7 DEF Talk
  <2>9. QED
    BY <2>1, <2>8, Elsewhere
<1>8. ASSUME NEW t \in Turns, PostTools(t) PROVE TalkInv'
  <2>1. Talk(t, messages[t], "agent", collected[t], prompt[t], executed)
    BY <1>0, <1>8 DEF PostTools, Talk
  <2>2. /\ stage' = [stage EXCEPT ![t] = "agent"] /\ executed' = executed
        /\ UNCHANGED <<history, messages, collected, prompt>>
    BY <1>8 DEF PostTools, Go, poolVars
  <2>3. QED
    BY <1>0, <2>1, <2>2, Elsewhere
<1>9. ASSUME executed \subseteq executed', UNCHANGED turnVar PROVE TalkInv'
  <2>1. UNCHANGED <<history, messages, stage, prompt, collected>>
    BY <1>9 DEF turnVar
  <2>2. ASSUME NEW t \in Turns
        PROVE  Talk(t, messages[t], stage[t], collected[t], prompt[t], executed')
    BY <1>0, <1>9, StillTrue
  <2>3. QED
    BY <2>1, <2>2 DEF TalkInv, Talks
<1>10. ASSUME PoolStep PROVE TalkInv'
  BY <1>9, <1>10 DEF PoolStep, StartCall, EndCall
<1>11. CASE UNCHANGED loopVars
  BY <1>9, <1>11 DEF loopVars, poolVars
<1>12. QED
  BY <1>1, <1>2, <1>3, <1>4, <1>5, <1>6, <1>7, <1>8, <1>10, <1>11 DEF LoopNext, TurnStep

(* The last prompt is a conversation. *)
LEMMA TalkIsWhole == TalkInv => PromptIsWhole
BY DEF TalkInv, Talks, Talk, PromptIsWhole, PromptIsAccepted, PromptHasNoGap

(* The messages tell what has happened. *)
LEMMA TalkIsTrue == TalkInv => MessagesAreTrue
<1> SUFFICES ASSUME TalkInv PROVE MessagesAreTrue
  OBVIOUS
<1>1. ASSUME NEW t \in Turns
      PROVE  /\ IsSeq(messages[t])
             /\ \A i \in 1 .. Len(messages[t]) :
                  messages[t][i].kind = "T" /\ messages[t][i].ok => <<t, messages[t][i].call>> \in executed
             /\ stage[t] = "over" => Last(messages[t]).kind = "A" /\ Last(messages[t]).calls = <<>>
  BY DEF TalkInv, Talks, Talk, Last
<1>2. QED
  BY <1>1, Sequence DEF MessagesAreTrue, SuccessWasExecuted, AnswerIsFinal
(* Whatever a session holds, however many rounds and calls there are and       *)
(* however many messages the trimming keeps (more than a round has calls):     *)
(* every prompt is complete in itself and all of the session from somewhere    *)
(* on (token_budget.py:91-141, nodes.py:29-60).                                *)
THEOREM PromptAlwaysWhole == LoopSpec => []PromptIsWhole
BY TalkIsWhole, TalkAtFirst, TalkKept, PTL DEF LoopSpec

(* A success that is told was executed, for that turn, and a turn that is over *)
(* has an answer that calls nothing, for every pool and any number of turns    *)
(* that share it (nodes.py:128-164, 216-231).                                  *)
THEOREM MessagesAlwaysTrue == LoopSpec => []MessagesAreTrue
BY TalkIsTrue, TalkAtFirst, TalkKept, PTL DEF LoopSpec

-----------------------------------------------------------------------------
(* Rounds. *)

\* Every round takes three nodes, and the last answer one or two.
Counted(t) ==
    /\ iteration[t] \in 0 .. MaxIterations[t]
    /\ stage[t] \in {"begin", "agent"} => steps[t] = 3 * iteration[t]
    /\ stage[t] \in {"tools", "force_final"} => steps[t] = 3 * iteration[t] + 1
    /\ stage[t] \in {"inline", "collect", "post_tools"} => steps[t] = 3 * iteration[t] + 2
    /\ stage[t] \in {"tools", "inline", "collect", "post_tools"} => iteration[t] < MaxIterations[t]
    /\ stage[t] \in {"over", "failed"} => steps[t] <= 3 * iteration[t] + 2

RInv ==
    /\ iteration \in [Turns -> Nat] /\ steps \in [Turns -> Nat] /\ stage \in [Turns -> Stages]
    /\ \A t \in Turns : Counted(t)

(* A turn that is asked to begin, or begins, has counted nothing. *)
LEMMA CountedAtFirst == LoopInit => RInv
<1>1. MaxIterations \in [Turns -> Nat]
  BY LoopAssumption
<1>2. QED
  BY <1>1 DEF LoopInit, RInv, Counted, Stages

(* Every node keeps the count. *)
LEMMA CountKept == RInv /\ [LoopNext]_loopVars => RInv'
<1> SUFFICES ASSUME RInv, [LoopNext]_loopVars PROVE RInv'
  OBVIOUS
<1> USE DEF RInv, Counted, Stages, Go, Node
<1>0. MaxIterations \in [Turns -> Nat]
  BY LoopAssumption
<1>1. ASSUME NEW t \in Turns, BeginTurn(t) PROVE RInv'
  BY <1>0, <1>1 DEF BeginTurn, poolVars
<1>2. ASSUME NEW t \in Turns, Agent(t) PROVE RInv'
  <2>1. CASE stage' = [stage EXCEPT ![t] = "failed"]
    BY <1>0, <1>2, <2>1 DEF Agent
  <2>2. ASSUME NEW calls, stage' = [stage EXCEPT ![t] = ShouldContinue(t, calls)] PROVE RInv'
    <3>1. /\ ShouldContinue(t, calls) \in {"over", "force_final", "tools"}
          /\ ShouldContinue(t, calls) = "tools" => iteration[t] < MaxIterations[t]
      BY <1>0 DEF ShouldContinue
    <3>2. stage[t] = "agent" /\ steps' = [steps EXCEPT ![t] = @ + 1] /\ UNCHANGED iteration
      BY <1>2 DEF Agent
    <3> QED
      BY <1>0, <2>2, <3>1, <3>2
  <2>3. QED
    BY <1>2, <2>1, <2>2 DEF Agent
<1>3. ASSUME NEW t \in Turns, ForceFinal(t) PROVE RInv'
  <2>1. /\ stage[t] = "force_final" /\ steps' = [steps EXCEPT ![t] = @ + 1] /\ UNCHANGED iteration
        /\ \/ stage' = [stage EXCEPT ![t] = "over"]
           \/ stage' = [stage EXCEPT ![t] = "failed"]
    BY <1>3 DEF ForceFinal
  <2> QED
    BY <1>0, <2>1
<1>4. ASSUME NEW t \in Turns, RunTools(t) PROVE RInv'
  <2>1. /\ stage[t] = "tools" /\ steps' = [steps EXCEPT ![t] = @ + 1] /\ UNCHANGED iteration
        /\ \/ stage' = [stage EXCEPT ![t] = "inline"]
           \/ stage' = [stage EXCEPT ![t] = "collect"]
    BY <1>4 DEF RunTools
  <2> QED
    BY <1>0, <2>1
<1>5. ASSUME NEW t \in Turns, RunInline(t) PROVE RInv'
  <2>1. /\ stage[t] = "inline" /\ stage' = [stage EXCEPT ![t] = "collect"]
        /\ UNCHANGED <<iteration, steps>>
    BY <1>5 DEF RunInline
  <2> QED
    BY <1>0, <2>1
<1>6. ASSUME NEW t \in Turns, ToolsDone(t) PROVE RInv'
  <2>1. /\ stage[t] = "collect" /\ stage' = [stage EXCEPT ![t] = "post_tools"]
        /\ UNCHANGED <<iteration, steps>>
    BY <1>6 DEF ToolsDone
  <2> QED
    BY <1>0, <2>1
<1>7. ASSUME NEW t \in Turns, PostTools(t) PROVE RInv'
  <2>1. /\ stage[t] = "post_tools" /\ stage' = [stage EXCEPT ![t] = "agent"]
        /\ steps' = [steps EXCEPT ![t] = @ + 1] /\ iteration' = [iteration EXCEPT ![t] = @ + 1]
    BY <1>7 DEF PostTools
  <2> QED
    BY <1>0, <2>1
<1>8. ASSUME UNCHANGED <<iteration, steps, stage>> PROVE RInv'
  BY <1>8
<1>9. ASSUME NEW t \in Turns, Collect(t) PROVE RInv'
  BY <1>8, <1>9 DEF Collect
<1>10. ASSUME PoolStep PROVE RInv'
  BY <1>8, <1>10 DEF PoolStep, StartCall, EndCall, turnVar
<1>11. CASE UNCHANGED loopVars
  BY <1>8, <1>11 DEF loopVars, turnVar
<1>12. QED
  BY <1>1, <1>2, <1>3, <1>4, <1>5, <1>6, <1>7, <1>9, <1>10, <1>11 DEF LoopNext, TurnStep

(* The limit of steps leaves room for the rounds that are allowed. *)
LEMMA LimitIsHigh ==
    ASSUME NEW t \in Turns PROVE RecursionLimit(t) >= MaxIterations[t] * 5 + 15
<1> DEFINE n == MaxIterations[t] * 5 + 15
<1>1. n \in Nat
  BY LoopAssumption
<1>2. \E x \in {n, 50} : \A y \in {n, 50} : x >= y
  BY <1>1
<1>3. RecursionLimit(t) = CHOOSE x \in {n, 50} : \A y \in {n, 50} : x >= y
  BY DEF RecursionLimit, Max
<1>4. QED
  BY <1>2, <1>3

(* The count is bounded. *)
LEMMA CountIsBounded == RInv => RoundsAreBounded
<1> SUFFICES ASSUME RInv, NEW t \in Turns
             PROVE iteration[t] <= MaxIterations[t] /\ steps[t] <= RecursionLimit(t)
  BY DEF RoundsAreBounded
<1>1. MaxIterations[t] \in Nat /\ RecursionLimit(t) >= MaxIterations[t] * 5 + 15
  BY LimitIsHigh, LoopAssumption
<1>2. RecursionLimit(t) \in Nat
  BY <1>1 DEF RecursionLimit, Max
<1>3. steps[t] <= 3 * iteration[t] + 2 /\ iteration[t] \in 0 .. MaxIterations[t]
      /\ steps[t] \in Nat
  BY DEF RInv, Counted, Stages
<1>4. QED
  BY <1>1, <1>2, <1>3

(* Whatever the user has configured, no turn is ended by the limit of steps  *)
(* of sse_adapter.py:89, nor has it more rounds than allowed.                *)
THEOREM RoundsBounded == LoopSpec => []RoundsAreBounded
BY CountIsBounded, CountedAtFirst, CountKept, PTL DEF LoopSpec

-----------------------------------------------------------------------------
(* Calls. *)

\* How many calls these messages make.
CallsIn(m) == FoldLeft(LAMBDA sum, x : sum + Len(x.calls), 0, m)

(* They are counted message by message. *)
LEMMA CallsUp ==
    ASSUME NEW m, IsSeq(m), \A i \in 1 .. Len(m) : Len(m[i].calls) \in Nat
    PROVE  \E f \in [0 .. Len(m) -> Nat] :
                /\ f[0] = 0
                /\ \A k \in 1 .. Len(m) : f[k] = f[k - 1] + Len(m[k].calls)
                /\ CallsIn(m) = f[Len(m)]
<1> DEFINE n == Len(m)
           step == [x \in Nat \X (1 .. n) |-> x[1] + Len(m[x[2]].calls)]
           it == CHOOSE it : it = [s \in SUBSET DOMAIN m |->
                    IF s = {} THEN 0 ELSE LET x == Max(s) IN it[s \ {x}] + Len(m[x].calls)]
<1>1. CallsIn(m) = it[DOMAIN m]
  BY DEF CallsIn, FoldLeft, MapThenFoldSet
<1>2. DOMAIN m = 1 .. n /\ n \in Nat /\ \A k \in 1 .. n : Len(m[k].calls) \in Nat
  BY Sequence
<1>3. step \in [Nat \X (1 .. n) -> Nat]
  BY <1>2
<1>4. PICK g \in [Places(n) -> Nat] : Folds(g, n, 0, step)
  <2> HIDE DEF n, step
  <2> QED BY <1>2, <1>3, FoldDefined
<1>5. it = [s \in SUBSET DOMAIN m |->
                IF s = {} THEN 0 ELSE LET x == Max(s) IN it[s \ {x}] + Len(m[x].calls)]
  <2>1. ASSUME NEW s \in Places(n), s # {}
        PROVE  g[s] = g[s \ {Max(s)}] + Len(m[Max(s)].calls)
    <3>1. Max(s) \in 1 .. n /\ s \ {Max(s)} \in Places(n)
      BY <1>2, <2>1, GreatestIsOne DEF Places
    <3>2. g[s] = step[<<g[s \ {Max(s)}], Max(s)>>] /\ g[s \ {Max(s)}] \in Nat
      BY <1>4, <2>1, <3>1 DEF Folds
    <3> QED BY <1>2, <3>1, <3>2
  <2>2. g[{}] = 0
    BY <1>4 DEF Folds, Places
  <2>3. g = [s \in SUBSET DOMAIN m |->
              IF s = {} THEN 0 ELSE LET x == Max(s) IN g[s \ {x}] + Len(m[x].calls)]
    BY <1>2, <1>4, <2>1, <2>2 DEF Places
  <2> QED BY <2>3
<1> HIDE DEF it
<1>6. it[{}] = 0 /\ \A k \in 1 .. n : it[1 .. k] = it[1 .. (k - 1)] + Len(m[k].calls)
  <2>1. it[{}] = 0
    BY <1>5
  <2>2. ASSUME NEW k \in 1 .. n PROVE it[1 .. k] = it[1 .. (k - 1)] + Len(m[k].calls)
    <3>1. k \in 1 .. k /\ k \in Nat \ {0} /\ 1 .. k \in SUBSET DOMAIN m
      BY <1>2
    <3>2. Max(1 .. k) = k /\ (1 .. k) \ {k} = 1 .. (k - 1)
      BY <3>1, UpTo
    <3> QED BY <1>5, <3>1, <3>2
  <2> QED BY <2>1, <2>2
<1> HIDE DEF n, step
<1>7. \A k \in 0 .. n : it[1 .. k] \in Nat
  <2>1. it[{}] \in Nat /\ \A k \in 1 .. n : it[1 .. (k - 1)] \in Nat => it[1 .. k] \in Nat
    BY <1>2, <1>6
  <2> QED BY <1>2, <2>1, FoldTyped
<1> DEFINE f == [k \in 0 .. n |-> it[1 .. k]]
<1>8. f \in [0 .. n -> Nat] /\ f[0] = 0 /\ f[n] = CallsIn(m)
  <2>1. 1 .. 0 = {}
    OBVIOUS
  <2> QED BY <1>1, <1>2, <1>6, <1>7, <2>1
<1>9. \A k \in 1 .. n : f[k] = f[k - 1] + Len(m[k].calls)
  <2> SUFFICES ASSUME NEW k \in 1 .. n
               PROVE  f[k] = f[k - 1] + Len(m[k].calls)
    OBVIOUS
  <2>1. k \in 0 .. n /\ k - 1 \in 0 .. n
    BY <1>2
  <2>2. f[k] = it[1 .. k] /\ f[k - 1] = it[1 .. (k - 1)]
    BY <2>1
  <2> QED BY <1>6, <2>2
<1> HIDE DEF f
<1> QED BY <1>8, <1>9 DEF n

\* e begins with m.
Continues(e, m) ==
    /\ IsSeq(e) /\ Len(m) <= Len(e)
    /\ \A i \in 1 .. Len(m) : e[i] = m[i]

(* More messages make more calls: one more makes its own. *)
LEMMA CallsAdded ==
    ASSUME NEW m, IsSeq(m), NEW e, Continues(e, m), \A i \in 1 .. Len(e) : Len(e[i].calls) \in Nat
    PROVE  /\ CallsIn(m) \in Nat /\ CallsIn(e) \in Nat /\ CallsIn(m) <= CallsIn(e)
           /\ Len(e) = Len(m) + 1 => CallsIn(e) = CallsIn(m) + Len(e[Len(e)].calls)
<1> DEFINE n == Len(m)
           l == Len(e)
<1>1. n \in Nat /\ l \in Nat /\ n <= l /\ \A i \in 1 .. n : i \in 1 .. l /\ e[i] = m[i]
  BY Sequence DEF Continues
<1>2. PICK f \in [0 .. n -> Nat] : /\ f[0] = 0 /\ \A k \in 1 .. n : f[k] = f[k - 1] + Len(m[k].calls)
                                   /\ CallsIn(m) = f[n]
  <2>1. \A i \in 1 .. n : Len(m[i].calls) \in Nat
    BY <1>1
  <2> QED BY <2>1, CallsUp
<1>3. PICK g \in [0 .. l -> Nat] : /\ g[0] = 0 /\ \A k \in 1 .. l : g[k] = g[k - 1] + Len(e[k].calls)
                                   /\ CallsIn(e) = g[l]
  BY CallsUp DEF Continues
<1> HIDE DEF n, l
<1>4. g[n] = f[n]
  <2> DEFINE P == {k \in 0 .. n : g[k] = f[k]}
  <2>1. 0 \in P
    BY <1>1, <1>2, <1>3
  <2>2. ASSUME NEW k \in 1 .. n, k - 1 \in P PROVE k \in P
    <3>1. k \in 0 .. n /\ k \in 1 .. l /\ e[k] = m[k] /\ g[k - 1] = f[k - 1]
      BY <1>1, <2>2
    <3>2. g[k] = g[k - 1] + Len(e[k].calls) /\ f[k] = f[k - 1] + Len(m[k].calls)
      BY <1>2, <1>3, <3>1
    <3> QED BY <3>1, <3>2
  <2>3. n \in 0 .. n
    BY <1>1
  <2>4. n \in P
    <3> HIDE DEF P
    <3> QED BY <1>1, <2>1, <2>2, <2>3, Upwards
  <2> QED BY <2>4
<1>5. g[n] <= g[l]
  <2> DEFINE P == {k \in 0 .. l : k >= n => g[n] <= g[k]}
  <2>1. 0 \in P
    BY <1>1
  <2>2. ASSUME NEW k \in 1 .. l, k - 1 \in P PROVE k \in P
    <3>1. k \in 0 .. l /\ k - 1 \in 0 .. l /\ n \in 0 .. l
      BY <1>1
    <3>2. g[k] = g[k - 1] + Len(e[k].calls) /\ Len(e[k].calls) \in Nat
      BY <1>3 DEF l
    <3>3. g[k] \in Nat /\ g[k - 1] \in Nat /\ g[n] \in Nat
      BY <3>1
    <3>4. CASE k = n
      BY <3>1, <3>3, <3>4
    <3>5. CASE k # n
      BY <1>1, <2>2, <3>1, <3>2, <3>3, <3>5
    <3> QED BY <3>4, <3>5
  <2>3. l \in 0 .. l
    BY <1>1
  <2>4. l \in P
    <3> HIDE DEF P
    <3> QED BY <1>1, <2>1, <2>2, <2>3, Upwards
  <2> QED BY <1>1, <2>4
<1>6. f[n] \in Nat /\ g[l] \in Nat
  BY <1>1
<1>7. ASSUME l = n + 1 PROVE g[l] = g[n] + Len(e[l].calls)
  <2>1. l \in 1 .. l /\ l - 1 = n
    BY <1>1, <1>7
  <2> QED BY <1>3, <2>1
<1> QED BY <1>2, <1>3, <1>4, <1>5, <1>6, <1>7 DEF n, l

(* Of no messages there are none. *)
LEMMA NoCallsIn == CallsIn(<<>>) = 0
BY CallsUp, Empty

\* Stages of a turn that may still run calls.
Ongoing == {"begin", "agent", "tools", "inline", "collect", "post_tools"}

\* The number of the last call a turn has made of the pool.
Given(m, at) ==
    IF at = "begin" THEN 0
    ELSE IF at \in {"tools", "inline"} THEN CallsIn(m) - Len(m[Len(m)].calls) ELSE CallsIn(m)

\* Calls the pool has, or has had.
Handed == {queue[i] : i \in 1 .. Len(queue)} \cup running \cup executed

\* No call is in two places.
Pool(q, r, x) ==
    /\ IsSeq(q) /\ IsFiniteSet(r) /\ Cardinality(r) <= MaxWorkers /\ r \cap x = {}
    /\ \A i \in 1 .. Len(q) : q[i] \notin r \cup x
    /\ \A i, j \in 1 .. Len(q) : q[i] = q[j] => i = j

\* What a turn has yet to call it has not called before.
Behind(t, m, at, had) ==
    at \in Ongoing =>
        /\ Given(m, at) \in Nat
        /\ \A k \in Nat : <<t, k>> \in had => k <= Given(m, at)
        /\ at \in {"tools", "inline"} =>
                \A i \in 1 .. Len(m[Len(m)].calls) : m[Len(m)].calls[i] = Given(m, at) + i

PoolInv ==
    /\ Pool(queue, running, executed)
    /\ Handed \subseteq Turns \X Nat
    /\ \A t \in Turns : Behind(t, messages[t], stage[t], Handed)

(* Nothing has been called. *)
LEMMA PoolAtFirst == LoopInit => PoolInv
<1> SUFFICES ASSUME LoopInit PROVE PoolInv
  OBVIOUS
<1>1. Pool(<<>>, {}, {})
  <2>1. IsFiniteSet({}) /\ Cardinality({}) = 0 /\ 0 <= MaxWorkers
    BY FS_EmptySet, LoopAssumption
  <2> QED BY <2>1, Empty DEF Pool
<1>2. Handed = {}
  BY Empty DEF LoopInit, Handed
<1>3. ASSUME NEW t \in Turns PROVE Behind(t, messages[t], stage[t], Handed)
  BY <1>2 DEF LoopInit, Behind, Given
<1> QED BY <1>1, <1>2, <1>3 DEF LoopInit, PoolInv

(* One turn's step is no other's. *)
LEMMA BehindElsewhere ==
    ASSUME TalkInv, PoolInv, NEW t \in Turns,
           NEW m, messages' = [messages EXCEPT ![t] = m],
           NEW at, stage' = [stage EXCEPT ![t] = at],
           Pool(queue', running', executed'), Handed' \subseteq Handed \cup {<<t, k>> : k \in Nat},
           Behind(t, m, at, Handed')
    PROVE  PoolInv'
<1>1. ASSUME NEW u \in Turns PROVE Behind(u, messages'[u], stage'[u], Handed')
  <2>1. CASE u = t
    <3>1. messages'[u] = m /\ stage'[u] = at
      BY <2>1 DEF TalkInv
    <3> QED BY <2>1, <3>1
  <2>2. CASE u # t
    <3>1. messages'[u] = messages[u] /\ stage'[u] = stage[u]
      BY <2>2 DEF TalkInv
    <3>2. \A k \in Nat : <<u, k>> \in Handed' => <<u, k>> \in Handed
      BY <2>2
    <3>3. Behind(u, messages[u], stage[u], Handed)
      BY DEF PoolInv
    <3>4. Behind(u, messages[u], stage[u], Handed')
      BY <3>2, <3>3 DEF Behind
    <3> QED BY <3>1, <3>4
  <2> QED BY <2>1, <2>2
<1>2. Handed' \subseteq Turns \X Nat
  BY DEF PoolInv
<1> QED BY <1>1, <1>2 DEF PoolInv

(* The last message of a conversation is one, and each makes so many calls. *)
LEMMA LastIsOne ==
    ASSUME NEW m, Conversation(m)
    PROVE  /\ IsSeq(m) /\ Len(m) \in Nat /\ Len(m) \in 1 .. Len(m)
           /\ \A i \in 1 .. Len(m) : IsSeq(m[i].calls) /\ Len(m[i].calls) \in Nat
           /\ CallsIn(m) \in Nat
<1>1. IsSeq(m) /\ Len(m) \in Nat /\ Len(m) \in 1 .. Len(m)
  BY Sequence DEF Conversation
<1>2. \A i \in 1 .. Len(m) : IsSeq(m[i].calls) /\ Len(m[i].calls) \in Nat
  BY Sequence DEF Conversation
<1>3. Continues(m, m)
  BY <1>1 DEF Continues
<1> QED BY <1>1, <1>2, <1>3, CallsAdded

(* Calls that are new go behind those that wait. *)
LEMMA PoolGrows ==
    ASSUME NEW q, NEW r, NEW x, Pool(q, r, x), NEW n \in Nat, NEW new, IsSeq(new), Len(new) = n,
           \A i \in 1 .. n : new[i] \notin r \cup x /\ \A j \in 1 .. Len(q) : new[i] # q[j],
           \A i, j \in 1 .. n : new[i] = new[j] => i = j
    PROVE  /\ Pool(q \o new, r, x)
           /\ \A i \in 1 .. Len(q \o new) :
                \/ i \in 1 .. Len(q) /\ (q \o new)[i] = q[i]
                \/ \E j \in 1 .. n : (q \o new)[i] = new[j]
<1> DEFINE e == q \o new
           l == Len(q)
<1>1. IsSeq(q) /\ l \in Nat
  BY Sequence DEF Pool
<1>2. IsSeq(e) /\ Len(e) = l + n
  BY <1>1, Joined
<1>3. \A i \in 1 .. l : e[i] = q[i]
  BY <1>1, Joined
<1>4. \A i \in 1 .. n : e[l + i] = new[i]
  BY <1>1, Joined
<1> HIDE DEF e
<1>5. ASSUME NEW i \in 1 .. l + n, i \notin 1 .. l
      PROVE  i - l \in 1 .. n /\ e[i] = new[i - l]
  <2>1. i - l \in 1 .. n /\ l + (i - l) = i
    BY <1>1, <1>5
  <2> QED BY <1>4, <2>1
<1>6. \A i \in 1 .. l + n : e[i] \notin r \cup x
  BY <1>3, <1>5 DEF Pool
<1>7. ASSUME NEW i \in 1 .. l + n, NEW j \in 1 .. l + n, e[i] = e[j] PROVE i = j
  <2>1. CASE i \in 1 .. l /\ j \in 1 .. l
    BY <1>3, <1>7, <2>1 DEF Pool
  <2>2. CASE i \notin 1 .. l /\ j \notin 1 .. l
    <3>1. i - l = j - l
      BY <1>5, <1>7, <2>2
    <3> QED BY <1>1, <3>1
  <2>3. CASE i \in 1 .. l /\ j \notin 1 .. l
    BY <1>3, <1>5, <1>7, <2>3
  <2>4. CASE i \notin 1 .. l /\ j \in 1 .. l
    BY <1>3, <1>5, <1>7, <2>4
  <2> QED BY <2>1, <2>2, <2>3, <2>4
<1>8. Pool(e, r, x)
  BY <1>2, <1>6, <1>7 DEF Pool
<1>9. \A i \in 1 .. l + n : (i \in 1 .. l /\ e[i] = q[i]) \/ \E j \in 1 .. n : e[i] = new[j]
  BY <1>3, <1>5
<1> QED BY <1>2, <1>8, <1>9 DEF e

(* A thread that is free takes the call that has waited longest, and in time *)
(* is done with it.                                                         *)
LEMMA PoolGoesOn == PoolInv /\ PoolStep => Pool(queue, running, executed)' /\ Handed' = Handed
<1> SUFFICES ASSUME PoolInv, PoolStep
             PROVE  Pool(queue, running, executed)' /\ Handed' = Handed
  OBVIOUS
<1>1. /\ IsSeq(queue) /\ Len(queue) \in Nat /\ IsFiniteSet(running) /\ Cardinality(running) <= MaxWorkers
      /\ running \cap executed = {} /\ MaxWorkers \in Nat /\ Cardinality(running) \in Nat
      /\ \A i \in 1 .. Len(queue) : queue[i] \notin running \cup executed
      /\ \A i, j \in 1 .. Len(queue) : queue[i] = queue[j] => i = j
  BY Sequence, FS_CardinalityType, LoopAssumption DEF PoolInv, Pool
<1>2. ASSUME StartCall PROVE Pool(queue, running, executed)' /\ Handed' = Handed
  <2>1. /\ queue # <<>> /\ Cardinality(running) < MaxWorkers /\ executed' = executed
        /\ running' = running \cup {Head(queue)} /\ queue' = Tail(queue)
    BY <1>2 DEF StartCall
  <2>2. PICK S : queue \in Seq(S)
    BY <1>1 DEF IsSeq
  <2>3. /\ queue' \in Seq(S) /\ Len(queue') = Len(queue) - 1 /\ Head(queue) = queue[1] /\ Len(queue) > 0
        /\ \A i \in 1 .. Len(queue) - 1 : queue'[i] = queue[i + 1]
    BY <2>1, <2>2, HeadTailProperties
  <2>4. IsSeq(queue') /\ 1 \in 1 .. Len(queue)
    BY <1>1, <2>3 DEF IsSeq
  <2>5. IsFiniteSet(running') /\ Cardinality(running') <= MaxWorkers
    <3>1. queue[1] \notin running
      BY <1>1, <2>4
    <3>2. IsFiniteSet(running') /\ Cardinality(running') = Cardinality(running) + 1
      BY <1>1, <2>1, <2>3, <3>1, FS_AddElement
    <3> QED BY <1>1, <2>1, <3>2
  <2>6. running' \cap executed' = {}
    BY <1>1, <2>1, <2>3, <2>4
  <2>7. \A i \in 1 .. Len(queue') :
            i + 1 \in 1 .. Len(queue) /\ i + 1 # 1 /\ queue'[i] = queue[i + 1] /\ i \in Nat
    BY <1>1, <2>3
  <2>8. \A i \in 1 .. Len(queue') : queue'[i] \notin running' \cup executed'
    BY <1>1, <2>1, <2>3, <2>4, <2>7
  <2>9. ASSUME NEW i \in 1 .. Len(queue'), NEW j \in 1 .. Len(queue'), queue'[i] = queue'[j] PROVE i = j
    <3>1. i + 1 = j + 1 /\ i \in Nat /\ j \in Nat
      BY <1>1, <2>7, <2>9
    <3> QED BY <3>1
  <2>10. Pool(queue, running, executed)'
    BY <2>4, <2>5, <2>6, <2>8, <2>9 DEF Pool
  <2>11. ASSUME NEW i \in 1 .. Len(queue), i # 1
         PROVE  i - 1 \in 1 .. Len(queue') /\ queue'[i - 1] = queue[i]
    <3>1. i - 1 \in 1 .. Len(queue) - 1 /\ (i - 1) + 1 = i
      BY <1>1, <2>11
    <3> QED BY <2>3, <3>1
  <2>12. {queue'[i] : i \in 1 .. Len(queue')} \cup {queue[1]} = {queue[i] : i \in 1 .. Len(queue)}
    BY <2>4, <2>7, <2>11
  <2>13. Handed' = Handed
    BY <2>1, <2>3, <2>12 DEF Handed
  <2> QED BY <2>10, <2>13
<1>3. ASSUME NEW c \in running, EndCall(c) PROVE Pool(queue, running, executed)' /\ Handed' = Handed
  <2>1. running' = running \ {c} /\ executed' = executed \cup {c} /\ queue' = queue
    BY <1>3 DEF EndCall
  <2>2. IsFiniteSet(running') /\ Cardinality(running') = Cardinality(running) - 1
    BY <1>1, <1>3, <2>1, FS_RemoveElement
  <2>3. Cardinality(running') <= MaxWorkers
    BY <1>1, <2>2
  <2> QED BY <1>1, <1>3, <2>1, <2>2, <2>3 DEF Pool, Handed
<1> QED BY <1>2, <1>3 DEF PoolStep

(* Every node numbers its calls on, and the pool takes each once. *)
LEMMA PoolKept == TalkInv /\ TalkInv' /\ PoolInv /\ [LoopNext]_loopVars => PoolInv'
<1> SUFFICES ASSUME TalkInv, TalkInv', PoolInv, [LoopNext]_loopVars PROVE PoolInv'
  OBVIOUS
<1>0. ASSUME NEW t \in Turns
      PROVE  /\ Talk(t, messages[t], stage[t], collected[t], prompt[t], executed)
             /\ Talk(t, messages'[t], stage'[t], collected'[t], prompt'[t], executed')
             /\ messages = [messages EXCEPT ![t] = messages[t]]
             /\ stage = [stage EXCEPT ![t] = stage[t]]
             /\ \A m : [messages EXCEPT ![t] = m][t] = m
             /\ \A at : [stage EXCEPT ![t] = at][t] = at
             /\ Behind(t, messages[t], stage[t], Handed)
  BY DEF TalkInv, Talks, PoolInv
<1>a. ASSUME UNCHANGED poolVars
      PROVE  Pool(queue', running', executed') /\ Handed' = Handed
  BY <1>a DEF poolVars, PoolInv, Pool, Handed
<1>1. ASSUME NEW t \in Turns, BeginTurn(t) PROVE PoolInv'
  <2> DEFINE m == InitialMessages(history[t])
  <2>1. /\ stage[t] = "begin" /\ messages' = [messages EXCEPT ![t] = m]
        /\ stage' = [stage EXCEPT ![t] = "agent"] /\ UNCHANGED poolVars
    BY <1>1 DEF BeginTurn, Go
  <2> HIDE DEF m
  <2>2. Conversation(m)
    BY <1>0, <2>1 DEF Talk, Closed
  <2>3. CallsIn(m) \in Nat
    BY <2>2, LastIsOne
  <2>4. Behind(t, m, "agent", Handed)
    BY <1>0, <2>1, <2>3 DEF Behind, Given, Ongoing
  <2> QED BY <1>a, <2>1, <2>4, BehindElsewhere
<1>2. ASSUME NEW t \in Turns, NEW at \in {"over", "failed", "force_final"},
             stage' = [stage EXCEPT ![t] = at], messages' = [messages EXCEPT ![t] = messages'[t]],
             UNCHANGED poolVars
      PROVE  PoolInv'
  <2>1. Behind(t, messages'[t], at, Handed')
    BY <1>2 DEF Behind, Ongoing
  <2> QED BY <1>a, <1>2, <2>1, BehindElsewhere
<1>3. ASSUME NEW t \in Turns, Agent(t) PROVE PoolInv'
  <2> DEFINE m == messages[t]
  <2>1. stage[t] = "agent" /\ UNCHANGED poolVars
    BY <1>3 DEF Agent
  <2>2. ASSUME stage' = [stage EXCEPT ![t] = "failed"], UNCHANGED messages PROVE PoolInv'
    BY <1>0, <1>2, <2>1, <2>2
  <2>3. ASSUME NEW n \in 0 .. MaxCalls, NEW calls, calls = [i \in 1 .. n |-> Called(t) + i],
               messages' = [messages EXCEPT ![t] = Append(@,
                                [Message("A", Last(@).at + 1) EXCEPT !.calls = calls])],
               stage' = [stage EXCEPT ![t] = ShouldContinue(t, calls)]
        PROVE  PoolInv'
    <3> DEFINE x == [Message("A", Last(m).at + 1) EXCEPT !.calls = calls]
               e == Append(m, x)
               at == ShouldContinue(t, calls)
    <3>1. IsSeq(calls) /\ Len(calls) = n /\ n \in Nat
      <4>1. DOMAIN calls = 1 .. n /\ calls = [i \in 1 .. n |-> calls[i]]
        BY <2>3
      <4> QED BY <2>3, <4>1, Sized, LoopAssumption
    <3>2. x.calls = calls
      BY DEF Message
    <3> HIDE DEF x
    <3>3. messages' = [messages EXCEPT ![t] = e] /\ stage' = [stage EXCEPT ![t] = at]
      <4>1. messages' = [messages EXCEPT ![t] = Append(messages[t],
                            [Message("A", Last(messages[t]).at + 1) EXCEPT !.calls = calls])]
        BY <2>3 DEF TalkInv
      <4> QED BY <2>3, <4>1 DEF x
    <3>4. at \in {"over", "force_final", "tools"}
      BY DEF ShouldContinue
    <3> HIDE DEF at
    <3>5. CASE at # "tools"
      <4>1. messages' = [messages EXCEPT ![t] = messages'[t]]
        BY <1>0, <3>3
      <4> QED BY <1>2, <2>1, <3>3, <3>4, <3>5, <4>1
    <3>6. CASE at = "tools"
      <4>1. Conversation(m) /\ Conversation(e)
        <5>1. messages'[t] = e /\ stage'[t] = "tools"
          BY <1>0, <3>3, <3>6
        <5> QED BY <1>0, <2>1, <5>1 DEF Talk, Closed, Asking
      <4>2. /\ IsSeq(m) /\ Len(m) \in Nat /\ CallsIn(m) \in Nat
            /\ \A i \in 1 .. Len(e) : Len(e[i].calls) \in Nat
        BY <4>1, LastIsOne
      <4>3. Continues(e, m) /\ Len(e) = Len(m) + 1 /\ e[Len(e)] = x
        <5>1. /\ IsSeq(e) /\ Len(e) = Len(m) + 1 /\ e[Len(m) + 1] = x
              /\ \A i \in 1 .. Len(m) : e[i] = m[i]
          BY <4>2, Appended
        <5> HIDE DEF m, e
        <5> QED BY <4>2, <5>1 DEF Continues
      <4> HIDE DEF e
      <4>4. CallsIn(e) = CallsIn(m) + Len(e[Len(e)].calls)
        BY <4>2, <4>3, CallsAdded
      <4>5. CallsIn(e) = CallsIn(m) + n
        BY <3>1, <3>2, <4>3, <4>4
      <4>6. Given(e, "tools") = CallsIn(m)
        <5>1. Given(e, "tools") = (CallsIn(m) + n) - n
          BY <3>1, <3>2, <4>3, <4>5 DEF Given
        <5> HIDE DEF m
        <5> QED BY <3>1, <4>2, <5>1
      <4>7. Given(m, "agent") = CallsIn(m) /\ Called(t) = CallsIn(m)
        BY DEF Given, Called, CallsIn
      <4>8. \A k \in Nat : <<t, k>> \in Handed => k <= CallsIn(m)
        BY <1>0, <2>1, <4>7 DEF Behind, Ongoing
      <4>9. \A i \in 1 .. Len(e[Len(e)].calls) : e[Len(e)].calls[i] = CallsIn(m) + i
        BY <2>3, <3>1, <3>2, <4>3, <4>7
      <4>10. Behind(t, e, "tools", Handed)
        BY <4>2, <4>6, <4>8, <4>9 DEF Behind
      <4> QED BY <1>a, <2>1, <3>3, <3>6, <4>10, BehindElsewhere
    <3> QED BY <3>5, <3>6
  <2> QED BY <1>3, <2>2, <2>3 DEF Agent, Go
<1>4. ASSUME NEW t \in Turns, ForceFinal(t) PROVE PoolInv'
  <2>1. UNCHANGED poolVars
    BY <1>4 DEF ForceFinal
  <2>2. ASSUME stage' = [stage EXCEPT ![t] = "failed"], UNCHANGED messages PROVE PoolInv'
    BY <1>0, <1>2, <2>1, <2>2
  <2>3. ASSUME messages' = [messages EXCEPT ![t] = Append(@, Message("A", Last(@).at + 1))],
               stage' = [stage EXCEPT ![t] = "over"]
        PROVE  PoolInv'
    <3>1. messages' = [messages EXCEPT ![t] = messages'[t]]
      BY <1>0, <2>3
    <3> QED BY <1>2, <2>1, <2>3, <3>1
  <2> QED BY <1>4, <2>2, <2>3 DEF ForceFinal, Go
<1>5. ASSUME NEW t \in Turns, stage[t] \in {"tools", "inline", "collect"}
      PROVE  /\ Asking(messages[t]) /\ Calls(t) = messages[t][Len(messages[t])].calls
             /\ IsSeq(Calls(t)) /\ Len(Calls(t)) \in Nat /\ Calls(t) # <<>>
             /\ CallsIn(messages[t]) \in Nat
  <2>1. Asking(messages[t]) /\ Calls(t) = messages[t][Len(messages[t])].calls
    BY <1>0, <1>5 DEF Talk, Calls, Last
  <2> QED BY <2>1, LastIsOne DEF Asking
<1>6. ASSUME NEW t \in Turns, stage[t] \in {"tools", "inline"}
      PROVE  LET n == Len(Calls(t))
                 given == Given(messages[t], stage[t])
             IN  /\ given \in Nat /\ CallsIn(messages[t]) = given + n
                 /\ \A k \in Nat : <<t, k>> \in Handed => k <= given
                 /\ \A i \in 1 .. n : Calls(t)[i] = given + i /\ Calls(t)[i] \in Nat
                 /\ \A i \in 1 .. n : <<t, Calls(t)[i]>> \notin Handed
  <2> DEFINE n == Len(Calls(t))
             given == Given(messages[t], stage[t])
  <2>1. /\ given \in Nat /\ \A k \in Nat : <<t, k>> \in Handed => k <= given
        /\ \A i \in 1 .. n : Calls(t)[i] = given + i
    BY <1>0, <1>5, <1>6 DEF Behind, Ongoing
  <2>2. given = CallsIn(messages[t]) - n
    BY <1>5, <1>6 DEF Given
  <2>3. n \in Nat /\ CallsIn(messages[t]) \in Nat
    BY <1>5, <1>6
  <2> HIDE DEF n, given
  <2>4. CallsIn(messages[t]) = given + n
    BY <2>1, <2>2, <2>3
  <2>5. ASSUME NEW i \in 1 .. n PROVE Calls(t)[i] \in Nat /\ <<t, Calls(t)[i]>> \notin Handed
    <3>1. given + i \in Nat /\ ~(given + i <= given)
      BY <2>1, <2>3
    <3> QED BY <2>1, <3>1
  <2> QED BY <2>1, <2>4, <2>5 DEF n, given
<1>7. ASSUME NEW t \in Turns, RunTools(t) PROVE PoolInv'
  <2> DEFINE m == messages[t]
             given == Given(m, "tools")
             n == Len(Calls(t))
             new == [i \in DOMAIN Calls(t) |-> <<t, Calls(t)[i]>>]
  <2>1. stage[t] = "tools" /\ messages' = messages /\ UNCHANGED <<running, executed>>
    BY <1>7 DEF RunTools
  <2>2. /\ given \in Nat /\ CallsIn(m) = given + n /\ \A k \in Nat : <<t, k>> \in Handed => k <= given
        /\ \A i \in 1 .. n : Calls(t)[i] = given + i /\ Calls(t)[i] \in Nat
        /\ \A i \in 1 .. n : <<t, Calls(t)[i]>> \notin Handed
        /\ n \in Nat /\ CallsIn(m) \in Nat /\ DOMAIN Calls(t) = 1 .. n
    <3>1. stage[t] \in {"tools", "inline"} /\ stage[t] \in {"tools", "inline", "collect"}
      BY <2>1
    <3>2. DOMAIN Calls(t) = 1 .. n
      BY <1>5, <3>1, Sequence
    <3> QED BY <1>5, <1>6, <2>1, <3>1, <3>2
  <2>3. ASSUME stage' = [stage EXCEPT ![t] = "inline"], UNCHANGED queue PROVE PoolInv'
    <3>1. UNCHANGED poolVars
      BY <2>1, <2>3 DEF poolVars
    <3>2. Given(m, "inline") = given
      BY DEF Given
    <3>3. Behind(t, m, "inline", Handed)
      BY <1>0, <2>1, <3>2 DEF Behind, Ongoing
    <3> QED BY <1>0, <1>a, <2>1, <2>3, <3>1, <3>3, BehindElsewhere
  <2>4. ASSUME stage' = [stage EXCEPT ![t] = "collect"], queue' = queue \o new PROVE PoolInv'
    <3>1. IsSeq(new) /\ Len(new) = n /\ \A i \in 1 .. n : new[i] = <<t, Calls(t)[i]>>
      <4>1. DOMAIN new = 1 .. n /\ new = [i \in 1 .. n |-> new[i]]
        BY <2>2
      <4> QED BY <2>2, <4>1, Sized
    <3> HIDE DEF new
    <3>2. \A i \in 1 .. n : new[i] \notin running \cup executed /\ \A j \in 1 .. Len(queue) : new[i] # queue[j]
      BY <2>2, <3>1 DEF Handed
    <3>3. ASSUME NEW i \in 1 .. n, NEW j \in 1 .. n, new[i] = new[j] PROVE i = j
      <4>1. given + i = given + j
        BY <2>2, <3>1, <3>3
      <4> HIDE DEF given, n
      <4> QED BY <2>2, <4>1
    <3>4. Pool(queue, running, executed)
      BY DEF PoolInv
    <3> HIDE DEF n, given
    <3>5. /\ Pool(queue', running', executed')
          /\ \A i \in 1 .. Len(queue') :
                \/ i \in 1 .. Len(queue) /\ queue'[i] = queue[i]
                \/ \E j \in 1 .. n : queue'[i] = new[j]
      <4>1. n \in Nat
        BY <2>2
      <4>2. /\ Pool(queue \o new, running, executed)
            /\ \A i \in 1 .. Len(queue \o new) :
                  \/ i \in 1 .. Len(queue) /\ (queue \o new)[i] = queue[i]
                  \/ \E j \in 1 .. n : (queue \o new)[i] = new[j]
        BY <3>1, <3>2, <3>3, <3>4, <4>1, PoolGrows
      <4> QED BY <2>1, <2>4, <4>2
    <3>6. Handed' \subseteq Handed \cup {<<t, Calls(t)[j]>> : j \in 1 .. n}
      <4> SUFFICES ASSUME NEW c \in Handed', c \notin Handed
                   PROVE  c \in {<<t, Calls(t)[j]>> : j \in 1 .. n}
        OBVIOUS
      <4>1. c \notin running \cup executed /\ \A i \in 1 .. Len(queue) : c # queue[i]
        BY DEF Handed
      <4>2. PICK i \in 1 .. Len(queue') : c = queue'[i]
        BY <2>1, <4>1 DEF Handed
      <4>3. PICK j \in 1 .. n : queue'[i] = new[j]
        BY <3>5, <4>1, <4>2
      <4> QED BY <3>1, <4>2, <4>3
    <3>7. Handed' \subseteq Handed \cup {<<t, k>> : k \in Nat}
      BY <2>2, <3>6
    <3>8. ASSUME NEW k \in Nat, <<t, k>> \in Handed' PROVE k <= given + n
      <4>1. CASE <<t, k>> \in Handed
        <5>1. k <= given
          BY <2>2, <4>1
        <5> QED BY <2>2, <5>1
      <4>2. CASE <<t, k>> \notin Handed
        <5>1. PICK j \in 1 .. n : k = Calls(t)[j]
          BY <3>6, <3>8, <4>2
        <5>2. k = given + j
          BY <2>2, <5>1
        <5> QED BY <2>2, <5>2
      <4> QED BY <4>1, <4>2
    <3>9. Given(m, "collect") = CallsIn(m)
      BY DEF Given
    <3>10. Behind(t, m, "collect", Handed')
      BY <2>2, <3>8, <3>9 DEF Behind
    <3> QED BY <1>0, <2>1, <2>4, <3>5, <3>7, <3>10, BehindElsewhere
  <2> QED BY <1>7, <2>3, <2>4 DEF RunTools, Go
<1>8. ASSUME NEW t \in Turns, RunInline(t) PROVE PoolInv'
  <2> DEFINE m == messages[t]
             given == Given(m, "inline")
             c == <<t, Calls(t)[1]>>
  <2>1. /\ stage[t] = "inline" /\ messages' = messages /\ UNCHANGED <<running, queue>>
        /\ stage' = [stage EXCEPT ![t] = "collect"] /\ executed' = executed \cup {c}
    BY <1>8 DEF RunInline, Go
  <2>2. /\ given \in Nat /\ CallsIn(m) = given + 1 /\ \A k \in Nat : <<t, k>> \in Handed => k <= given
        /\ Calls(t)[1] = given + 1 /\ c \notin Handed
    <3>1. stage[t] \in {"tools", "inline"}
      BY <2>1
    <3>2. Len(Calls(t)) = 1
      BY <1>0, <2>1 DEF Talk, Calls, Last
    <3>3. 1 \in 1 .. 1
      OBVIOUS
    <3> QED BY <1>6, <2>1, <3>1, <3>2, <3>3
  <2>3. Handed' = Handed \cup {c}
    BY <2>1 DEF Handed
  <2>4. Pool(queue', running', executed')
    BY <2>1, <2>2 DEF PoolInv, Pool, Handed
  <2> HIDE DEF given
  <2>5. Handed' \subseteq Handed \cup {<<t, k>> : k \in Nat}
    BY <2>2, <2>3
  <2>6. \A k \in Nat : <<t, k>> \in Handed' => k <= given + 1
    BY <2>2, <2>3
  <2>7. Given(m, "collect") = CallsIn(m)
    BY DEF Given
  <2>8. Behind(t, m, "collect", Handed')
    BY <2>2, <2>6, <2>7 DEF Behind
  <2> QED BY <1>0, <2>1, <2>4, <2>5, <2>8, BehindElsewhere
<1>9. ASSUME NEW t \in Turns, ToolsDone(t) PROVE PoolInv'
  <2> DEFINE m == messages[t]
             c == collected[t]
             e == m \o c
  <2>1. /\ stage[t] = "collect" /\ messages' = [messages EXCEPT ![t] = e]
        /\ stage' = [stage EXCEPT ![t] = "post_tools"] /\ UNCHANGED poolVars
    BY <1>9 DEF ToolsDone, AddAnswers, Go, TalkInv
  <2>2. Asking(m) /\ Answers(m, c)
    BY <1>0, <2>1 DEF Talk
  <2>3. Conversation(e)
    BY <1>0, <2>1 DEF Talk, Closed
  <2>4. IsSeq(m) /\ IsSeq(c) /\ \A i \in 1 .. Len(e) : Len(e[i].calls) \in Nat
    BY <2>2, <2>3, LastIsOne DEF Asking, Answers
  <2>5. Continues(e, m)
    <3>1. IsSeq(e) /\ Len(e) = Len(m) + Len(c)
      BY <2>4, Joined
    <3>2. \A i \in 1 .. Len(m) : e[i] = m[i]
      BY <2>4, Joined
    <3>3. Len(m) \in Nat /\ Len(c) \in Nat
      BY <2>4, Sequence
    <3> HIDE DEF e, m, c
    <3>4. Len(m) <= Len(e)
      BY <3>1, <3>3
    <3> QED BY <3>1, <3>2, <3>4 DEF Continues
  <2> HIDE DEF e
  <2>6. CallsIn(m) \in Nat /\ CallsIn(e) \in Nat /\ CallsIn(m) <= CallsIn(e)
    BY <2>4, <2>5, CallsAdded
  <2>7. \A k \in Nat : <<t, k>> \in Handed => k <= CallsIn(m)
    BY <1>0, <2>1 DEF Behind, Given, Ongoing
  <2>8. \A k \in Nat : k <= CallsIn(m) => k <= CallsIn(e)
    <3> HIDE DEF m
    <3> QED BY <2>6
  <2>9. Behind(t, e, "post_tools", Handed)
    BY <2>6, <2>7, <2>8 DEF Behind, Given
  <2> QED BY <1>a, <2>1, <2>9, BehindElsewhere
<1>10. ASSUME NEW t \in Turns, PostTools(t) PROVE PoolInv'
  <2>1. /\ stage[t] = "post_tools" /\ stage' = [stage EXCEPT ![t] = "agent"]
        /\ UNCHANGED messages /\ UNCHANGED poolVars
    BY <1>10 DEF PostTools, Go
  <2>2. Behind(t, messages[t], "agent", Handed)
    BY <1>0, <2>1 DEF Behind, Given, Ongoing
  <2> QED BY <1>0, <1>a, <2>1, <2>2, BehindElsewhere
<1>11. ASSUME UNCHANGED <<messages, stage>>, Handed' = Handed, Pool(queue, running, executed)' PROVE PoolInv'
  BY <1>11 DEF PoolInv
<1>12. ASSUME NEW t \in Turns, Collect(t) PROVE PoolInv'
  BY <1>a, <1>11, <1>12 DEF Collect
<1>13. ASSUME PoolStep PROVE PoolInv'
  <2>1. UNCHANGED <<messages, stage>>
    BY <1>13 DEF PoolStep, StartCall, EndCall, turnVar
  <2> QED BY <1>11, <1>13, <2>1, PoolGoesOn
<1>14. CASE UNCHANGED loopVars
  BY <1>a, <1>11, <1>14 DEF loopVars, turnVar
<1> QED
  BY <1>1, <1>3, <1>4, <1>7, <1>8, <1>9, <1>10, <1>12, <1>13, <1>14 DEF LoopNext, TurnStep

(* The invariants of a turn and of the pool give the types. *)
LEMMA LoopIsTyped == TalkInv /\ RInv /\ PoolInv => LoopTypeOK
<1> SUFFICES ASSUME TalkInv, RInv, PoolInv PROVE LoopTypeOK
  OBVIOUS
<1>1. ASSUME NEW t \in Turns, stage[t] \in {"collect", "inline", "tools", "force_final"}
      PROVE  Last(messages[t]).kind = "A" /\ Last(messages[t]).calls # <<>>
  <2>1. Asking(messages[t])
    BY <1>1 DEF TalkInv, Talks, Talk
  <2> QED BY <2>1, LastIsOne DEF Asking, Conversation, Last
<1>2. ASSUME NEW t \in Turns, stage[t] = "collect"
      PROVE  Len(collected[t]) <= Len(Last(messages[t]).calls)
  BY <1>2 DEF TalkInv, Talks, Talk, Answers, Last
<1>3. /\ Cardinality(running) <= MaxWorkers /\ running \cap executed = {}
      /\ ToSet(queue) \cap (running \cup executed) = {}
  <2>1. IsSeq(queue) /\ DOMAIN queue = 1 .. Len(queue)
    BY Sequence DEF PoolInv, Pool
  <2> QED BY <2>1 DEF PoolInv, Pool, ToSet
<1> QED BY <1>1, <1>2, <1>3 DEF LoopTypeOK, TalkInv, RInv

(* Calls of all turns share the pool: none is in two places, no more run than *)
(* it has threads, and a turn that waits for its round has made one           *)
(* (nodes.py:22, 128-164).                                                    *)
THEOREM LoopTypeCorrect == LoopSpec => []LoopTypeOK
BY LoopIsTyped, TalkAtFirst, TalkKept, CountedAtFirst, CountKept, PoolAtFirst, PoolKept, PTL
   DEF LoopSpec
=============================================================================
