----------------------------- MODULE SessionFacts -----------------------------
(***************************************************************************)
(* What a session is to remember: facts the user has written down, and the  *)
(* summary, which is kept as a fact of its own (react_agent/memory_db.py,   *)
(* memory/facts.py, app/routes/sessions.py).  The facts the model is given, *)
(* and those the user is shown, are the best scored that fit into a budget; *)
(* to be chosen raises the score.  The user deletes a fact by its place in  *)
(* the list shown.                                                          *)
(***************************************************************************)
EXTENDS Integers, Sequences, FiniteSets, SequencesExt

CONSTANTS
    Facts,       \* what the user may write down
    FactSize,    \* tokens of each, and of the summary
    FactBudget,  \* 800 tokens
    Adders,      \* requests that add a fact
    MaxDays, MaxReads
CONSTANTS Summary, NoFact

ASSUME FactsAssumption ==
    /\ Summary \notin Facts /\ NoFact \notin Facts \cup {Summary}
    /\ FactSize \in [Facts \cup {Summary} -> Nat]
    /\ FactBudget \in Nat /\ MaxDays \in Nat /\ MaxReads \in Nat

VARIABLES
    facts,    \* the rows, by id: what it says, days since it was last
              \* chosen, and how often it has been
    adding,   \* the fact a request has not found and will insert
    shown     \* the user's list

factVars == <<facts, adding, shown>>

IsFact(r) == r.says # Summary
Said(rows) == [i \in DOMAIN rows |-> rows[i].says]

Row == [says : Facts \cup {Summary}, days : 0 .. MaxDays, reads : 0 .. MaxReads]

FactsTypeOK ==
    /\ facts \in Seq(Row)
    /\ \A i, j \in DOMAIN facts : ~IsFact(facts[i]) /\ ~IsFact(facts[j]) => i = j
    /\ adding \in [Adders -> Facts \cup {NoFact}]
    /\ shown \in Seq(Facts)

FactsInit ==
    /\ facts = <<>> /\ shown = <<>>
    /\ adding = [a \in Adders |-> NoFact]

-----------------------------------------------------------------------------
(* scored_facts *)

\* The score halves with every day and grows with the logarithm of the reads.
Better(f, g) == (f.reads + 2) ^ (2 ^ g.days) > (g.reads + 2) ^ (2 ^ f.days)

\* The places in facts, best first; of equals the older first: each is put
\* behind all that are no worse.
Sort(sorted, i) ==
    InsertAt(sorted,
             1 + Cardinality({k \in DOMAIN sorted : ~Better(facts[i], facts[sorted[k]])}), i)

Ranked == FoldLeft(Sort, <<>>, [i \in DOMAIN facts |-> i])

Costs(places) == FoldLeft(LAMBDA sum, i : sum + FactSize[facts[i].says], 0, places)

\* What does not fit is passed over, and what comes after it may still fit.
Take_OneOver(took, i) == IF Costs(took) > FactBudget THEN took ELSE Append(took, i)

Take(took, i) ==
    IF Costs(took) + FactSize[facts[i].says] > FactBudget THEN took ELSE Append(took, i)

Choice == FoldLeft(Take, <<>>, Ranked)

Choose ==
    facts' = [i \in DOMAIN facts |->
                IF i \in ToSet(Choice)
                THEN [facts[i] EXCEPT !.days = 0, !.reads = IF @ < MaxReads THEN @ + 1 ELSE @]
                ELSE facts[i]]

\* The agent reads the facts for a prompt.
ReadForPrompt == Choose /\ UNCHANGED <<adding, shown>>

\* Of these rows those that are no context.
Keep(kept, r) == IF IsFact(r) THEN Append(kept, r) ELSE kept

OnlyFactsOf(rows) == FoldLeft(Keep, <<>>, rows)

\* get_facts: those at these places, but not the summary.
Listed(places) == Said(OnlyFactsOf([k \in DOMAIN places |-> facts[places[k]]]))

\* get_prompt_facts: when they cannot be scored, it is all of them, by id.
ShowFacts ==
    /\ \/ Choose /\ shown' = Listed(Choice)
       \/ UNCHANGED facts /\ shown' = Listed([i \in DOMAIN facts |-> i])
    /\ UNCHANGED adding

-----------------------------------------------------------------------------
New(f) == [says |-> f, days |-> 0, reads |-> 0]

\* add_fact looks for the fact, and inserts it if it is not there.
FindFact(a, f) ==
    /\ adding[a] = NoFact /\ f \notin ToSet(Said(facts))
    /\ adding' = [adding EXCEPT ![a] = f]
    /\ UNCHANGED <<facts, shown>>

InsertFact(a) ==
    /\ adding[a] # NoFact /\ Len(facts) <= Cardinality(Facts)
    /\ facts' = Append(facts, New(adding[a]))
    /\ adding' = [adding EXCEPT ![a] = NoFact]
    /\ UNCHANGED shown

\* set_context_fact
SetSummary_KeepsOld ==
    /\ Len(facts) <= Cardinality(Facts)
    /\ facts' = Append(facts, New(Summary))
    /\ UNCHANGED <<adding, shown>>

SetSummary ==
    /\ facts' = Append(OnlyFactsOf(facts), New(Summary))
    /\ UNCHANGED <<adding, shown>>

\* remove_fact: the n-th of the rows that are no context, by id, if there is one.
Visible_All(n) == DOMAIN facts \cap {n}

Visible(n) ==
    {i \in DOMAIN facts :
        IsFact(facts[i]) /\ Cardinality({j \in 1 .. i : IsFact(facts[j])}) = n}

RemoveFact(n) ==
    /\ n \in DOMAIN shown
    /\ \E i \in Visible(n) : facts' = RemoveAt(facts, i)
    /\ shown' = <<>>   \* until it is read again: the reply is a ShowFacts
    /\ UNCHANGED adding

DayPasses ==
    /\ facts' = [i \in DOMAIN facts |->
                    [facts[i] EXCEPT !.days = IF @ < MaxDays THEN @ + 1 ELSE @]]
    /\ facts' # facts
    /\ UNCHANGED <<adding, shown>>

FactsNext ==
    \/ \E a \in Adders : InsertFact(a) \/ \E f \in Facts : FindFact(a, f)
    \/ SetSummary \/ ReadForPrompt \/ ShowFacts \/ DayPasses
    \/ \E n \in DOMAIN shown : RemoveFact(n)

FactsSpec == FactsInit /\ [][FactsNext]_factVars

-----------------------------------------------------------------------------
(* What a prompt is given of the facts never exceeds the budget, in whatever *)
(* order the scores put them (facts.py:67-76) - unless they cannot be        *)
(* scored, when all of them are given.                                       *)
FactsFitBudget == Costs(Choice) <= FactBudget

HasSummary == Summary \in ToSet(Said(facts))

(* Deleting facts never deletes the summary, which the user is not shown     *)
(* (memory_db.py:486): once there is one, there is one.                      *)
SummaryIsKept == [][HasSummary => HasSummary']_factVars

(* The fact deleted is the one the user clicked on.  It is not: the list is  *)
(* in the order of the scores and leaves out what the budget has no room     *)
(* for, the deletion counts in the order of the ids.                         *)
DeletesWhatWasMeant ==
    [][\A n \in DOMAIN shown : RemoveFact(n) =>
            \A i \in Visible(n) : facts[i].says = shown[n]]_factVars
=============================================================================
