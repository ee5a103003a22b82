----------------------------- MODULE SampleDumps -----------------------------
(* Threads as in src/_tests/sample_jstack.txt and the dumps of Java 8 to 26:  *)
(* dumps of any two of them, or of one and then twice another, with and      *)
(* without a deadlock, and a few of many threads.                            *)
EXTENDS Integers, Sequences, SequencesExt

(* The operating system numbers threads too, as Java 26 prints it.           *)
Header(name, tid, hint) ==
    [kind |-> "thread", name |-> name, tid |-> tid, hint |-> hint,
     nids |-> {<<"os">> \o tid, IF tid = <<"11">> THEN <<"12">> ELSE <<"90">>}]
Line(kind, of) == [kind |-> kind, of |-> of]
Lock(type, addr, desc) == [kind |-> "lock", of |-> type, addr |-> addr, desc |-> desc]
Mark(kind) == [kind |-> kind]

Names == {<<"main">>, <<"VM Thread">>, <<"exec", "1">>, <<"exec", "10">>, <<"exec", "2">>, <<"pool", "1">>}
MCWithin ==
    {<<n, n>> : n \in Names} \cup {<<<<"exec">>, <<"exec", n>>>> : n \in {"1", "10", "2"}}
      \cup {<<<<"exec", "1">>, <<"exec", "10">>>>, <<<<"2">>, <<"exec", "2">>>>, <<<<"12">>, <<"none">>>>, <<<<"21">>, <<"none">>>>, <<<<"os", "12">>, <<"none">>>>,
            <<<<"VThread", "pool", "21">>, <<"none">>>>}
MCRanges == <<<<0, 1>>, <<2, 2>>, <<3, 4>>>>

Stanza(name, tid, hint, state, frames, rest) ==
    <<Header(name, tid, hint)>> \o (IF state = "" THEN <<>> ELSE <<Line("state", state)>>)
      \o [i \in DOMAIN frames |-> Line("frame", frames[i])] \o rest

Internal == Stanza(<<"VM Thread">>, <<"1">>, "runnable", "", <<>>, <<>>)
Main == Stanza(<<"main">>, <<"2">>, "runnable", "RUNNABLE", <<"compute", "run">>, <<>>)
Reader == Stanza(<<"exec", "10">>, <<"10">>, "runnable", "RUNNABLE", <<"socketRead0", "handle", "run">>,
                 <<Lock("locked", "s", "SocketInputStream")>>)
WaitsFor(name, tid, addr) ==
    Stanza(name, tid, "blocked", "BLOCKED", <<"transfer">>,
           <<Lock("waiting to lock", addr, "Account")>>)
Holds(name, tid, addr) ==
    Stanza(name, tid, "runnable", "RUNNABLE", <<"transfer", "run">>, <<Lock("locked", addr, "Account")>>)
HoldsTwo ==
    Stanza(<<"pool", "1">>, <<"7">>, "runnable", "RUNNABLE", <<"compute", "run">>,
           <<Lock("locked", "a", "Account"), Lock("locked", "o", "")>>)
Borrower(name, tid, top) ==
    Stanza(name, tid, "waiting on condition", "TIMED_WAITING", <<top, "HikariPool.getConnection">>, <<>>)
Taker == Stanza(<<"exec", "2">>, <<"12">>, "waiting on condition", "WAITING", <<"poll", "HikariPool.getConnection", "run">>, <<>>)
Carrier ==
    Stanza(<<"pool", "1">>, <<"8">>, "runnable", "", <<"runContinuation">>,
           <<Mark("carrying"), Mark("mounted"), Line("frame", "sleep"), Line("frame", "task")>>)

Found == <<Mark("found"), [kind |-> "entry", name |-> <<"exec", "1">>], [kind |-> "held", name |-> <<"exec", "2">>]>>
Refs == <<Mark("refs")>>
Banner == <<Mark("other")>>

Many(n, stanza) == FlattenSeq([i \in 1 .. n |-> stanza])
Stanzas == {Internal, Main, Reader, WaitsFor(<<"exec", "1">>, <<"11">>, "a"), Holds(<<"exec", "2">>, <<"12">>, "a"),
            HoldsTwo, Taker, Borrower(<<"exec", "1">>, <<"13">>, "park"), Carrier}

Bodies == BoundedSeq(Stanzas, 2) \cup {<<a, b, b>> : a, b \in Stanzas}
MCDumps ==
    {Banner \o FlattenSeq(s) \o e : s \in Bodies, e \in {<<>>, Found, Found \o Refs, Refs \o Found, Banner \o Found}}
      \cup {Banner \o Many(n, Main) \o Many(m, x) : n \in {3, 9}, m \in {1, 2},
                x \in {WaitsFor(<<"exec", "1">>, <<"11">>, "a"), Taker, Holds(<<"exec", "2">>, <<"12">>, "b"), Borrower(<<"exec", "1">>, <<"13">>, "park")}}
      \cup {Many(7, Internal) \o Many(5, Taker), Many(4, Stanza(<<"exec", "1">>, <<"14">>, "", "WAITING", <<"read0">>, <<>>))}
      \cup {Banner \o WaitsFor(<<"exec", "1">>, <<"11">>, "a") \o Holds(<<"exec", "2">>, <<"12">>, "b")}

JThread(name, tid, virtual, state, waiting, held) ==
    [name |-> name, tid |-> tid, nids |-> {}, virtual |-> virtual, state |-> state,
     frames |-> <<"park", "run">>, held |-> held, waiting |-> waiting]
JThreads == {JThread(<<"main">>, <<"1">>, FALSE, "RUNNABLE", "None", <<"a">>),
             JThread(<<"exec", "10">>, <<"10">>, FALSE, "BLOCKED", "a", <<>>),
             JThread(<<>>, <<"21">>, TRUE, "WAITING", "a", <<>>),
             JThread(<<>>, <<"22">>, TRUE, "RUNNABLE", "None", <<"a", "b">>),
             JThread(<<>>, <<"3">>, FALSE, "TIMED_WAITING", "b", <<>>)}
Container(name, threads) == [name |-> name, threads |-> threads]
MCJsonDumps ==
    {<<Container("root", SetToSeq(a)), Container("pool", SetToSeq(b \ a)),
       Container("inner", SetToSeq(JThreads \ (a \cup b)))>> :
        a \in SUBSET JThreads, b \in {{}, {JThread(<<>>, <<"21">>, TRUE, "WAITING", "a", <<>>)}}}
=============================================================================
