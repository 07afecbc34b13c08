----------------------- MODULE MCKnowledgeFlow -----------------------
EXTENDS GroundedAnswers

Segment(w, who, names, isNear) ==
    [weight |-> w, speaker |-> who, introduces |-> names, near |-> isNear, signal |-> w # 1]

\* Two words of which no letter is ASCII.
MCAscii(c) == IF c \in {"okuru", "yameru"} THEN NoWords ELSE <<c>>

\* Every way four segments can weigh little, much, or more than the limit.
\* The lightest are noise.
MCPlain == {[i \in 1 .. 4 |-> Segment(ws[i], "A", {}, TRUE)] :
                ws \in [1 .. 4 -> {1, 2, 3, 5}]}

\* Three segments in two windows.
MCTalks == {<<Segment(2, "A", {MCAscii("Ann")}, TRUE), Segment(1, "Unknown", {}, TRUE),
              Segment(2, "B", {}, TRUE)>>}

\* Three windows, for the threads that ask about them.
MCCalls == {[i \in 1 .. 3 |-> Segment(5, "A", {}, TRUE)]}

\* One window, about which questions are asked.
MCChats == {<<Segment(2, "A", {}, TRUE),
              [Segment(1, "B", {}, TRUE) EXCEPT !.signal = TRUE]>>}

MCTranscripts == MCPlain \union MCTalks \union MCCalls \union MCChats

MCTokensOf(t, S) == FoldFunctionOnSet(+, 0, [i \in DOMAIN t |-> t[i].weight], S)

MCRunsOn(t) == IF t \in MCTalks THEN 1 ELSE 2

MCThreadsIn(t) == IF t \in MCCalls THEN {"p", "q"} ELSE {"p"}
MCFaultsIn(t) == IF t \in MCCalls THEN {"refused", "broken", "empty", "misshapen"} ELSE {}

Item(i, s, c, words, cs) ==
    [id |-> i, section |-> s, claim |-> c, says |-> words, form |-> "list", cites |-> cs]
Task(c) == [task |-> c]
Decided(c) == [decision |-> c]
Titled(c) == [title |-> c]
Cite(n) == [of |-> "cite", number |-> n]
Seg(n) == [of |-> "segment", number |-> n]

\* Records with ids of their own, without one, and with one that another
\* record gets by its place; cited by segment, by number, wrongly, not at all.
MCItems ==
    {Item(i, "actions", "one", Task("ship"), cs) :
        i \in {NoId, <<"actions", 2>>}, cs \in {{}, {Cite(1)}, {Seg(3)}}}
    \union
    {Item(NoId, "decisions", "one", Decided("ship"), {Seg(2)}),
     Item(NoId, "decisions", "one", Decided("stop"), {Cite(2)}),
     Item(NoId, "facts", Count, <<>>, {}), Item(NoId, "facts", "late", <<>>, {Cite(3)}),
     Item(NoId, "risks", "one", Titled("late"), {Cite(1)}),
     Item(NoId, "questions", "one", Titled("when"), {}),
     Item(NoId, "events", "start", <<>>, {Seg(1)}),
     Item(NoId, "participants", "Ann", <<>>, {}),
     Item(NoId, "topics", "one", Titled("plan"), {Cite(1)})}

Executive(t, cs, ts) ==
    [text |-> t, form |-> "list", cites |-> cs, topics |-> ts, topicsForm |-> "list"]
MCSilent == Executive("none", {}, {})
MCSummaries ==
    {MCSilent, Executive("words", {Cite(1)}, {}), Executive("words", {}, {<<"topics", 1>>})}

Link(f, t, cs) ==
    [id |-> NoId, section |-> "relationships", from |-> f, to |-> t, form |-> "list", cites |-> cs]
MCLinks == {<<>>, <<Link(<<"actions", 1>>, <<"decisions", 1>>, {Cite(2)})>>}

\* Two records: an action and something else, in either order.
MCPairs ==
    LET first == {i \in MCItems : i.section = "actions" /\ i.id # NoId /\ i.cites # {}}
        other == {i \in MCItems : i.section \in {"actions", "decisions", "topics"} /\ i.id = NoId}
    IN  UNION {{<<a, b>>, <<b, a>>} : a \in first, b \in other}

Reply(i, l, e) == [items |-> i, links |-> l, executive |-> e, merges |-> TRUE]

\* Items, links and summaries of another type than the prompt asks for:
\* citations of the window, of another window, of nothing, that cannot be
\* iterated.
MCMisshapen ==
    LET Raw(r)  == [r EXCEPT !.form = "raw"]
        None(r) == [r EXCEPT !.form = "none"]
        Start(cs) == Item(NoId, "events", "start", <<>>, cs)
        Ship(cs)  == Item(NoId, "actions", "one", Task("ship"), cs)
        Plan    == Item(NoId, "topics", "one", Titled("plan"), {Cite(3)})
        Between == Link(<<"events", 1>>, <<"events", 1>>, {Seg(1)})
    IN  {Reply(<<Raw(Start({c}))>>, <<>>, MCSilent) : c \in {Cite(1), Cite(3), Seg(1)}}
        \union {Reply(<<Raw(Ship({Seg(2)}))>>, <<>>, MCSilent),
                Reply(<<Raw(Plan)>>, <<>>, Executive("words", {}, {<<"topics", 1>>})),
                Reply(<<None(Start({}))>>, <<>>, MCSilent),
                Reply(<<Start({Cite(1)})>>, <<Raw(Between)>>, MCSilent),
                Reply(<<Start({Cite(1)})>>, <<None(Between)>>, MCSilent),
                Reply(<<>>, <<>>, Executive("null", {}, {})),
                Reply(<<>>, <<>>, [Raw(Executive("value", {Cite(1)}, {})) EXCEPT !.topicsForm = "none"]),
                Reply(<<>>, <<>>, Executive("value", {Cite(2)}, {})),
                [Reply(<<Start({})>>, <<>>, MCSilent) EXCEPT !.merges = FALSE]}

\* An action and a decision of which the signature has nothing: in words
\* that are not ASCII, or in other fields.
MCWordless ==
    {Reply(<<Item(NoId, "actions", c, w, {Cite(1)}),
             Item(NoId, "decisions", "one", Decided("yameru"), {Cite(2)})>>, <<>>, MCSilent) :
        c \in {"one"}, w \in {Task("okuru"), <<>>}}

\* Records without a summary, linked and not; a summary without records or
\* with one; a link to the meeting; and what is not well formed.
MCReplies ==
    MCMisshapen \union MCWordless \union
    {Reply(<<i>>, <<>>, MCSilent) : i \in MCItems}
    \union {Reply(p, l, MCSilent) : p \in MCPairs, l \in MCLinks}
    \union {Reply(i, <<>>, e) :
        i \in {<<>>, <<Item(NoId, "topics", "one", Titled("plan"), {Cite(1)})>>}, e \in MCSummaries}
    \union {Reply(<<Item(NoId, "participants", "Ann", <<>>, {})>>,
                  <<Link(<<"participants", 1>>, Meeting, {})>>, MCSilent)}

\* Two models' idea of the same meeting.
MCViews ==
    {Reply(<<Item(NoId, "actions", "one", Task("ship"), {Cite(1)})>>,
           <<>>, Executive("words", {Cite(1)}, {})),
     Reply(<<Item(NoId, "facts", "late", <<>>, {Cite(2)})>>, <<>>, MCSilent)}

\* While the threads ask, a reply is there, is an echo, or cannot be merged.
MCPlainReplies(t) ==
    LET full == Reply(<<>>, <<>>, Executive("words", {}, {}))
    IN  IF t \in MCCalls
        THEN {full, Reply(<<>>, <<>>, MCSilent), [full EXCEPT !.merges = FALSE]}
        ELSE {full}

MCRepliesTo(t) ==
    IF t \in MCTalks THEN MCReplies
    ELSE IF t \in MCChats THEN MCViews
    ELSE MCPlainReplies(t)

\* Answered with a chunk, with a number, by a search, not at all; about what
\* the question before was about; about somebody it does not name.
Question(concepts, refers, names) == [concepts |-> concepts, refers |-> refers, names |-> names]
MCQuestions ==
    {Question(cs, FALSE, FALSE) : cs \in {{"overview", "meeting"}, {"count", "participant"},
                                        {"contact"}, {"action"}, {"date"}, {"greeting"}}}
    \union {Question({}, TRUE, FALSE), Question({"contact"}, FALSE, TRUE)}

MCQuestionsOn(t) == IF t \in MCChats THEN MCQuestions ELSE {}
=============================================================================
