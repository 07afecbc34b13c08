-------------------------- MODULE KnowledgeFlow_proofs --------------------------
(***************************************************************************)
(* From the transcript to the answer: what holds of FlowSpec for every     *)
(* transcript, every reply of a model, every number of threads and every   *)
(* question.                                                               *)
(***************************************************************************)
EXTENDS GroundedAnswers, KnowledgeExtraction_proofs

(***************************************************************************)
(* The index                                                               *)
(***************************************************************************)
(* Chunks of one kind: numbered, of the names of that kind, without a      *)
(* number of people, and eligible if they have evidence.                   *)
Kind(cs, names) ==
    /\ \A c \in cs :
        /\ c.id[1] \in names /\ c.tells = NoCount
        /\ (\E i \in Segments : Evidence(i) \in c.cites) => c.eligible
    /\ \A c, d \in cs : c.id = d.id => c = d

LEMMA TwoKinds ==
    ASSUME NEW A, NEW B, NEW N, NEW M, Kind(A, N), Kind(B, M), \A n \in N : n \notin M
    PROVE  Kind(A \union B, N \union M)
BY DEF Kind

SectionNames == {"fact-participant_count"} \union Recorded

LEMMA RecordKind == Kind(RecordChunks, SectionNames)
<1> DEFINE Name(section, id) ==
               IF section = "facts" /\ result.records[id].claim = Count
               THEN "fact-participant_count" ELSE section
           Of(section) ==
               LET items == View(section)
               IN  {Chunk(<<Name(section, items[k]), k>>, CitesOf(items[k]), {}, TRUE) : k \in DOMAIN items}
<1>1. RecordChunks = UNION {Of(s) : s \in Recorded}
    BY DEF RecordChunks
<1>2. \A c \in RecordChunks :
        \E s \in Recorded : \E k \in DOMAIN View(s) :
            c = Chunk(<<Name(s, View(s)[k]), k>>, CitesOf(View(s)[k]), {}, TRUE)
    BY <1>1
<1>3. \A s, id : /\ s # "facts" => Name(s, id) = s
                 /\ s = "facts" => Name(s, id) \in {"facts", "fact-participant_count"}
    OBVIOUS
<1> HIDE DEF Name
<1>4. ASSUME NEW c \in RecordChunks
      PROVE  c.id[1] \in SectionNames /\ c.tells = NoCount /\ c.eligible = TRUE
    BY <1>2, <1>3 DEF Chunk, SectionNames, Recorded
<1>5. ASSUME NEW c \in RecordChunks, NEW d \in RecordChunks, c.id = d.id
      PROVE  c = d
    <2>1. PICK s \in Recorded : \E k \in DOMAIN View(s) :
            c = Chunk(<<Name(s, View(s)[k]), k>>, CitesOf(View(s)[k]), {}, TRUE)
        BY <1>2
    <2>2. PICK k \in DOMAIN View(s) :
            c = Chunk(<<Name(s, View(s)[k]), k>>, CitesOf(View(s)[k]), {}, TRUE)
        BY <2>1
    <2>3. PICK t \in Recorded : \E m \in DOMAIN View(t) :
            d = Chunk(<<Name(t, View(t)[m]), m>>, CitesOf(View(t)[m]), {}, TRUE)
        BY <1>2
    <2>4. PICK m \in DOMAIN View(t) :
            d = Chunk(<<Name(t, View(t)[m]), m>>, CitesOf(View(t)[m]), {}, TRUE)
        BY <2>3
    <2>5. <<Name(s, View(s)[k]), k>> = <<Name(t, View(t)[m]), m>>
        BY <1>5, <2>2, <2>4 DEF Chunk
    <2>6. k = m /\ Name(s, View(s)[k]) = Name(t, View(t)[m])
        BY <2>5
    <2>7. s = t
        BY <1>3, <2>6 DEF Recorded
    <2> QED
        BY <2>2, <2>4, <2>6, <2>7
<1> QED
    BY <1>4, <1>5 DEF Kind

LEMMA ParticipantKind == Kind(ParticipantChunks, {"participant-profile"})
<1> DEFINE people == View("participants")
<1>1. \A c \in ParticipantChunks : \E k \in DOMAIN people :
        c = Chunk(<<"participant-profile", k>>, CitesOf(people[k]), {}, TRUE)
    BY DEF ParticipantChunks
<1> HIDE DEF people
<1>2. ASSUME NEW c \in ParticipantChunks
      PROVE  c.id[1] \in {"participant-profile"} /\ c.tells = NoCount /\ c.eligible
    BY <1>1 DEF Chunk
<1>3. ASSUME NEW c \in ParticipantChunks, NEW d \in ParticipantChunks, c.id = d.id
      PROVE  c = d
    <2>1. PICK k \in DOMAIN people : c = Chunk(<<"participant-profile", k>>, CitesOf(people[k]), {}, TRUE)
        BY <1>1
    <2>2. PICK m \in DOMAIN people : d = Chunk(<<"participant-profile", m>>, CitesOf(people[m]), {}, TRUE)
        BY <1>1
    <2>3. <<"participant-profile", k>> = <<"participant-profile", m>>
        BY <1>3, <2>1, <2>2 DEF Chunk
    <2>4. k = m
        BY <2>3
    <2> QED
        BY <2>1, <2>2, <2>4
<1> QED
    BY <1>2, <1>3 DEF Kind

LEMMA LinkKind == Kind(LinkChunks, {"relationship-edge"})
<1> DEFINE links == SetToSeq(result.links)
           Cites(k) == IF links[k].refs # {} THEN EvidenceOf(links[k].refs) ELSE {Json(<<"link", k>>)}
<1>1. \A c \in LinkChunks : \E k \in DOMAIN links :
        c = Chunk(<<"relationship-edge", k>>, Cites(k), {}, TRUE)
    BY DEF LinkChunks
<1> HIDE DEF links, Cites
<1>2. ASSUME NEW c \in LinkChunks
      PROVE  c.id[1] \in {"relationship-edge"} /\ c.tells = NoCount /\ c.eligible
    BY <1>1 DEF Chunk
<1>3. ASSUME NEW c \in LinkChunks, NEW d \in LinkChunks, c.id = d.id
      PROVE  c = d
    <2>1. PICK k \in DOMAIN links : c = Chunk(<<"relationship-edge", k>>, Cites(k), {}, TRUE)
        BY <1>1
    <2>2. PICK m \in DOMAIN links : d = Chunk(<<"relationship-edge", m>>, Cites(m), {}, TRUE)
        BY <1>1
    <2>3. <<"relationship-edge", k>> = <<"relationship-edge", m>>
        BY <1>3, <2>1, <2>2 DEF Chunk
    <2>4. k = m
        BY <2>3
    <2> QED
        BY <2>1, <2>2, <2>4
<1> QED
    BY <1>2, <1>3 DEF Kind

LEMMA TopicKind == Kind(TopicChunks, {"topic-summary"})
<1> DEFINE topics == View("topics")
           Refs(k) == EvidenceOf(result.records[topics[k]].refs)
<1>1. \A c \in TopicChunks : \E k \in DOMAIN topics :
        c = Chunk(<<"topic-summary", k>>, Refs(k), {}, Refs(k) # {})
    BY DEF TopicChunks
<1> HIDE DEF topics, Refs
<1>2. ASSUME NEW c \in TopicChunks
      PROVE  /\ c.id[1] \in {"topic-summary"} /\ c.tells = NoCount
             /\ (\E i \in Segments : Evidence(i) \in c.cites) => c.eligible
    <2>1. PICK k \in DOMAIN topics : c = Chunk(<<"topic-summary", k>>, Refs(k), {}, Refs(k) # {})
        BY <1>1
    <2>2. c.id = <<"topic-summary", k>> /\ c.tells = NoCount /\ c.cites = Refs(k)
        BY <2>1 DEF Chunk
    <2>3. Refs(k) # {} => c.eligible = TRUE
        BY <2>1 DEF Chunk
    <2>4. (\E i \in Segments : Evidence(i) \in c.cites) => Refs(k) # {}
        BY <2>2
    <2> QED
        BY <2>2, <2>3, <2>4
<1>3. ASSUME NEW c \in TopicChunks, NEW d \in TopicChunks, c.id = d.id
      PROVE  c = d
    <2>1. PICK k \in DOMAIN topics : c = Chunk(<<"topic-summary", k>>, Refs(k), {}, Refs(k) # {})
        BY <1>1
    <2>2. PICK m \in DOMAIN topics : d = Chunk(<<"topic-summary", m>>, Refs(m), {}, Refs(m) # {})
        BY <1>1
    <2>3. <<"topic-summary", k>> = <<"topic-summary", m>>
        BY <1>3, <2>1, <2>2 DEF Chunk
    <2>4. k = m
        BY <2>3
    <2> QED
        BY <2>1, <2>2, <2>4
<1> QED
    BY <1>2, <1>3 DEF Kind

LEMMA SummaryKind ==
    /\ Kind(SummaryChunks, {"summary-executive"})
    /\ \A c \in SummaryChunks :
        /\ c.eligible => EvidenceOf(result.summary.refs) # {}
        /\ c.cites = EvidenceOf(result.summary.refs)
        /\ c.segments = {i \in Segments : Evidence(i) \in c.cites}
<1> DEFINE refs == EvidenceOf(result.summary.refs)
<1>1. \A c \in SummaryChunks : c = Chunk(<<"summary-executive", 0>>, refs, {}, refs # {})
    BY DEF SummaryChunks
<1> HIDE DEF refs
<1>2. ASSUME NEW c \in SummaryChunks
      PROVE  /\ c.id[1] \in {"summary-executive"} /\ c.tells = NoCount
             /\ c.eligible <=> refs # {}
             /\ c.cites = refs
             /\ c.segments = {i \in Segments : Evidence(i) \in c.cites}
    <2>1. c = Chunk(<<"summary-executive", 0>>, refs, {}, refs # {})
        BY <1>1
    <2>2. /\ c.id = <<"summary-executive", 0>> /\ c.tells = NoCount /\ c.cites = refs
          /\ c.segments = {i \in Segments : Evidence(i) \in refs} \union {}
        BY <2>1 DEF Chunk
    <2>3. c.segments = {i \in Segments : Evidence(i) \in c.cites}
        BY <2>2
    <2>4. (refs # {} => c.eligible = TRUE) /\ (refs = {} => c.eligible = FALSE)
        BY <2>1 DEF Chunk
    <2> QED
        BY <2>2, <2>3, <2>4
<1>3. \A c \in SummaryChunks : (\E i \in Segments : Evidence(i) \in c.cites) => c.eligible
    BY <1>2
<1> QED
    BY <1>1, <1>2, <1>3 DEF Kind, refs

LEMMA TranscriptKind ==
    /\ Kind(TranscriptChunks, {"transcript-window"})
    /\ \A c \in TranscriptChunks : \E n \in Parts :
            c = Chunk(<<"transcript-window", n>>, EvidenceOf(Part(n)), Part(n), TRUE)
<1>1. \A c \in TranscriptChunks : \E n \in Parts :
        c = Chunk(<<"transcript-window", n>>, EvidenceOf(Part(n)), Part(n), TRUE)
    BY DEF TranscriptChunks
<1>2. ASSUME NEW c \in TranscriptChunks
      PROVE  c.id[1] \in {"transcript-window"} /\ c.tells = NoCount /\ c.eligible
    BY <1>1 DEF Chunk
<1>3. ASSUME NEW c \in TranscriptChunks, NEW d \in TranscriptChunks, c.id = d.id
      PROVE  c = d
    <2>1. PICK k \in Parts : c = Chunk(<<"transcript-window", k>>, EvidenceOf(Part(k)), Part(k), TRUE)
        BY <1>1
    <2>2. PICK m \in Parts : d = Chunk(<<"transcript-window", m>>, EvidenceOf(Part(m)), Part(m), TRUE)
        BY <1>1
    <2>3. <<"transcript-window", k>> = <<"transcript-window", m>>
        BY <1>3, <2>1, <2>2 DEF Chunk
    <2>4. k = m
        BY <2>3
    <2> QED
        BY <2>1, <2>2, <2>4
<1> QED
    BY <1>1, <1>2, <1>3 DEF Kind

LEMMA SingleKind ==
    ASSUME NEW name, NEW cites
    PROVE  Kind({Chunk(<<name, 0>>, cites, {}, TRUE)}, {name})
<1> DEFINE c == Chunk(<<name, 0>>, cites, {}, TRUE)
<1>1. c.id = <<name, 0>> /\ c.tells = NoCount /\ c.eligible = TRUE
    BY DEF Chunk
<1> HIDE DEF c
<1>2. Kind({c}, {name})
    BY <1>1 DEF Kind
<1> QED
    BY <1>2 DEF c

(* The overview is the one chunk that tells a number of people.            *)
LEMMA OverviewKind ==
    \A c \in OverviewChunks :
        c.id = Overview /\ c.tells = OverviewCount /\ c.eligible = TRUE
<1>1. \A c \in OverviewChunks : \E cites :
        c = [Chunk(Overview, cites, {}, TRUE) EXCEPT !.tells = OverviewCount]
    BY DEF OverviewChunks
<1>2. ASSUME NEW cites, NEW c, c = [Chunk(Overview, cites, {}, TRUE) EXCEPT !.tells = OverviewCount]
      PROVE  c.id = Overview /\ c.tells = OverviewCount /\ c.eligible = TRUE
    BY <1>2 DEF Chunk
<1> QED
    BY <1>1, <1>2

(* The kinds of all chunks but the overview.                               *)
Names ==
    {"meeting-metadata", "speaker-stats", "participant-profile", "relationship-edge", "topic-summary",
     "summary-executive", "transcript-window"} \union SectionNames

Others == AllChunks \ OverviewChunks

LEMMA AllKinds ==
    /\ Kind(Others, Names)
    /\ \A c \in AllChunks : c.id[1] = "summary-executive" => c \in SummaryChunks
    /\ \A c \in AllChunks : c.id[1] = "transcript-window" => c \in TranscriptChunks
<1> DEFINE M == {MetadataChunk}
           S == {SpeakerChunk}
<1>1. Kind(M, {"meeting-metadata"}) /\ Kind(S, {"speaker-stats"})
    BY SingleKind DEF MetadataChunk, SpeakerChunk
<1> DEFINE All == M \union S \union ParticipantChunks \union LinkChunks \union TopicChunks
                    \union SummaryChunks \union TranscriptChunks \union RecordChunks
<1>2. AllChunks = All \union OverviewChunks
    BY DEF AllChunks
<1>3. /\ \A c \in M : c.id[1] = "meeting-metadata"
      /\ \A c \in S : c.id[1] = "speaker-stats"
      /\ \A c \in ParticipantChunks : c.id[1] = "participant-profile"
      /\ \A c \in LinkChunks : c.id[1] = "relationship-edge"
      /\ \A c \in TopicChunks : c.id[1] = "topic-summary"
      /\ \A c \in SummaryChunks : c.id[1] = "summary-executive"
      /\ \A c \in TranscriptChunks : c.id[1] = "transcript-window"
      /\ \A c \in RecordChunks : c.id[1] \in SectionNames
    BY <1>1, ParticipantKind, LinkKind, TopicKind, SummaryKind, TranscriptKind, RecordKind DEF Kind
<1>4. \A c \in OverviewChunks : c.id[1] = "participant-overview"
    BY OverviewKind DEF Overview
<1>p. {"meeting-metadata", "speaker-stats", "participant-profile", "relationship-edge",
       "topic-summary", "summary-executive", "transcript-window"} \cap SectionNames = {}
    BY DEF SectionNames, Recorded
<1> HIDE DEF M, S
<1>5. Kind(All, Names)
    <2>1. \A c \in All : /\ c.id[1] \in Names /\ c.tells = NoCount
                         /\ (\E i \in Segments : Evidence(i) \in c.cites) => c.eligible
        BY <1>1, <1>3, ParticipantKind, LinkKind, TopicKind, SummaryKind, TranscriptKind, RecordKind
           DEF Kind, Names
    <2>2. ASSUME NEW c \in All, NEW d \in All, c.id = d.id
          PROVE  c = d
        <3>1. CASE c \in M
            <4>1. d \in M
                BY <1>3, <1>p, <2>2, <3>1
            <4> QED
                BY <2>2, <3>1, <4>1, <1>1 DEF Kind
        <3>2. CASE c \in S
            <4>1. d \in S
                BY <1>3, <1>p, <2>2, <3>2
            <4> QED
                BY <2>2, <3>2, <4>1, <1>1 DEF Kind
        <3>3. CASE c \in ParticipantChunks
            <4>1. d \in ParticipantChunks
                BY <1>3, <1>p, <2>2, <3>3
            <4> QED
                BY <2>2, <3>3, <4>1, ParticipantKind DEF Kind
        <3>4. CASE c \in LinkChunks
            <4>1. d \in LinkChunks
                BY <1>3, <1>p, <2>2, <3>4
            <4> QED
                BY <2>2, <3>4, <4>1, LinkKind DEF Kind
        <3>5. CASE c \in TopicChunks
            <4>1. d \in TopicChunks
                BY <1>3, <1>p, <2>2, <3>5
            <4> QED
                BY <2>2, <3>5, <4>1, TopicKind DEF Kind
        <3>6. CASE c \in SummaryChunks
            <4>1. d \in SummaryChunks
                BY <1>3, <1>p, <2>2, <3>6
            <4> QED
                BY <2>2, <3>6, <4>1, SummaryKind DEF Kind
        <3>7. CASE c \in TranscriptChunks
            <4>1. d \in TranscriptChunks
                BY <1>3, <1>p, <2>2, <3>7
            <4> QED
                BY <2>2, <3>7, <4>1, TranscriptKind DEF Kind
        <3>8. CASE c \in RecordChunks
            <4>1. d \in RecordChunks
                BY <1>3, <1>p, <2>2, <3>8
            <4> QED
                BY <2>2, <3>8, <4>1, RecordKind DEF Kind
        <3> QED
            BY <3>1, <3>2, <3>3, <3>4, <3>5, <3>6, <3>7, <3>8
    <2> QED
        BY <2>1, <2>2 DEF Kind
<1>6. Others \subseteq All
    BY <1>2 DEF Others
<1>7. Kind(Others, Names)
    BY <1>5, <1>6 DEF Kind
<1>8. \A c \in AllChunks : c.id[1] = "summary-executive" => c \in SummaryChunks
    BY <1>2, <1>3, <1>4, <1>p
<1>9. \A c \in AllChunks : c.id[1] = "transcript-window" => c \in TranscriptChunks
    BY <1>2, <1>3, <1>4, <1>p
<1> QED
    BY <1>7, <1>8, <1>9

(* No two chunks have one id, and what has evidence is evidence.           *)
LEMMA ChunksApart ==
    /\ \A c, d \in AllChunks : c.id = d.id => c = d
    /\ \A c \in AllChunks : (\E i \in Segments : Evidence(i) \in c.cites) => c.eligible
<1>1. \A c \in Others : c.id[1] # "participant-overview"
    <2>1. "participant-overview" \notin Names
        BY DEF Names, SectionNames, Recorded
    <2> QED
        BY <2>1, AllKinds DEF Kind
<1>2. \A c \in OverviewChunks : c.id = Overview /\ c.id[1] = "participant-overview" /\ c.eligible = TRUE
    BY OverviewKind DEF Overview
<1>3. \A c, d \in OverviewChunks : c = d
    BY DEF OverviewChunks
<1>4. \A c \in AllChunks : c \in Others \/ c \in OverviewChunks
    BY DEF Others
<1> QED
    BY <1>1, <1>2, <1>3, <1>4, AllKinds DEF Kind

(* The number of people is that of the speakers, where there are any.      *)
LEMMA CountsTold ==
    ASSUME DerivedTrue, Labels # {}
    PROVE  \A c \in AllChunks : c.tells \in {NoCount, Cardinality(Labels)}
<1>1. PICK id \in DOMAIN result.records :
        result.records[id].section = "participants" /\ result.records[id].derived
    BY DEF DerivedTrue
<1>2. OverviewCount \in {NoCount, Cardinality(Labels)}
    BY <1>1 DEF OverviewCount
<1>3. \A c \in Others : c.tells = NoCount
    BY AllKinds DEF Kind
<1>4. \A c \in AllChunks : c \in Others \/ c.tells = OverviewCount
    BY OverviewKind DEF Others
<1> QED
    BY <1>2, <1>3, <1>4

LEMMA SnippetOut ==
    ASSUME SummaryWhole, result.summary.refs \subseteq Segments
    PROVE  \A c \in AllChunks :
            (c.id[1] = "summary-executive" /\ c.eligible) =>
                /\ \A w \in DOMAIN windows : replies[w].reply.executive.text \in {"words", "value"}
                /\ c.segments # {}
<1> SUFFICES ASSUME NEW c \in AllChunks, c.id[1] = "summary-executive", c.eligible
             PROVE  /\ \A w \in DOMAIN windows : replies[w].reply.executive.text \in {"words", "value"}
                    /\ c.segments # {}
    OBVIOUS
<1>1. /\ EvidenceOf(result.summary.refs) # {}
      /\ c.segments = {i \in Segments : Evidence(i) \in EvidenceOf(result.summary.refs)}
    BY AllKinds, SummaryKind
<1>2. PICK i \in result.summary.refs : Evidence(i) \in EvidenceOf(result.summary.refs)
    BY <1>1 DEF EvidenceOf
<1> QED
    BY <1>1, <1>2 DEF SummaryWhole

LEMMA SpeechFound ==
    ASSUME WInv, NEW i \in Spoken
    PROVE  Cardinality({c \in AllChunks : c.id[1] = "transcript-window" /\ i \in c.segments
                                          /\ Evidence(i) \in c.cites}) = 1
<1> DEFINE mine == {c \in AllChunks : c.id[1] = "transcript-window" /\ i \in c.segments
                                        /\ Evidence(i) \in c.cites}
           n == ((SpokenUpTo(i) - 1) \div PerChunk) + 1
           chunk == Chunk(<<"transcript-window", n>>, EvidenceOf(Part(n)), Part(n), TRUE)
<1>1. IsFiniteSet(Spoken) /\ Spoken \subseteq Int
    <2>1. Segments = 1 .. Len(transcript) /\ Len(transcript) \in Nat
        BY TranscriptIsSeq DEF WInv
    <2>2. IsFiniteSet(Segments)
        BY <2>1, FS_Interval
    <2> QED
        BY <2>1, <2>2, FS_Subset DEF Spoken
<1>2. SpokenUpTo(i) \in 1 .. Cardinality(Spoken) /\ Cardinality(Spoken) \in Nat
    <2> DEFINE upToHere == {j \in Spoken : j <= i}
    <2>1. IsFiniteSet(upToHere) /\ Cardinality(upToHere) <= Cardinality(Spoken)
        BY <1>1, FS_Subset
    <2>2. Cardinality(upToHere) \in Nat /\ Cardinality(Spoken) \in Nat
        BY <1>1, <2>1, FS_CardinalityType
    <2>3. i \in upToHere
        BY <1>1
    <2>4. Cardinality(upToHere) # 0
        BY <2>1, <2>3, FS_EmptySet
    <2> QED
        BY <2>1, <2>2, <2>4 DEF SpokenUpTo
<1>3. n \in 1 .. Cardinality(Spoken) /\ n - 1 = (SpokenUpTo(i) - 1) \div PerChunk
    BY <1>2 DEF PerChunk
<1>4. i \in Part(n) /\ n \in Parts
    BY <1>3 DEF Part, Parts
<1>5. chunk \in TranscriptChunks
    BY <1>4 DEF TranscriptChunks
<1>6. chunk \in mine
    <2>1. chunk \in AllChunks
        BY <1>5 DEF AllChunks
    <2>2. chunk.id = <<"transcript-window", n>> /\ i \in chunk.segments /\ chunk.cites = EvidenceOf(Part(n))
        BY <1>4 DEF Chunk
    <2>3. Evidence(i) \in EvidenceOf(Part(n))
        BY <1>4 DEF EvidenceOf
    <2> HIDE DEF chunk
    <2> QED
        BY <2>1, <2>2, <2>3
<1>7. ASSUME NEW c \in mine
      PROVE  c = chunk
    <2>1. c \in TranscriptChunks
        BY AllKinds
    <2>2. PICK m \in Parts : c = Chunk(<<"transcript-window", m>>, EvidenceOf(Part(m)), Part(m), TRUE)
        BY <2>1, TranscriptKind
    <2>3. Evidence(i) \in EvidenceOf(Part(m))
        BY <2>2 DEF Chunk
    <2>4. PICK j \in Part(m) : <<"evidence", i>> = <<"evidence", j>>
        BY <2>3 DEF EvidenceOf, Evidence
    <2>5. i \in Part(m)
        BY <2>4
    <2>6. (SpokenUpTo(i) - 1) \div PerChunk = m - 1 /\ m \in Int
        BY <2>5 DEF Part, Parts
    <2>7. m = n
        BY <1>2, <1>3, <2>6
    <2> QED
        BY <2>2, <2>7
<1> HIDE DEF mine, chunk
<1>8. mine = {chunk}
    BY <1>6, <1>7
<1>9. Cardinality(mine) = 1
    BY <1>8, FS_Singleton
<1> QED
    BY <1>9 DEF mine

(***************************************************************************)
(* The evidence of an answer                                               *)
(***************************************************************************)
(* What was read is of an index that was there; if it is still there, what *)
(* was read is in it.                                                      *)
ReadFine(r) ==
    /\ r.generation \in Nat /\ r.generation <= generation
    /\ r.generation = generation => r.chunk \in chunks

FactsFine(facts, gen) ==
    \A f \in facts :
        /\ f.refs # {}
        /\ \E i \in Segments : Evidence(i) \in f.chunk.cites
        /\ gen = generation => f.chunk \in chunks
        /\ f.type = "number" => f.chunk.tells # NoCount

LEMMA OneMore ==
    ASSUME NEW b, NEW goal, NEW gen, NEW r, FactsFine(b.facts, gen), ReadFine(r)
    PROVE  FactsFine(With(b, goal, gen, r).facts, gen)
<1> DEFINE located == {i \in Segments : Evidence(i) \in r.chunk.cites} \ b.seen
           refs == {i \in located : Cardinality({j \in located : j <= i}) <= RefLimit(goal)}
           fact == [chunk |-> r.chunk, refs |-> refs, type |-> ValueType(r.chunk)]
<1>1. CASE b.full \/ r.generation # gen \/ refs = {}
    BY <1>1 DEF With
<1>2. CASE ~(b.full \/ r.generation # gen \/ refs = {})
    <2>1. With(b, goal, gen, r).facts = b.facts \union {fact}
        BY <1>2 DEF With
    <2>2. fact.refs # {} /\ \E i \in Segments : Evidence(i) \in fact.chunk.cites
        BY <1>2
    <2>3. gen = generation => fact.chunk \in chunks
        BY <1>2 DEF ReadFine
    <2>4. fact.type = "number" => fact.chunk.tells # NoCount
        BY DEF ValueType
    <2> HIDE DEF fact
    <2> QED
        BY <2>1, <2>2, <2>3, <2>4 DEF FactsFine
<1> QED
    BY <1>1, <1>2

LEMMA BundleFine ==
    ASSUME NEW goal, NEW gen, NEW R, NEW reads \in Seq(R), \A k \in DOMAIN reads : ReadFine(reads[k])
    PROVE  FactsFine(Bundle(goal, gen, reads), gen)
<1> DEFINE n == Len(reads)
           Body(f, m) == [k \in 0 .. m |-> IF k = 0 THEN Empty ELSE With(f[k - 1], goal, gen, reads[k])]
<1>1. n \in Nat /\ DOMAIN reads = 1 .. n
    OBVIOUS
<1>2. \A m \in Nat : \E f : f = Body(f, m)
    <2> DEFINE Bad == {m \in Nat : ~ \E f : f = Body(f, m)}
    <2> SUFFICES ASSUME Bad # {}
                 PROVE  FALSE
        OBVIOUS
    <2>1. PICK m \in Bad : \A k \in Bad : m <= k
        BY SmallestOf
    <2>2. CASE m = 0
        <3> DEFINE f == [k \in 0 .. 0 |-> Empty]
        <3>1. f = Body(f, 0)
            OBVIOUS
        <3> QED
            BY <2>1, <2>2, <3>1
    <2>3. CASE m # 0
        <3>1. m - 1 \in Nat /\ m - 1 \notin Bad
            <4>1. m \in Nat /\ m - 1 \in Nat
                BY <2>3
            <4> HIDE DEF Bad
            <4> QED
                BY <2>1, <4>1
        <3>2. PICK f : f = Body(f, m - 1)
            BY <3>1
        <3> DEFINE g == Body(f, m)
        <3>3. \A k \in 0 .. m : k # 0 => k - 1 \in 0 .. (m - 1)
            BY <3>1
        <3>4. \A k \in 0 .. (m - 1) : g[k] = f[k]
            BY <3>1, <3>2
        <3> HIDE DEF g
        <3>5. Body(g, m) = Body(f, m)
            BY <3>3, <3>4
        <3> QED
            BY <2>1, <3>5 DEF g
    <2> QED
        BY <2>2, <2>3
<1> DEFINE after == CHOOSE f : f = Body(f, n)
<1>3. Bundle(goal, gen, reads) = after[n].facts
    BY DEF Bundle
<1>4. after = Body(after, n)
    BY <1>1, <1>2
<1> HIDE DEF after
<1>5. /\ after[0] = Empty
      /\ \A k \in 1 .. n : after[k] = With(after[k - 1], goal, gen, reads[k])
    BY <1>1, <1>4
<1>6. \A k \in 0 .. n : FactsFine(after[k].facts, gen)
    <2> DEFINE Bad == {k \in 0 .. n : ~FactsFine(after[k].facts, gen)}
    <2> SUFFICES ASSUME Bad # {}
                 PROVE  FALSE
        OBVIOUS
    <2>1. Bad \in SUBSET Nat
        BY <1>1
    <2>2. PICK m \in Bad : \A k \in Bad : m <= k
        BY <2>1, SmallestOf
    <2>3. CASE m = 0
        BY <1>5, <2>2, <2>3 DEF Empty, FactsFine
    <2>4. CASE m # 0
        <3>1. m \in 1 .. n /\ m - 1 \in 0 .. n /\ m - 1 \notin Bad
            BY <1>1, <2>2, <2>4
        <3>2. FactsFine(after[m - 1].facts, gen) /\ ReadFine(reads[m])
            BY <1>1, <3>1
        <3> QED
            BY <1>5, <2>2, <3>1, <3>2, OneMore
    <2> QED
        BY <2>3, <2>4
<1> QED
    BY <1>1, <1>3, <1>6

(***************************************************************************)
(* The invariant of the whole                                              *)
(***************************************************************************)
IndexFine ==
    /\ generation \in Nat /\ generation <= runs
    /\ \A c \in chunks :
        /\ (\E i \in Segments : Evidence(i) \in c.cites) => c.eligible
        /\ Labels # {} => c.tells \in {NoCount, Cardinality(Labels)}

Reading == {"chunks", "vectors", "rows", "pins", "synthesis", "fence"}

FactsShape == turn = [stage |-> turn.stage, goal |-> turn.goal, generation |-> turn.generation,
                      facts |-> turn.facts, attempt |-> turn.attempt]

HitsShape == turn = [stage |-> turn.stage, goal |-> turn.goal, generation |-> turn.generation,
                     hits |-> turn.hits]

ClaimsShape == turn = [stage |-> turn.stage, goal |-> turn.goal, generation |-> turn.generation,
                       facts |-> turn.facts, claims |-> turn.claims, told |-> turn.told]

(* What the model put into words was verified against what it was given.   *)
ClaimsFine ==
    /\ turn.claims \subseteq turn.facts
    /\ ~IsDirect => turn.claims # {}
    /\ Locked(turn.facts) \subseteq turn.claims
    /\ Locked(turn.facts) # {} => turn.told

TurnFine ==
    /\ turn.stage \in Working \union Ended
    /\ turn.stage \in Reading => turn.generation \in Nat /\ turn.generation <= generation
    /\ turn.stage \in {"rows", "pins"} => HitsShape /\ \A r \in turn.hits : ReadFine(r)
    /\ turn.stage \in {"synthesis", "fence"} => FactsFine(turn.facts, turn.generation)
    /\ turn.stage = "synthesis" => FactsShape /\ (IsDirect \/ turn.facts # {})
    /\ turn.stage \in {"fence", "release"} => ClaimsShape
    /\ turn.stage = "fence" => ClaimsFine

FInv == KInv /\ IndexFine /\ TurnFine

LEMMA FlowBegins ==
    ASSUME FlowInit
    PROVE  FInv
<1>1. KInv
    BY ExtractionBegins DEF FlowInit
<1>2. IndexFine
    BY <1>1, RunsAssumption DEF FlowInit, IndexFine, KInv, WInv, WindowsTyped
<1>3. TurnFine
    BY DEF FlowInit, AnswerInit, NoTurn, TurnFine, Ended, Working, Reading
<1> QED
    BY <1>1, <1>2, <1>3 DEF FInv

(* The pipeline goes on: the transcript stays what it is.                  *)
LEMMA TranscriptStays ==
    ASSUME KInv, [Next]_vars
    PROVE  transcript' = transcript /\ runs' \in {runs, runs + 1}
<1>1. CASE Split
    BY <1>1 DEF Split, WindowNext, TakeSegment, CloseLast
<1>2. CASE Retry
    BY <1>2, RestoresWhole DEF Retry, KInv
<1>3. CASE Checkpoint \/ (\E p \in Threads : Ask(p)) \/ Notice \/ Fail \/ Reduce
          \/ ReduceRaises \/ Validate \/ UNCHANGED vars
    <2>1. UNCHANGED <<windowVars, runs>>
        BY <1>3 DEF Checkpoint, Ask, Notice, Fail, Reduce, ReduceRaises, Validate, vars
    <2> QED
        BY <2>1 DEF windowVars
<1> QED
    BY <1>1, <1>2, <1>3 DEF Next

LEMMA PipelineKeeps ==
    ASSUME FInv, [Next]_vars, UNCHANGED <<indexVars, answerVars>>
    PROVE  FInv'
<1>1. KInv'
    BY NextKeeps DEF FInv
<1>2. transcript' = transcript /\ runs' \in {runs, runs + 1}
    BY TranscriptStays DEF FInv
<1>3. Segments' = Segments /\ Labels' = Labels
    BY <1>2 DEF Segments, Labels
<1>4. UNCHANGED <<chunks, generation, turn, anchor, asked>>
    BY DEF indexVars, answerVars
<1>5. runs \in Nat
    <2>1. transcript \in Transcripts /\ runs \in 1 .. RunsOn(transcript)
        BY DEF FInv, KInv, WInv, WindowsTyped
    <2> QED
        BY <2>1, RunsAssumption
<1>6. IndexFine'
    BY <1>2, <1>3, <1>4, <1>5 DEF FInv, IndexFine
<1>7. TurnFine'
    BY <1>3, <1>4 DEF FInv, TurnFine, HitsShape, FactsShape, ClaimsShape, ClaimsFine, ReadFine, FactsFine,
                      IsDirect
<1> QED
    BY <1>1, <1>6, <1>7 DEF FInv

LEMMA IndexingKeeps ==
    ASSUME FInv, BuildChunks, UNCHANGED answerVars
    PROVE  FInv'
<1>1. /\ phase = "stored" /\ generation # runs /\ chunks' = AllChunks /\ generation' = runs
      /\ UNCHANGED vars
    BY DEF BuildChunks
<1>2. KInv'
    BY <1>1, QuietKeeps DEF FInv
<1>3. UNCHANGED <<transcript, runs, turn, anchor, asked>>
    BY <1>1 DEF vars, windowVars, answerVars
<1>4. Segments' = Segments /\ Labels' = Labels
    BY <1>3 DEF Segments, Labels
<1>5. runs \in Nat /\ generation \in Nat /\ generation < runs
    <2>1. transcript \in Transcripts /\ runs \in 1 .. RunsOn(transcript)
        BY DEF FInv, KInv, WInv, WindowsTyped
    <2>2. generation \in Nat /\ generation <= runs
        BY DEF FInv, IndexFine
    <2> QED
        BY <1>1, <2>1, <2>2, RunsAssumption
<1>6. IndexFine'
    <2>1. DerivedTrue
        BY <1>1 DEF FInv, KInv, Over, ResultFine
    <2>2. \A c \in AllChunks :
            /\ (\E i \in Segments : Evidence(i) \in c.cites) => c.eligible
            /\ Labels # {} => c.tells \in {NoCount, Cardinality(Labels)}
        BY <2>1, ChunksApart, CountsTold
    <2> QED
        BY <1>1, <1>3, <1>4, <1>5, <2>2 DEF IndexFine
<1>7. TurnFine'
    <2>1. TurnFine
        BY DEF FInv
    <2>2. \A r : ReadFine(r) => ReadFine(r)'
        BY <1>1, <1>5 DEF ReadFine
    <2>3. turn.stage \in Reading =>
            turn.generation \in Nat /\ turn.generation <= generation' /\ turn.generation # generation'
        BY <1>1, <1>5, <2>1 DEF TurnFine
    <2>4. turn.stage \in {"synthesis", "fence"} => FactsFine(turn.facts, turn.generation)'
        BY <1>3, <1>4, <2>1, <2>3 DEF TurnFine, FactsFine, Reading
    <2> QED
        BY <1>3, <2>1, <2>2, <2>3, <2>4 DEF TurnFine, HitsShape, FactsShape, ClaimsShape, ClaimsFine,
                                            IsDirect
<1> QED
    BY <1>2, <1>6, <1>7 DEF FInv

(***************************************************************************)
(* The steps of an answer                                                  *)
(***************************************************************************)
(* The index and the transcript are as they were.                          *)
IndexStays ==
    /\ UNCHANGED <<generation, chunks>>
    /\ Segments' = Segments
    /\ \A r : ReadFine(r)' <=> ReadFine(r)
    /\ \A facts, gen : FactsFine(facts, gen)' <=> FactsFine(facts, gen)

LEMMA StaysFine ==
    ASSUME UNCHANGED <<vars, indexVars>>
    PROVE  IndexStays
BY DEF IndexStays, vars, windowVars, indexVars, Segments, ReadFine, FactsFine

LEMMA EvidenceFine ==
    ASSUME IndexStays, NEW gen \in Nat, gen <= generation, NEW R, NEW reads \in Seq(R),
           \A k \in DOMAIN reads : ReadFine(reads[k]), turn' = WithEvidence(gen, reads)
    PROVE  TurnFine'
<1> DEFINE facts == IF IsDirect THEN {} ELSE Bundle(turn.goal, gen, reads)
<1>1. FactsFine(facts, gen)
    BY BundleFine DEF FactsFine
<1>2. turn' = IF facts = {} /\ ~IsDirect THEN [stage |-> "insufficient"]
              ELSE [stage |-> "synthesis", goal |-> turn.goal, generation |-> gen, facts |-> facts,
                    attempt |-> 1]
    BY DEF WithEvidence
<1> HIDE DEF facts
<1>3. CASE facts = {} /\ ~IsDirect
    BY <1>2, <1>3 DEF TurnFine, Working, Ended, Reading
<1>4. CASE ~(facts = {} /\ ~IsDirect)
    <2>1. turn' = [stage |-> "synthesis", goal |-> turn.goal, generation |-> gen, facts |-> facts,
                   attempt |-> 1]
        BY <1>2, <1>4
    <2>2. IsDirect' <=> IsDirect
        BY <2>1 DEF IsDirect
    <2>3. FactsFine(turn.facts, turn.generation)'
        BY <1>1, <2>1 DEF IndexStays
    <2>4. FactsShape'
        BY <2>1 DEF FactsShape
    <2> QED
        BY <1>4, <2>1, <2>2, <2>3, <2>4 DEF IndexStays, TurnFine, Working, Ended, Reading
<1> QED
    BY <1>3, <1>4

LEMMA SomeOfAre ==
    ASSUME NEW cs, NEW found \in SomeOf(cs)
    PROVE  found \subseteq cs
BY DEF SomeOf, kSubset

LEMMA FusedAre ==
    ASSUME NEW pool, NEW others, NEW best \in Fused(pool, others)
    PROVE  best \subseteq pool \union others
BY DEF Fused, kSubset

(* What is read now is of the index that is there.                         *)
LEMMA NowRead ==
    ASSUME IndexFine, NEW c \in chunks
    PROVE  ReadFine(Read(c))
BY DEF IndexFine, ReadFine, Read

LEMMA ChunksReadFine ==
    ASSUME FInv, IndexStays, ReadChunks
    PROVE  TurnFine'
<1>1. PICK found \in Matching(turn.goal) : \E cs \in Orders(found) :
        turn' = IF found # {} \/ IsDirect
                THEN WithEvidence(turn.generation, FirstReads(cs))
                ELSE [stage |-> "vectors", goal |-> turn.goal, generation |-> turn.generation]
    BY DEF ReadChunks
<1>2. PICK cs \in Orders(found) :
        turn' = IF found # {} \/ IsDirect
                THEN WithEvidence(turn.generation, FirstReads(cs))
                ELSE [stage |-> "vectors", goal |-> turn.goal, generation |-> turn.generation]
    BY <1>1
<1>3. turn.generation \in Nat /\ turn.generation <= generation
    BY DEF ReadChunks, FInv, TurnFine, Reading
<1>4. CASE found # {} \/ IsDirect
    <2>1. cs \in Seq(found) /\ found \subseteq chunks
        BY DEF Orders, Matching
    <2> DEFINE limit == Min({Len(cs), Selected})
    <2>2. limit \in Nat /\ limit <= Len(cs)
        <3>1. Len(cs) \in Nat /\ Selected \in Nat
            BY <2>1 DEF Selected
        <3>2. \E x \in {Len(cs), Selected} : \A y \in {Len(cs), Selected} : x <= y
            BY <3>1
        <3>3. limit \in {Len(cs), Selected} /\ \A y \in {Len(cs), Selected} : limit <= y
            BY <3>2 DEF Min
        <3> HIDE DEF limit
        <3> QED
            BY <3>1, <3>3
    <2>3. FirstReads(cs) = [k \in 1 .. limit |-> Read(cs[k])]
        BY DEF FirstReads
    <2> HIDE DEF limit
    <2>4. \A k \in 1 .. limit : cs[k] \in chunks
        BY <2>1, <2>2
    <2>5. FirstReads(cs) \in Seq({Read(c) : c \in chunks})
        BY <2>2, <2>3, <2>4
    <2>6. \A k \in DOMAIN FirstReads(cs) : ReadFine(FirstReads(cs)[k])
        BY <2>3, <2>4, NowRead DEF FInv
    <2>7. turn' = WithEvidence(turn.generation, FirstReads(cs))
        BY <1>2, <1>4
    <2> QED
        BY <1>3, <2>5, <2>6, <2>7, EvidenceFine
<1>5. CASE ~(found # {} \/ IsDirect)
    BY <1>2, <1>3, <1>5 DEF IndexStays, TurnFine, Working, Ended, Reading
<1> QED
    BY <1>4, <1>5

LEMMA SearchFine ==
    ASSUME FInv, IndexStays, SearchVectors \/ SearchRows \/ SearchPins
    PROVE  TurnFine'
<1>1. turn.generation \in Nat /\ turn.generation <= generation
    BY DEF SearchVectors, SearchRows, SearchPins, FInv, TurnFine, Reading
<1>2. \A cs \in SUBSET chunks : \A r \in {Read(c) : c \in cs} : ReadFine(r)
    BY NowRead DEF FInv
<1>3. CASE SearchVectors
    <2>1. PICK found \in SomeOf(chunks) :
            turn' = [stage |-> "rows", goal |-> turn.goal, generation |-> turn.generation,
                     hits |-> {Read(c) : c \in found}]
        BY <1>3 DEF SearchVectors
    <2>2. \A r \in turn'.hits : ReadFine(r)
        BY <1>2, <2>1, SomeOfAre
    <2> QED
        BY <1>1, <2>1, <2>2 DEF IndexStays, TurnFine, HitsShape, Working, Ended, Reading
<1>4. CASE SearchRows
    <2>1. PICK lexical \in LexicalHits : \E best \in Fused(turn.hits, lexical) :
            turn' = [turn EXCEPT !.stage = "pins", !.hits = best]
        BY <1>4 DEF SearchRows
    <2>2. PICK best \in Fused(turn.hits, lexical) : turn' = [turn EXCEPT !.stage = "pins", !.hits = best]
        BY <2>1
    <2>3. \A r \in lexical : ReadFine(r)
        BY <1>2, SomeOfAre DEF LexicalHits
    <2>4. turn.stage = "rows" /\ HitsShape /\ \A r \in turn.hits : ReadFine(r)
        BY <1>4 DEF SearchRows, FInv, TurnFine
    <2>5. \A r \in best : ReadFine(r)
        BY <2>3, <2>4, FusedAre
    <2>6. turn' = [stage |-> "pins", goal |-> turn.goal, generation |-> turn.generation, hits |-> best]
        BY <2>2, <2>4 DEF HitsShape
    <2> QED
        BY <1>1, <2>5, <2>6 DEF IndexStays, TurnFine, HitsShape, Working, Ended, Reading
<1>5. CASE SearchPins
    <2>1. PICK pinned \in Pins : \E best \in Fused(turn.hits, pinned) :
            \E ranked \in Orders(best) : turn' = WithEvidence(turn.generation, ranked)
        BY <1>5 DEF SearchPins
    <2>2. PICK best \in Fused(turn.hits, pinned) :
            \E ranked \in Orders(best) : turn' = WithEvidence(turn.generation, ranked)
        BY <2>1
    <2>3. PICK ranked \in Orders(best) : turn' = WithEvidence(turn.generation, ranked)
        BY <2>2
    <2>4. \A r \in pinned : ReadFine(r)
        <3>1. PICK cs \in SomeOf({c \in chunks : c.id[1] # "transcript-window"}) :
                pinned = {Read(c) : c \in cs}
            BY DEF Pins
        <3>2. cs \subseteq chunks
            BY SomeOfAre
        <3> QED
            BY <1>2, <3>1, <3>2
    <2>5. \A r \in turn.hits : ReadFine(r)
        BY <1>5 DEF SearchPins, FInv, TurnFine
    <2>6. \A r \in best : ReadFine(r)
        BY <2>4, <2>5, FusedAre
    <2>7. ranked \in Seq(best) /\ \A k \in DOMAIN ranked : ranked[k] \in best
        BY DEF Orders
    <2> QED
        BY <1>1, <2>3, <2>6, <2>7, EvidenceFine
<1> QED
    BY <1>3, <1>4, <1>5

LEMMA SynthesizeFine ==
    ASSUME FInv, IndexStays, Synthesize
    PROVE  TurnFine'
<1>1. /\ turn.stage = "synthesis" /\ FactsShape /\ (IsDirect \/ turn.facts # {})
      /\ turn.generation \in Nat /\ turn.generation <= generation
      /\ FactsFine(turn.facts, turn.generation)
    BY DEF Synthesize, FInv, TurnFine, Reading
<1>2. CASE turn' = [stage |-> "error"]
    BY <1>2 DEF TurnFine, Working, Ended, Reading
<1>3. CASE turn' = [turn EXCEPT !.attempt = @ + 1]
    <2>1. turn' = [stage |-> "synthesis", goal |-> turn.goal, generation |-> turn.generation,
                   facts |-> turn.facts, attempt |-> turn.attempt + 1]
        BY <1>1, <1>3 DEF FactsShape
    <2>2. FactsShape' /\ (IsDirect' <=> IsDirect)
        BY <2>1 DEF FactsShape, IsDirect
    <2>3. FactsFine(turn.facts, turn.generation)'
        BY <1>1, <2>1 DEF IndexStays
    <2> QED
        BY <1>1, <2>1, <2>2, <2>3 DEF IndexStays, TurnFine, Working, Ended, Reading
<1>4. ASSUME NEW reply \in [claims : SUBSET turn.facts, tells : BOOLEAN, sound : BOOLEAN],
             Verified(turn.facts, reply),
             turn' = [stage |-> "fence", goal |-> turn.goal, generation |-> turn.generation,
                      facts |-> turn.facts, claims |-> reply.claims, told |-> reply.tells]
      PROVE  TurnFine'
    <2>1. ClaimsShape' /\ (IsDirect' <=> IsDirect)
        BY <1>4 DEF ClaimsShape, IsDirect
    <2>2. FactsFine(turn.facts, turn.generation)'
        BY <1>1, <1>4 DEF IndexStays
    <2>3. ClaimsFine'
        BY <1>1, <1>4, <2>1 DEF ClaimsFine, Verified, Locked
    <2> QED
        BY <1>1, <1>4, <2>1, <2>2, <2>3 DEF IndexStays, TurnFine, Working, Ended, Reading
<1> QED
    BY <1>2, <1>3, <1>4 DEF Synthesize

LEMMA AnsweringFine ==
    ASSUME FInv, IndexStays, Answering
    PROVE  TurnFine'
<1>1. ASSUME NEW question, Receive(question)
      PROVE  TurnFine'
    BY <1>1 DEF Receive, Refusals, TurnFine, Working, Ended, Reading
<1>2. CASE ReadGeneration
    BY <1>2 DEF ReadGeneration, FInv, IndexFine, IndexStays, TurnFine, Working, Ended, Reading
<1>3. CASE Fence
    <2>1. turn.stage = "fence" /\ ClaimsShape /\ turn' = [turn EXCEPT !.stage = "release"]
        BY <1>3 DEF Fence, FInv, TurnFine
    <2>2. turn' = [stage |-> "release", goal |-> turn.goal, generation |-> turn.generation,
                   facts |-> turn.facts, claims |-> turn.claims, told |-> turn.told]
        BY <2>1 DEF ClaimsShape
    <2> QED
        BY <2>2 DEF TurnFine, ClaimsShape, Working, Ended, Reading
<1>4. CASE Release
    <2>1. turn.stage = "release" /\ ClaimsShape
        BY <1>4 DEF Release, FInv, TurnFine
    <2>2. PICK end \in Refusals \union {"direct", "grounded"} :
            turn' = IF end \in {"direct", "grounded"} THEN [turn EXCEPT !.stage = end] ELSE [stage |-> end]
        BY <1>4 DEF Release
    <2>3. turn'.stage = end
        BY <2>1, <2>2 DEF ClaimsShape
    <2> QED
        BY <2>3 DEF Refusals, TurnFine, Working, Ended, Reading
<1>5. CASE Raise
    <2>1. turn'.stage \in {"generation"} \union Refusals
        BY <1>5 DEF Raise
    <2> QED
        BY <2>1 DEF Refusals, TurnFine, Working, Ended, Reading
<1> QED
    BY <1>1, <1>2, <1>3, <1>4, <1>5, ChunksReadFine, SearchFine, SynthesizeFine DEF Answering

LEMMA AnsweringKeeps ==
    ASSUME FInv, Answering, UNCHANGED <<vars, indexVars>>
    PROVE  FInv'
<1>1. IndexStays
    BY StaysFine
<1>2. KInv'
    BY QuietKeeps DEF FInv
<1>3. IndexFine'
    BY DEF FInv, IndexFine, vars, windowVars, indexVars, Segments, Labels
<1> QED
    BY <1>1, <1>2, <1>3, AnsweringFine DEF FInv

LEMMA FlowKeeps ==
    ASSUME FInv, [FlowNext]_flowVars
    PROVE  FInv'
BY PipelineKeeps, IndexingKeeps, AnsweringKeeps DEF FlowNext, flowVars

(***************************************************************************)
(* The theorems                                                            *)
(***************************************************************************)
(* The invariant the theorems below are drawn from: every step of the      *)
(* pipeline, of the index and of the answers keeps it.                     *)
THEOREM FlowInvariant == FlowSpec => []FInv
<1>1. FlowInit => FInv
    BY FlowBegins
<1>2. FInv /\ [FlowNext]_flowVars => FInv'
    BY FlowKeeps
<1> QED
    BY <1>1, <1>2, PTL DEF FlowSpec

(* The windows, the calls, the checkpoints and the result have the shape   *)
(* that the code relies on, whatever the models say and however many       *)
(* threads there are.                                                      *)
THEOREM FlowTyped == FlowSpec => []TypeOK
<1>1. FInv => TypeOK
    BY KInvTyped DEF FInv
<1> QED
    BY <1>1, FlowInvariant, PTL

(* TranscriptWindowService.build: a window is within the hard limit unless *)
(* it is one segment, no segment is lost, and none of the windows is made  *)
(* of what the ones before it have.                                        *)
THEOREM FlowWindows == FlowSpec => []WindowsSound
<1>1. FInv => WindowsSound
    BY KInvSafe DEF FInv
<1> QED
    BY <1>1, FlowInvariant, PTL

(* latest_transcript_checkpoint: the transcript put together from the      *)
(* overlapping rows is the transcript.                                     *)
THEOREM FlowRestores == FlowSpec => []CheckpointRestores
<1>1. FInv => CheckpointRestores
    BY KInvSafe DEF FInv
<1> QED
    BY <1>1, FlowInvariant, PTL

(* build_result and FallbackLLMProvider: the source stored with the answer *)
(* of a window is who gave it, for any number of threads that share the    *)
(* provider, and the names of the result row are of somebody who answered. *)
THEOREM FlowProvenance == FlowSpec => []ProvenanceTrue
<1>1. FInv => ProvenanceTrue
    BY KInvSafe DEF FInv
<1> QED
    BY <1>1, FlowInvariant, PTL

(* IntelligenceReducer: the evidence of a record, if it was cited in       *)
(* lists, is in windows whose answers state it.                            *)
THEOREM FlowEvidence == FlowSpec => []EvidenceSeenByModel
<1>1. FInv => EvidenceSeenByModel
    BY KInvSafe DEF FInv
<1> QED
    BY <1>1, FlowInvariant, PTL

(* IntelligenceReducer: what has evidence is in the result with all of it, *)
(* however records are merged and whatever fields and script they are in,  *)
(* but for a decision of the signature of an action that is.               *)
THEOREM FlowClaims == FlowSpec => []CitedClaimsSurvive
<1>1. FInv => CitedClaimsSurvive
    BY KInvSafe DEF FInv
<1> QED
    BY <1>1, FlowInvariant, PTL

(* _validate_unified_result rejects what the reducer made only for what    *)
(* the model said: a link to a record that is not there, evidence that is  *)
(* no list and names nothing, or null for every summary.                   *)
THEOREM FlowRejects == FlowSpec => []RejectedForCause
<1>1. FInv => RejectedForCause
    BY KInvSafe DEF FInv
<1> QED
    BY <1>1, FlowInvariant, PTL

LEMMA IndexStep ==
    ASSUME FInv, [FlowNext]_flowVars, generation' # generation
    PROVE  (SpeechIsIndexed /\ SnippetIsNoEvidence /\ CountsAgree)'
<1>1. BuildChunks
    BY DEF FlowNext, flowVars, indexVars
<1>2. /\ phase = "stored" /\ chunks' = AllChunks
      /\ UNCHANGED <<transcript, windows, replies, result>>
    BY <1>1 DEF BuildChunks, vars, windowVars, callVars
<1>3. KInv /\ WInv /\ ResultFine
    BY <1>2 DEF FInv, KInv, Over
<1>4. Segments' = Segments /\ Labels' = Labels /\ Spoken' = Spoken
    BY <1>2 DEF Segments, Labels, Spoken
<1>5. SpeechIsIndexed'
    BY <1>2, <1>3, <1>4, SpeechFound, ChunksApart DEF SpeechIsIndexed
<1>6. SnippetIsNoEvidence'
    BY <1>2, <1>3, SnippetOut DEF ResultFine, LineageValid, SnippetIsNoEvidence
<1>7. CountsAgree'
    BY <1>2, <1>3, <1>4, CountsTold DEF ResultFine, DerivedTrue, CountsAgree
<1> QED
    BY <1>5, <1>6, <1>7

(* RetrievalChunkBuilder: every index that is ever written holds what was  *)
(* said, once, takes no beginning of the transcript for a summary of it,   *)
(* and never tells two numbers of people.                                  *)
THEOREM FlowIndex == FlowSpec => IndexSound
<1>1. FInv /\ [FlowNext]_flowVars =>
        [generation' # generation => (SpeechIsIndexed /\ SnippetIsNoEvidence /\ CountsAgree)']_indexVars
    BY IndexStep
<1> QED
    BY <1>1, FlowInvariant, PTL DEF FlowSpec, IndexSound

LEMMA AnswerStep ==
    ASSUME FInv, [FlowNext]_flowVars, turn.stage = "fence", turn'.stage = "release", ~IsDirect
    PROVE  /\ turn.claims # {}
           /\ \A f \in turn.claims : f.chunk \in chunks /\ f.chunk.eligible /\ f.refs # {}
           /\ \A f \in turn.facts : f.type = "number" =>
                /\ f \in turn.claims /\ turn.told
                /\ Labels # {} => f.chunk.tells = Cardinality(Labels)
<1>1. ClaimsFine /\ FactsFine(turn.facts, turn.generation) /\ IndexFine
    BY DEF FInv, TurnFine
<1>2. turn.generation = generation
    <2>1. turn' # turn
        OBVIOUS
    <2>2. Answering
        BY <2>1 DEF FlowNext, flowVars, answerVars
    <2>3. Fence \/ Raise
        BY <2>2 DEF Answering, Receive, ReadGeneration, ReadChunks, SearchVectors, SearchRows, SearchPins,
                    Synthesize, Release, Ended
    <2>4. ~Raise
        BY DEF Raise, Refusals
    <2> QED
        BY <2>3, <2>4 DEF Fence, SameGeneration
<1>3. \A f \in turn.facts : f.chunk \in chunks /\ f.chunk.eligible /\ f.refs # {}
    BY <1>1, <1>2 DEF FactsFine, IndexFine
<1>4. ASSUME NEW f \in turn.facts, f.type = "number"
      PROVE  /\ f \in turn.claims /\ turn.told
             /\ Labels # {} => f.chunk.tells = Cardinality(Labels)
    <2>1. f \in Locked(turn.facts)
        BY <1>4 DEF Locked
    <2>2. Labels # {} => f.chunk.tells = Cardinality(Labels)
        BY <1>1, <1>3, <1>4 DEF FactsFine, IndexFine
    <2> QED
        BY <1>1, <2>1, <2>2 DEF ClaimsFine
<1> QED
    BY <1>1, <1>3, <1>4 DEF ClaimsFine

(* GroundedAnswerPipeline: an answer that passes the last read rests on    *)
(* evidence that is in the index at that moment, however often the index   *)
(* was replaced while it was made, and tells the number of speakers as it  *)
(* is.                                                                     *)
THEOREM FlowAnswers == FlowSpec => AnswersGrounded
<1>1. FInv /\ [FlowNext]_flowVars =>
        [(turn.stage = "fence" /\ turn'.stage = "release" /\ ~IsDirect) =>
            /\ turn.claims # {}
            /\ \A f \in turn.claims : f.chunk \in chunks /\ f.chunk.eligible /\ f.refs # {}
            /\ \A f \in turn.facts : f.type = "number" =>
                /\ f \in turn.claims /\ turn.told
                /\ Labels # {} => f.chunk.tells = Cardinality(Labels)]_answerVars
    BY AnswerStep
<1> QED
    BY <1>1, FlowInvariant, PTL DEF FlowSpec, AnswersGrounded

(* FallbackLLMProvider and HierarchicalExtractionService: the fallback has *)
(* one request at a time, and while windows are asked about there is       *)
(* always somebody who goes on, whatever is raised and however many        *)
(* threads there are.                                                      *)
THEOREM FlowAsking == FlowSpec => []AskingGoesOn
<1>1. FlowInit => AskInv
    BY AskingBegins DEF FlowInit, Init
<1>2. FInv /\ AskInv /\ [FlowNext]_flowVars => AskInv'
    <2>1. ASSUME AskInv, UNCHANGED vars
          PROVE  AskInv'
        BY <2>1, QuietAsking DEF vars, windowVars
    <2> QED
        BY <2>1, NextKeepsAsking DEF FInv, FlowNext, flowVars, BuildChunks
<1>3. FInv /\ AskInv => AskingGoesOn
    BY AskingFine DEF FInv, AskingGoesOn
<1> QED
    BY <1>1, <1>2, <1>3, FlowInvariant, PTL DEF FlowSpec
=============================================================================
