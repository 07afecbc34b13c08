--------------------------- MODULE KnowledgeChunks ---------------------------
(***************************************************************************)
(* services/retrieval/chunk_builder.py: the stored result becomes the      *)
(* chunks that are searched.  A chunk is its id (the section and a number  *)
(* in it), its citations, the segments it can be played from, whether an   *)
(* answer may rest on it, and the number of people it tells.  A citation   *)
(* is an evidence item, which has segments, or the name of something in    *)
(* the result, which has none.                                             *)
(*                                                                         *)
(* FullPartsOnly is a mistake the code does not make: it stands before the *)
(* definition it would replace.                                            *)
(***************************************************************************)
EXTENDS KnowledgeExtraction

CONSTANTS
    Attends,   \* the claims of participants who are attendees by the model
    Mentioned  \* the claims of participants who are only mentioned

VARIABLES
    chunks,     \* what is indexed
    generation  \* the run whose result it is; 0: there is no index

indexVars == <<chunks, generation>>

PerChunk == 3     \* segments in a transcript chunk
NoCount  == -1

Evidence(i)  == <<"evidence", i>>
Json(name)   == <<"json", name>>
Overview     == <<"participant-overview", 0>>

EvidenceOf(refs) == {Evidence(i) : i \in refs}

(* _chunk: the segments of its citations, and those it was given.          *)
Chunk(id, cites, own, eligible) ==
    [id |-> id, cites |-> cites, eligible |-> eligible,
     segments |-> {i \in Segments : Evidence(i) \in cites} \union own, tells |-> NoCount]

(* _structured_citation_ids: what has no evidence cites itself.            *)
CitesOf(id) ==
    IF result.records[id].refs # {} THEN EvidenceOf(result.records[id].refs) ELSE {Json(id)}

(* _canonical_record_view: the records of a section in their order, what   *)
(* the transcript itself says after what the model said.                   *)
View(section) ==
    LET r == result.records
        Spoke(id) == Min(r[id].refs)
        Precedes(a, b) ==
            IF r[a].derived = r[b].derived
            THEN IF r[a].derived THEN Spoke(a) < Spoke(b) ELSE Before(r[a].place, r[b].place)
            ELSE r[b].derived
    IN  SetToSortSeq({id \in DOMAIN r : r[id].section = section}, Precedes)

MetadataChunk == Chunk(<<"meeting-metadata", 0>>, {Json(Meeting)}, {}, TRUE)

SpeakerChunk == Chunk(<<"speaker-stats", 0>>, {Json(<<"speaker-stats", 0>>)}, {}, TRUE)

(* A profile for each participant.                                         *)
ParticipantChunks ==
    LET people == View("participants")
    IN  {Chunk(<<"participant-profile", k>>, CitesOf(people[k]), {}, TRUE) : k \in DOMAIN people}

(* How many took part, where the overview says it: as many as there are    *)
(* speakers if nobody else can have spoken; without speakers, as many as   *)
(* the model calls attendees; nobody, if all are only mentioned.           *)
OverviewCount ==
    LET people    == {id \in DOMAIN result.records : result.records[id].section = "participants"}
        attendees == {id \in people : result.records[id].claim \in Attends /\ ~result.records[id].derived}
        Only(id)  == result.records[id].claim \in Mentioned /\ ~result.records[id].derived
    IN  IF Labels # {} /\ result.exact THEN Cardinality(Labels)
        ELSE IF Labels = {} /\ attendees # {} THEN Cardinality(attendees)
        ELSE IF \A id \in people : Only(id) THEN 0 ELSE NoCount

(* _overview_citation_ids                                                  *)
OverviewCites(people) ==
    {Json(Overview)} \union UNION {CitesOf(people[k]) : k \in DOMAIN people}

OverviewChunks ==
    LET people == View("participants")
    IN  IF people = <<>> THEN {}
        ELSE {[Chunk(Overview, OverviewCites(people), {}, TRUE) EXCEPT !.tells = OverviewCount]}

Recorded == {"facts", "events", "entities", "actions", "decisions", "risks", "questions"}

(* The number of a chunk is its place in its section; counts of            *)
(* participants have a name of their own and share the numbers of facts.   *)
RecordChunks ==
    LET Name(section, id) ==
            IF section = "facts" /\ result.records[id].claim = Count
            THEN "fact-participant_count" ELSE section
        Of(section) ==
            LET items == View(section)
            IN  {Chunk(<<Name(section, items[k]), k>>, CitesOf(items[k]), {}, TRUE) :
                    k \in DOMAIN items}
    IN  UNION {Of(s) : s \in Recorded}

(* Links are numbered in some order.                                       *)
LinkChunks ==
    LET links == SetToSeq(result.links)
    IN  {Chunk(<<"relationship-edge", k>>,
               IF links[k].refs # {} THEN EvidenceOf(links[k].refs) ELSE {Json(<<"link", k>>)},
               {}, TRUE) : k \in DOMAIN links}

(* Topics and the summary have the evidence they have and no other.        *)
TopicChunks ==
    LET topics == View("topics")
        Refs(k) == EvidenceOf(result.records[topics[k]].refs)
    IN  {Chunk(<<"topic-summary", k>>, Refs(k), {}, Refs(k) # {}) : k \in DOMAIN topics}

SummaryChunks ==
    LET refs == EvidenceOf(result.summary.refs)
    IN  {Chunk(<<"summary-executive", 0>>, refs, {}, refs # {}) : t \in {result.summary.text} \ {FALSE}}

(* _is_transcript_signal_text: noise annotations and silence are not.      *)
Spoken == {i \in Segments : transcript[i].signal}

(* Three segments that say something at a time, and the rest.              *)
SpokenUpTo(i) == Cardinality({j \in Spoken : j <= i})
Part(n) == {i \in Spoken : (SpokenUpTo(i) - 1) \div PerChunk = n - 1}

FullPartsOnly == {n \in 1 .. Cardinality(Spoken) : Cardinality(Part(n)) = PerChunk}
Parts == {n \in 1 .. Cardinality(Spoken) : Part(n) # {}}

TranscriptChunks ==
    {Chunk(<<"transcript-window", n>>, EvidenceOf(Part(n)), Part(n), TRUE) : n \in Parts}

AllChunks ==
    {MetadataChunk, SpeakerChunk} \union ParticipantChunks \union OverviewChunks
        \union RecordChunks \union LinkChunks \union TopicChunks \union SummaryChunks
        \union TranscriptChunks

(* rebuild_for_result: the chunks of the meeting are replaced and the      *)
(* generation, which has the id of the result in it, is written with them. *)
BuildChunks ==
    /\ phase = "stored"
    /\ generation # runs
    /\ chunks' = AllChunks
    /\ generation' = runs
    /\ UNCHANGED vars

(***************************************************************************)
(* Properties                                                              *)
(***************************************************************************)

(* What was said is found: every segment with words in it is in exactly    *)
(* one chunk of the transcript, which cites it, and no two chunks have one *)
(* id, of which the second would not be stored.                            *)
SpeechIsIndexed ==
    /\ \A i \in Spoken :
        Cardinality({c \in chunks : c.id[1] = "transcript-window" /\ i \in c.segments
                                    /\ Evidence(i) \in c.cites}) = 1
    /\ \A c, d \in chunks : c.id = d.id => c = d

(* The summary is evidence only if the model summarised every window, and  *)
(* then with citations: the beginning of the transcript, which stands in   *)
(* for the summary of a window, is never what an answer rests on.          *)
SnippetIsNoEvidence ==
    \A c \in chunks :
        (c.id[1] = "summary-executive" /\ c.eligible) =>
            /\ \A w \in DOMAIN windows : replies[w].reply.executive.text \in {"words", "value"}
            /\ c.segments # {}

(* "counting those flags created false 0-vs-N conflicts": the overview     *)
(* never states another number of people than the count record does.       *)
CountsAgree ==
    CountId \in DOMAIN result.records =>
        \A c \in chunks : c.tells \in {NoCount, Cardinality(Labels)}

(* Each time the index is replaced it holds all that was said, and no more *)
(* of what the model said than is evidence.                                *)
IndexSound ==
    [][generation' # generation =>
        (SpeechIsIndexed /\ SnippetIsNoEvidence /\ CountsAgree)']_indexVars
=============================================================================
