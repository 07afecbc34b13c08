------------------------ MODULE KnowledgeExtraction ------------------------
(***************************************************************************)
(* From a transcript to the result that is stored: each window is given to *)
(* a language model, what it says is checked against the window            *)
(* (providers/analysis/provider.py), the answers of all windows are        *)
(* reduced to one set of records (intelligence_reducer.py), and the result *)
(* is validated (result_validation.py) or the pipeline fails, to begin     *)
(* again from the checkpoint (transcript_window_repository.py).            *)
(*                                                                         *)
(* A reply is what a model makes of the prompt, and nothing but its being  *)
(* JSON is enforced: a field may be of another type than the prompt asks   *)
(* for.  Citations are a list; or raw, a string or an object, of which     *)
(* the code takes each character or key as one; or none, which cannot be   *)
(* iterated (so is a confidence that is no number, where the same code     *)
(* raises).  No reply names a recordType, which the prompt does not have:  *)
(* a record is of the type of its section.                                 *)
(*                                                                         *)
(* A record's id is a section and a number, which is the form the prompt   *)
(* asks for and the form given to a record without one.  What it says is   *)
(* in fields the model chooses: of six of them the code makes a signature, *)
(* and the words in all others (the name of a participant, the type of a   *)
(* fact) are its claim.  Evidence is a set of numbers: the reducer makes   *)
(* one evidence item for each segment, of the same number, and a number    *)
(* that no segment has denotes nothing.                                    *)
(*                                                                         *)
(* LocalNumbers, DropsBoth, EveryRef and EveryPlace are mistakes the code  *)
(* does not make: each stands before the definition it would replace.      *)
(***************************************************************************)
EXTENDS ModelCalls, SequencesExt

CONSTANTS
    RunsOn(_),  \* how often the pipeline runs on a transcript
    Ascii(_)    \* _normalized_name: the words that are left of a text of
                \* which only ASCII letters and digits are kept

ASSUME RunsAssumption == \A t \in Transcripts : RunsOn(t) \in Nat \ {0}

VARIABLES
    phase,     \* where the run stands, one of Phases
    rows,      \* the checkpoints in meeting_transcript_windows
    answers,   \* the local results of the windows that have one
    result,    \* the reduced result, from "reduced" on
    runs

vars == <<windowVars, callVars, phase, rows, answers, result, runs>>

Phases == {"split", "ask", "failed", "reduced", "stored", "rejected"}

NoId      == <<>>
Count     == "participant_count"
Meeting   == <<"meeting", 0>>
SpeakerOf(label) == <<"speaker", label>>
CountId   == <<"derived-transcript-participant-count", 0>>

Sections  == <<"participants", "entities", "facts", "events", "topics", "actions", "decisions",
               "risks", "questions">>
Semantic  == {"topics", "actions", "decisions", "risks", "questions"}
Unlabelled == {"Unknown", "Noise"}   \* _IGNORED_SPEAKER_LABELS
SignatureFields == <<"text", "summary", "task", "decision", "title", "name">>
Forms == {"list", "raw", "none"}
NoWords == <<>>

(* The reducer gives a speaker the hash of his label for an id, and their  *)
(* number an id that no record has: no reply has them.                     *)
ASSUME RepliesAssumption ==
    \A t \in Transcripts : \A reply \in RepliesTo(t) :
        /\ reply.items \in Seq(Range(reply.items))
        /\ \A k \in DOMAIN reply.items :
            /\ reply.items[k].section \in Range(Sections)
            /\ reply.items[k].form \in Forms
            /\ reply.items[k].id \notin {SpeakerOf(t[i].speaker) : i \in DOMAIN t} \union {CountId}

Init ==
    /\ WindowInit
    /\ CallsInit
    /\ phase = "split"
    /\ rows = <<>>
    /\ answers = <<>>
    /\ result = <<>>
    /\ runs = 1

(***************************************************************************)
(* One window                                                              *)
(***************************************************************************)
(* The citations of a window are numbered from one, in their order.        *)
Number(w, s) == Cardinality({r \in windows[w].segments : r <= s})
Numbers(w) == 1 .. Cardinality(windows[w].segments)

(* What a citation of the model becomes: the number of a citation of the   *)
(* window.  A segment that is not in the window but has the number of one  *)
(* of its citations is taken for that; anything else is dropped.           *)
Normalised(w, cite) ==
    IF cite.of = "segment" /\ cite.number \in windows[w].segments
    THEN {Number(w, cite.number)}
    ELSE {cite.number} \intersect Numbers(w)

NormalisedAll(w, cites) == UNION {Normalised(w, c) : c \in cites}

(* Only lists are normalised.  What is raw is taken for the number of a    *)
(* citation as it is; no citation has number zero.                         *)
LocalCites(w, item) ==
    IF item.form = "raw"
    THEN {IF c.of = "cite" THEN c.number ELSE 0 : c \in item.cites}
    ELSE NormalisedAll(w, item.cites)

(* _ensure_record_id: the place of the item in its section.                *)
IdOf(items, k) ==
    IF items[k].id # NoId THEN items[k].id
    ELSE <<items[k].section,
           Cardinality({j \in 1 .. k : items[j].section = items[k].section})>>

(* _ensure_result_defaults: every record has an id.  Counts of people are  *)
(* computed and not taken from the model (_add_deterministic_facts).       *)
KeptItems(w, items) ==
    [k \in {j \in DOMAIN items : ~(items[j].section = "facts" /\ items[j].claim = Count)} |->
        [id    |-> IdOf(items, k), section |-> items[k].section,
         claim |-> items[k].claim, says |-> items[k].says,
         form  |-> items[k].form, cites |-> LocalCites(w, items[k])]]

(* _normalize_relationships: a link needs two ends that are records of the *)
(* reply, or the meeting.                                                  *)
KeptLinks(w, links, items) ==
    LET ends == {items[k].id : k \in DOMAIN items} \union {Meeting}
    IN  [k \in {j \in DOMAIN links : {links[j].from, links[j].to} \subseteq ends} |->
            [id   |-> IdOf(links, k), from |-> links[k].from, to |-> links[k].to,
             form |-> links[k].form, cites |-> LocalCites(w, links[k])]]

(* _ensure_executive_summary: a missing summary is replaced by the         *)
(* beginning of the transcript, marked as context only.  One that is null  *)
(* is not missing, and shows nothing.  Its citations count if they are a   *)
(* list.                                                                   *)
OwnSummary(w, executive) ==
    [own    |-> executive.text \in {"words", "value"},
     shows  |-> executive.text # "null",
     cites  |-> IF executive.form = "list" THEN NormalisedAll(w, executive.cites) ELSE {},
     topics |-> executive.topics, topicsForm |-> executive.topicsForm]

(* _merge_llm_result                                                       *)
LocalResult(w, reply) ==
    LET items == KeptItems(w, reply.items)
    IN  [items |-> items, links |-> KeptLinks(w, reply.links, items),
         executive |-> OwnSummary(w, reply.executive)]

(***************************************************************************)
(* The reduction                                                           *)
(***************************************************************************)
(* The numbers of all that citations of window w are of: a number that no  *)
(* citation of the window has is kept as it is.                            *)
LocalNumbers(w, cites) == cites
Global(w, cites) ==
    {s \in windows[w].segments : Number(w, s) \in cites} \union (cites \ Numbers(w))

(* The order of places, which are tuples of numbers of one length.         *)
Before(p, q) ==
    \E n \in DOMAIN p : p[n] < q[n] /\ \A m \in 1 .. (n - 1) : p[m] = q[m]

FirstOf(places) == CHOOSE p \in places : \A q \in places : q = p \/ Before(p, q)

ItemAt(p) == answers[p[1]].items[p[3]]

(* Where the reducer meets the items of all windows: window by window,     *)
(* section by section.                                                     *)
Places ==
    {p \in UNION {{w} \X (1 .. Len(Sections)) \X DOMAIN answers[w].items : w \in DOMAIN answers} :
        ItemAt(p).section = Sections[p[2]]}

(* _record_from_local                                                      *)
RefsAt(p) == Global(p[1], ItemAt(p).cites)

(* _merge_record: a field that has nothing in it is filled by a later one. *)
SaidAt(places) ==
    [field \in UNION {DOMAIN ItemAt(p).says : p \in places} |->
        ItemAt(FirstOf({p \in places : field \in DOMAIN ItemAt(p).says})).says[field]]

(* Records of one id become one: the words of the first that has any, the  *)
(* evidence and the windows of all.                                        *)
Merged ==
    [id \in {ItemAt(p).id : p \in Places} |->
        LET mine  == {p \in Places : ItemAt(p).id = id}
            first == FirstOf(mine)
        IN  [section |-> ItemAt(first).section, claim |-> ItemAt(first).claim,
             says |-> SaidAt(mine), refs |-> UNION {RefsAt(p) : p \in mine},
             sources |-> {p[1] : p \in mine},
             derived |-> FALSE, place |-> first]]

(* Links of one id become one too: the ends of the first.                  *)
MergedLinks ==
    LET places   == UNION {{w} \X DOMAIN answers[w].links : w \in DOMAIN answers}
        LinkAt(p) == answers[p[1]].links[p[2]]
        Alike(p)  == {q \in places : LinkAt(q).id = LinkAt(p).id}
    IN  {[from |-> LinkAt(p).from, to |-> LinkAt(p).to,
          refs |-> UNION {Global(q[1], LinkAt(q).cites) : q \in Alike(p)}] :
            p \in {first \in places : FirstOf(Alike(first)) = first}}

(* _semantic_record_signature: the six fields in their order, of which     *)
(* only ASCII is left.                                                     *)
Signature(says) ==
    LET fields == SelectSeq(SignatureFields, LAMBDA f : f \in DOMAIN says)
    IN  FlattenSeq([k \in DOMAIN fields |-> Ascii(says[fields[k]])])

(* _drop_unsupported_semantic_records                                      *)
Cited(records) ==
    {id \in DOMAIN records :
        records[id].section \in Semantic => records[id].refs \intersect Segments # {}}

SignaturesIn(records, section) ==
    {Signature(records[id].says) :
        id \in {i \in Cited(records) : records[i].section = section}}

DropsBoth(records) ==
    LET both == SignaturesIn(records, "actions") \intersect SignaturesIn(records, "decisions")
    IN  Restrict(records, {id \in Cited(records) :
            records[id].section \in {"actions", "decisions"}
                => Signature(records[id].says) \notin both})

Supported(records) ==
    LET tasks == SignaturesIn(records, "actions")
    IN  Restrict(records, {id \in Cited(records) :
            records[id].section = "decisions" => Signature(records[id].says) \notin tasks})

Labels == {transcript[i].speaker : i \in Segments} \ Unlabelled

(* _adjacent_countable_speaker and _ignored_segment_is_reconciled: a short *)
(* segment without a name next to segments of one speaker is his.          *)
Beside(i) == {transcript[j].speaker : j \in {i - 1, i + 1} \intersect Segments} \ Unlabelled

Reconciled(i) ==
    \/ transcript[i].speaker = "Noise"
    \/ /\ transcript[i].near
       /\ Cardinality(Beside(i)) = 1
       /\ \A j \in {i - 1, i + 1} \intersect Segments : transcript[j].speaker \in Labels

CountIsExact ==
    /\ Labels # {}
    /\ \A i \in Segments : transcript[i].speaker \in Unlabelled => Reconciled(i)

(* The speakers of the transcript and their number, as records.            *)
SpeakerRecords ==
    [id \in {SpeakerOf(l) : l \in Labels} \union (IF Labels = {} THEN {} ELSE {CountId}) |->
        [section |-> IF id = CountId THEN "facts" ELSE "participants",
         claim   |-> IF id = CountId THEN Count ELSE id[2], says |-> <<>>,
         refs    |-> IF id = CountId THEN {}
                     ELSE {i \in Segments : transcript[i].speaker = id[2]},
         sources |-> DOMAIN windows, derived |-> TRUE, place |-> <<>>]]

(* Who introduces himself by the name of a participant is identified as    *)
(* him, by the last segment in which he does; of two records of that name  *)
(* it is the later one.                                                    *)
IdentityLinks(records) ==
    LET people == {id \in DOMAIN records :
                    records[id].section = "participants" /\ ~records[id].derived}
        name(id) == Ascii(records[id].claim)
        latest == {id \in people : \A other \in people :
                    name(other) = name(id) => ~Before(records[id].place, records[other].place)}
        Introduces(l, id) == {i \in Segments : /\ transcript[i].speaker = l
                                               /\ name(id) # NoWords
                                               /\ name(id) \in transcript[i].introduces}
    IN  {[from |-> SpeakerOf(p[1]), to |-> p[2],
          refs |-> {i \in Introduces(p[1], p[2]) : \A j \in Introduces(p[1], p[2]) : j <= i}] :
            p \in {q \in Labels \X latest : Introduces(q[1], q[2]) # {}}}

(* What is not verified has no evidence.                                   *)
EveryRef(whole, refs) == refs
SummaryRefs(whole, refs) == IF whole THEN refs ELSE {}

(* _reduce_summary: a summary without citations has those of the topics it *)
(* names; it is verified when every window has one of its own and there is *)
(* a citation at all.  Numbers that no segment has do not count.           *)
Summary ==
    LET own == {w \in DOMAIN answers : answers[w].executive.own}
        Cites(w) ==
            LET e == answers[w].executive
            IN  IF e.cites # {} THEN e.cites
                ELSE UNION {i.cites : i \in {j \in Range(answers[w].items) :
                                j.section = "topics" /\ j.id \in e.topics}}
        refs  == (UNION {Global(w, Cites(w)) : w \in own}) \intersect Segments
        whole == own = DOMAIN answers /\ own # {} /\ refs # {}
    IN  [text |-> \E w \in DOMAIN answers : answers[w].executive.shows, verified |-> whole, covered |-> own,
         refs |-> SummaryRefs(whole, refs)]

(* What the reducer iterates, it can: the citations of every record, and   *)
(* the topics of a summary that has no citations.                          *)
Reducible ==
    \A w \in DOMAIN answers :
        LET e == answers[w].executive
        IN  /\ \A k \in DOMAIN answers[w].items : answers[w].items[k].form # "none"
            /\ \A k \in DOMAIN answers[w].links : answers[w].links[k].form # "none"
            /\ (e.own /\ e.cites = {}) => e.topicsForm # "none"

(* _provider_executions: who is said to have answered.                     *)
Executions == {replies[w].source : w \in DOMAIN replies}

Reduced ==
    LET supported == Supported(Merged)
        records   ==
            [id \in DOMAIN SpeakerRecords \union DOMAIN supported |->
                IF id \in DOMAIN SpeakerRecords THEN SpeakerRecords[id] ELSE supported[id]]
    IN  [records |-> records,
         links   |-> MergedLinks \union IdentityLinks(records),
         summary |-> Summary,
         exact   |-> CountIsExact,
         executions |-> Executions]

(* _validate_unified_result                                                *)
RefsKnown(r) ==
    \A id \in DOMAIN r.records :
        r.records[id].refs \subseteq Segments /\ r.records[id].sources \subseteq DOMAIN windows

LinksKnown(r) ==
    \A l \in r.links : l.from \in DOMAIN r.records /\ l.to \in DOMAIN r.records

LineageValid(s) ==
    /\ s.refs \subseteq Segments
    /\ s.covered \subseteq DOMAIN windows
    /\ IF s.verified THEN s.refs # {} /\ s.covered = DOMAIN windows ELSE s.refs = {}

SummaryValid(s) == s.text /\ LineageValid(s)

Valid(r) == Segments # {} /\ RefsKnown(r) /\ LinksKnown(r) /\ SummaryValid(r.summary)

(***************************************************************************)
(* The steps                                                               *)
(***************************************************************************)
Split ==
    /\ phase = "split"
    /\ WindowNext
    /\ UNCHANGED <<callVars, phase, rows, answers, result, runs>>

(* store_transcript_checkpoints: the segments of a window by their ids,    *)
(* which have their order.                                                 *)
Row(w) == [id \in windows[w].segments |-> transcript[id]]

(* The rows replace those of an earlier run and are committed before the   *)
(* first call of the model.                                                *)
Checkpoint ==
    /\ phase = "split"
    /\ WindowsDone
    /\ rows' = [w \in DOMAIN windows |-> Row(w)]
    /\ phase' = "ask"
    /\ UNCHANGED <<windowVars, callVars, answers, result, runs>>

Ask(p) ==
    /\ phase = "ask"
    /\ Work(p)
    /\ answers' = [w \in DOMAIN replies' |->
                     IF w \in DOMAIN answers THEN answers[w]
                     ELSE LocalResult(w, replies'[w].reply)]
    /\ UNCHANGED <<windowVars, phase, rows, result, runs>>

Notice ==
    /\ phase = "ask"
    /\ MeetException
    /\ UNCHANGED <<windowVars, phase, rows, answers, result, runs>>

(* A call has raised: the answers of the other windows are not kept.       *)
Fail ==
    /\ phase = "ask"
    /\ CallsFailed
    /\ phase' = "failed"
    /\ answers' = <<>>
    /\ UNCHANGED <<windowVars, callVars, rows, result, runs>>

Reduce ==
    /\ phase = "ask"
    /\ AllAnswered
    /\ Reducible
    /\ result' = Reduced
    /\ phase' = "reduced"
    /\ UNCHANGED <<windowVars, callVars, rows, answers, runs>>

(* The reducer meets a value of a type it cannot take.                     *)
ReduceRaises ==
    /\ phase = "ask"
    /\ AllAnswered
    /\ ~Reducible
    /\ phase' = "failed"
    /\ answers' = <<>>
    /\ UNCHANGED <<windowVars, callVars, rows, result, runs>>

Validate ==
    /\ phase = "reduced"
    /\ phase' = IF Valid(result) THEN "stored" ELSE "rejected"
    /\ UNCHANGED <<windowVars, callVars, rows, answers, result, runs>>

(* latest_transcript_checkpoint: the segments of the rows in their order,  *)
(* each the first time it occurs.                                          *)
EveryPlace == UNION {{w} \X DOMAIN rows[w] : w \in DOMAIN rows}
FirstPlaces ==
    {p \in UNION {{w} \X DOMAIN rows[w] : w \in DOMAIN rows} :
        \A w \in 1 .. (p[1] - 1) : p[2] \notin DOMAIN rows[w]}

Restored ==
    [n \in 1 .. Cardinality(FirstPlaces) |->
        LET p == CHOOSE p \in FirstPlaces :
                    Cardinality({q \in FirstPlaces : Before(q, p)}) = n - 1
        IN  rows[p[1]][p[2]]]

(* The pipeline runs again and takes the transcript from the checkpoint:   *)
(* after a failure, or because the meeting has been set back from READY    *)
(* (MeetingProcessing shows how).                                           *)
Retry ==
    /\ phase \in {"failed", "rejected", "stored"}
    /\ runs < RunsOn(transcript)
    /\ runs' = runs + 1
    /\ transcript' = Restored
    /\ upTo' = 0 /\ current' = {} /\ weight' = 0 /\ windows' = <<>>
    /\ phase' = "split"
    /\ answers' = <<>>
    /\ result' = <<>>
    /\ doing' = NoCalls(transcript').doing
    /\ window' = NoCalls(transcript').window
    /\ tried' = NoCalls(transcript').tried
    /\ said' = NoCalls(transcript').said
    /\ record' = NoCalls(transcript').record
    /\ slot' = {} /\ taken' = 0 /\ broken' = {} /\ cancelled' = FALSE
    /\ replies' = <<>> /\ by' = <<>>
    /\ named' = [provider |-> "analysis", model |-> "primary"]
    /\ UNCHANGED rows

Next ==
    \/ Split
    \/ Checkpoint
    \/ \E p \in Threads : Ask(p)
    \/ Notice
    \/ Fail
    \/ Reduce
    \/ ReduceRaises
    \/ Validate
    \/ Retry

(* Every request has a timeout and a number of attempts, and the main      *)
(* thread waits for nothing but the others.  A pipeline that has failed is *)
(* not bound to run again.                                                 *)
Fairness ==
    /\ \A p \in UNION {ThreadsIn(t) : t \in Transcripts} : WF_vars(p \in Threads /\ Ask(p))
    /\ WF_vars(Notice)
    /\ WF_vars(Fail)

Spec == Init /\ [][Next]_vars /\ Fairness

(***************************************************************************)
(* Properties                                                              *)
(***************************************************************************)

TypeOK ==
    /\ phase \in Phases
    /\ upTo \in 0 .. Len(transcript)
    /\ current \subseteq Segments
    /\ weight = WeightOf(current)
    /\ \A k \in DOMAIN windows :
        /\ windows[k].segments \in (SUBSET Segments) \ {{}}
        /\ windows[k].tokens = WeightOf(windows[k].segments)
    /\ DOMAIN replies \subseteq DOMAIN windows
    /\ Len(rows) \in Nat
    /\ runs \in 1 .. RunsOn(transcript)

(* The transcript a retry works on is the transcript: the rows overlap and *)
(* were written window by window, and the recording is not transcribed a   *)
(* second time to compare.                                                 *)
CheckpointRestores == rows # <<>> => Restored = transcript

(* While the windows are asked about, the fallback has one request at a    *)
(* time, and nobody who waits for it, or for the end of the calls, waits   *)
(* in vain.                                                                *)
AskingGoesOn == phase = "ask" => OneFallback /\ NobodyStuck

(* However the calls end, the run gets past them: a thread that waits for  *)
(* the fallback is let in, and the main thread learns of every exception.  *)
AskingEnds == phase = "ask" ~> AllAnswered \/ phase = "failed"

Over == {"reduced", "stored", "rejected"}

(* What a record cites, a model that was asked for it had before its eyes, *)
(* if all that is merged into it was cited in lists.  Every window counts  *)
(* its citations from one, so a number that is not mapped, or mapped by    *)
(* the wrong window, denotes another segment; a number in an object is     *)
(* such a one, if the window has it not and the transcript has.            *)
EvidenceSeenByModel ==
    phase \in Over =>
        \A id \in DOMAIN result.records :
            (/\ ~result.records[id].derived
             /\ \A p \in Places : ItemAt(p).id = id => ItemAt(p).form = "list") =>
                result.records[id].refs \subseteq
                    UNION {windows[w].segments : w \in result.records[id].sources}

(* What is cited is in the result, with its evidence and its window, under *)
(* the id it has.  The exception is a decision: it goes when an action of  *)
(* the result has its signature, and then no action goes with it.          *)
CitedClaimsSurvive ==
    phase \in Over =>
        \A p \in Places : RefsAt(p) \intersect Segments # {} =>
            LET id == ItemAt(p).id
            IN  \/ /\ id \in DOMAIN result.records
                   /\ RefsAt(p) \subseteq result.records[id].refs
                   /\ p[1] \in result.records[id].sources
                \/ /\ Merged[id].section = "decisions"
                   /\ \E a \in DOMAIN result.records :
                        /\ result.records[a].section = "actions"
                        /\ Signature(result.records[a].says) = Signature(Merged[id].says)

(* What the validation rejects is one of three things the model said: a    *)
(* link to a record that is not there, although both its ends were checked *)
(* before; evidence that is no list, and names what is not there; or, of   *)
(* all windows, a summary that is null.  Nothing the reducer makes itself  *)
(* is rejected.                                                            *)
RejectedForCause ==
    phase = "rejected" =>
        \/ ~LinksKnown(result)
        \/ \E p \in Places : ItemAt(p).form # "list" /\ ~(RefsAt(p) \subseteq Segments)
        \/ \A w \in DOMAIN windows : replies[w].reply.executive.text = "null"
=============================================================================
