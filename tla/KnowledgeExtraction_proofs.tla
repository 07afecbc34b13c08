----------------------- MODULE KnowledgeExtraction_proofs -----------------------
(***************************************************************************)
(* What every step from the transcript to the stored result keeps.         *)
(* KnowledgeFlow_proofs draws the theorems from it.                        *)
(***************************************************************************)
EXTENDS KnowledgeExtraction, TranscriptWindows_proofs, FiniteSetTheorems,
        WellFoundedInduction

(***************************************************************************)
(* The invariant                                                           *)
(***************************************************************************)
Models == {"primary", "fallback"}

SourceOf(who) == [provider |-> who, fallbackUsed |-> who = "fallback"]

CallsTyped ==
    /\ doing \in [Threads -> Doings]
    /\ window \in [Threads -> Nat]
    /\ record \in [Threads -> [provider : Models, fallbackUsed : BOOLEAN]]
    /\ said \in [Threads -> {Nothing} \union [reply : RepliesTo(transcript),
                                              source : {SourceOf(who) : who \in Models},
                                              who : Models]]
    /\ named \in [provider : Models \union {"analysis"}, model : Models]
    /\ taken \in Nat /\ taken <= Len(windows)
    /\ DOMAIN replies \in SUBSET (1 .. taken) /\ DOMAIN by = DOMAIN replies
    /\ \A w \in DOMAIN replies : replies[w].reply \in RepliesTo(transcript)

(* No window is asked about by two threads, or again.                      *)
OneEach ==
    \A p \in Threads : doing[p] # "idle" =>
        /\ window[p] \in (1 .. taken) \ DOMAIN replies
        /\ \A q \in Threads : (q # p /\ doing[q] # "idle") => window[q] # window[p]

(* What the record of a thread says while its call goes on.                *)
RecordTrue ==
    \A p \in Threads :
        /\ doing[p] = "primary" => ~record[p].fallbackUsed
        /\ doing[p] \in {"waiting", "fallback"} =>
            record[p] = [provider |-> "fallback", fallbackUsed |-> TRUE]
        /\ doing[p] = "naming" =>
            /\ said[p] # Nothing
            /\ said[p].source = SourceOf(said[p].who)
            /\ record[p].provider = said[p].who

StoredTrue == \A w \in DOMAIN replies : replies[w].source = SourceOf(by[w])

NamedTrue ==
    /\ \/ DOMAIN by = {} /\ \A p \in Threads : doing[p] # "naming"
       \/ \E w \in DOMAIN by : by[w] = named.provider
       \/ \E p \in Threads : doing[p] = "naming" /\ said[p].who = named.provider
    /\ DOMAIN by = {} \/ \E w \in DOMAIN by : by[w] = named.model

CInv == CallsTyped /\ OneEach /\ RecordTrue /\ StoredTrue /\ NamedTrue

(* The rows have every segment, and none before all earlier ones.          *)
RowsWhole ==
    /\ DOMAIN rows = 1 .. Len(rows) /\ Len(rows) \in Nat
    /\ \A w \in DOMAIN rows : \A s \in DOMAIN rows[w] :
        /\ s \in Segments
        /\ rows[w][s] = transcript[s]
        /\ \A r \in 1 .. s : \E v \in 1 .. w : r \in DOMAIN rows[v]
    /\ \A s \in Segments : \E w \in DOMAIN rows : s \in DOMAIN rows[w]

Reserved == {SpeakerOf(transcript[i].speaker) : i \in Segments} \union {CountId}

ItemsFine(items) ==
    /\ DOMAIN items \subseteq Nat
    /\ \A k \in DOMAIN items : items[k].section \in Range(Sections) /\ items[k].id \notin Reserved

(* Lists are of numbers of the window.                                     *)
CitesFine(w, items) ==
    \A k \in DOMAIN items : items[k].form = "list" => items[k].cites \subseteq Numbers(w)

SummaryTaken(mine, executive) ==
    /\ mine.own = (executive.text \in {"words", "value"})
    /\ mine.shows = (executive.text # "null")

AnswersFine ==
    /\ DOMAIN answers = DOMAIN replies
    /\ \A w \in DOMAIN answers :
        /\ ItemsFine(answers[w].items)
        /\ CitesFine(w, answers[w].items)
        /\ SummaryTaken(answers[w].executive, replies[w].reply.executive)

(* A summary with evidence is one of every window; one without words, of   *)
(* none.                                                                   *)
SummaryWhole ==
    /\ result.summary.refs # {} =>
        \A w \in DOMAIN windows : replies[w].reply.executive.text \in {"words", "value"}
    /\ ~result.summary.text =>
        \A w \in DOMAIN windows : replies[w].reply.executive.text = "null"

(* A reply names evidence that is not there, and not in a list.            *)
SomethingRaw ==
    \E p \in Places : ItemAt(p).form # "list" /\ ~(RefsAt(p) \subseteq Segments)

(* What the transcript itself says, the result says so.                    *)
DerivedTrue ==
    /\ \A id \in DOMAIN result.records : result.records[id].derived =>
        /\ result.records[id].section \in {"participants", "facts"}
        /\ result.records[id].section = "participants" => result.records[id].refs # {}
    /\ Labels # {} => \E id \in DOMAIN result.records :
        result.records[id].section = "participants" /\ result.records[id].derived
    /\ CountId \in DOMAIN result.records => Labels # {}

ResultFine ==
    /\ AllAnswered
    /\ EvidenceSeenByModel /\ CitedClaimsSurvive
    /\ RefsKnown(result) \/ SomethingRaw
    /\ LineageValid(result.summary)
    /\ SummaryWhole /\ DerivedTrue

KInv ==
    /\ WInv
    /\ phase \in Phases
    /\ runs \in 1 .. RunsOn(transcript)
    /\ CInv
    /\ phase = "split" => CallsInit /\ answers = <<>>
    /\ phase # "split" => WindowsDone /\ RowsWhole
    /\ rows = <<>> \/ RowsWhole
    /\ phase \in {"ask"} \union Over => AnswersFine
    /\ phase \in Over => ResultFine
    /\ phase = "rejected" => ~Valid(result)

(***************************************************************************)
(* The calls                                                               *)
(***************************************************************************)
LEMMA CallsBegin ==
    ASSUME CallsInit, Len(windows) \in Nat
    PROVE  CInv
<1>1. CallsTyped
    BY DEF CallsInit, CallsTyped, NoCalls, Threads, Doings, FreshRecord, Nothing, Models, SourceOf
<1>2. \A p \in Threads : doing[p] = "idle"
    BY DEF CallsInit, NoCalls, Threads
<1>3. DOMAIN replies = {} /\ DOMAIN by = {}
    BY DEF CallsInit
<1> QED
    BY <1>1, <1>2, <1>3 DEF CInv, OneEach, RecordTrue, StoredTrue, NamedTrue

(* The same of the next state.                                             *)
LEMMA CallsBeginAgain ==
    ASSUME CallsInit', Len(windows') \in Nat
    PROVE  CInv'
<1>1. CallsTyped'
    BY DEF CallsInit, CallsTyped, NoCalls, Threads, Doings, FreshRecord, Nothing, Models, SourceOf
<1>2. \A p \in Threads' : doing'[p] = "idle"
    BY DEF CallsInit, NoCalls, Threads
<1>3. DOMAIN replies' = {} /\ DOMAIN by' = {}
    BY DEF CallsInit
<1> QED
    BY <1>1, <1>2, <1>3 DEF CInv, OneEach, RecordTrue, StoredTrue, NamedTrue

LEMMA QuietCalls ==
    ASSUME CInv, UNCHANGED <<transcript, windows, doing, window, record, said, named, taken, replies, by>>
    PROVE  CInv'
BY DEF CInv, CallsTyped, OneEach, RecordTrue, StoredTrue, NamedTrue, Threads

(* A reply is taken, or asked for again, or cannot be merged.              *)
LEMMA ReturnsKeep ==
    ASSUME CInv, WInv, NEW p \in Threads, NEW who \in Models, NEW reply \in RepliesTo(transcript),
           doing[p] = who,
           Returns(p, who, reply, [record[p] EXCEPT !.provider = who]),
           UNCHANGED <<windowVars, window, taken, replies, cancelled, by>>
    PROVE  CInv'
<1> USE DEF CInv
<1> DEFINE rec == [record[p] EXCEPT !.provider = who]
<1>0. Threads' = Threads /\ RepliesTo(transcript)' = RepliesTo(transcript) /\ Len(windows)' = Len(windows)
    BY DEF Threads, windowVars
<1>1. rec = SourceOf(who) /\ rec \in [provider : Models, fallbackUsed : BOOLEAN]
    <2>1. record[p] \in [provider : Models, fallbackUsed : BOOLEAN]
        BY DEF CallsTyped
    <2>2. rec = [provider |-> who, fallbackUsed |-> record[p].fallbackUsed]
        BY <2>1
    <2>3. CASE who = "primary"
        <3>1. record[p].fallbackUsed = FALSE
            BY <2>1, <2>3 DEF RecordTrue
        <3>2. SourceOf(who) = [provider |-> who, fallbackUsed |-> FALSE]
            BY <2>3 DEF SourceOf
        <3> QED
            BY <2>2, <3>1, <3>2
    <2>4. CASE who = "fallback"
        <3>1. record[p].fallbackUsed = TRUE
            BY <2>4 DEF RecordTrue
        <3>2. SourceOf(who) = [provider |-> who, fallbackUsed |-> TRUE]
            BY <2>4 DEF SourceOf
        <3> QED
            BY <2>2, <3>1, <3>2
    <2> QED
        BY <2>3, <2>4 DEF Models
<1> HIDE DEF rec
<1>2. CASE TakesReply(p, who, reply, rec)
    <2> DEFINE mine == [reply |-> reply, source |-> rec, who |-> who]
    <2>1. /\ said' = [said EXCEPT ![p] = mine]
          /\ record' = [record EXCEPT ![p] = rec]
          /\ named' = [named EXCEPT !.provider = rec.provider]
          /\ doing' = [doing EXCEPT ![p] = "naming"]
        BY <1>2 DEF TakesReply
    <2>2. mine \in [reply : RepliesTo(transcript), source : {SourceOf(m) : m \in Models}, who : Models]
        BY <1>1
    <2>3. CallsTyped'
        BY <1>0, <1>1, <2>1, <2>2 DEF CallsTyped, Doings, SourceOf
    <2>4. OneEach'
        BY <1>0, <2>1 DEF OneEach, CallsTyped, Models
    <2>5. RecordTrue'
        <3> SUFFICES ASSUME NEW q \in Threads
                     PROVE  /\ doing'[q] = "primary" => ~record'[q].fallbackUsed
                            /\ doing'[q] \in {"waiting", "fallback"} =>
                                record'[q] = [provider |-> "fallback", fallbackUsed |-> TRUE]
                            /\ doing'[q] = "naming" =>
                                /\ said'[q] # Nothing
                                /\ said'[q].source = SourceOf(said'[q].who)
                                /\ record'[q].provider = said'[q].who
            BY <1>0 DEF RecordTrue
        <3>1. CASE q = p
            <4>1. doing'[p] = "naming" /\ said'[p] = mine /\ record'[p] = rec
                BY <2>1 DEF CallsTyped
            <4>2. mine # Nothing
                BY DEF Nothing
            <4> QED
                BY <1>1, <3>1, <4>1, <4>2 DEF SourceOf
        <3>2. CASE q # p
            <4>1. doing'[q] = doing[q] /\ said'[q] = said[q] /\ record'[q] = record[q]
                BY <2>1, <3>2 DEF CallsTyped
            <4> QED
                BY <4>1 DEF RecordTrue
        <3> QED
            BY <3>1, <3>2
    <2>6. NamedTrue'
        <3>1. doing'[p] = "naming" /\ said'[p] = mine /\ named'.provider = who
            BY <1>1, <2>1 DEF CallsTyped, SourceOf
        <3>2. named'.model = named.model
            BY <2>1 DEF CallsTyped
        <3> QED
            BY <1>0, <3>1, <3>2 DEF NamedTrue
    <2> QED
        BY <2>3, <2>4, <2>5, <2>6 DEF StoredTrue
<1>3. CASE AsksAgain(p, rec)
    <2>1. /\ record' = [record EXCEPT ![p] = Reset(rec)]
          /\ doing' = [doing EXCEPT ![p] = "primary"]
          /\ UNCHANGED <<said, named>>
        BY <1>3 DEF AsksAgain
    <2>2. Reset(rec) \in [provider : Models, fallbackUsed : BOOLEAN] /\ ~Reset(rec).fallbackUsed
        BY <1>1 DEF Reset
    <2>3. CallsTyped'
        BY <1>0, <2>1, <2>2 DEF CallsTyped, Doings
    <2>4. OneEach'
        BY <1>0, <2>1 DEF OneEach, CallsTyped, Models
    <2>5. RecordTrue'
        BY <1>0, <2>1, <2>2 DEF RecordTrue, CallsTyped
    <2>6. NamedTrue'
        <3>1. doing[p] # "naming"
            BY DEF Models
        <3> QED
            BY <1>0, <2>1, <3>1 DEF NamedTrue, CallsTyped
    <2> QED
        BY <2>3, <2>4, <2>5, <2>6 DEF StoredTrue
<1>4. CASE CannotMerge(p, rec)
    <2>1. /\ record' = [record EXCEPT ![p] = rec]
          /\ doing' = [doing EXCEPT ![p] = "idle"]
          /\ UNCHANGED <<said, named>>
        BY <1>4 DEF CannotMerge, GivesUp
    <2>2. CallsTyped'
        BY <1>0, <1>1, <2>1 DEF CallsTyped, Doings
    <2>3. OneEach'
        BY <1>0, <2>1 DEF OneEach, CallsTyped
    <2>4. RecordTrue'
        BY <1>0, <2>1 DEF RecordTrue, CallsTyped
    <2>5. NamedTrue'
        <3>1. doing[p] # "naming"
            BY DEF Models
        <3> QED
            BY <1>0, <2>1, <3>1 DEF NamedTrue, CallsTyped
    <2> QED
        BY <2>2, <2>3, <2>4, <2>5 DEF StoredTrue
<1> QED
    BY <1>2, <1>3, <1>4 DEF Returns, rec

LEMMA TakeKeeps ==
    ASSUME CInv, WInv, NEW p \in Threads, Take(p), UNCHANGED windowVars
    PROVE  CInv'
<1> USE DEF CInv
<1>0. Threads' = Threads /\ RepliesTo(transcript)' = RepliesTo(transcript) /\ Len(windows)' = Len(windows)
    BY DEF Threads, windowVars
<1>1. /\ doing[p] = "idle" /\ taken < Len(windows) /\ taken' = taken + 1
      /\ window' = [window EXCEPT ![p] = taken + 1]
      /\ record' = [record EXCEPT ![p] = Reset(@)]
      /\ doing' = [doing EXCEPT ![p] = "primary"]
      /\ UNCHANGED <<said, replies, named, by>>
    BY DEF Take
<1>2. Len(windows) \in Nat /\ taken \in Nat
    BY DEF WInv, WindowsTyped, CallsTyped
<1>3. Reset(record[p]) \in [provider : Models, fallbackUsed : BOOLEAN] /\ ~Reset(record[p]).fallbackUsed
    BY DEF Reset, CallsTyped
<1>4. CallsTyped'
    <2>1. 1 .. taken \subseteq 1 .. taken'
        BY <1>1, <1>2
    <2>2. doing' \in [Threads -> Doings] /\ window' \in [Threads -> Nat]
        BY <1>1, <1>2 DEF CallsTyped, Doings
    <2>3. record' \in [Threads -> [provider : Models, fallbackUsed : BOOLEAN]]
        BY <1>1, <1>3 DEF CallsTyped
    <2> QED
        BY <1>0, <1>1, <1>2, <2>1, <2>2, <2>3 DEF CallsTyped
<1>5. OneEach'
    <2> SUFFICES ASSUME NEW q \in Threads, doing'[q] # "idle"
                 PROVE  /\ window'[q] \in (1 .. taken') \ DOMAIN replies
                        /\ \A r \in Threads : (r # q /\ doing'[r] # "idle") => window'[r] # window'[q]
        BY <1>0, <1>1 DEF OneEach
    <2>1. taken + 1 \in (1 .. taken') \ DOMAIN replies /\ 1 .. taken \subseteq 1 .. taken'
        BY <1>1, <1>2 DEF CallsTyped
    <2>2. \A r \in Threads \ {p} :
            /\ doing'[r] = doing[r] /\ window'[r] = window[r]
            /\ doing[r] # "idle" => window[r] \in (1 .. taken) \ DOMAIN replies
        BY <1>1 DEF CallsTyped, OneEach
    <2>3. window'[p] = taken + 1 /\ taken + 1 \notin 1 .. taken
        BY <1>1, <1>2 DEF CallsTyped
    <2> QED
        BY <2>1, <2>2, <2>3 DEF OneEach
<1>6. RecordTrue'
    BY <1>0, <1>1, <1>3 DEF RecordTrue, CallsTyped
<1>7. NamedTrue'
    BY <1>0, <1>1 DEF NamedTrue, CallsTyped
<1> QED
    BY <1>1, <1>4, <1>5, <1>6, <1>7 DEF StoredTrue

(* The steps that change what a thread does and no reply.                  *)
LEMMA MovesKeep ==
    ASSUME CInv, WInv, NEW p \in Threads, UNCHANGED windowVars,
           PrimaryRefuses(p) \/ EnterSlot(p) \/ PrimaryBreaks(p) \/ FallbackFails(p)
    PROVE  CInv'
<1> USE DEF CInv
<1>0. Threads' = Threads /\ RepliesTo(transcript)' = RepliesTo(transcript) /\ Len(windows)' = Len(windows)
    BY DEF Threads, windowVars
<1>1. UNCHANGED <<window, taken, said, replies, by, named>>
    BY DEF PrimaryRefuses, EnterSlot, PrimaryBreaks, FallbackFails, Raises, GivesUp
<1>2. doing[p] \in {"primary", "waiting", "fallback"}
    BY DEF PrimaryRefuses, EnterSlot, PrimaryBreaks, FallbackFails
<1>3. CASE PrimaryRefuses(p)
    <2>1. /\ record' = [record EXCEPT ![p] = [provider |-> "fallback", fallbackUsed |-> TRUE]]
          /\ doing' = [doing EXCEPT ![p] = "waiting"]
        BY <1>3 DEF PrimaryRefuses
    <2>2. [provider |-> "fallback", fallbackUsed |-> TRUE] \in [provider : Models, fallbackUsed : BOOLEAN]
        BY DEF Models
    <2>3. CallsTyped'
        BY <1>0, <1>1, <2>1, <2>2 DEF CallsTyped, Doings
    <2>4. OneEach' /\ RecordTrue' /\ NamedTrue'
        BY <1>0, <1>1, <1>2, <2>1 DEF OneEach, RecordTrue, NamedTrue, CallsTyped
    <2> QED
        BY <1>1, <2>3, <2>4 DEF StoredTrue
<1>4. CASE EnterSlot(p)
    <2>1. doing[p] = "waiting" /\ doing' = [doing EXCEPT ![p] = "fallback"] /\ record' = record
        BY <1>4 DEF EnterSlot
    <2>2. CallsTyped'
        BY <1>0, <1>1, <2>1 DEF CallsTyped, Doings
    <2>3. OneEach' /\ RecordTrue' /\ NamedTrue'
        BY <1>0, <1>1, <2>1 DEF OneEach, RecordTrue, NamedTrue, CallsTyped
    <2> QED
        BY <1>1, <2>2, <2>3 DEF StoredTrue
<1>5. CASE PrimaryBreaks(p) \/ FallbackFails(p)
    <2>1. doing' = [doing EXCEPT ![p] = "idle"] /\ record' = record
        BY <1>5 DEF PrimaryBreaks, FallbackFails, Raises, GivesUp
    <2>2. CallsTyped'
        BY <1>0, <1>1, <2>1 DEF CallsTyped, Doings
    <2>3. OneEach' /\ RecordTrue' /\ NamedTrue'
        BY <1>0, <1>1, <1>2, <2>1 DEF OneEach, RecordTrue, NamedTrue, CallsTyped
    <2> QED
        BY <1>1, <2>2, <2>3 DEF StoredTrue
<1> QED
    BY <1>3, <1>4, <1>5

LEMMA NameModelKeeps ==
    ASSUME CInv, WInv, NEW p \in Threads, NameModel(p), UNCHANGED windowVars
    PROVE  CInv'
<1> USE DEF CInv
<1> DEFINE w == window[p]
           mine == [reply |-> said[p].reply, source |-> said[p].source]
<1>0. Threads' = Threads /\ RepliesTo(transcript)' = RepliesTo(transcript) /\ Len(windows)' = Len(windows)
    BY DEF Threads, windowVars
<1>1. /\ doing[p] = "naming"
      /\ named' = [named EXCEPT !.model = record[p].provider]
      /\ replies' = [v \in DOMAIN replies \union {w} |-> IF v = w THEN mine ELSE replies[v]]
      /\ by' = [v \in DOMAIN by \union {w} |-> IF v = w THEN said[p].who ELSE by[v]]
      /\ said' = [said EXCEPT ![p] = Nothing]
      /\ doing' = [doing EXCEPT ![p] = "idle"]
      /\ UNCHANGED <<window, record, taken>>
    BY DEF NameModel
<1>2. /\ said[p] # Nothing /\ said[p].source = SourceOf(said[p].who)
      /\ record[p].provider = said[p].who
      /\ w \in (1 .. taken) \ DOMAIN replies
    BY <1>1 DEF RecordTrue, OneEach
<1>3. said[p].reply \in RepliesTo(transcript) /\ said[p].who \in Models
    BY <1>2 DEF CallsTyped
<1>4. /\ DOMAIN replies' = DOMAIN replies \union {w} /\ DOMAIN by' = DOMAIN replies'
      /\ replies'[w] = mine /\ by'[w] = said[p].who
      /\ \A v \in DOMAIN replies : replies'[v] = replies[v] /\ by'[v] = by[v]
    BY <1>1, <1>2 DEF CallsTyped
<1> HIDE DEF w
<1>5. CallsTyped'
    <2>1. doing' \in [Threads -> Doings] /\ said' \in [Threads -> {Nothing} \union
            [reply : RepliesTo(transcript), source : {SourceOf(who) : who \in Models}, who : Models]]
        BY <1>1 DEF CallsTyped, Doings
    <2>2. named' \in [provider : Models \union {"analysis"}, model : Models]
        BY <1>1, <1>2, <1>3 DEF CallsTyped
    <2>3. \A v \in DOMAIN replies' : replies'[v].reply \in RepliesTo(transcript)
        BY <1>3, <1>4 DEF CallsTyped
    <2> QED
        BY <1>0, <1>1, <1>2, <1>4, <2>1, <2>2, <2>3 DEF CallsTyped
<1>6. OneEach'
    <2> SUFFICES ASSUME NEW q \in Threads, doing'[q] # "idle"
                 PROVE  /\ window[q] \in (1 .. taken) \ DOMAIN replies'
                        /\ \A r \in Threads : (r # q /\ doing'[r] # "idle") => window[r] # window[q]
        BY <1>0, <1>1 DEF OneEach
    <2>1. \A r \in Threads : doing'[r] # "idle" => r # p /\ doing[r] # "idle"
        BY <1>1 DEF CallsTyped
    <2>2. window[q] # w
        BY <1>1, <2>1 DEF OneEach, w
    <2> QED
        BY <1>4, <2>1, <2>2 DEF OneEach
<1>7. RecordTrue'
    BY <1>0, <1>1 DEF RecordTrue, CallsTyped
<1>8. StoredTrue'
    BY <1>2, <1>4 DEF StoredTrue
<1>9. NamedTrue'
    <2>1. by'[w] = named'.model /\ w \in DOMAIN by'
        BY <1>1, <1>2, <1>4 DEF CallsTyped
    <2>2. named'.provider = named.provider
        BY <1>1 DEF CallsTyped
    <2>3. CASE \E v \in DOMAIN by : by[v] = named.provider
        BY <1>4, <2>1, <2>2, <2>3 DEF NamedTrue, CallsTyped
    <2>4. CASE \E q \in Threads : doing[q] = "naming" /\ said[q].who = named.provider
        <3>1. PICK q \in Threads : doing[q] = "naming" /\ said[q].who = named.provider
            BY <2>4
        <3>2. CASE q = p
            BY <1>4, <2>1, <2>2, <3>1, <3>2 DEF NamedTrue
        <3>3. CASE q # p
            <4>1. doing'[q] = "naming" /\ said'[q] = said[q]
                BY <1>1, <3>1, <3>3 DEF CallsTyped
            <4> QED
                BY <1>0, <2>1, <2>2, <3>1, <4>1 DEF NamedTrue
        <3> QED
            BY <3>2, <3>3
    <2> QED
        BY <1>1, <2>3, <2>4 DEF NamedTrue
<1> QED
    BY <1>5, <1>6, <1>7, <1>8, <1>9

LEMMA WorkKeeps ==
    ASSUME CInv, WInv, NEW p \in Threads, Work(p), UNCHANGED windowVars
    PROVE  CInv'
<1>1. CASE PrimaryAnswers(p)
    <2>1. PICK reply \in RepliesTo(transcript) :
            Returns(p, "primary", reply, [record[p] EXCEPT !.provider = "primary"])
        BY <1>1 DEF PrimaryAnswers
    <2>2. /\ doing[p] = "primary" /\ "primary" \in Models
          /\ UNCHANGED <<windowVars, window, taken, replies, cancelled, by>>
        BY <1>1 DEF PrimaryAnswers, Models
    <2> QED
        BY <2>1, <2>2, ReturnsKeep
<1>2. CASE FallbackAnswers(p)
    <2>1. PICK reply \in RepliesTo(transcript) :
            Returns(p, "fallback", reply, [record[p] EXCEPT !.provider = "fallback"])
        BY <1>2 DEF FallbackAnswers
    <2>2. /\ doing[p] = "fallback" /\ "fallback" \in Models
          /\ UNCHANGED <<windowVars, window, taken, replies, cancelled, by>>
        BY <1>2 DEF FallbackAnswers, Models
    <2> QED
        BY <2>1, <2>2, ReturnsKeep
<1> QED
    BY <1>1, <1>2, TakeKeeps, MovesKeep, NameModelKeeps DEF Work

(* The property is what the calls keep.                                    *)
LEMMA Provenance ==
    ASSUME CInv, WInv
    PROVE  ProvenanceTrue
<1> USE DEF CInv
<1>1. \A w \in DOMAIN replies :
        replies[w].source = [provider |-> by[w], fallbackUsed |-> by[w] = "fallback"]
    BY DEF StoredTrue, SourceOf
<1>2. ASSUME AllAnswered, windows # <<>>, NEW f \in {"provider", "model"}
      PROVE  \E w \in DOMAIN by : by[w] = named[f]
    <2>1. DOMAIN windows = 1 .. Len(windows) /\ Len(windows) \in Nat /\ DOMAIN windows # {}
        BY <1>2 DEF WInv, WindowsTyped
    <2>2. DOMAIN by = DOMAIN windows /\ 1 .. taken \subseteq DOMAIN windows
        BY <1>2, <2>1 DEF AllAnswered, CallsTyped
    <2>3. \A p \in Threads : doing[p] # "naming"
        BY <1>2, <2>2 DEF OneEach, CallsTyped
    <2> QED
        BY <2>1, <2>2, <2>3 DEF NamedTrue
<1> QED
    BY <1>1, <1>2 DEF ProvenanceTrue

(***************************************************************************)
(* The checkpoint                                                          *)
(***************************************************************************)
LEMMA SmallestOf ==
    ASSUME NEW S \in SUBSET Nat, S # {}
    PROVE  \E m \in S : \A k \in S : m <= k
<1> DEFINE R == {ss \in Nat \X Nat : ss[1] < ss[2]}
<1>1. IsWellFoundedOn(R, Nat)
    BY NatLessThanWellFounded DEF OpToRel
<1>2. \A k, m \in Nat : <<k, m>> \in R <=> k < m
    OBVIOUS
<1> HIDE DEF R
<1>3. PICK m \in S : \A k \in S : ~ (<<k, m>> \in R)
    BY <1>1, WFMin
<1>4. \A k \in S : k \in Nat /\ m \in Nat /\ ~ (k < m)
    BY <1>2, <1>3
<1>5. \A k \in S : m <= k
    BY <1>4
<1> QED
    BY <1>5

LEMMA BeforePairs ==
    ASSUME NEW a \in Int, NEW b \in Int, NEW c \in Int, NEW d \in Int
    PROVE  Before(<<a, b>>, <<c, d>>) <=> a < c \/ (a = c /\ b < d)
<1> DEFINE p == <<a, b>>
           q == <<c, d>>
<1>1. DOMAIN p = {1, 2} /\ p[1] = a /\ p[2] = b /\ q[1] = c /\ q[2] = d
    OBVIOUS
<1> HIDE DEF p, q
<1>2. (p[1] < q[1] /\ \A m \in 1 .. (1 - 1) : p[m] = q[m]) <=> a < c
    BY <1>1
<1>3. (p[2] < q[2] /\ \A m \in 1 .. (2 - 1) : p[m] = q[m]) <=> a = c /\ b < d
    BY <1>1
<1>4. Before(p, q) <=> a < c \/ (a = c /\ b < d)
    BY <1>1, <1>2, <1>3 DEF Before
<1> QED
    BY <1>4 DEF p, q

(* A set of pairs that its second members number from 1 to m.              *)
LEMMA Numbered ==
    ASSUME NEW P, NEW m \in Nat,
           \A p \in P : p[2] \in 1 .. m,
           \A p, q \in P : p[2] = q[2] => p = q,
           \A s \in 1 .. m : \E p \in P : p[2] = s
    PROVE  Cardinality(P) = m
<1> DEFINE f == [s \in 1 .. m |-> CHOOSE p \in P : p[2] = s]
<1>1. \A s \in 1 .. m : f[s] \in P /\ f[s][2] = s
    OBVIOUS
<1>2. f \in [1 .. m -> P]
    BY <1>1
<1>3. \A p \in P : f[p[2]] = p
    BY <1>1
<1> HIDE DEF f
<1>4. f \in Bijection(1 .. m, P)
    BY <1>1, <1>2, <1>3 DEF Bijection, Injection, Surjection, IsInjective
<1>5. IsFiniteSet(1 .. m) /\ Cardinality(1 .. m) = m
    BY FS_Interval
<1> QED
    BY <1>4, <1>5, FS_Bijection DEF ExistsBijection

LEMMA RestoresWhole ==
    ASSUME WInv, RowsWhole
    PROVE  Restored = transcript
<1> DEFINE n == Len(transcript)
<1>1. /\ Segments = 1 .. n /\ n \in Nat
      /\ transcript = [k \in 1 .. n |-> transcript[k]]
    BY TranscriptIsSeq DEF WInv
<1>2. \A p \in FirstPlaces :
        /\ p = <<p[1], p[2]>> /\ p[1] \in DOMAIN rows /\ p[2] \in DOMAIN rows[p[1]]
        /\ \A w \in 1 .. (p[1] - 1) : p[2] \notin DOMAIN rows[w]
    BY DEF FirstPlaces
<1>3. DOMAIN rows \subseteq Nat /\ \A w \in DOMAIN rows : DOMAIN rows[w] \subseteq 1 .. n
    BY <1>1 DEF RowsWhole
<1>4. \A p, q \in FirstPlaces : q[2] <= p[2] => q[1] <= p[1]
    <2> SUFFICES ASSUME NEW p \in FirstPlaces, NEW q \in FirstPlaces, q[2] <= p[2]
                 PROVE  q[1] <= p[1]
        OBVIOUS
    <2>1. q[2] \in 1 .. p[2]
        BY <1>2, <1>3
    <2>2. PICK v \in 1 .. p[1] : q[2] \in DOMAIN rows[v]
        BY <1>2, <2>1 DEF RowsWhole
    <2>3. ~(v \in 1 .. (q[1] - 1))
        BY <1>2, <2>2
    <2>4. v \in Nat /\ p[1] \in Nat /\ q[1] \in Nat
        BY <1>2, <1>3
    <2> QED
        BY <2>2, <2>3, <2>4
<1>5. \A p, q \in FirstPlaces : p[2] = q[2] => p = q
    <2> SUFFICES ASSUME NEW p \in FirstPlaces, NEW q \in FirstPlaces, p[2] = q[2]
                 PROVE  p = q
        OBVIOUS
    <2>1. p[1] \in Nat /\ q[1] \in Nat /\ p[2] \in Nat
        BY <1>2, <1>3
    <2>2. p[1] <= q[1] /\ q[1] <= p[1]
        BY <1>4, <2>1
    <2> QED
        BY <1>2, <2>1, <2>2
<1>6. \A p, q \in FirstPlaces : Before(q, p) <=> q[2] < p[2]
    <2> SUFFICES ASSUME NEW p \in FirstPlaces, NEW q \in FirstPlaces
                 PROVE  Before(q, p) <=> q[2] < p[2]
        OBVIOUS
    <2>1. p[1] \in Int /\ q[1] \in Int /\ p[2] \in Int /\ q[2] \in Int
        BY <1>2, <1>3
    <2>2. Before(q, p) <=> q[1] < p[1] \/ (q[1] = p[1] /\ q[2] < p[2])
        BY <1>2, <2>1, BeforePairs
    <2> QED
        BY <1>4, <2>1, <2>2
<1>7. \A s \in 1 .. n : \E p \in FirstPlaces : p[2] = s
    <2> SUFFICES ASSUME NEW s \in 1 .. n
                 PROVE  \E p \in FirstPlaces : p[2] = s
        OBVIOUS
    <2> DEFINE S == {w \in DOMAIN rows : s \in DOMAIN rows[w]}
    <2>1. S \in SUBSET Nat /\ S # {}
        BY <1>1, <1>3 DEF RowsWhole
    <2>2. PICK w \in S : \A v \in S : w <= v
        BY <2>1, SmallestOf
    <2>3. \A v \in 1 .. (w - 1) : s \notin DOMAIN rows[v]
        <3> SUFFICES ASSUME NEW v \in 1 .. (w - 1), s \in DOMAIN rows[v]
                     PROVE  FALSE
            OBVIOUS
        <3>1. v \in DOMAIN rows
            BY <2>1, <2>2 DEF RowsWhole
        <3> QED
            BY <2>1, <2>2, <3>1
    <2>4. <<w, s>> \in FirstPlaces
        <3>1. <<w, s>> \in {w} \X DOMAIN rows[w]
            BY <2>2
        <3> QED
            BY <2>2, <2>3, <3>1 DEF FirstPlaces
    <2> QED
        BY <2>4
<1>8. \A p \in FirstPlaces : p[2] \in 1 .. n
    BY <1>2, <1>3
<1>9. Cardinality(FirstPlaces) = n
    BY <1>1, <1>5, <1>7, <1>8, Numbered
<1>10. \A p \in FirstPlaces : Cardinality({q \in FirstPlaces : Before(q, p)}) = p[2] - 1
    <2> SUFFICES ASSUME NEW p \in FirstPlaces
                 PROVE  Cardinality({q \in FirstPlaces : Before(q, p)}) = p[2] - 1
        OBVIOUS
    <2> DEFINE Q == {q \in FirstPlaces : Before(q, p)}
    <2>1. p[2] - 1 \in Nat /\ p[2] \in 1 .. n
        BY <1>8
    <2>2. \A q \in Q : q \in FirstPlaces /\ q[2] \in 1 .. (p[2] - 1)
        BY <1>6, <1>8
    <2>3. \A s \in 1 .. (p[2] - 1) : \E q \in Q : q[2] = s
        <3> SUFFICES ASSUME NEW s \in 1 .. (p[2] - 1)
                     PROVE  \E q \in Q : q[2] = s
            OBVIOUS
        <3>1. s \in 1 .. n /\ s < p[2]
            BY <1>1, <2>1
        <3>2. PICK q \in FirstPlaces : q[2] = s
            BY <1>7, <3>1
        <3> QED
            BY <1>6, <3>1, <3>2
    <2>4. \A q, r \in Q : q[2] = r[2] => q = r
        BY <1>5
    <2> HIDE DEF Q
    <2>5. Cardinality(Q) = p[2] - 1
        BY <2>1, <2>2, <2>3, <2>4, Numbered
    <2> QED
        BY <2>5 DEF Q
<1>11. \A k \in 1 .. n : Restored[k] = transcript[k]
    <2> SUFFICES ASSUME NEW k \in 1 .. n
                 PROVE  Restored[k] = transcript[k]
        OBVIOUS
    <2> DEFINE p == CHOOSE p \in FirstPlaces :
                        Cardinality({q \in FirstPlaces : Before(q, p)}) = k - 1
    <2>1. \E q \in FirstPlaces : Cardinality({r \in FirstPlaces : Before(r, q)}) = k - 1
        BY <1>7, <1>10
    <2>2. p \in FirstPlaces /\ Cardinality({r \in FirstPlaces : Before(r, p)}) = k - 1
        BY <2>1
    <2>3. Restored[k] = rows[p[1]][p[2]]
        BY <1>9 DEF Restored
    <2> HIDE DEF p
    <2>4. p[2] = k
        BY <1>8, <1>10, <2>2
    <2>5. rows[p[1]][p[2]] = transcript[p[2]]
        BY <1>2, <2>2 DEF RowsWhole
    <2> QED
        BY <2>3, <2>4, <2>5
<1>12. Restored = [k \in 1 .. n |-> Restored[k]]
    BY <1>9 DEF Restored
<1> QED
    BY <1>1, <1>11, <1>12

(***************************************************************************)
(* The answers of the windows                                              *)
(***************************************************************************)
(* A window is of segments of the transcript.                              *)
LEMMA WindowsInTranscript ==
    ASSUME WInv
    PROVE  \A w \in DOMAIN windows : windows[w].segments \subseteq Segments
<1> DEFINE W == [segments : SUBSET (1 .. upTo), tokens : Nat]
<1>1. windows \in Seq(W)
    BY DEF WInv, WindowsTyped
<1>2. W \subseteq W
    OBVIOUS
<1> HIDE DEF W
<1>3. \A w \in DOMAIN windows : windows[w] \in W
    BY <1>1, <1>2, LargerSeq
<1>4. 1 .. upTo \subseteq Segments
    <2>1. Segments = 1 .. Len(transcript) /\ Len(transcript) \in Nat /\ upTo \in 0 .. Len(transcript)
        BY TranscriptIsSeq DEF WInv, WindowsTyped
    <2> QED
        BY <2>1
<1>5. \A w \in DOMAIN windows : windows[w].segments \subseteq 1 .. upTo
    BY <1>3 DEF W
<1> QED
    BY <1>4, <1>5

(* What is normalised is a number of the window.                           *)
LEMMA NumbersKept ==
    ASSUME WInv, NEW w \in DOMAIN windows, NEW cites
    PROVE  NormalisedAll(w, cites) \subseteq Numbers(w)
<1> DEFINE S == windows[w].segments
<1>1. S \subseteq Int /\ IsFiniteSet(S)
    <2>1. Segments = 1 .. Len(transcript) /\ Len(transcript) \in Nat
        BY TranscriptIsSeq DEF WInv
    <2>2. IsFiniteSet(Segments) /\ S \subseteq Segments
        BY <2>1, FS_Interval, WindowsInTranscript
    <2> QED
        BY <2>1, <2>2, FS_Subset
<1>2. ASSUME NEW s \in S
      PROVE  Number(w, s) \in Numbers(w)
    <2> DEFINE U == {r \in S : r <= s}
    <2>1. U \subseteq S /\ U # {}
        BY <1>1
    <2> HIDE DEF U
    <2>2. /\ IsFiniteSet(U) /\ Cardinality(U) \in Nat /\ Cardinality(S) \in Nat
          /\ Cardinality(U) <= Cardinality(S)
        BY <1>1, <2>1, FS_Subset, FS_CardinalityType
    <2>3. Cardinality(U) # 0
        BY <2>1, <2>2, FS_EmptySet
    <2> QED
        BY <2>2, <2>3 DEF Number, Numbers, U
<1>3. \A c \in cites : Normalised(w, c) \subseteq Numbers(w)
    BY <1>2 DEF Normalised
<1> QED
    BY <1>3 DEF NormalisedAll

LEMMA LocalFine ==
    ASSUME WInv, NEW w \in DOMAIN windows, NEW reply \in RepliesTo(transcript)
    PROVE  /\ ItemsFine(LocalResult(w, reply).items)
           /\ CitesFine(w, LocalResult(w, reply).items)
           /\ SummaryTaken(LocalResult(w, reply).executive, reply.executive)
<1> DEFINE kept == LocalResult(w, reply).items
<1>1. /\ reply.items \in Seq(Range(reply.items))
      /\ \A k \in DOMAIN reply.items :
            reply.items[k].section \in Range(Sections) /\ reply.items[k].id \notin Reserved
    BY RepliesAssumption DEF WInv, WindowsTyped, Reserved, Segments
<1>2. DOMAIN reply.items \subseteq Nat
    BY <1>1
<1>3. kept = KeptItems(w, reply.items)
    BY DEF LocalResult
<1>4. /\ DOMAIN kept \subseteq DOMAIN reply.items
      /\ \A k \in DOMAIN kept :
            /\ kept[k].section = reply.items[k].section /\ kept[k].id = IdOf(reply.items, k)
            /\ kept[k].form = reply.items[k].form /\ kept[k].cites = LocalCites(w, reply.items[k])
    BY <1>3 DEF KeptItems
<1>5. \A k \in DOMAIN reply.items : IdOf(reply.items, k) \notin Reserved
    <2> SUFFICES ASSUME NEW k \in DOMAIN reply.items
                 PROVE  IdOf(reply.items, k) \notin Reserved
        OBVIOUS
    <2>1. CASE reply.items[k].id # NoId
        BY <1>1, <2>1 DEF IdOf
    <2>2. CASE reply.items[k].id = NoId
        <3>1. PICK n : IdOf(reply.items, k) = <<reply.items[k].section, n>>
            BY <2>2 DEF IdOf
        <3>2. reply.items[k].section \in
                {"participants", "entities", "facts", "events", "topics", "actions",
                 "decisions", "risks", "questions"}
            BY <1>1 DEF Range, Sections
        <3>3. \A l : IdOf(reply.items, k) # SpeakerOf(l)
            BY <3>1, <3>2 DEF SpeakerOf
        <3>4. IdOf(reply.items, k) # CountId
            BY <3>1, <3>2 DEF CountId
        <3> QED
            BY <3>3, <3>4 DEF Reserved
    <2> QED
        BY <2>1, <2>2
<1>6. SummaryTaken(LocalResult(w, reply).executive, reply.executive)
    BY DEF LocalResult, OwnSummary, SummaryTaken
<1>7. CitesFine(w, kept)
    <2> SUFFICES ASSUME NEW k \in DOMAIN kept, kept[k].form = "list"
                 PROVE  kept[k].cites \subseteq Numbers(w)
        BY DEF CitesFine
    <2>1. kept[k].cites = NormalisedAll(w, reply.items[k].cites)
        BY <1>4 DEF LocalCites
    <2> QED
        BY <2>1, NumbersKept
<1> QED
    BY <1>1, <1>2, <1>4, <1>5, <1>6, <1>7 DEF ItemsFine

(***************************************************************************)
(* The reduction                                                           *)
(***************************************************************************)
LEMMA PlacesTyped ==
    ASSUME WInv, AnswersFine, AllAnswered
    PROVE  \A p \in Places :
            /\ p[1] \in DOMAIN windows
            /\ ItemAt(p).id \notin Reserved
            /\ ItemAt(p).form = "list" => RefsAt(p) \subseteq windows[p[1]].segments
<1> SUFFICES ASSUME NEW p \in Places
             PROVE  /\ p[1] \in DOMAIN windows
                    /\ ItemAt(p).id \notin Reserved
                    /\ ItemAt(p).form = "list" => RefsAt(p) \subseteq windows[p[1]].segments
    OBVIOUS
<1>1. PICK w \in DOMAIN answers : p \in {w} \X (1 .. Len(Sections)) \X DOMAIN answers[w].items
    BY DEF Places
<1>2. p[1] = w /\ p[3] \in DOMAIN answers[w].items
    BY <1>1
<1>3. w \in DOMAIN windows
    BY DEF AnswersFine, AllAnswered
<1>4. ItemsFine(answers[w].items) /\ CitesFine(w, answers[w].items)
    BY DEF AnswersFine
<1>5. ItemAt(p).form = "list" => RefsAt(p) \subseteq windows[w].segments
    BY <1>2, <1>4 DEF ItemAt, CitesFine, RefsAt, Global
<1> QED
    BY <1>2, <1>3, <1>4, <1>5 DEF ItemAt, ItemsFine

LEMMA MergedFine ==
    ASSUME WInv, AnswersFine, AllAnswered
    PROVE  /\ \A id \in DOMAIN Merged :
                /\ id \notin Reserved /\ ~Merged[id].derived
                /\ Merged[id].sources \subseteq DOMAIN windows
                /\ (\A p \in Places : ItemAt(p).id = id => ItemAt(p).form = "list") =>
                    Merged[id].refs \subseteq UNION {windows[w].segments : w \in Merged[id].sources}
                /\ Merged[id].refs \subseteq Segments \/ SomethingRaw
           /\ \A p \in Places :
                /\ ItemAt(p).id \in DOMAIN Merged
                /\ RefsAt(p) \subseteq Merged[ItemAt(p).id].refs
                /\ p[1] \in Merged[ItemAt(p).id].sources
<1> DEFINE mine(id) == {p \in Places : ItemAt(p).id = id}
<1>1. /\ DOMAIN Merged = {ItemAt(p).id : p \in Places}
      /\ \A id \in DOMAIN Merged :
            /\ Merged[id].refs = UNION {RefsAt(p) : p \in mine(id)}
            /\ Merged[id].sources = {p[1] : p \in mine(id)}
            /\ Merged[id].derived = FALSE
    BY DEF Merged
<1> HIDE DEF mine
<1>2. \A id \in DOMAIN Merged : id \notin Reserved
    BY <1>1, PlacesTyped
<1>3. \A id \in DOMAIN Merged : Merged[id].sources \subseteq DOMAIN windows
    BY <1>1, PlacesTyped DEF mine
<1>4. ASSUME NEW id \in DOMAIN Merged,
             \A p \in Places : ItemAt(p).id = id => ItemAt(p).form = "list"
      PROVE  Merged[id].refs \subseteq UNION {windows[w].segments : w \in Merged[id].sources}
    <2>1. \A p \in mine(id) : RefsAt(p) \subseteq windows[p[1]].segments
        BY <1>4, PlacesTyped DEF mine
    <2> QED
        BY <1>1, <2>1
<1>5. \A id \in DOMAIN Merged : Merged[id].refs \subseteq Segments \/ SomethingRaw
    <2> SUFFICES ASSUME NEW id \in DOMAIN Merged, NEW i \in Merged[id].refs, i \notin Segments
                 PROVE  SomethingRaw
        OBVIOUS
    <2>1. PICK p \in Places : i \in RefsAt(p)
        BY <1>1 DEF mine
    <2>2. ItemAt(p).form # "list"
        BY <2>1, PlacesTyped, WindowsInTranscript
    <2> QED
        BY <2>1, <2>2 DEF SomethingRaw
<1>6. \A p \in Places :
        /\ ItemAt(p).id \in DOMAIN Merged
        /\ RefsAt(p) \subseteq Merged[ItemAt(p).id].refs
        /\ p[1] \in Merged[ItemAt(p).id].sources
    BY <1>1 DEF mine
<1> QED
    BY <1>1, <1>2, <1>3, <1>4, <1>5, <1>6

LEMMA SpeakersFine ==
    ASSUME WInv
    PROVE  /\ DOMAIN SpeakerRecords \subseteq Reserved
           /\ \A id \in DOMAIN SpeakerRecords :
                /\ SpeakerRecords[id].derived
                /\ SpeakerRecords[id].section \in {"participants", "facts"}
                /\ SpeakerRecords[id].section = "participants" => SpeakerRecords[id].refs # {}
                /\ SpeakerRecords[id].refs \subseteq Segments
                /\ SpeakerRecords[id].sources = DOMAIN windows
           /\ Labels # {} => \E id \in DOMAIN SpeakerRecords :
                                SpeakerRecords[id].section = "participants"
           /\ CountId \in DOMAIN SpeakerRecords => Labels # {}
<1>1. \A l \in Labels : \E i \in Segments : transcript[i].speaker = l
    BY DEF Labels
<1>2. \A l : SpeakerOf(l) # CountId /\ SpeakerOf(l)[2] = l
    BY DEF SpeakerOf, CountId
<1>3. \A id \in DOMAIN SpeakerRecords : (\E l \in Labels : id = SpeakerOf(l)) \/ (id = CountId /\ Labels # {})
    BY DEF SpeakerRecords
<1>4. \A l \in Labels : SpeakerOf(l) \in DOMAIN SpeakerRecords
    BY DEF SpeakerRecords
<1>5. \A id \in DOMAIN SpeakerRecords :
        SpeakerRecords[id] =
            [section |-> IF id = CountId THEN "facts" ELSE "participants",
             claim   |-> IF id = CountId THEN Count ELSE id[2], says |-> <<>>,
             refs    |-> IF id = CountId THEN {}
                         ELSE {i \in Segments : transcript[i].speaker = id[2]},
             sources |-> DOMAIN windows, derived |-> TRUE, place |-> <<>>]
    BY DEF SpeakerRecords
<1>6. \A id \in DOMAIN SpeakerRecords :
        /\ SpeakerRecords[id].derived
        /\ SpeakerRecords[id].section \in {"participants", "facts"}
        /\ SpeakerRecords[id].section = "participants" => id # CountId
        /\ id # CountId => SpeakerRecords[id].section = "participants"
        /\ id # CountId => SpeakerRecords[id].refs = {i \in Segments : transcript[i].speaker = id[2]}
        /\ SpeakerRecords[id].refs \subseteq Segments
        /\ SpeakerRecords[id].sources = DOMAIN windows
    BY <1>5
<1>7. DOMAIN SpeakerRecords \subseteq Reserved
    BY <1>1, <1>3 DEF Reserved
<1>8. \A id \in DOMAIN SpeakerRecords :
        SpeakerRecords[id].section = "participants" => SpeakerRecords[id].refs # {}
    BY <1>1, <1>2, <1>3, <1>6
<1>9. Labels # {} => \E id \in DOMAIN SpeakerRecords : SpeakerRecords[id].section = "participants"
    BY <1>2, <1>4, <1>6
<1>10. CountId \in DOMAIN SpeakerRecords => Labels # {}
    BY <1>3
<1> QED
    BY <1>6, <1>7, <1>8, <1>9, <1>10

LEMMA SummaryFine ==
    ASSUME WInv, AnswersFine, AllAnswered, windows # <<>>
    PROVE  /\ LineageValid(Summary)
           /\ Summary.refs # {} =>
                \A w \in DOMAIN windows : replies[w].reply.executive.text \in {"words", "value"}
           /\ ~Summary.text => \A w \in DOMAIN windows : replies[w].reply.executive.text = "null"
<1> DEFINE own == {w \in DOMAIN answers : answers[w].executive.own}
           Cites(w) ==
               LET e == answers[w].executive
               IN  IF e.cites # {} THEN e.cites
                   ELSE UNION {i.cites : i \in {j \in Range(answers[w].items) :
                                   j.section = "topics" /\ j.id \in e.topics}}
           refs  == (UNION {Global(w, Cites(w)) : w \in own}) \intersect Segments
           whole == own = DOMAIN answers /\ own # {} /\ refs # {}
           shown == \E w \in DOMAIN answers : answers[w].executive.shows
<1>1. Summary = [text |-> shown, verified |-> whole, covered |-> own,
                 refs |-> IF whole THEN refs ELSE {}]
    BY DEF Summary, SummaryRefs
<1>2. DOMAIN answers = DOMAIN windows /\ own \subseteq DOMAIN windows
    BY DEF AnswersFine, AllAnswered
<1>3. refs \subseteq Segments
    OBVIOUS
<1>4. whole => \A w \in DOMAIN windows : replies[w].reply.executive.text \in {"words", "value"}
    BY <1>2 DEF AnswersFine, SummaryTaken
<1>5. ~shown => \A w \in DOMAIN windows : replies[w].reply.executive.text = "null"
    BY <1>2 DEF AnswersFine, SummaryTaken
<1> HIDE DEF own, Cites, refs, shown
<1> QED
    BY <1>1, <1>2, <1>3, <1>4, <1>5 DEF LineageValid

LEMMA ReducedFine ==
    ASSUME WInv, AnswersFine, AllAnswered, windows # <<>>
    PROVE  /\ \A id \in DOMAIN Reduced.records :
                (/\ ~Reduced.records[id].derived
                 /\ \A p \in Places : ItemAt(p).id = id => ItemAt(p).form = "list") =>
                    Reduced.records[id].refs \subseteq
                        UNION {windows[w].segments : w \in Reduced.records[id].sources}
           /\ \A p \in Places : RefsAt(p) \intersect Segments # {} =>
                \/ /\ ItemAt(p).id \in DOMAIN Reduced.records
                   /\ RefsAt(p) \subseteq Reduced.records[ItemAt(p).id].refs
                   /\ p[1] \in Reduced.records[ItemAt(p).id].sources
                \/ /\ Merged[ItemAt(p).id].section = "decisions"
                   /\ \E a \in DOMAIN Reduced.records :
                        /\ Reduced.records[a].section = "actions"
                        /\ Signature(Reduced.records[a].says) = Signature(Merged[ItemAt(p).id].says)
           /\ RefsKnown(Reduced) \/ SomethingRaw
           /\ \A id \in DOMAIN Reduced.records : Reduced.records[id].derived =>
                /\ Reduced.records[id].section \in {"participants", "facts"}
                /\ Reduced.records[id].section = "participants" => Reduced.records[id].refs # {}
           /\ Labels # {} => \E id \in DOMAIN Reduced.records :
                Reduced.records[id].section = "participants" /\ Reduced.records[id].derived
           /\ CountId \in DOMAIN Reduced.records => Labels # {}
           /\ Reduced.summary = Summary
<1> DEFINE supported == Supported(Merged)
           records == [id \in DOMAIN SpeakerRecords \union DOMAIN supported |->
                        IF id \in DOMAIN SpeakerRecords THEN SpeakerRecords[id] ELSE supported[id]]
<1>1. Reduced.records = records /\ Reduced.summary = Summary
    BY DEF Reduced
<1>2. /\ DOMAIN supported \subseteq DOMAIN Merged
      /\ \A id \in DOMAIN supported : supported[id] = Merged[id]
    <2> DEFINE kept == {i \in Cited(Merged) :
                Merged[i].section = "decisions"
                    => Signature(Merged[i].says) \notin SignaturesIn(Merged, "actions")}
    <2>1. supported = [i \in kept |-> Merged[i]]
        BY DEF Supported, Restrict
    <2>2. kept \subseteq DOMAIN Merged
        BY DEF Cited
    <2> HIDE DEF supported, kept
    <2> QED
        BY <2>1, <2>2
<1>3. ASSUME NEW id \in DOMAIN Merged, Merged[id].refs \intersect Segments # {}, id \notin DOMAIN supported
      PROVE  /\ Merged[id].section = "decisions"
             /\ \E a \in DOMAIN supported :
                    /\ Merged[a].section = "actions"
                    /\ Signature(Merged[a].says) = Signature(Merged[id].says)
    <2> DEFINE tasks == SignaturesIn(Merged, "actions")
    <2>1. DOMAIN supported =
            {i \in Cited(Merged) : Merged[i].section = "decisions" => Signature(Merged[i].says) \notin tasks}
        BY DEF Supported, Restrict, Cited
    <2>2. id \in Cited(Merged)
        BY <1>3 DEF Cited
    <2>3. Merged[id].section = "decisions" /\ Signature(Merged[id].says) \in tasks
        BY <1>3, <2>1, <2>2
    <2>4. PICK a \in Cited(Merged) :
            Merged[a].section = "actions" /\ Signature(Merged[a].says) = Signature(Merged[id].says)
        BY <2>3 DEF SignaturesIn
    <2>5. a \in DOMAIN supported
        BY <2>1, <2>4
    <2> QED
        BY <2>3, <2>4, <2>5
<1> HIDE DEF supported
<1>4. /\ DOMAIN records = DOMAIN SpeakerRecords \union DOMAIN supported
      /\ \A id \in DOMAIN SpeakerRecords : records[id] = SpeakerRecords[id]
      /\ \A id \in DOMAIN supported : id \notin DOMAIN SpeakerRecords => records[id] = supported[id]
    OBVIOUS
<1>5. \A id \in DOMAIN supported : id \notin DOMAIN SpeakerRecords /\ id # CountId
    BY <1>2, MergedFine, SpeakersFine DEF Reserved
<1> HIDE DEF records
<1>6. \A id \in DOMAIN records :
        \/ id \in DOMAIN SpeakerRecords /\ records[id] = SpeakerRecords[id]
        \/ id \in DOMAIN Merged /\ id # CountId /\ records[id] = Merged[id]
    BY <1>2, <1>4, <1>5
<1>7. \A id \in DOMAIN supported : id \in DOMAIN records /\ records[id] = Merged[id]
    BY <1>2, <1>4, <1>5
<1>8. ASSUME NEW id \in DOMAIN records, ~records[id].derived,
             \A p \in Places : ItemAt(p).id = id => ItemAt(p).form = "list"
      PROVE  records[id].refs \subseteq UNION {windows[w].segments : w \in records[id].sources}
    BY <1>6, <1>8, MergedFine, SpeakersFine
<1>9. \A id \in DOMAIN records :
        /\ records[id].refs \subseteq Segments \/ SomethingRaw
        /\ records[id].sources \subseteq DOMAIN windows
    BY <1>6, MergedFine, SpeakersFine
<1>10. ASSUME NEW p \in Places, RefsAt(p) \intersect Segments # {}
       PROVE  \/ /\ ItemAt(p).id \in DOMAIN records
                 /\ RefsAt(p) \subseteq records[ItemAt(p).id].refs
                 /\ p[1] \in records[ItemAt(p).id].sources
              \/ /\ Merged[ItemAt(p).id].section = "decisions"
                 /\ \E a \in DOMAIN records :
                        /\ records[a].section = "actions"
                        /\ Signature(records[a].says) = Signature(Merged[ItemAt(p).id].says)
    <2> DEFINE id == ItemAt(p).id
    <2>1. /\ id \in DOMAIN Merged /\ RefsAt(p) \subseteq Merged[id].refs
          /\ p[1] \in Merged[id].sources
        BY MergedFine
    <2>2. CASE id \in DOMAIN supported
        BY <1>7, <2>1, <2>2
    <2>3. CASE id \notin DOMAIN supported
        <3>1. Merged[id].refs \intersect Segments # {}
            BY <1>10, <2>1
        <3>2. /\ Merged[id].section = "decisions"
              /\ \E a \in DOMAIN supported :
                    /\ Merged[a].section = "actions"
                    /\ Signature(Merged[a].says) = Signature(Merged[id].says)
            BY <1>3, <2>1, <2>3, <3>1
        <3> QED
            BY <1>7, <3>2
    <2> QED
        BY <2>2, <2>3
<1>11. RefsKnown(Reduced) \/ SomethingRaw
    BY <1>1, <1>9 DEF RefsKnown
<1>12. \A id \in DOMAIN records : records[id].derived =>
        /\ records[id].section \in {"participants", "facts"}
        /\ records[id].section = "participants" => records[id].refs # {}
    BY <1>6, MergedFine, SpeakersFine
<1>13. Labels # {} => \E id \in DOMAIN records :
        records[id].section = "participants" /\ records[id].derived
    BY <1>4, SpeakersFine
<1>14. CountId \in DOMAIN records => Labels # {}
    BY <1>4, <1>5, SpeakersFine
<1> QED
    BY <1>1, <1>8, <1>10, <1>11, <1>12, <1>13, <1>14

(***************************************************************************)
(* The steps                                                               *)
(***************************************************************************)
LEMMA ExtractionBegins ==
    ASSUME Init
    PROVE  KInv
<1>1. WInv
    BY WindowsBegin DEF Init
<1>2. CInv
    BY CallsBegin DEF Init, WindowInit
<1>3. transcript \in Transcripts
    BY DEF Init, WindowInit
<1>4. runs \in 1 .. RunsOn(transcript)
    BY <1>3, RunsAssumption DEF Init
<1> QED
    BY <1>1, <1>2, <1>4 DEF Init, KInv, Phases, Over

LEMMA SplitKeeps ==
    ASSUME KInv, Split
    PROVE  KInv'
<1>1. /\ phase = "split" /\ WindowNext
      /\ UNCHANGED <<callVars, phase, rows, answers, result, runs>>
    BY DEF Split
<1>2. WInv' /\ WInv
    BY <1>1, WindowsKeep DEF KInv
<1>3. transcript' = transcript
    BY <1>1 DEF WindowNext, TakeSegment, CloseLast
<1>4. CallsInit'
    BY <1>1, <1>3 DEF KInv, CallsInit, callVars, NoCalls
<1>5. CInv'
    <2>1. Len(windows') \in Nat
        BY <1>2 DEF WInv, WindowsTyped
    <2> QED
        BY <1>4, <2>1, CallsBeginAgain
<1>6. rows' = <<>> \/ RowsWhole'
    BY <1>1, <1>3 DEF KInv, RowsWhole, Segments
<1> QED
    BY <1>1, <1>2, <1>3, <1>4, <1>5, <1>6 DEF KInv, Over, Phases

LEMMA CheckpointKeeps ==
    ASSUME KInv, Checkpoint
    PROVE  KInv'
<1>1. /\ phase = "split" /\ WindowsDone /\ phase' = "ask"
      /\ rows' = [w \in DOMAIN windows |-> Row(w)]
      /\ UNCHANGED <<windowVars, callVars, answers, result, runs>>
    BY DEF Checkpoint
<1>2. WInv /\ CInv /\ CallsInit /\ answers = <<>>
    BY <1>1 DEF KInv
<1>3. WInv'
    BY <1>1, <1>2, WindowsKeep
<1>4. UNCHANGED <<transcript, upTo, current, weight, windows>> /\ Segments' = Segments
    BY <1>1 DEF windowVars, Segments
<1>5. CInv'
    BY <1>1, <1>2, <1>4 DEF callVars, CInv, CallsTyped, OneEach, RecordTrue, StoredTrue, NamedTrue, Threads
<1>6. WindowsDone'
    BY <1>1, <1>4 DEF WindowsDone, AllTaken
<1>7. RowsWhole'
    <2>1. DOMAIN windows = 1 .. Len(windows) /\ Len(windows) \in Nat
        BY <1>2 DEF WInv, WindowsTyped
    <2>2. DOMAIN rows' = 1 .. Len(rows') /\ Len(rows') \in Nat
        BY <1>1, <2>1
    <2>3. \A w \in DOMAIN windows :
            /\ DOMAIN rows'[w] = windows[w].segments
            /\ \A s \in windows[w].segments : rows'[w][s] = transcript[s]
        BY <1>1 DEF Row
    <2>4. \A w \in DOMAIN windows : windows[w].segments \subseteq Segments
        BY <1>2, WindowsInTranscript
    <2>5. \A w \in DOMAIN windows : \A s \in windows[w].segments : \A r \in 1 .. s :
            \E v \in 1 .. w : r \in DOMAIN rows'[v]
        <3> SUFFICES ASSUME NEW w \in DOMAIN windows, NEW s \in windows[w].segments, NEW r \in 1 .. s
                     PROVE  \E v \in 1 .. w : r \in DOMAIN rows'[v]
            OBVIOUS
        <3>1. PICK v \in 1 .. w : r \in windows[v].segments
            BY <1>2 DEF WInv, FilledInOrder
        <3>2. v \in DOMAIN windows
            BY <2>1
        <3> QED
            BY <2>3, <3>1, <3>2
    <2>6. \A s \in Segments : \E w \in DOMAIN windows : s \in windows[w].segments
        BY <1>1, <1>2, WindowsCover
    <2>7. DOMAIN rows' = DOMAIN windows
        BY <1>1
    <2> QED
        BY <1>4, <2>2, <2>3, <2>4, <2>5, <2>6, <2>7 DEF RowsWhole
<1>8. AnswersFine'
    <2>1. DOMAIN replies' = {} /\ DOMAIN answers' = {}
        BY <1>1, <1>2 DEF CallsInit, callVars
    <2> QED
        BY <2>1 DEF AnswersFine
<1>9. runs' \in 1 .. RunsOn(transcript)'
    BY <1>1, <1>4 DEF KInv
<1> QED
    BY <1>1, <1>3, <1>5, <1>6, <1>7, <1>8, <1>9 DEF KInv, Phases, Over

(* The steps that leave the windows, the rows and the runs alone.          *)
LEMMA QuietWindows ==
    ASSUME KInv, phase # "split", UNCHANGED <<windowVars, rows, runs>>
    PROVE  /\ WInv' /\ WindowsDone' /\ RowsWhole' /\ Segments' = Segments
           /\ runs' \in 1 .. RunsOn(transcript)'
           /\ transcript' = transcript /\ windows' = windows
<1>1. WInv /\ WindowsDone /\ RowsWhole
    BY DEF KInv
<1>2. WInv'
    BY <1>1, WindowsKeep
<1>3. UNCHANGED <<transcript, upTo, current, weight, windows>> /\ Segments' = Segments
    BY DEF windowVars, Segments
<1> QED
    BY <1>1, <1>2, <1>3 DEF KInv, WindowsDone, AllTaken, RowsWhole

LEMMA AskKeeps ==
    ASSUME KInv, NEW p \in Threads, Ask(p)
    PROVE  KInv'
<1>1. /\ phase = "ask" /\ phase' = "ask" /\ Work(p)
      /\ UNCHANGED <<windowVars, rows, result, runs>>
      /\ answers' = [w \in DOMAIN replies' |->
                        IF w \in DOMAIN answers THEN answers[w]
                        ELSE LocalResult(w, replies'[w].reply)]
    BY DEF Ask
<1>2. WInv /\ CInv /\ AnswersFine
    BY <1>1 DEF KInv
<1>3. /\ WInv' /\ WindowsDone' /\ RowsWhole' /\ Segments' = Segments
      /\ runs' \in 1 .. RunsOn(transcript)' /\ transcript' = transcript
    BY <1>1, QuietWindows
<1>4. CInv'
    BY <1>1, <1>2, WorkKeeps
<1>5. \A w \in DOMAIN replies : w \in DOMAIN replies' /\ replies'[w] = replies[w]
    <2>1. CASE NameModel(p)
        <3>1. window[p] \notin DOMAIN replies
            BY <1>2, <2>1 DEF NameModel, CInv, OneEach
        <3> QED
            BY <2>1, <3>1 DEF NameModel
    <2>2. CASE ~NameModel(p)
        BY <1>1, <2>2 DEF Work, Take, PrimaryAnswers, PrimaryRefuses, PrimaryBreaks, EnterSlot,
                         FallbackAnswers, FallbackFails, Raises
    <2> QED
        BY <2>1, <2>2
<1>6. \A w \in DOMAIN replies' : replies'[w].reply \in RepliesTo(transcript)
    BY <1>3, <1>4 DEF CInv, CallsTyped
<1>7. AnswersFine'
    <2> SUFFICES ASSUME NEW w \in DOMAIN replies'
                 PROVE  /\ DOMAIN answers'[w].items \subseteq Nat
                        /\ \A k \in DOMAIN answers'[w].items :
                            /\ answers'[w].items[k].section \in Range(Sections)
                            /\ answers'[w].items[k].id \notin Reserved'
                        /\ \A k \in DOMAIN answers'[w].items :
                            answers'[w].items[k].form = "list"
                                => answers'[w].items[k].cites \subseteq Numbers(w)'
                        /\ SummaryTaken(answers'[w].executive, replies'[w].reply.executive)
        BY <1>1 DEF AnswersFine, ItemsFine, CitesFine, SummaryTaken
    <2>1. Reserved' = Reserved
        BY <1>3 DEF Reserved
    <2>2. windows' = windows /\ \A v : Numbers(v)' = Numbers(v)
        BY <1>1 DEF windowVars, Numbers
    <2>3. CASE w \in DOMAIN answers
        <3>1. answers'[w] = answers[w] /\ replies'[w] = replies[w]
            BY <1>1, <1>2, <1>5, <2>3 DEF AnswersFine
        <3> QED
            BY <1>2, <2>1, <2>2, <2>3, <3>1 DEF AnswersFine, ItemsFine, CitesFine
    <2>4. CASE w \notin DOMAIN answers
        <3>1. answers'[w] = LocalResult(w, replies'[w].reply)
            BY <1>1, <2>4
        <3>2. w \in DOMAIN windows
            BY <1>2, <1>3, <1>4, <2>2 DEF CInv, CallsTyped, WInv, WindowsTyped
        <3>3. /\ ItemsFine(answers'[w].items) /\ CitesFine(w, answers'[w].items)
              /\ SummaryTaken(answers'[w].executive, replies'[w].reply.executive)
            BY <1>2, <1>6, <3>1, <3>2, LocalFine
        <3> QED
            BY <2>1, <2>2, <3>3 DEF ItemsFine, CitesFine
    <2> QED
        BY <2>3, <2>4
<1> QED
    BY <1>1, <1>3, <1>4, <1>7 DEF KInv, Over, Phases

LEMMA NoticeKeeps ==
    ASSUME KInv, Notice
    PROVE  KInv'
<1>1. /\ phase = "ask" /\ phase' = "ask"
      /\ UNCHANGED <<windowVars, rows, answers, result, runs>>
      /\ UNCHANGED <<doing, window, record, said, named, taken, replies, by>>
    BY DEF Notice, MeetException
<1>2. /\ WInv' /\ WindowsDone' /\ RowsWhole' /\ Segments' = Segments
      /\ runs' \in 1 .. RunsOn(transcript)' /\ transcript' = transcript /\ windows' = windows
    BY <1>1, QuietWindows
<1>3. CInv'
    BY <1>1, <1>2, QuietCalls DEF KInv
<1>4. AnswersFine'
    BY <1>1, <1>2 DEF KInv, AnswersFine, ItemsFine, CitesFine, Numbers, SummaryTaken, Reserved
<1> QED
    BY <1>1, <1>2, <1>3, <1>4 DEF KInv, Over, Phases

LEMMA FailKeeps ==
    ASSUME KInv, Fail \/ ReduceRaises
    PROVE  KInv'
<1>1. /\ phase = "ask" /\ phase' = "failed"
      /\ UNCHANGED <<windowVars, callVars, rows, result, runs>>
    BY DEF Fail, ReduceRaises
<1>2. /\ WInv' /\ WindowsDone' /\ RowsWhole'
      /\ runs' \in 1 .. RunsOn(transcript)' /\ transcript' = transcript /\ windows' = windows
    BY <1>1, QuietWindows
<1>3. CInv'
    BY <1>1, <1>2, QuietCalls DEF KInv, callVars
<1> QED
    BY <1>1, <1>2, <1>3 DEF KInv, Over, Phases

(* What is true of a result stays true of it.                              *)
LEMMA ReducedThere ==
    ASSUME UNCHANGED <<windowVars, callVars, answers>>
    PROVE  /\ Places' = Places /\ Labels' = Labels /\ Segments' = Segments
           /\ windows' = windows /\ replies' = replies /\ transcript' = transcript
           /\ \A p : ItemAt(p)' = ItemAt(p) /\ RefsAt(p)' = RefsAt(p)
           /\ \A w : Numbers(w)' = Numbers(w)
           /\ Merged' = Merged /\ SomethingRaw' = SomethingRaw
<1>1. windows' = windows /\ replies' = replies /\ transcript' = transcript /\ answers' = answers
    BY DEF windowVars, callVars
<1>2. Segments' = Segments /\ Labels' = Labels
    BY <1>1 DEF Segments, Labels
<1>3. \A p : ItemAt(p)' = ItemAt(p)
    BY <1>1 DEF ItemAt
<1>4. Places' = Places
    BY <1>1 DEF Places, ItemAt
<1>5. \A p : RefsAt(p)' = RefsAt(p)
    BY <1>1 DEF RefsAt, Global, Number, Numbers, ItemAt
<1>6. \A w : Numbers(w)' = Numbers(w)
    BY <1>1 DEF Numbers
<1>7. Merged' = Merged
    BY <1>1 DEF Merged, SaidAt, FirstOf, Places, ItemAt, RefsAt, Global, Number, Numbers
<1>8. SomethingRaw' = SomethingRaw
    BY <1>2, <1>3, <1>4, <1>5 DEF SomethingRaw
<1> QED
    BY <1>1, <1>2, <1>3, <1>4, <1>5, <1>6, <1>7, <1>8

LEMMA ReduceKeeps ==
    ASSUME KInv, Reduce
    PROVE  KInv'
<1>1. /\ phase = "ask" /\ AllAnswered /\ result' = Reduced /\ phase' = "reduced"
      /\ UNCHANGED <<windowVars, callVars, rows, answers, runs>>
    BY DEF Reduce
<1>2. WInv /\ WindowsDone /\ AnswersFine
    BY <1>1 DEF KInv
<1>3. /\ WInv' /\ WindowsDone' /\ RowsWhole'
      /\ runs' \in 1 .. RunsOn(transcript)' /\ transcript' = transcript /\ windows' = windows
    BY <1>1, QuietWindows
<1>4. CInv'
    BY <1>1, <1>3, QuietCalls DEF KInv, callVars
<1>5. /\ Places' = Places /\ Labels' = Labels /\ Segments' = Segments /\ replies' = replies
      /\ \A p : ItemAt(p)' = ItemAt(p) /\ RefsAt(p)' = RefsAt(p)
      /\ \A w : Numbers(w)' = Numbers(w)
      /\ Merged' = Merged /\ SomethingRaw' = SomethingRaw
    BY <1>1, ReducedThere
<1>6. AnswersFine'
    BY <1>1, <1>2, <1>3, <1>5 DEF AnswersFine, ItemsFine, CitesFine, SummaryTaken, Reserved
<1>7. windows # <<>>
    BY <1>2, WindowsCover
<1>8. AllAnswered'
    BY <1>1, <1>3, <1>5 DEF AllAnswered
<1>9. EvidenceSeenByModel'
    BY <1>1, <1>2, <1>3, <1>5, <1>7, ReducedFine DEF EvidenceSeenByModel
<1>10. CitedClaimsSurvive'
    BY <1>1, <1>2, <1>5, <1>7, ReducedFine DEF CitedClaimsSurvive
<1>11. (RefsKnown(result) \/ SomethingRaw)'
    BY <1>1, <1>2, <1>3, <1>5, <1>7, ReducedFine DEF RefsKnown
<1>12. result'.summary = Summary
    BY <1>1, <1>2, <1>7, ReducedFine
<1>13. LineageValid(result.summary)'
    BY <1>2, <1>1, <1>3, <1>5, <1>7, <1>12, SummaryFine DEF LineageValid
<1>14. SummaryWhole'
    BY <1>1, <1>2, <1>3, <1>5, <1>7, <1>12, SummaryFine DEF SummaryWhole
<1>15. DerivedTrue'
    BY <1>1, <1>2, <1>5, <1>7, ReducedFine DEF DerivedTrue
<1>16. ResultFine'
    BY <1>8, <1>9, <1>10, <1>11, <1>13, <1>14, <1>15 DEF ResultFine
<1> QED
    BY <1>1, <1>3, <1>4, <1>6, <1>16 DEF KInv, Over, Phases

LEMMA ValidateKeeps ==
    ASSUME KInv, phase \in Over, phase' \in Over,
           UNCHANGED <<windowVars, callVars, rows, answers, result, runs>>,
           phase' = "rejected" => ~Valid(result)
    PROVE  KInv'
<1>1. /\ WInv' /\ WindowsDone' /\ RowsWhole'
      /\ runs' \in 1 .. RunsOn(transcript)' /\ transcript' = transcript /\ windows' = windows
    BY QuietWindows DEF Over
<1>2. CInv'
    BY <1>1, QuietCalls DEF KInv, callVars
<1>3. /\ Places' = Places /\ Labels' = Labels /\ Segments' = Segments /\ replies' = replies
      /\ \A p : ItemAt(p)' = ItemAt(p) /\ RefsAt(p)' = RefsAt(p)
      /\ \A w : Numbers(w)' = Numbers(w)
      /\ Merged' = Merged /\ SomethingRaw' = SomethingRaw
    BY ReducedThere
<1>4. AnswersFine'
    BY <1>1, <1>3 DEF KInv, AnswersFine, ItemsFine, CitesFine, SummaryTaken, Reserved
<1>5. ResultFine
    BY DEF KInv
<1>6. AllAnswered'
    BY <1>1, <1>3, <1>5 DEF ResultFine, AllAnswered
<1>7. EvidenceSeenByModel'
    BY <1>1, <1>3, <1>5 DEF ResultFine, EvidenceSeenByModel, Over
<1>8. CitedClaimsSurvive'
    BY <1>3, <1>5 DEF ResultFine, CitedClaimsSurvive, Over
<1>9. /\ RefsKnown(result)' <=> RefsKnown(result)
      /\ LinksKnown(result)' <=> LinksKnown(result)
      /\ LineageValid(result.summary)' <=> LineageValid(result.summary)
    BY <1>1, <1>3 DEF RefsKnown, LinksKnown, LineageValid
<1>10. SummaryWhole' /\ DerivedTrue'
    BY <1>1, <1>3, <1>5 DEF ResultFine, SummaryWhole, DerivedTrue
<1>11. ResultFine'
    BY <1>3, <1>5, <1>6, <1>7, <1>8, <1>9, <1>10 DEF ResultFine
<1>12. phase' = "rejected" => ~Valid(result)'
    BY <1>3, <1>9 DEF Valid, SummaryValid
<1> QED
    BY <1>1, <1>2, <1>4, <1>11, <1>12 DEF KInv, Over, Phases

LEMMA RetryKeeps ==
    ASSUME KInv, Retry
    PROVE  KInv'
<1>1. /\ phase \in {"failed", "rejected", "stored"} /\ phase' = "split"
      /\ runs < RunsOn(transcript) /\ runs' = runs + 1
      /\ transcript' = Restored
      /\ upTo' = 0 /\ current' = {} /\ weight' = 0 /\ windows' = <<>>
      /\ answers' = <<>> /\ rows' = rows
    BY DEF Retry
<1>2. WInv /\ RowsWhole /\ runs \in 1 .. RunsOn(transcript)
    BY <1>1 DEF KInv
<1>3. transcript' = transcript /\ Segments' = Segments
    BY <1>1, <1>2, RestoresWhole DEF Segments
<1>4. transcript \in Transcripts /\ Segments = 1 .. Len(transcript) /\ Len(transcript) \in Nat
    BY <1>2, TranscriptIsSeq DEF WInv, WindowsTyped
<1>5. CallsInit'
    BY DEF Retry, CallsInit
<1>6. CInv'
    BY <1>1, <1>5, CallsBeginAgain
<1>7. WInv'
    <2>1. WindowsTyped'
        BY <1>1, <1>3, <1>4, TokensAssumption DEF WindowsTyped, WeightOf
    <2>2. WindowsFit' /\ NoSegmentLost'
        BY <1>1, <1>3, <1>4, LimitsAssumption DEF WindowsFit, NoSegmentLost
    <2> QED
        BY <1>1, <2>1, <2>2 DEF WInv, LastIsNew, FilledInOrder, WindowsSound
<1>8. RowsWhole'
    BY <1>1, <1>2, <1>3 DEF RowsWhole
<1>9. runs' \in 1 .. RunsOn(transcript)'
    <2>1. RunsOn(transcript) \in Nat
        BY <1>4, RunsAssumption
    <2> QED
        BY <1>1, <1>2, <1>3, <2>1
<1> QED
    BY <1>1, <1>5, <1>6, <1>7, <1>8, <1>9 DEF KInv, Over, Phases

LEMMA QuietKeeps ==
    ASSUME KInv, UNCHANGED vars
    PROVE  KInv'
<1>1. UNCHANGED <<windowVars, callVars, phase, rows, answers, result, runs>>
    BY DEF vars
<1>2. CASE phase \in Over
    BY <1>1, <1>2, ValidateKeeps DEF KInv
<1>3. CASE phase \notin Over
    <2>1. WInv /\ CInv
        BY DEF KInv
    <2>2. UNCHANGED <<transcript, upTo, current, weight, windows, doing, window, tried, said, record, slot,
                      taken, replies, broken, cancelled, named, by>>
        BY <1>1 DEF windowVars, callVars
    <2>3. WInv' /\ CInv'
        BY <1>1, <2>1, <2>2, WindowsKeep, QuietCalls
    <2>4. phase' = "split" => CallsInit' /\ answers' = <<>>
        BY <1>1, <2>2 DEF KInv, CallsInit
    <2>5. /\ phase' # "split" => WindowsDone' /\ RowsWhole'
          /\ rows' = <<>> \/ RowsWhole'
        BY <1>1, <2>2 DEF KInv, WindowsDone, AllTaken, RowsWhole, Segments
    <2>6. phase' = "ask" => AnswersFine'
        BY <1>1, <2>2 DEF KInv, AnswersFine, ItemsFine, CitesFine, Numbers, SummaryTaken, Reserved,
                          Segments
    <2> QED
        BY <1>1, <1>3, <2>2, <2>3, <2>4, <2>5, <2>6 DEF KInv, Over
<1> QED
    BY <1>2, <1>3

LEMMA NextKeeps ==
    ASSUME KInv, [Next]_vars
    PROVE  KInv'
<1>1. CASE Split
    BY <1>1, SplitKeeps
<1>2. CASE Checkpoint
    BY <1>2, CheckpointKeeps
<1>3. CASE \E p \in Threads : Ask(p)
    BY <1>3, AskKeeps
<1>4. CASE Notice
    BY <1>4, NoticeKeeps
<1>5. CASE Fail \/ ReduceRaises
    BY <1>5, FailKeeps
<1>6. CASE Reduce
    BY <1>6, ReduceKeeps
<1>7. CASE Validate
    BY <1>7, ValidateKeeps DEF Validate, Over
<1>8. CASE Retry
    BY <1>8, RetryKeeps
<1>9. CASE UNCHANGED vars
    BY <1>9, QuietKeeps
<1> QED
    BY <1>1, <1>2, <1>3, <1>4, <1>5, <1>6, <1>7, <1>8, <1>9 DEF Next

(***************************************************************************)
(* What the invariant means                                                *)
(***************************************************************************)
LEMMA KInvTyped ==
    ASSUME KInv
    PROVE  TypeOK
<1>1. WInv /\ CInv
    BY DEF KInv
<1>2. /\ Segments = 1 .. Len(transcript) /\ Len(transcript) \in Nat
      /\ upTo \in 0 .. Len(transcript) /\ current \subseteq 1 .. upTo
      /\ weight = WeightOf(current)
    BY <1>1, TranscriptIsSeq DEF WInv, WindowsTyped
<1>3. \A k \in DOMAIN windows :
        /\ windows[k].segments \in (SUBSET Segments) \ {{}}
        /\ windows[k].tokens = WeightOf(windows[k].segments)
    <2>1. \A k \in DOMAIN windows : windows[k].segments \subseteq Segments
        BY <1>1, WindowsInTranscript
    <2>2. \A k \in DOMAIN windows : windows[k].segments # {}
        BY <1>1 DEF WInv, WindowsSound, NoSegmentLost
    <2>3. \A k \in DOMAIN windows : windows[k].tokens = WeightOf(windows[k].segments)
        BY <1>1 DEF WInv, WindowsTyped
    <2>4. \A k \in DOMAIN windows : windows[k].segments \in (SUBSET Segments) \ {{}}
        BY <2>1, <2>2
    <2> QED
        BY <2>3, <2>4
<1>4. DOMAIN replies \subseteq DOMAIN windows
    BY <1>1 DEF WInv, WindowsTyped, CInv, CallsTyped
<1>5. Len(rows) \in Nat
    BY DEF KInv, RowsWhole
<1>6. current \subseteq Segments
    BY <1>2
<1> QED
    BY <1>2, <1>3, <1>4, <1>5, <1>6 DEF TypeOK, KInv

LEMMA KInvSafe ==
    ASSUME KInv
    PROVE  /\ WindowsSound /\ ProvenanceTrue
           /\ CheckpointRestores /\ EvidenceSeenByModel /\ CitedClaimsSurvive /\ RejectedForCause
<1>1. WindowsSound /\ ProvenanceTrue
    BY Provenance DEF KInv, WInv
<1>2. CheckpointRestores
    BY RestoresWhole DEF KInv, CheckpointRestores
<1>3. EvidenceSeenByModel /\ CitedClaimsSurvive
    <2>1. CASE phase \in Over
        BY <2>1 DEF KInv, ResultFine
    <2>2. CASE phase \notin Over
        BY <2>2 DEF Over, EvidenceSeenByModel, CitedClaimsSurvive
    <2> QED
        BY <2>1, <2>2
<1>4. RejectedForCause
    <2> SUFFICES ASSUME phase = "rejected", LinksKnown(result), ~SomethingRaw
                 PROVE  \A w \in DOMAIN windows : replies[w].reply.executive.text = "null"
        BY DEF RejectedForCause, SomethingRaw
    <2>1. Segments # {}
        BY TranscriptIsSeq DEF KInv, WInv
    <2>2. ResultFine /\ ~Valid(result)
        BY DEF KInv, Over
    <2>3. RefsKnown(result) /\ LineageValid(result.summary) /\ SummaryWhole
        BY <2>2 DEF ResultFine
    <2>4. ~result.summary.text
        BY <2>1, <2>2, <2>3 DEF Valid, SummaryValid
    <2> QED
        BY <2>3, <2>4 DEF SummaryWhole
<1> QED
    BY <1>1, <1>2, <1>3, <1>4

(***************************************************************************)
(* The slot of the fallback                                                *)
(***************************************************************************)
(* Who is in the slot asks the fallback, and nobody else does; a window    *)
(* that was taken has an answer, has raised, or is with a thread.          *)
AskInv ==
    /\ slot = {p \in Threads : doing[p] = "fallback"}
    /\ \A p, q \in slot : p = q
    /\ \A w \in 1 .. taken :
        \/ w \in DOMAIN replies \union broken
        \/ \E p \in Threads : doing[p] # "idle" /\ window[p] = w

LEMMA AskingBegins ==
    ASSUME CallsInit
    PROVE  AskInv
BY DEF CallsInit, NoCalls, Threads, AskInv

LEMMA AskingBeginsAgain ==
    ASSUME CallsInit'
    PROVE  AskInv'
BY DEF CallsInit, NoCalls, Threads, AskInv

LEMMA QuietAsking ==
    ASSUME AskInv, UNCHANGED <<transcript, callVars>>
    PROVE  AskInv'
BY DEF AskInv, callVars, Threads

LEMMA WorkKeepsAsking ==
    ASSUME CInv, AskInv, NEW p \in Threads, Work(p), UNCHANGED windowVars
    PROVE  AskInv'
<1>0. /\ Threads' = Threads /\ Len(windows)' = Len(windows)
      /\ doing \in [Threads -> Doings] /\ window \in [Threads -> Nat] /\ taken \in Nat
      /\ \A q \in Threads : doing[q] \in Doings
    BY DEF Threads, windowVars, CInv, CallsTyped
<1> USE DEF AskInv
(* What is to be shown of a step of p that takes no window.                *)
<1>a. ASSUME UNCHANGED <<taken, window>>, DOMAIN replies \subseteq DOMAIN replies', broken \subseteq broken',
             \A q \in Threads \ {p} : doing'[q] = doing[q],
             doing[p] # "idle", doing'[p] = "idle" => window[p] \in DOMAIN replies' \union broken'
      PROVE  \A w \in 1 .. taken' :
                \/ w \in DOMAIN replies' \union broken'
                \/ \E q \in Threads' : doing'[q] # "idle" /\ window'[q] = w
    BY <1>0, <1>a
<1>1. CASE Take(p)
    <2>1. /\ doing[p] = "idle" /\ taken' = taken + 1
          /\ window' = [window EXCEPT ![p] = taken + 1]
          /\ doing' = [doing EXCEPT ![p] = "primary"]
          /\ UNCHANGED <<slot, replies, broken>>
        BY <1>1 DEF Take
    <2>2. slot' = {q \in Threads : doing'[q] = "fallback"}
        BY <1>0, <2>1
    <2>3. ASSUME NEW w \in 1 .. taken'
          PROVE  \/ w \in DOMAIN replies' \union broken'
                 \/ \E q \in Threads : doing'[q] # "idle" /\ window'[q] = w
        <3>1. CASE w = taken + 1
            BY <1>0, <2>1, <3>1
        <3>2. CASE w \in 1 .. taken
            BY <1>0, <2>1, <3>2
        <3> QED
            BY <1>0, <2>1, <3>1, <3>2
    <2> QED
        BY <1>0, <2>1, <2>2, <2>3
<1>2. CASE PrimaryAnswers(p) \/ PrimaryRefuses(p) \/ PrimaryBreaks(p)
    <2>1. /\ doing[p] = "primary"
          /\ \/ doing' = [doing EXCEPT ![p] = "idle"] /\ window[p] \in broken'
             \/ \E d \in {"naming", "primary", "waiting"} : doing' = [doing EXCEPT ![p] = d]
          /\ UNCHANGED <<window, taken, slot, replies>> /\ broken \subseteq broken'
        BY <1>2 DEF PrimaryAnswers, PrimaryRefuses, PrimaryBreaks, Raises, Returns, AsksAgain,
                    TakesReply, CannotMerge, GivesUp
    <2>2. slot' = {q \in Threads : doing'[q] = "fallback"}
        BY <1>0, <2>1
    <2> QED
        BY <1>0, <1>a, <2>1, <2>2
<1>3. CASE EnterSlot(p)
    <2>1. /\ doing[p] = "waiting" /\ slot = {} /\ slot' = {p}
          /\ doing' = [doing EXCEPT ![p] = "fallback"]
          /\ UNCHANGED <<window, taken, replies, broken>>
        BY <1>3 DEF EnterSlot
    <2>2. slot' = {q \in Threads : doing'[q] = "fallback"}
        BY <1>0, <2>1
    <2> QED
        BY <1>0, <1>a, <2>1, <2>2
<1>4. CASE FallbackAnswers(p) \/ FallbackFails(p)
    <2>1. /\ doing[p] = "fallback" /\ slot' = slot \ {p}
          /\ \/ doing' = [doing EXCEPT ![p] = "idle"] /\ window[p] \in broken'
             \/ \E d \in {"naming", "primary"} : doing' = [doing EXCEPT ![p] = d]
          /\ UNCHANGED <<window, taken, replies>> /\ broken \subseteq broken'
        BY <1>4 DEF FallbackAnswers, FallbackFails, Raises, Returns, AsksAgain, TakesReply,
                    CannotMerge, GivesUp
    <2>2. slot' = {q \in Threads : doing'[q] = "fallback"}
        BY <1>0, <2>1
    <2> QED
        BY <1>0, <1>a, <2>1, <2>2
<1>5. CASE NameModel(p)
    <2>1. /\ doing[p] = "naming" /\ doing' = [doing EXCEPT ![p] = "idle"]
          /\ DOMAIN replies' = DOMAIN replies \union {window[p]}
          /\ UNCHANGED <<window, taken, slot, broken>>
        BY <1>5 DEF NameModel
    <2>2. slot' = {q \in Threads : doing'[q] = "fallback"}
        BY <1>0, <2>1
    <2> QED
        BY <1>0, <1>a, <2>1, <2>2
<1> QED
    BY <1>1, <1>2, <1>3, <1>4, <1>5 DEF Work

LEMMA NextKeepsAsking ==
    ASSUME KInv, AskInv, [Next]_vars
    PROVE  AskInv'
<1>1. CASE Split
    <2>1. CallsInit /\ UNCHANGED <<callVars, transcript>>
        BY <1>1 DEF Split, KInv, WindowNext, TakeSegment, CloseLast
    <2> QED
        BY <2>1, QuietAsking
<1>2. CASE Checkpoint \/ Fail \/ Reduce \/ ReduceRaises \/ Validate \/ UNCHANGED vars
    <2>1. UNCHANGED <<transcript, callVars>>
        BY <1>2 DEF Checkpoint, Fail, Reduce, ReduceRaises, Validate, vars, windowVars
    <2> QED
        BY <2>1, QuietAsking
<1>3. CASE \E p \in Threads : Ask(p)
    BY <1>3, WorkKeepsAsking DEF Ask, KInv
<1>4. CASE Notice
    BY <1>4 DEF Notice, MeetException, windowVars, AskInv, Threads
<1>5. CASE Retry
    BY <1>5, AskingBeginsAgain DEF Retry, CallsInit
<1> QED
    BY <1>1, <1>2, <1>3, <1>4, <1>5 DEF Next

(* While nobody works, the main thread has something to do.                *)
LEMMA AskingFine ==
    ASSUME KInv, AskInv
    PROVE  OneFallback /\ NobodyStuck
<1>1. OneFallback
    BY DEF AskInv, OneFallback
<1>2. /\ taken \in Nat /\ taken <= Len(windows) /\ Len(windows) \in Nat
      /\ DOMAIN windows = 1 .. Len(windows) /\ DOMAIN replies \subseteq 1 .. taken
      /\ \A p \in Threads : doing[p] \in Doings
      /\ transcript \in Transcripts
    BY DEF KInv, CInv, CallsTyped, WInv, WindowsTyped
<1>3. SUFFICES ASSUME \A p \in Threads : ~GoesOn(p), ~CallsFailed, ~AllAnswered
               PROVE  ~cancelled /\ \E w \in broken : \A v \in 1 .. (w - 1) : v \in DOMAIN replies
    BY <1>1 DEF NobodyStuck
<1>4. \A p \in Threads : doing[p] = "idle"
    <2>1. slot = {}
        BY <1>3 DEF AskInv, GoesOn
    <2> QED
        BY <1>2, <1>3, <2>1 DEF GoesOn, Doings
<1>5. ~cancelled /\ taken = Len(windows)
    <2>1. ~cancelled
        BY <1>3, <1>4 DEF CallsFailed
    <2>2. PICK p \in Threads : TRUE
        BY <1>2, ThreadsAssumption DEF Threads
    <2>3. ~(taken < Len(windows))
        BY <1>3, <1>4, <2>1, <2>2 DEF GoesOn
    <2>4. taken \in Nat /\ Len(windows) \in Nat /\ taken <= Len(windows)
        BY <1>2
    <2>5. taken = Len(windows)
        BY <2>3, <2>4
    <2> QED
        BY <2>1, <2>5
<1>6. \A w \in 1 .. taken : w \in DOMAIN replies \union broken
    BY <1>4 DEF AskInv
<1>7. PICK w \in 1 .. taken : w \notin DOMAIN replies
                              /\ \A v \in 1 .. (w - 1) : v \in DOMAIN replies
    <2> DEFINE open == (1 .. taken) \ DOMAIN replies
    <2>1. DOMAIN replies # 1 .. taken
        BY <1>2, <1>3, <1>5 DEF AllAnswered
    <2>2. open # {} /\ open \in SUBSET Nat
        <3>1. DOMAIN replies \subseteq 1 .. taken
            BY <1>2
        <3>2. open # {}
            BY <2>1, <3>1
        <3> QED
            BY <3>2
    <2>3. PICK w \in open : \A v \in open : w <= v
        BY <2>2, SmallestOf
    <2>4. w \in 1 .. taken /\ w \notin DOMAIN replies
        OBVIOUS
    <2>5. \A v \in 1 .. (w - 1) : v \in 1 .. taken /\ ~(w <= v)
        BY <1>2, <2>4
    <2> QED
        BY <2>3, <2>4, <2>5
<1>8. w \in broken
    BY <1>6, <1>7
<1> QED
    BY <1>5, <1>7, <1>8
=============================================================================
