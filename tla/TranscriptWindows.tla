------------------------- MODULE TranscriptWindows -------------------------
(***************************************************************************)
(* services/processing/transcript_window_service.py: the transcript is cut *)
(* into windows of bounded size that overlap by a few segments.  A segment *)
(* is its place in the transcript; what it weighs is its estimated number  *)
(* of tokens.  One step of the module is one turn of the loop of `build`.  *)
(*                                                                         *)
(* CountsNewOnly and KeepsWeight are mistakes the code does not make: each *)
(* stands before the definition it would replace.                          *)
(***************************************************************************)
EXTENDS Integers, Sequences, FiniteSets, Functions

CONSTANTS
    Target,      \* extraction_window_target_tokens
    HardLimit,   \* extraction_window_hard_limit_tokens
    Overlap,     \* extraction_window_overlap_segments
    Transcripts, \* the transcripts: sequences of segments with a weight
    TokensOf(_, _)  \* what a set of segments of a transcript weighs

(* settings.py has 2000 and 2800 and compares neither with the other.      *)
ASSUME LimitsAssumption ==
    Target \in Nat /\ HardLimit \in Nat /\ Overlap \in Nat /\ Target <= HardLimit

(* A transcription without segments is an error of the provider.           *)
ASSUME TranscriptsAssumption ==
    \A t \in Transcripts :
        /\ t \in Seq(Range(t)) \ {<<>>}
        /\ \A i \in DOMAIN t : t[i].weight \in Nat

(* estimate_tokens is summed over the segments of a window.                *)
ASSUME TokensAssumption ==
    \A t \in Transcripts :
        /\ TokensOf(t, {}) = 0
        /\ \A S \in SUBSET DOMAIN t :
            /\ TokensOf(t, S) \in Nat
            /\ \A i \in DOMAIN t \ S :
                TokensOf(t, S \union {i}) = TokensOf(t, S) + t[i].weight

VARIABLES
    transcript,  \* the segments the service was called with
    upTo,        \* how many of them the loop has taken
    current,     \* the window being filled: a set of segments
    weight,      \* current_tokens
    windows      \* the windows made so far

windowVars == <<transcript, upTo, current, weight, windows>>

Segments == DOMAIN transcript

WeightOf(S) == TokensOf(transcript, S)

(* current[-overlap_segments:]                                             *)
LastOnes(S) == {s \in S : Cardinality({t \in S : t > s}) < Overlap}

WindowInit ==
    /\ transcript \in Transcripts
    /\ upTo = 0
    /\ current = {}
    /\ weight = 0
    /\ windows = <<>>

AllTaken == \A i \in Segments : i <= upTo

(* A segment would carry a window of segments S and weight w past a limit. *)
PastTarget(S, w, own) == S # {} /\ w + own > Target

CountsNewOnly(S, w, own) == S # {} /\ own > HardLimit
PastHardLimit(S, w, own) == S # {} /\ w + own > HardLimit

(* The next segment goes into the current window.  A window the segment    *)
(* would carry past the target is closed first and leaves its last         *)
(* segments to the new one; if these and the segment are still past the    *)
(* hard limit the new window starts with the segment alone.                *)
TakeSegment ==
    LET this   == upTo + 1
        own    == transcript[this].weight
        closes == PastTarget(current, weight, own)
        left   == IF closes THEN LastOnes(current) ELSE current
        leftW  == IF closes THEN WeightOf(left) ELSE weight
        drops  == PastHardLimit(left, leftW, own)
    IN  /\ this \in Segments
        /\ windows' = IF closes
                      THEN Append(windows, [segments |-> current, tokens |-> weight])
                      ELSE windows
        /\ current' = (IF drops THEN {} ELSE left) \union {this}
        /\ weight' = (IF drops THEN 0 ELSE leftW) + own
        /\ upTo' = this
        /\ UNCHANGED transcript

(* The last flush.  What it leaves in `current` nobody reads again.        *)
KeepsWeight ==
    /\ AllTaken
    /\ current # {}
    /\ windows' = Append(windows, [segments |-> current, tokens |-> weight])
    /\ current' = {}
    /\ UNCHANGED <<transcript, upTo, weight>>

CloseLast ==
    /\ AllTaken
    /\ current # {}
    /\ windows' = Append(windows, [segments |-> current, tokens |-> weight])
    /\ current' = {}
    /\ weight' = 0
    /\ UNCHANGED <<transcript, upTo>>

WindowNext == TakeSegment \/ CloseLast

WindowsDone == AllTaken /\ current = {}

Covered == UNION {windows[k].segments : k \in DOMAIN windows}

(***************************************************************************)
(* Properties                                                              *)
(***************************************************************************)

(* A window is within the hard limit unless it is one segment that is      *)
(* longer than that by itself.  The overlap is counted, not only the new   *)
(* segments: this is what the second test of the loop is for.              *)
WindowsFit ==
    /\ \A k \in DOMAIN windows :
        \/ windows[k].tokens <= HardLimit
        \/ \E s \in Segments : windows[k].segments = {s}
    /\ \/ weight <= HardLimit
       \/ \E s \in Segments : current = {s}

(* No segment the loop has taken is in no window, and no window is made of *)
(* what the one before it already had: a flush that follows a flush would  *)
(* lose segments or send the overlap to the model twice.                   *)
NoSegmentLost ==
    /\ \A s \in Segments : s <= upTo => s \in Covered \union current
    /\ \A k \in DOMAIN windows : \E s \in windows[k].segments :
        \A j \in DOMAIN windows : j < k => s \notin windows[j].segments

(* Both: the model gets the whole transcript, in pieces it can take.       *)
WindowsSound == WindowsFit /\ NoSegmentLost
=============================================================================
