----------------------- MODULE TranscriptWindows_proofs -----------------------
(***************************************************************************)
(* What the loop of TranscriptWindowService.build keeps at every step.     *)
(* KnowledgeExtraction_proofs uses it for the whole pipeline.              *)
(***************************************************************************)
EXTENDS TranscriptWindows, TLAPS

WindowsTyped ==
    /\ transcript \in Transcripts
    /\ upTo \in 0 .. Len(transcript)
    /\ windows \in Seq([segments : SUBSET (1 .. upTo), tokens : Nat])
    /\ current \in SUBSET (1 .. upTo)
    /\ weight = WeightOf(current)
    /\ \A k \in DOMAIN windows : windows[k].tokens = WeightOf(windows[k].segments)

(* The last segment taken is in no window yet, so that the window being    *)
(* filled will have something new.                                         *)
LastIsNew ==
    current # {} =>
        upTo \in current /\ \A k \in DOMAIN windows : upTo \notin windows[k].segments

(* No segment is in a window before all earlier ones are.                  *)
FilledInOrder ==
    \A k \in DOMAIN windows : \A s \in windows[k].segments :
        \A r \in 1 .. s : \E j \in 1 .. k : r \in windows[j].segments

WInv == WindowsTyped /\ LastIsNew /\ FilledInOrder /\ WindowsSound

LEMMA LargerSeq ==
    ASSUME NEW A, NEW B, A \subseteq B, NEW s \in Seq(A)
    PROVE  s \in Seq(B) /\ \A k \in DOMAIN s : s[k] \in B
<1>1. \A k \in 1 .. Len(s) : s[k] \in B
    OBVIOUS
<1>2. s = [k \in 1 .. Len(s) |-> s[k]] /\ Len(s) \in Nat
    OBVIOUS
<1>3. [k \in 1 .. Len(s) |-> s[k]] \in Seq(B)
    BY <1>1, <1>2
<1> QED
    BY <1>1, <1>2, <1>3

LEMMA TranscriptIsSeq ==
    ASSUME WindowsTyped
    PROVE  /\ transcript \in Seq(Range(transcript)) /\ transcript # <<>>
           /\ Segments = 1 .. Len(transcript) /\ Len(transcript) \in Nat \ {0}
           /\ \A i \in Segments : transcript[i].weight \in Nat
<1>1. transcript \in Seq(Range(transcript)) /\ transcript # <<>>
    BY TranscriptsAssumption DEF WindowsTyped
<1>2. Segments = 1 .. Len(transcript) /\ Len(transcript) \in Nat \ {0}
    BY <1>1 DEF Segments
<1> QED
    BY <1>1, <1>2, TranscriptsAssumption DEF WindowsTyped, Segments

LEMMA Weights ==
    ASSUME WindowsTyped
    PROVE  /\ WeightOf({}) = 0
           /\ \A S \in SUBSET Segments : WeightOf(S) \in Nat
           /\ \A S \in SUBSET Segments : \A i \in Segments \ S :
                WeightOf(S \union {i}) = WeightOf(S) + transcript[i].weight
    BY TokensAssumption DEF WindowsTyped, WeightOf, Segments

LEMMA WindowsBegin ==
    ASSUME WindowInit
    PROVE  WInv
<1>1. transcript \in Seq(Range(transcript))
    BY TranscriptsAssumption DEF WindowInit
<1>2. WindowsTyped
    BY <1>1, TokensAssumption DEF WindowInit, WindowsTyped, WeightOf
<1>3. Segments = 1 .. Len(transcript) /\ Len(transcript) \in Nat
    BY <1>2, TranscriptIsSeq
<1>4. WindowsSound
    BY <1>3, LimitsAssumption DEF WindowInit, WindowsSound, WindowsFit, NoSegmentLost
<1> QED
    BY <1>2, <1>4 DEF WInv, LastIsNew, FilledInOrder, WindowInit

(* Closing the window being filled leaves the windows sound.               *)
Closed == Append(windows, [segments |-> current, tokens |-> weight])

LEMMA Closing ==
    ASSUME WInv, current # {}
    PROVE  /\ Closed \in Seq([segments : SUBSET (1 .. upTo), tokens : Nat])
           /\ DOMAIN Closed = 1 .. (Len(windows) + 1)
           /\ DOMAIN windows = 1 .. Len(windows) /\ Len(windows) \in Nat
           /\ \A k \in DOMAIN windows : Closed[k] = windows[k]
           /\ Closed[Len(windows) + 1] = [segments |-> current, tokens |-> weight]
           /\ \A k \in DOMAIN Closed : Closed[k].tokens = WeightOf(Closed[k].segments)
           /\ \A k \in DOMAIN Closed : \A s \in Closed[k].segments :
                \A r \in 1 .. s : \E j \in 1 .. k : r \in Closed[j].segments
           /\ \A k \in DOMAIN Closed :
                \/ Closed[k].tokens <= HardLimit
                \/ \E s \in Segments : Closed[k].segments = {s}
           /\ \A k \in DOMAIN Closed : \E s \in Closed[k].segments :
                \A j \in DOMAIN Closed : j < k => s \notin Closed[j].segments
           /\ \A s \in 1 .. upTo : \E k \in DOMAIN Closed : s \in Closed[k].segments
<1> USE DEF WInv, WindowsTyped
<1> DEFINE n == Len(windows) + 1
<1>0. Segments = 1 .. Len(transcript) /\ 1 .. upTo \subseteq Segments
    <2>1. Segments = 1 .. Len(transcript) /\ Len(transcript) \in Nat
        BY TranscriptIsSeq
    <2> QED
        BY <2>1
<1>1. weight \in Nat /\ Segments = 1 .. Len(transcript) /\ 1 .. upTo \subseteq Segments
    BY <1>0, Weights
<1>2. [segments |-> current, tokens |-> weight] \in [segments : SUBSET (1 .. upTo), tokens : Nat]
    BY <1>1
<1>3. /\ Closed \in Seq([segments : SUBSET (1 .. upTo), tokens : Nat])
      /\ DOMAIN Closed = 1 .. n
      /\ DOMAIN windows = 1 .. Len(windows) /\ Len(windows) \in Nat
      /\ \A k \in DOMAIN windows : Closed[k] = windows[k]
      /\ Closed[n] = [segments |-> current, tokens |-> weight]
    BY <1>2 DEF Closed
<1>4. \A k \in DOMAIN Closed : k \in DOMAIN windows \/ k = n
    BY <1>3
<1>5. \A k \in DOMAIN Closed : Closed[k].tokens = WeightOf(Closed[k].segments)
    BY <1>3, <1>4
<1>6. \A s \in 1 .. upTo : \E k \in DOMAIN Closed : s \in Closed[k].segments
    <2>1. \A s \in 1 .. upTo : s \in Covered \union current
        BY <1>1 DEF WindowsSound, NoSegmentLost
    <2>2. \A s \in Covered : \E k \in DOMAIN windows : s \in windows[k].segments
        BY DEF Covered
    <2>3. n \in DOMAIN Closed /\ Closed[n].segments = current
        BY <1>3
    <2>4. \A k \in DOMAIN windows : k \in DOMAIN Closed /\ Closed[k].segments = windows[k].segments
        BY <1>3
    <2> QED
        BY <2>1, <2>2, <2>3, <2>4
<1>7. \A k \in DOMAIN Closed : \A s \in Closed[k].segments :
        \A r \in 1 .. s : \E j \in 1 .. k : r \in Closed[j].segments
    <2> SUFFICES ASSUME NEW k \in DOMAIN Closed, NEW s \in Closed[k].segments, NEW r \in 1 .. s
                 PROVE  \E j \in 1 .. k : r \in Closed[j].segments
        OBVIOUS
    <2>1. CASE k \in DOMAIN windows
        <3>1. PICK j \in 1 .. k : r \in windows[j].segments
            BY <1>3, <2>1 DEF FilledInOrder
        <3>2. j \in DOMAIN windows
            BY <1>3, <2>1, <3>1
        <3> QED
            BY <1>3, <3>1, <3>2
    <2>2. CASE k = n
        <3>1. s \in 1 .. upTo
            BY <1>3, <2>2
        <3>2. r \in 1 .. upTo
            BY <3>1
        <3> QED
            BY <1>3, <1>6, <2>2, <3>2
    <2> QED
        BY <1>4, <2>1, <2>2
<1>8. \A k \in DOMAIN Closed :
        \/ Closed[k].tokens <= HardLimit
        \/ \E s \in Segments : Closed[k].segments = {s}
    <2>1. \A k \in DOMAIN windows :
            \/ Closed[k].tokens <= HardLimit
            \/ \E s \in Segments : Closed[k].segments = {s}
        BY <1>3 DEF WindowsSound, WindowsFit
    <2>2. \/ Closed[n].tokens <= HardLimit
          \/ \E s \in Segments : Closed[n].segments = {s}
        BY <1>3 DEF WindowsSound, WindowsFit
    <2> QED
        BY <1>4, <2>1, <2>2
<1>9. \A k \in DOMAIN Closed : \E s \in Closed[k].segments :
        \A j \in DOMAIN Closed : j < k => s \notin Closed[j].segments
    <2> SUFFICES ASSUME NEW k \in DOMAIN Closed
                 PROVE  \E s \in Closed[k].segments :
                            \A j \in DOMAIN Closed : j < k => s \notin Closed[j].segments
        OBVIOUS
    <2>1. CASE k \in DOMAIN windows
        <3>1. PICK s \in windows[k].segments :
                \A j \in DOMAIN windows : j < k => s \notin windows[j].segments
            BY <2>1 DEF WindowsSound, NoSegmentLost
        <3>2. \A j \in DOMAIN Closed : j < k => j \in DOMAIN windows
            BY <1>3, <2>1
        <3> QED
            BY <1>3, <2>1, <3>1, <3>2
    <2>2. CASE k = n
        <3>1. upTo \in current /\ \A j \in DOMAIN windows : upTo \notin windows[j].segments
            BY DEF LastIsNew
        <3>2. \A j \in DOMAIN Closed : j < k => j \in DOMAIN windows
            BY <1>3, <2>2
        <3>3. Closed[k].segments = current
            BY <1>3, <2>2
        <3>4. \A j \in DOMAIN Closed : j < k => upTo \notin Closed[j].segments
            BY <1>3, <3>1, <3>2
        <3> QED
            BY <3>1, <3>3, <3>4
    <2> QED
        BY <1>4, <2>1, <2>2
<1> QED
    BY <1>3, <1>5, <1>6, <1>7, <1>8, <1>9

LEMMA TakingKeeps ==
    ASSUME WInv, TakeSegment
    PROVE  WInv'
<1> USE DEF WInv
<1> DEFINE this   == upTo + 1
           own    == transcript[this].weight
           closes == PastTarget(current, weight, own)
           left   == IF closes THEN LastOnes(current) ELSE current
           leftW  == IF closes THEN WeightOf(left) ELSE weight
           drops  == PastHardLimit(left, leftW, own)
           kept   == IF drops THEN {} ELSE left
           keptW  == IF drops THEN 0 ELSE leftW
<1>1. /\ this \in Segments
      /\ windows' = IF closes
                    THEN Append(windows, [segments |-> current, tokens |-> weight])
                    ELSE windows
      /\ current' = kept \union {this}
      /\ weight' = keptW + own
      /\ upTo' = this /\ transcript' = transcript
    BY DEF TakeSegment
<1>2. /\ Segments = 1 .. Len(transcript) /\ Len(transcript) \in Nat /\ Segments' = Segments
      /\ upTo \in Nat /\ this \in Nat /\ 1 .. upTo \subseteq Segments
      /\ 1 .. this = (1 .. upTo) \union {this} /\ this \notin 1 .. upTo
      /\ own \in Nat
    BY <1>1, TranscriptIsSeq DEF WindowsTyped, Segments
<1>3. left \subseteq current /\ current \subseteq 1 .. upTo
    BY DEF LastOnes, WindowsTyped
<1>4. /\ leftW = WeightOf(left) /\ keptW = WeightOf(kept)
      /\ leftW \in Nat /\ keptW \in Nat
      /\ WeightOf(kept \union {this}) = WeightOf(kept) + own
    <2>1. leftW = WeightOf(left)
        BY DEF WindowsTyped
    <2>2. left \in SUBSET Segments /\ kept \in SUBSET Segments /\ this \notin kept
        BY <1>2, <1>3
    <2>3. WeightOf(left) \in Nat /\ WeightOf(kept) \in Nat /\ WeightOf({}) = 0
        BY <2>2, Weights
    <2>4. WeightOf(kept \union {this}) = WeightOf(kept) + own
        BY <1>1, <2>2, Weights
    <2> QED
        BY <2>1, <2>3, <2>4
<1>5. /\ windows' \in Seq([segments : SUBSET (1 .. upTo), tokens : Nat])
      /\ \A k \in DOMAIN windows' : windows'[k].tokens = WeightOf(windows'[k].segments)
      /\ \A k \in DOMAIN windows' : \A s \in windows'[k].segments :
            \A r \in 1 .. s : \E j \in 1 .. k : r \in windows'[j].segments
      /\ \A k \in DOMAIN windows' :
            \/ windows'[k].tokens <= HardLimit
            \/ \E s \in Segments : windows'[k].segments = {s}
      /\ \A k \in DOMAIN windows' : \E s \in windows'[k].segments :
            \A j \in DOMAIN windows' : j < k => s \notin windows'[j].segments
      /\ \A s \in 1 .. upTo :
            s \in kept \/ \E k \in DOMAIN windows' : s \in windows'[k].segments
    <2>1. CASE closes
        <3>1. current # {} /\ windows' = Closed
            BY <1>1, <2>1 DEF PastTarget, Closed
        <3> HIDE DEF closes, kept
        <3> QED
            BY <3>1, Closing
    <2>2. CASE ~closes
        <3>1. windows' = windows /\ left = current /\ leftW = weight
            BY <1>1, <2>2
        <3>2. \A s \in 1 .. upTo : s \in Covered \union current
            BY <1>2 DEF WindowsSound, NoSegmentLost
        <3>3. \A s \in Covered : \E k \in DOMAIN windows : s \in windows[k].segments
            BY DEF Covered
        <3>4. ~drops
            BY <1>2, <1>4, <2>2, <3>1, LimitsAssumption DEF PastTarget, PastHardLimit
        <3>5. kept = current
            BY <3>1, <3>4
        <3> HIDE DEF closes, kept, drops
        <3> QED
            BY <3>1, <3>2, <3>3, <3>5 DEF WindowsTyped, FilledInOrder, WindowsSound, WindowsFit, NoSegmentLost
    <2> QED
        BY <2>1, <2>2
<1>6. weight' <= HardLimit \/ current' = {this}
    <2>1. CASE left = {} \/ drops
        BY <1>1, <2>1
    <2>2. CASE left # {} /\ ~drops
        BY <1>1, <1>2, <1>4, <2>2, LimitsAssumption DEF PastHardLimit
    <2> QED
        BY <2>1, <2>2
<1> HIDE DEF closes, left, leftW, drops, kept, keptW, own
<1>7. kept \subseteq 1 .. upTo
    BY <1>3 DEF kept
<1>8. WindowsTyped'
    <2>1. windows' \in Seq([segments : SUBSET (1 .. this), tokens : Nat])
        <3>1. SUBSET (1 .. upTo) \subseteq SUBSET (1 .. this)
            BY <1>2
        <3>2. [segments : SUBSET (1 .. upTo), tokens : Nat] \subseteq [segments : SUBSET (1 .. this), tokens : Nat]
            BY <3>1
        <3> QED
            BY <1>5, <3>2, LargerSeq
    <2>2. WeightOf(current)' = TokensOf(transcript, current')
        BY <1>1 DEF WeightOf
    <2>3. \A k \in DOMAIN windows' : windows'[k].tokens = TokensOf(transcript', windows'[k].segments)
        BY <1>1, <1>5 DEF WeightOf
    <2>4. weight' = WeightOf(current)'
        BY <1>1, <1>4, <2>2 DEF WeightOf
    <2>5. /\ transcript' \in Transcripts /\ upTo' \in 0 .. Len(transcript')
          /\ current' \in SUBSET (1 .. upTo')
        BY <1>1, <1>2, <1>7 DEF WindowsTyped
    <2> QED
        BY <1>1, <2>1, <2>3, <2>4, <2>5 DEF WindowsTyped, WeightOf
<1>9. LastIsNew'
    <2>1. \A k \in DOMAIN windows' : windows'[k].segments \subseteq 1 .. upTo
        <3> DEFINE W == [segments : SUBSET (1 .. upTo), tokens : Nat]
        <3>1. windows' \in Seq(W) /\ W \subseteq W
            BY <1>5
        <3> HIDE DEF W
        <3>2. \A k \in DOMAIN windows' : windows'[k] \in W
            BY <3>1, LargerSeq
        <3> QED
            BY <3>2 DEF W
    <2> QED
        BY <1>1, <1>2, <2>1 DEF LastIsNew
<1>10. FilledInOrder'
    BY <1>5 DEF FilledInOrder
<1>11. WindowsFit'
    BY <1>1, <1>2, <1>5, <1>6 DEF WindowsFit
<1>12. NoSegmentLost'
    <2>1. \A s \in Segments' : s <= upTo' => s \in (Covered \union current)'
        <3> SUFFICES ASSUME NEW s \in Segments, s <= this
                     PROVE  s \in (Covered \union current)'
            BY <1>1, <1>2
        <3>1. s \in 1 .. upTo \/ s = this
            BY <1>2
        <3> QED
            BY <1>1, <1>5, <3>1 DEF Covered
    <2> QED
        BY <1>5, <2>1 DEF NoSegmentLost
<1> QED
    BY <1>8, <1>9, <1>10, <1>11, <1>12 DEF WindowsSound

LEMMA ClosingKeeps ==
    ASSUME WInv, CloseLast
    PROVE  WInv'
<1> USE DEF WInv
<1>1. /\ current # {} /\ current' = {} /\ weight' = 0 /\ upTo' = upTo /\ transcript' = transcript
      /\ windows' = Closed
    BY DEF CloseLast, Closed
<1>2. /\ windows' \in Seq([segments : SUBSET (1 .. upTo), tokens : Nat])
      /\ \A k \in DOMAIN windows' : windows'[k].tokens = WeightOf(windows'[k].segments)
      /\ \A k \in DOMAIN windows' : \A s \in windows'[k].segments :
            \A r \in 1 .. s : \E j \in 1 .. k : r \in windows'[j].segments
      /\ \A k \in DOMAIN windows' :
            \/ windows'[k].tokens <= HardLimit
            \/ \E s \in Segments : windows'[k].segments = {s}
      /\ \A k \in DOMAIN windows' : \E s \in windows'[k].segments :
            \A j \in DOMAIN windows' : j < k => s \notin windows'[j].segments
      /\ \A s \in 1 .. upTo : \E k \in DOMAIN windows' : s \in windows'[k].segments
    BY <1>1, Closing
<1>3. Segments' = Segments /\ Segments = 1 .. Len(transcript) /\ upTo \in Nat
    BY <1>1, TranscriptIsSeq DEF WindowsTyped, Segments
<1>4. WindowsTyped'
    BY <1>1, <1>2, Weights DEF WindowsTyped, WeightOf
<1>5. WindowsFit'
    <2>1. weight' <= HardLimit
        BY <1>1, LimitsAssumption
    <2>2. \A k \in DOMAIN windows' :
            \/ windows'[k].tokens <= HardLimit
            \/ \E s \in Segments' : windows'[k].segments = {s}
        BY <1>2, <1>3
    <2> QED
        BY <2>1, <2>2 DEF WindowsFit
<1>6. NoSegmentLost'
    BY <1>1, <1>2, <1>3 DEF NoSegmentLost, Covered
<1> QED
    BY <1>1, <1>2, <1>4, <1>5, <1>6 DEF LastIsNew, FilledInOrder, WindowsSound

LEMMA WindowsKeep ==
    ASSUME WInv, [WindowNext]_windowVars
    PROVE  WInv'
<1>1. CASE TakeSegment
    BY <1>1, TakingKeeps
<1>2. CASE CloseLast
    BY <1>2, ClosingKeeps
<1>3. CASE UNCHANGED windowVars
    BY <1>3 DEF windowVars, WInv, WindowsTyped, LastIsNew, FilledInOrder, WindowsSound, WindowsFit,
                NoSegmentLost, Covered, Segments, WeightOf
<1> QED
    BY <1>1, <1>2, <1>3 DEF WindowNext

(* When the loop is over every segment is in a window, and there are       *)
(* windows.                                                                *)
LEMMA WindowsCover ==
    ASSUME WInv, WindowsDone
    PROVE  /\ \A s \in Segments : \E k \in DOMAIN windows : s \in windows[k].segments
           /\ windows # <<>>
<1>1. Segments = 1 .. Len(transcript) /\ 1 \in Segments /\ upTo \in Nat
    BY TranscriptIsSeq DEF WInv, WindowsTyped
<1>2. \A s \in Segments : s \in Covered
    BY <1>1 DEF WInv, WindowsSound, NoSegmentLost, WindowsDone, AllTaken
<1>3. \A s \in Segments : \E k \in DOMAIN windows : s \in windows[k].segments
    BY <1>2 DEF Covered
<1> QED
    BY <1>1, <1>3
=============================================================================
