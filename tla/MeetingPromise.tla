--------------------------- MODULE MeetingPromise ---------------------------
(***************************************************************************)
(* What users are promised of one meeting, without queue, lock, attempts   *)
(* or stages: a result is published once its transcript has been kept, and *)
(* stays what it is as long as it can be read; a failure or a new upload   *)
(* takes it out of sight and not away; and what is deleted stays deleted.  *)
(***************************************************************************)
CONSTANTS Runs, NoRun    \* the pipeline runs that may write a result, and none of them

VARIABLES
  meeting,      \* "open": being recorded, queued, processed or failed;
                \* "ready": its result can be read; or "deleted"
  transcript,   \* it is kept, and a later run need not transcribe again
  published     \* whose result is stored

vars == <<meeting, transcript, published>>

Init == meeting = "open" /\ transcript = FALSE /\ published = NoRun

Transcribe ==
  /\ meeting = "open" /\ ~transcript /\ transcript' = TRUE
  /\ UNCHANGED <<meeting, published>>

Publish ==
  /\ meeting = "open" /\ transcript
  /\ meeting' = "ready" /\ published' \in Runs
  /\ UNCHANGED transcript

Reopen ==
  /\ meeting = "ready" /\ meeting' = "open"
  /\ UNCHANGED <<transcript, published>>

Delete ==
  /\ meeting # "deleted" /\ meeting' = "deleted"
  /\ transcript' = FALSE /\ published' = NoRun

Next == Transcribe \/ Publish \/ Reopen \/ Delete

Spec == Init /\ [][Next]_vars
=============================================================================
