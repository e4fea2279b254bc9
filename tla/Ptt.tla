-------------------------------- MODULE Ptt --------------------------------
(***************************************************************************)
(* cpkt_audio_ptt: the push-to-talk segmenter.  The caller opens and       *)
(* closes the segment; frames pushed in between belong to it.              *)
(***************************************************************************)
EXTENDS Segmenter

VARIABLE ptt_pressed

vars == <<segmenterVars, ptt_pressed>>

Init == SegmenterInit /\ ptt_pressed = FALSE

-----------------------------------------------------------------------------
(* press                                                                   *)

\* The part of press that opens TX; push calls it too, after a hard cut.
OpenTx(whenOpen) ==
  /\ OpenSegment(source_frame_cursor)
  /\ \/ /\ EmitState("TX_ON", TRUE)
        /\ whenOpen
     \/ /\ EmitState("TX_ON", FALSE)
        /\ ReturnError("ERR_IO")
  /\ UNCHANGED <<source_frame_cursor, segment_index, last, boundary>>

Press ==
  /\ pc = "idle"
  /\ IF callback_error
       THEN ReturnAtOnce("ERR_IO") /\ UNCHANGED ptt_pressed
       ELSE /\ ptt_pressed' = TRUE
            /\ IF open
                 THEN ReturnAtOnce("OK")
                 ELSE OpenTx(Continue(<<>>) /\ UNCHANGED input)

-----------------------------------------------------------------------------
(* push_f32_mono_16k                                                       *)

Batches == {[i \in 1 .. n |-> TRUE] : n \in 1 .. MaxBatch}

\* Frames pushed while the button is up only move the timeline.
PushUp(batch) ==
  /\ pc = "idle"
  /\ ~callback_error
  /\ ~ptt_pressed
  /\ input + Len(batch) <= MaxInput
  /\ AdvanceSource(Len(batch))
  /\ ret' = "OK"
  /\ UNCHANGED <<segmentVars, eventVars, pc, todo, cut, healthy, ptt_pressed>>

PushDown(batch) ==
  /\ callback_error \/ ptt_pressed
  /\ Push(batch)
  /\ UNCHANGED ptt_pressed

\* After a hard cut the next frame opens a new segment.
Reopen ==
  /\ pc = "frame"
  /\ ~open
  /\ ptt_pressed' = TRUE
  /\ OpenTx(pc' = "append" /\ UNCHANGED <<input, todo, cut, ret, healthy>>)

CutDue ==
  IF MaxSegment # 0 /\ total_frame_count' >= MaxSegment THEN "hard" ELSE "none"

Append1 ==
  /\ InSegment
  /\ AppendFrame(input)
  /\ AdvanceSource(1)
  /\ speech_frame_count' = speech_frame_count + 1
  /\ FrameDone(CutDue)
  /\ UNCHANGED <<open, segment_start_frame, silence_frames, eventVars, ptt_pressed>>

-----------------------------------------------------------------------------
(* release and flush                                                       *)

Release ==
  /\ pc = "idle"
  /\ IF callback_error
       THEN ReturnAtOnce("ERR_IO") /\ UNCHANGED ptt_pressed
       ELSE /\ ptt_pressed' = FALSE
            /\ IF open THEN BeginEmit("release") ELSE ReturnAtOnce("OK")

\* A segment without frames is neither closed nor reported.
Flush ==
  /\ pc = "idle"
  /\ IF callback_error
       THEN ReturnAtOnce("ERR_IO") /\ UNCHANGED ptt_pressed
       ELSE /\ ptt_pressed' = FALSE
            /\ IF open /\ total_frame_count # 0
                 THEN BeginEmit("final") ELSE ReturnAtOnce("OK")

-----------------------------------------------------------------------------

Step ==
  \/ Reopen
  \/ Append1
  \/ (AppendAtCap \/ AppendError \/ Emit) /\ UNCHANGED ptt_pressed

Next ==
  \/ Press
  \/ Release
  \/ Flush
  \/ \E batch \in Batches : PushUp(batch) \/ PushDown(batch)
  \/ Step

Spec == Init /\ [][Next]_vars

\* A call that has begun runs to its end: it is a loop in the caller's thread.
FairSpec == Spec /\ WF_vars(Step)

-----------------------------------------------------------------------------
(* Properties.                                                             *)

TypeOK == SegmenterTypeOK /\ ptt_pressed \in BOOLEAN

\* Until a call fails, the frames of the open segment are consecutive and end
\* at the source cursor, and all of them were pushed with the button down
\* (ptt_push).
HeldRun ==
  healthy /\ source_frame_cursor < SizeMax =>
    /\ source_frame_cursor = input
    /\ Len(stored) = total_frame_count
    /\ stored = Interval(source_frame_cursor - total_frame_count, total_frame_count)
    /\ total_frame_count > 0 => ptt_pressed \/ pc = "emit"

\* Successive segments of a handle on which no call has failed hold different
\* frames, in input order, and are numbered one after the other
\* (cpkt_audio_vox_emit).
SegmentsInOrder ==
  [][last' # last /\ healthy /\ source_frame_cursor < SizeMax =>
       /\ last'.segment_index = segment_index
       /\ last'.start >= last.start
       /\ last.count > 0 => last'.content[1] > last.content[last.count]]_vars

\* No segment is longer than the time cap or the spool cap (ptt_push).
Budget ==
  /\ Len(frames) <= FrameCapacity
  /\ last.count <= MaxSpool
  /\ MaxSegment # 0 => last.count <= MaxSegment

\* Once the button is up and the call is over, whoever follows the state events
\* has been told that TX is closed.
\* audio.h, HARD_CUT: "VOX emitted a hard budget/spool cut without releasing TX."
ReleaseReported ==
  healthy /\ pc = "idle" /\ ~ptt_pressed /\ ~open => tx \in {"none", "TX_OFF"}

\* A flushed stream has no open segment left, and TX_OFF was sent for it.
\* audio.h, TX_OFF: "VOX released because hang-time expired or the stream was
\* flushed."
FlushReleases == healthy /\ pc = "idle" /\ open => ptt_pressed

\* Every call returns.
CallsReturn == pc # "idle" ~> pc = "idle"

=============================================================================
