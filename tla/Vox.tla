-------------------------------- MODULE Vox --------------------------------
(***************************************************************************)
(* cpkt_audio_vox: the voice-operated segmenter.  It keeps the last frames *)
(* below the threshold in a circular prebuffer, opens a segment at the     *)
(* first loud frame, and closes it after ReleaseSilence quiet frames, at   *)
(* the time cap, at the spool cap, or when the stream is flushed.          *)
(***************************************************************************)
EXTENDS Segmenter

CONSTANT PrebufferCapacity       \* prebuffer_capacity

ASSUME PrebufferAssumption == PrebufferCapacity \in Nat \ {0}

VARIABLES
  prebuffer_frames, prebuffer_count, prebuffer_cursor,
  next_prebuffered             \* the loop index of append_prebuffer

prebufferVars == <<prebuffer_frames, prebuffer_count, prebuffer_cursor>>
vars == <<segmenterVars, prebufferVars, next_prebuffered>>

Slots == 0 .. PrebufferCapacity - 1

Slot(n) == n % PrebufferCapacity

Init ==
  /\ SegmenterInit
  /\ prebuffer_frames = [i \in Slots |-> 0]
  /\ prebuffer_count = 0
  /\ prebuffer_cursor = 0
  /\ next_prebuffered = 0

-----------------------------------------------------------------------------
(* The prebuffer.                                                          *)

\* Mutated form: a full prebuffer overwrites its newest frame.
PrebufferFrame_OverwritesNewest(frame) ==
  IF prebuffer_count < PrebufferCapacity
    THEN /\ prebuffer_frames' =
              [prebuffer_frames EXCEPT
                 ![Slot(prebuffer_cursor + prebuffer_count)] = frame]
         /\ prebuffer_count' = prebuffer_count + 1
         /\ UNCHANGED prebuffer_cursor
    ELSE /\ prebuffer_frames' = [prebuffer_frames EXCEPT ![prebuffer_cursor] = frame]
         /\ UNCHANGED <<prebuffer_count, prebuffer_cursor>>

PrebufferFrame(frame) ==
  IF prebuffer_count < PrebufferCapacity
    THEN /\ prebuffer_frames' =
              [prebuffer_frames EXCEPT
                 ![Slot(prebuffer_cursor + prebuffer_count)] = frame]
         /\ prebuffer_count' = prebuffer_count + 1
         /\ UNCHANGED prebuffer_cursor
    ELSE /\ prebuffer_frames' = [prebuffer_frames EXCEPT ![prebuffer_cursor] = frame]
         /\ prebuffer_cursor' = Slot(prebuffer_cursor + 1)
         /\ UNCHANGED prebuffer_count

Prebuffered(i) ==
  prebuffer_frames[Slot(prebuffer_cursor + i)]

ResetPrebuffer ==
  /\ prebuffer_count' = 0
  /\ prebuffer_cursor' = 0
  /\ UNCHANGED prebuffer_frames

-----------------------------------------------------------------------------
(* push_f32_mono_16k, one iteration of its loop at a time.                 *)

loud == Head(todo)

\* A quiet frame while closed.
Quiet ==
  /\ pc = "frame"
  /\ ~open
  /\ ~loud
  /\ PrebufferFrame(input)
  /\ AdvanceSource(1)
  /\ Continue(Tail(todo))
  /\ UNCHANGED <<segmentVars, eventVars, next_prebuffered>>

StartFrame ==
  IF source_frame_cursor >= prebuffer_count
    THEN source_frame_cursor - prebuffer_count
    ELSE 0

\* A loud frame while closed: open, then send TX_ON.
OpenTx ==
  /\ pc = "frame"
  /\ ~open
  /\ loud
  /\ OpenSegment(StartFrame)
  /\ \/ /\ EmitState("TX_ON", TRUE)
        /\ pc' = "prebuffer"
        /\ UNCHANGED <<input, todo, cut, ret, healthy>>
     \/ /\ EmitState("TX_ON", FALSE)
        /\ ReturnError("ERR_IO")
  /\ next_prebuffered' = 0
  /\ UNCHANGED <<prebufferVars, source_frame_cursor, segment_index, last, boundary>>

\* append_prebuffer: one frame of it, a failure of it, or its end.
AppendPrebuffer ==
  /\ pc = "prebuffer"
  /\ \/ /\ next_prebuffered < prebuffer_count
        /\ AppendFrame(Prebuffered(next_prebuffered))
        /\ next_prebuffered' = next_prebuffered + 1
        /\ UNCHANGED <<prebufferVars, input, callVars>>
     \/ /\ next_prebuffered < prebuffer_count
        /\ \/ /\ SpoolFull
              /\ UNCHANGED <<frames, spool_file, spool, total_frame_count>>
              /\ ReturnError("AT_END")
           \/ /\ AppendFails
              /\ ReturnError("ERR_IO")
        /\ UNCHANGED <<prebufferVars, next_prebuffered>>
     \/ /\ next_prebuffered >= prebuffer_count
        /\ ResetPrebuffer
        /\ pc' = "append"
        /\ UNCHANGED <<frames, spool_file, spool, total_frame_count, input,
                       todo, cut, ret, healthy, next_prebuffered>>
  /\ UNCHANGED <<open, segment_start_frame, speech_frame_count, silence_frames,
                 source_frame_cursor, eventVars>>

\* note_loudness
NoteLoudness ==
  IF loud
    THEN /\ speech_frame_count' = speech_frame_count + 1
         /\ silence_frames' = 0
    ELSE /\ silence_frames' = (IF silence_frames < ULongModulus - 1
                                 THEN silence_frames + 1 ELSE silence_frames)
         /\ UNCHANGED speech_frame_count

\* Mutated form: the time cap lets one frame more through.
CutDue_OffByOne ==
  IF silence_frames' >= ReleaseSilence THEN "release"
  ELSE IF MaxSegment # 0 /\ total_frame_count' > MaxSegment THEN "hard" ELSE "none"

\* Why the segment ends after this frame, if it does.
CutDue ==
  IF silence_frames' >= ReleaseSilence THEN "release"
  ELSE IF MaxSegment # 0 /\ total_frame_count' >= MaxSegment THEN "hard"
  ELSE "none"

\* A frame that belongs to the open segment.
Append1 ==
  /\ InSegment
  /\ AppendFrame(input)
  /\ AdvanceSource(1)
  /\ NoteLoudness
  /\ FrameDone(CutDue)
  /\ UNCHANGED <<open, segment_start_frame, eventVars>>

-----------------------------------------------------------------------------
(* flush                                                                   *)

Flush ==
  /\ pc = "idle"
  /\ IF callback_error THEN ReturnAtOnce("ERR_IO")
     ELSE IF ~open \/ total_frame_count = 0 THEN ReturnAtOnce("OK")
     ELSE BeginEmit("final")

Batches == UNION {[1 .. n -> BOOLEAN] : n \in 1 .. MaxBatch}

\* The steps that leave the prebuffer alone.
SegmentStep ==
  \/ Append1
  \/ AppendAtCap
  \/ AppendError
  \/ Emit

Step ==
  \/ Quiet
  \/ OpenTx
  \/ AppendPrebuffer
  \/ SegmentStep /\ UNCHANGED <<prebufferVars, next_prebuffered>>

Call ==
  \/ \E batch \in Batches : Push(batch)
  \/ Flush

Next ==
  \/ Step
  \/ Call /\ UNCHANGED <<prebufferVars, next_prebuffered>>

Spec == Init /\ [][Next]_vars

\* A call that has begun runs to its end: it is a loop in the caller's thread.
FairSpec == Spec /\ WF_vars(Step)

-----------------------------------------------------------------------------
(* Properties.                                                             *)

PrebufferTypeOK ==
  /\ prebuffer_frames \in [Slots -> Nat]
  /\ prebuffer_count \in 0 .. PrebufferCapacity
  /\ prebuffer_cursor \in Slots
  /\ next_prebuffered \in 0 .. PrebufferCapacity

TypeOK == SegmenterTypeOK /\ PrebufferTypeOK

\* Until a call fails or the timeline saturates, the open segment is exactly
\* the run of input frames from segment_start_frame to the source cursor, with
\* the prebuffered frames moving over one by one while TX opens: nothing is
\* lost, duplicated or shifted by memory, spill or hard cut (vox_push).
Timeline ==
  healthy /\ source_frame_cursor < SizeMax =>
    /\ source_frame_cursor = input
    /\ open =>
         /\ stored = Interval(segment_start_frame, total_frame_count)
         /\ segment_start_frame + total_frame_count =
              IF pc = "prebuffer"
                THEN source_frame_cursor - prebuffer_count + next_prebuffered
                ELSE source_frame_cursor

\* While TX is closed the prebuffer holds, in order, the most recent frames
\* since the last segment ended, as many as fit (prebuffer_frame, and
\* audio.h: "Audio retained before threshold opens VOX").
PrebufferIsTail ==
  healthy /\ source_frame_cursor < SizeMax /\ (open => pc = "prebuffer") =>
    /\ prebuffer_count = IF source_frame_cursor - boundary < PrebufferCapacity
                           THEN source_frame_cursor - boundary
                           ELSE PrebufferCapacity
    /\ \A i \in 0 .. prebuffer_count - 1 :
         Prebuffered(i) = source_frame_cursor - prebuffer_count + i

\* Every frame pushed is in the open segment, in the prebuffer or behind the
\* boundary, in its place (vox_push, prebuffer_frame).
InputAccounted == Timeline /\ PrebufferIsTail

\* Every segment handed to the sink, by a call made while no earlier call had
\* failed, is exact and starts at or after the end of the one before
\* (cpkt_audio_vox_emit).
SegmentsExact ==
  [][last' # last /\ healthy /\ source_frame_cursor < SizeMax
       => Exact(last') /\ Follows(last', last)]_vars

\* The receiver of the state events can tell whether a segment is open: it is
\* after TX_ON, it is not after TX_OFF or HARD_CUT (vox_emit_state).
EventsTrackOpen == healthy => (open <=> tx = "TX_ON")

\* Memory holds at most frame_capacity frames, and until a call fails no
\* segment is longer than the time cap, or than the prebuffer and the frame
\* that opened it where that is longer (vox_append_frame, vox_push).
Budget ==
  /\ Len(frames) <= FrameCapacity
  /\ healthy /\ MaxSegment # 0 =>
       \/ last.count <= MaxSegment
       \/ last.count <= PrebufferCapacity + 1

\* Once a sink has refused, no later call delivers an event or a segment or
\* takes a frame (the callback_error test at the head of push and flush).
RefusalIsFinal ==
  [][callback_error => UNCHANGED <<tx, last, segment_index, source_frame_cursor,
                                   total_frame_count, prebuffer_count>>]_vars

\* Push never reports the end of a stream: a full spool is a hard cut.
\* docs/audio-sus-facade-spec.md: "it must hard-cut at max_spool_bytes".
SpoolCapIsHardCut == ret # "AT_END"

\* A delivered segment can be read to its end: its reader has as many frames
\* as it says.  audio.h, frame_count: "Total mono 16000 Hz PCM frames available
\* through the segment reader."
FrameCountIsReadable == Len(last.content) = last.count

\* Every call returns, the retry of a frame after a spool cut included.
CallsReturn == pc # "idle" ~> pc = "idle"

=============================================================================
