----------------------------- MODULE Segmenter -----------------------------
(***************************************************************************)
(* The segment machinery that the VOX and the PTT segmenter of cpkt_audio  *)
(* share: struct cpkt_audio_vox_impl and the static helpers that append a  *)
(* frame, spill the segment to a temporary file, send a state event and    *)
(* hand a finished segment to the caller's sink.                           *)
(*                                                                         *)
(* A PCM frame is the index it has in the caller's input stream, so that a *)
(* segment's content says which input frames it holds.  One call of a      *)
(* receiver method is a sequence of steps: pc says where the running call  *)
(* is, todo holds the loudness of the frames it has not consumed yet.      *)
(***************************************************************************)
EXTENDS Integers, Sequences

CONSTANTS
  ReleaseSilence,     \* release_silence_frames
  MaxSegment,         \* max_segment_frames, 0 for no time cap
  MinSegment,         \* min_segment_frames
  FrameCapacity,      \* frame_capacity: frames kept in memory
  MaxSpool,           \* max_spool_frames: frames of one segment
  SizeMax,            \* (size_t)-1
  ULongModulus,       \* ULONG_MAX + 1
  FramesPerTick,      \* 160: frames in 10 ms
  IoFaults,           \* the I/O failures that may happen
  MaxInput,           \* bound: frames the caller hands over
  MaxBatch            \* bound: frames in one push

\* What cpkt_audio_vox_open and cpkt_audio_ptt_open let through.
ConfigAccepted ==
  /\ MaxSegment # 0 => MinSegment <= MaxSegment
  /\ FrameCapacity <= MaxSpool
  /\ MinSegment <= MaxSpool

ASSUME SegmenterAssumption ==
  /\ ReleaseSilence \in Nat \ {0}
  /\ MaxSegment \in Nat
  /\ MinSegment \in Nat \ {0}
  /\ FrameCapacity \in Nat \ {0}
  /\ MaxSpool \in Nat \ {0}
  /\ SizeMax \in Nat \ {0}
  /\ ULongModulus \in Nat \ {0}
  /\ ReleaseSilence < ULongModulus
  /\ FramesPerTick \in Nat \ {0}
  /\ IoFaults \subseteq {"tmpfile", "spill", "write", "seek"}
  /\ MaxInput \in Nat
  /\ MaxBatch \in Nat
  /\ ConfigAccepted

VARIABLES
  open, segment_start_frame,
  frames, spool_file, spool,       \* in memory; is the file open; its content
  total_frame_count, speech_frame_count, silence_frames,
  source_frame_cursor, segment_index, callback_error,
  pc, todo, cut,                   \* the running call
  input, ret, healthy, tx, last, boundary   \* history

segmentVars == <<open, segment_start_frame, frames, spool_file, spool,
                 total_frame_count, speech_frame_count, silence_frames>>
streamVars == <<source_frame_cursor, input>>
eventVars == <<segment_index, callback_error, tx, last, boundary>>
callVars == <<pc, todo, cut, ret, healthy>>
segmenterVars == <<segmentVars, streamVars, eventVars, callVars>>

NoSegment == [start |-> 0, count |-> 0, content |-> <<>>, t0 |-> 0, t1 |-> 0,
              segment_index |-> 0, hard_cut |-> FALSE, is_final |-> FALSE]

SegmenterInit ==
  /\ open = FALSE
  /\ segment_start_frame = 0
  /\ frames = <<>>
  /\ spool_file = FALSE
  /\ spool = <<>>
  /\ total_frame_count = 0
  /\ speech_frame_count = 0
  /\ silence_frames = 0
  /\ source_frame_cursor = 0
  /\ segment_index = 0
  /\ callback_error = FALSE
  /\ pc = "idle"
  /\ todo = <<>>
  /\ cut = "none"
  /\ input = 0
  /\ ret = "OK"
  /\ healthy = TRUE
  /\ tx = "none"
  /\ last = NoSegment
  /\ boundary = 0

-----------------------------------------------------------------------------
(* Where a call goes next.                                                 *)

\* The loop over the pushed frames goes on with rest, or the call returns OK.
Continue(rest) ==
  /\ todo' = rest
  /\ pc' = (IF rest = <<>> THEN "idle" ELSE "frame")
  /\ ret' = (IF rest = <<>> THEN "OK" ELSE ret)
  /\ cut' = "none"
  /\ UNCHANGED healthy

\* The call returns an error; the rest of the pushed frames is never looked at.
ReturnError(result) ==
  /\ pc' = "idle"
  /\ todo' = <<>>
  /\ cut' = "none"
  /\ ret' = result
  /\ healthy' = FALSE
  /\ input' = input + Len(todo)

\* Mutated form: push does not look at callback_error.
Push_IgnoresRefusal(batch) ==
  /\ pc = "idle"
  /\ batch # <<>>
  /\ input + Len(batch) <= MaxInput
  /\ todo' = batch
  /\ pc' = "frame"
  /\ UNCHANGED <<cut, ret, healthy, input>>
  /\ UNCHANGED <<segmentVars, source_frame_cursor, eventVars>>

\* The entry of push: a sink that ever said no keeps every later call out.
Push(batch) ==
  /\ pc = "idle"
  /\ batch # <<>>
  /\ input + Len(batch) <= MaxInput
  /\ IF callback_error
       THEN /\ ret' = "ERR_IO"
            /\ input' = input + Len(batch)
            /\ UNCHANGED <<pc, todo, cut, healthy>>
       ELSE /\ todo' = batch
            /\ pc' = "frame"
            /\ UNCHANGED <<cut, ret, healthy, input>>
  /\ UNCHANGED <<segmentVars, source_frame_cursor, eventVars>>

-----------------------------------------------------------------------------
(* The input timeline.                                                     *)

SaturatingAdd(left, right) ==
  IF left > SizeMax - right THEN SizeMax ELSE left + right

FloorTick(frame) == frame \div FramesPerTick

CeilTick(frame) ==
  frame \div FramesPerTick + (IF frame % FramesPerTick # 0 THEN 1 ELSE 0)

AdvanceSource(n) ==
  /\ source_frame_cursor' = SaturatingAdd(source_frame_cursor, n)
  /\ input' = input + n

-----------------------------------------------------------------------------
(* The open segment.                                                       *)

\* What the segment reader will deliver.
stored == IF spool_file THEN spool ELSE frames

OpenSegment(start) ==
  /\ open' = TRUE
  /\ segment_start_frame' = start
  /\ silence_frames' = 0
  /\ frames' = <<>>
  /\ total_frame_count' = 0
  /\ speech_frame_count' = 0
  /\ UNCHANGED <<spool_file, spool>>

\* Mutated form: the handle stays open after the cut.
ResetSegment_StaysOpen ==
  /\ spool_file' = FALSE
  /\ spool' = <<>>
  /\ frames' = <<>>
  /\ total_frame_count' = 0
  /\ speech_frame_count' = 0
  /\ silence_frames' = 0
  /\ UNCHANGED <<open, segment_start_frame>>

ResetSegment ==
  /\ spool_file' = FALSE
  /\ spool' = <<>>
  /\ frames' = <<>>
  /\ total_frame_count' = 0
  /\ speech_frame_count' = 0
  /\ silence_frames' = 0
  /\ open' = FALSE
  /\ UNCHANGED segment_start_frame

SpoolFull == total_frame_count >= MaxSpool

\* Mutated form: a spill forgets the frames that were in memory.
AppendFrame_SpillLosesMemory(frame) ==
  /\ ~SpoolFull
  /\ total_frame_count' = total_frame_count + 1
  /\ \/ /\ spool_file
        /\ spool' = Append(spool, frame)
        /\ UNCHANGED <<frames, spool_file>>
     \/ /\ ~spool_file
        /\ Len(frames) < FrameCapacity
        /\ frames' = Append(frames, frame)
        /\ UNCHANGED <<spool_file, spool>>
     \/ /\ ~spool_file
        /\ Len(frames) >= FrameCapacity
        /\ spool_file' = TRUE
        /\ spool' = <<frame>>
        /\ frames' = <<>>

\* append_frame when it returns OK: to the open file, to memory, or to a
\* file that first takes over what memory holds.
AppendFrame(frame) ==
  /\ ~SpoolFull
  /\ total_frame_count' = total_frame_count + 1
  /\ \/ /\ spool_file
        /\ spool' = Append(spool, frame)
        /\ UNCHANGED <<frames, spool_file>>
     \/ /\ ~spool_file
        /\ Len(frames) < FrameCapacity
        /\ frames' = Append(frames, frame)
        /\ UNCHANGED <<spool_file, spool>>
     \/ /\ ~spool_file
        /\ Len(frames) >= FrameCapacity
        /\ spool_file' = TRUE
        /\ spool' = Append(frames, frame)
        /\ frames' = <<>>

\* spill_to_file when it fails: no file, or a file with part of the frames.
SpillFails ==
  \/ /\ "tmpfile" \in IoFaults
     /\ UNCHANGED <<frames, spool_file, spool>>
  \/ /\ "spill" \in IoFaults
     /\ spool_file' = TRUE
     /\ \E n \in 0 .. Len(frames) - 1 : spool' = SubSeq(frames, 1, n)
     /\ UNCHANGED frames

\* append_frame when it returns ERR_IO.
AppendFails ==
  /\ ~SpoolFull
  /\ \/ /\ spool_file
        /\ "write" \in IoFaults
        /\ UNCHANGED <<frames, spool_file, spool>>
     \/ /\ ~spool_file
        /\ Len(frames) >= FrameCapacity
        /\ \/ SpillFails
           \/ /\ "write" \in IoFaults
              /\ spool_file' = TRUE
              /\ spool' = frames
              /\ frames' = <<>>
  /\ UNCHANGED total_frame_count

-----------------------------------------------------------------------------
(* State events and finished segments.                                     *)

\* emit_state: the sink takes the event, or refuses and disables the handle.
EmitState(state, accepted) ==
  /\ tx' = state
  /\ IF accepted THEN UNCHANGED callback_error ELSE callback_error' = TRUE

CutEvent == IF cut \in {"hard", "retry"} THEN "HARD_CUT" ELSE "TX_OFF"

TooShort ==
  \/ cut = "final" /\ speech_frame_count < MinSegment
  \/ total_frame_count < MinSegment

\* Mutated form: the end is rounded down like the start.
FinishedSegment_RoundsDown ==
  [start |-> segment_start_frame, count |-> total_frame_count,
   content |-> stored,
   t0 |-> FloorTick(segment_start_frame),
   t1 |-> FloorTick(SaturatingAdd(segment_start_frame, total_frame_count)),
   segment_index |-> segment_index,
   hard_cut |-> CutEvent = "HARD_CUT", is_final |-> cut = "final"]


FinishedSegment ==
  [start |-> segment_start_frame, count |-> total_frame_count,
   content |-> stored,
   t0 |-> FloorTick(segment_start_frame),
   t1 |-> CeilTick(SaturatingAdd(segment_start_frame, total_frame_count)),
   segment_index |-> segment_index,
   hard_cut |-> CutEvent = "HARD_CUT", is_final |-> cut = "final"]

\* emit when it returns OK: the segment is too short, or the sink takes it.
EmitDelivers ==
  /\ ResetSegment
  /\ boundary' = source_frame_cursor
  /\ IF TooShort
       THEN UNCHANGED <<segment_index, last>>
       ELSE /\ last' = FinishedSegment
            /\ segment_index' = (segment_index + 1) % ULongModulus
  /\ Continue(todo)
  /\ EmitState(CutEvent, TRUE)
  /\ UNCHANGED streamVars

\* The state event is refused: nothing of the segment is touched.
EmitEventRefused ==
  /\ EmitState(CutEvent, FALSE)
  /\ ReturnError("ERR_IO")
  /\ UNCHANGED <<segmentVars, source_frame_cursor, segment_index, last, boundary>>

\* The segment sink refuses: it saw the segment, which stays where it is.
EmitSegmentRefused ==
  /\ ~TooShort
  /\ last' = FinishedSegment
  /\ tx' = CutEvent
  /\ callback_error' = TRUE
  /\ ReturnError("ERR_IO")
  /\ UNCHANGED <<segmentVars, source_frame_cursor, segment_index, boundary>>

\* The temporary file cannot be flushed or rewound.
EmitSeekFails ==
  /\ ~TooShort
  /\ spool_file
  /\ "seek" \in IoFaults
  /\ EmitState(CutEvent, TRUE)
  /\ ReturnError("ERR_IO")
  /\ UNCHANGED <<segmentVars, source_frame_cursor, segment_index, last, boundary>>

\* emit_state followed by emit, at the end of a frame, a flush or a release.
Emit ==
  /\ pc = "emit"
  /\ \/ EmitDelivers
     \/ EmitEventRefused
     \/ EmitSegmentRefused
     \/ EmitSeekFails

-----------------------------------------------------------------------------
(* What the push loops of VOX and PTT share.                               *)

InSegment == pc = "append" \/ (pc = "frame" /\ open)

\* Mutated form: the frame is looked at again without a cut.
AppendAtCap_NoCut ==
  /\ InSegment
  /\ SpoolFull
  /\ pc' = "frame"
  /\ UNCHANGED <<segmentVars, streamVars, eventVars, todo, cut, ret, healthy>>

\* The spool cap is reached: cut, then look at the same frame again.
AppendAtCap ==
  /\ InSegment
  /\ SpoolFull
  /\ pc' = "emit"
  /\ cut' = "retry"
  /\ UNCHANGED <<segmentVars, streamVars, eventVars, todo, ret, healthy>>

AppendError ==
  /\ InSegment
  /\ AppendFails
  /\ ReturnError("ERR_IO")
  /\ UNCHANGED <<open, segment_start_frame, speech_frame_count, silence_frames,
                 source_frame_cursor, eventVars>>

\* The segment ends for the reason why, or the loop takes the next frame.
FrameDone(why) ==
  IF why = "none"
    THEN Continue(Tail(todo))
    ELSE /\ pc' = "emit"
         /\ cut' = why
         /\ todo' = Tail(todo)
         /\ UNCHANGED <<ret, healthy>>

\* A flush or a release closes the open segment.
BeginEmit(why) ==
  /\ pc' = "emit"
  /\ cut' = why
  /\ UNCHANGED <<segmentVars, streamVars, eventVars, todo, ret, healthy>>

\* A call that finds nothing to do, or a handle a sink has disabled.
ReturnAtOnce(result) ==
  /\ ret' = result
  /\ UNCHANGED <<segmentVars, streamVars, eventVars, pc, todo, cut, healthy>>

-----------------------------------------------------------------------------
(* What both segmenters promise about the segments they deliver.           *)

Interval(start, count) == [i \in 1 .. count |-> start + i - 1]

\* The frames of a segment are a run of consecutive input frames, as many as
\* frame_count says, and t0 and t1 are the 10 ms ticks that enclose it.
Exact(segment) ==
  /\ segment.content = Interval(segment.start, segment.count)
  /\ segment.t0 * FramesPerTick <= segment.start
  /\ segment.start < (segment.t0 + 1) * FramesPerTick
  /\ segment.start + segment.count <= segment.t1 * FramesPerTick
  /\ (segment.t1 - 1) * FramesPerTick < segment.start + segment.count

\* A segment does not reach back into the one before it.
Follows(next, previous) == next.start >= previous.start + previous.count

Segments ==
  [start : Nat, count : Nat, content : Seq(Nat), t0 : Nat, t1 : Nat,
   segment_index : Nat, hard_cut : BOOLEAN, is_final : BOOLEAN]

StorageTypeOK ==
  /\ frames \in Seq(Nat)
  /\ spool_file \in BOOLEAN
  /\ spool \in Seq(Nat)
  /\ total_frame_count \in 0 .. MaxSpool

SegmentTypeOK ==
  /\ StorageTypeOK
  /\ open \in BOOLEAN
  /\ segment_start_frame \in 0 .. SizeMax
  /\ speech_frame_count \in Nat
  /\ silence_frames \in 0 .. ULongModulus - 1

StreamTypeOK ==
  /\ source_frame_cursor \in 0 .. SizeMax
  /\ input \in Nat

EventTypeOK ==
  /\ segment_index \in 0 .. ULongModulus - 1
  /\ callback_error \in BOOLEAN
  /\ tx \in {"none", "TX_ON", "TX_OFF", "HARD_CUT"}
  /\ last \in Segments
  /\ boundary \in Nat

CallTypeOK ==
  /\ pc \in {"idle", "frame", "prebuffer", "append", "emit"}
  /\ todo \in Seq(BOOLEAN)
  /\ pc \in {"frame", "prebuffer", "append"} => todo # <<>>
  /\ cut \in {"none", "release", "hard", "retry", "final"}
  /\ ret \in {"OK", "ERR_IO", "AT_END"}
  /\ healthy \in BOOLEAN

SegmenterTypeOK == SegmentTypeOK /\ StreamTypeOK /\ EventTypeOK /\ CallTypeOK

=============================================================================
