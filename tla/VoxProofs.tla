----------------------------- MODULE VoxProofs -----------------------------
(***************************************************************************)
(* Theorems about Vox, for every value of its constants.                   *)
(***************************************************************************)
EXTENDS Vox, TLAPS

USE DEF segmentVars, streamVars, eventVars, callVars, segmenterVars,
        prebufferVars, vars, TypeOK, SegmenterTypeOK

-----------------------------------------------------------------------------
(* Arithmetic.                                                             *)

LEMMA ModRange ==
  ASSUME NEW x \in Nat, NEW n \in Nat \ {0}
  PROVE  x % n \in 0 .. n - 1
  OBVIOUS

LEMMA SlotRange ==
  ASSUME NEW x \in Nat
  PROVE  Slot(x) \in Slots
  BY ModRange, PrebufferAssumption DEF Slot, Slots

LEMMA DivNat ==
  ASSUME NEW x \in Nat, NEW n \in Nat \ {0}
  PROVE  x \div n \in Nat
  OBVIOUS

LEMMA SaturatingAddRange ==
  ASSUME NEW x \in 0 .. SizeMax, NEW y \in Nat
  PROVE  SaturatingAdd(x, y) \in 0 .. SizeMax
  BY SegmenterAssumption DEF SaturatingAdd

-----------------------------------------------------------------------------
(* Types.                                                                  *)

\* A finished segment is a record of the type of last.
LEMMA FinishedSegmentType ==
  ASSUME SegmentTypeOK, EventTypeOK
  PROVE  FinishedSegment \in Segments
<1>1. segment_start_frame \in 0 .. SizeMax /\ total_frame_count \in Nat /\ segment_index \in Nat
  BY SegmenterAssumption DEF SegmentTypeOK, StorageTypeOK, EventTypeOK
<1>2. SaturatingAdd(segment_start_frame, total_frame_count) \in 0 .. SizeMax
  BY <1>1, SaturatingAddRange
<1>3. FloorTick(segment_start_frame) \in Nat
  BY <1>1, DivNat, SegmenterAssumption DEF FloorTick
<1>4. CeilTick(SaturatingAdd(segment_start_frame, total_frame_count)) \in Nat
  BY <1>2, DivNat, SegmenterAssumption DEF CeilTick
<1>5. stored \in Seq(Nat)
  BY DEF stored, SegmentTypeOK, StorageTypeOK
<1>6. segment_start_frame \in Nat
  BY <1>1, SegmenterAssumption
<1> QED
  BY <1>1, <1>3, <1>4, <1>5, <1>6 DEF FinishedSegment, Segments

\* A frame appended to the open segment keeps its storage typed.
LEMMA AppendFrameType ==
  ASSUME StorageTypeOK, NEW frame \in Nat, AppendFrame(frame)
  PROVE  StorageTypeOK'
<1>1. /\ Append(frames, frame) \in Seq(Nat)
      /\ Append(spool, frame) \in Seq(Nat)
      /\ <<>> \in Seq(Nat)
  BY DEF StorageTypeOK
<1>2. total_frame_count' \in 0 .. MaxSpool
  BY SegmenterAssumption DEF AppendFrame, SpoolFull, StorageTypeOK
<1>3. spool_file' \in BOOLEAN
  BY Zenon DEF AppendFrame, StorageTypeOK
<1>4. frames' \in Seq(Nat) /\ spool' \in Seq(Nat)
  BY <1>1, Zenon DEF AppendFrame, StorageTypeOK
<1> QED
  BY <1>2, <1>3, <1>4 DEF StorageTypeOK

LEMMA AppendFailsType ==
  ASSUME StorageTypeOK, AppendFails
  PROVE  StorageTypeOK'
<1>1. ASSUME NEW n \in 0 .. Len(frames) - 1 PROVE SubSeq(frames, 1, n) \in Seq(Nat)
  BY DEF StorageTypeOK
<1>2. <<>> \in Seq(Nat)
  OBVIOUS
<1> QED
  BY <1>1, <1>2, Zenon DEF AppendFails, SpillFails, StorageTypeOK

LEMMA ContinueType ==
  ASSUME CallTypeOK, NEW rest \in Seq(BOOLEAN), Continue(rest)
  PROVE  CallTypeOK'
  BY Zenon DEF Continue, CallTypeOK

LEMMA ReturnErrorType ==
  ASSUME CallTypeOK, input \in Nat,
         NEW result \in {"ERR_IO", "AT_END"}, ReturnError(result)
  PROVE  CallTypeOK' /\ input' \in Nat
<1>1. Len(todo) \in Nat /\ <<>> \in Seq(BOOLEAN)
  BY DEF CallTypeOK
<1>2. input' \in Nat
  BY <1>1 DEF ReturnError
<1>3. CallTypeOK'
  BY <1>1, Zenon DEF ReturnError, CallTypeOK
<1> QED
  BY <1>2, <1>3

LEMMA EmitStateType ==
  ASSUME EventTypeOK, NEW state \in {"TX_ON", "TX_OFF", "HARD_CUT"},
         NEW accepted \in BOOLEAN, EmitState(state, accepted)
  PROVE  /\ tx' \in {"none", "TX_ON", "TX_OFF", "HARD_CUT"}
         /\ callback_error' \in BOOLEAN
  BY Zenon DEF EmitState, EventTypeOK

LEMMA TailType ==
  ASSUME CallTypeOK, pc \in {"frame", "prebuffer", "append"}
  PROVE  Tail(todo) \in Seq(BOOLEAN)
  BY DEF CallTypeOK

LEMMA TypeInit == Init => TypeOK
<1> SUFFICES ASSUME Init PROVE TypeOK
  OBVIOUS
<1> USE SegmenterAssumption, PrebufferAssumption DEF Init, SegmenterInit
<1>0. /\ 0 \in Nat /\ 0 \in 0 .. MaxSpool /\ 0 \in 0 .. SizeMax
      /\ 0 \in 0 .. ULongModulus - 1 /\ <<>> \in Seq(Nat)
  OBVIOUS
<1>1. SegmentTypeOK
  BY <1>0, Zenon DEF SegmentTypeOK, StorageTypeOK
<1>2. StreamTypeOK
  BY DEF StreamTypeOK
<1>3. EventTypeOK
  BY <1>0, Zenon DEF EventTypeOK, NoSegment, Segments
<1>4. CallTypeOK
  BY DEF CallTypeOK
<1>5. PrebufferTypeOK
  BY DEF PrebufferTypeOK, Slots
<1> QED
  BY <1>1, <1>2, <1>3, <1>4, <1>5

LEMMA QuietType ==
  ASSUME TypeOK, Quiet
  PROVE  TypeOK'
<1> USE SegmenterAssumption, PrebufferAssumption
<1>1. PrebufferTypeOK'
  <2>1. input \in Nat /\ PrebufferFrame(input) /\ next_prebuffered' = next_prebuffered
    BY DEF Quiet, StreamTypeOK
  <2>2. /\ Slot(prebuffer_cursor + prebuffer_count) \in Slots
        /\ Slot(prebuffer_cursor + 1) \in Slots
    <3>1. prebuffer_cursor + prebuffer_count \in Nat /\ prebuffer_cursor + 1 \in Nat
      BY DEF PrebufferTypeOK, Slots
    <3> QED
      BY <3>1, SlotRange
  <2>3. prebuffer_cursor' \in Slots /\ prebuffer_count' \in 0 .. PrebufferCapacity
    BY <2>1, <2>2 DEF PrebufferFrame, PrebufferTypeOK
  <2>4. prebuffer_frames' \in [Slots -> Nat]
    BY <2>1, <2>2, Zenon DEF PrebufferFrame, PrebufferTypeOK
  <2> QED
    BY <2>1, <2>3, <2>4 DEF PrebufferTypeOK
<1>2. StreamTypeOK'
  BY SaturatingAddRange DEF Quiet, AdvanceSource, StreamTypeOK
<1>3. CallTypeOK'
  BY ContinueType, TailType, Zenon DEF Quiet
<1>4. SegmentTypeOK' /\ EventTypeOK'
  BY DEF Quiet, SegmentTypeOK, StorageTypeOK, EventTypeOK
<1> QED
  BY <1>1, <1>2, <1>3, <1>4

\* What stays the same keeps its type.
LEMMA KeptTypes ==
  /\ SegmentTypeOK /\ UNCHANGED segmentVars => SegmentTypeOK'
  /\ StreamTypeOK /\ UNCHANGED streamVars => StreamTypeOK'
  /\ EventTypeOK /\ UNCHANGED eventVars => EventTypeOK'
  /\ CallTypeOK /\ UNCHANGED callVars => CallTypeOK'
  /\ PrebufferTypeOK /\ UNCHANGED <<prebufferVars, next_prebuffered>> => PrebufferTypeOK'
  BY DEF SegmentTypeOK, StorageTypeOK, StreamTypeOK, EventTypeOK, CallTypeOK, PrebufferTypeOK

LEMMA OpenTxType ==
  ASSUME TypeOK, OpenTx
  PROVE  TypeOK'
<1> USE SegmenterAssumption, PrebufferAssumption
<1>1. SegmentTypeOK'
  <2>1. StartFrame \in 0 .. SizeMax
    BY DEF StartFrame, StreamTypeOK, PrebufferTypeOK
  <2>2. 0 \in Nat /\ 0 \in 0 .. MaxSpool /\ 0 \in 0 .. ULongModulus - 1 /\ <<>> \in Seq(Nat)
    OBVIOUS
  <2> QED
    BY <2>1, <2>2, Zenon DEF OpenTx, OpenSegment, SegmentTypeOK, StorageTypeOK
<1>2. EventTypeOK'
  <2>1. \E accepted \in BOOLEAN : EmitState("TX_ON", accepted)
    BY Zenon DEF OpenTx
  <2>2. tx' \in {"none", "TX_ON", "TX_OFF", "HARD_CUT"} /\ callback_error' \in BOOLEAN
    BY <2>1, EmitStateType
  <2> QED
    BY <2>2, Zenon DEF OpenTx, EventTypeOK
<1>3. CallTypeOK' /\ input' \in Nat
  <2>1. CASE ReturnError("ERR_IO")
    BY <2>1, ReturnErrorType DEF StreamTypeOK
  <2>2. CASE pc' = "prebuffer" /\ UNCHANGED <<input, todo, cut, ret, healthy>>
    BY <2>2 DEF OpenTx, CallTypeOK, StreamTypeOK
  <2> QED
    BY <2>1, <2>2, Zenon DEF OpenTx
<1>4. StreamTypeOK'
  BY <1>3 DEF OpenTx, StreamTypeOK
<1>5. PrebufferTypeOK'
  BY DEF OpenTx, PrebufferTypeOK
<1> QED
  BY <1>1, <1>2, <1>3, <1>4, <1>5

LEMMA AppendPrebufferType ==
  ASSUME TypeOK, AppendPrebuffer
  PROVE  TypeOK'
<1> USE SegmenterAssumption, PrebufferAssumption
<1>0. EventTypeOK' /\ source_frame_cursor' \in 0 .. SizeMax
  BY KeptTypes DEF AppendPrebuffer, StreamTypeOK
<1>1. StorageTypeOK => /\ StorageTypeOK' => SegmentTypeOK'
                       /\ UNCHANGED <<frames, spool_file, spool, total_frame_count>> => StorageTypeOK'
  BY Zenon DEF AppendPrebuffer, SegmentTypeOK, StorageTypeOK
<1>2. StorageTypeOK
  BY DEF SegmentTypeOK
<1>3. CASE /\ next_prebuffered < prebuffer_count
           /\ AppendFrame(Prebuffered(next_prebuffered))
           /\ next_prebuffered' = next_prebuffered + 1
           /\ UNCHANGED <<prebufferVars, input, callVars>>
  <2>1. Prebuffered(next_prebuffered) \in Nat
    <3>1. prebuffer_cursor + next_prebuffered \in Nat
      BY DEF PrebufferTypeOK, Slots
    <3> QED
      BY <3>1, SlotRange DEF Prebuffered, PrebufferTypeOK
  <2>2. StorageTypeOK'
    BY <1>2, <1>3, <2>1, AppendFrameType
  <2>3. PrebufferTypeOK' /\ StreamTypeOK'
    BY <1>0, <1>3 DEF PrebufferTypeOK, StreamTypeOK
  <2>4. CallTypeOK'
    BY <1>3, KeptTypes
  <2> QED
    BY <1>0, <1>1, <1>2, <2>2, <2>3, <2>4
<1>4. CASE /\ \/ /\ SpoolFull
                 /\ UNCHANGED <<frames, spool_file, spool, total_frame_count>>
                 /\ ReturnError("AT_END")
              \/ /\ AppendFails
                 /\ ReturnError("ERR_IO")
           /\ UNCHANGED <<prebufferVars, next_prebuffered>>
  <2>1. StorageTypeOK'
    BY <1>1, <1>2, <1>4, AppendFailsType, Zenon
  <2>2. CallTypeOK' /\ input' \in Nat
    BY <1>4, ReturnErrorType DEF StreamTypeOK
  <2>3. PrebufferTypeOK'
    BY <1>4, KeptTypes
  <2> QED
    BY <1>0, <1>1, <1>2, <2>1, <2>2, <2>3 DEF StreamTypeOK
<1>5. CASE /\ ResetPrebuffer
           /\ pc' = "append"
           /\ UNCHANGED <<frames, spool_file, spool, total_frame_count, input,
                          todo, cut, ret, healthy, next_prebuffered>>
  <2>1. PrebufferTypeOK' /\ StreamTypeOK'
    BY <1>0, <1>5 DEF ResetPrebuffer, PrebufferTypeOK, Slots, StreamTypeOK
  <2>2. CallTypeOK'
    BY <1>5 DEF AppendPrebuffer, CallTypeOK
  <2> QED
    BY <1>0, <1>1, <1>2, <1>5, <2>1, <2>2
<1> QED
  BY <1>3, <1>4, <1>5, Zenon DEF AppendPrebuffer

LEMMA FrameDoneType ==
  ASSUME CallTypeOK, pc \in {"frame", "prebuffer", "append"},
         NEW why \in {"none", "release", "hard"}, FrameDone(why)
  PROVE  CallTypeOK'
<1>1. Tail(todo) \in Seq(BOOLEAN)
  BY TailType
<1>2. CASE why = "none"
  BY <1>1, <1>2, ContinueType, Zenon DEF FrameDone
<1>3. CASE why # "none"
  BY <1>1, <1>3, Zenon DEF FrameDone, CallTypeOK
<1> QED
  BY <1>2, <1>3

LEMMA Append1Type ==
  ASSUME TypeOK, Append1, UNCHANGED <<prebufferVars, next_prebuffered>>
  PROVE  TypeOK'
<1> USE SegmenterAssumption
<1>1. EventTypeOK' /\ PrebufferTypeOK'
  BY KeptTypes DEF Append1
<1>2. StreamTypeOK'
  BY SaturatingAddRange DEF Append1, AdvanceSource, StreamTypeOK
<1>3. StorageTypeOK'
  BY AppendFrameType DEF Append1, SegmentTypeOK, StreamTypeOK
<1>4. speech_frame_count' \in Nat /\ silence_frames' \in 0 .. ULongModulus - 1
  BY DEF Append1, NoteLoudness, SegmentTypeOK
<1>5. SegmentTypeOK'
  BY <1>3, <1>4, Zenon DEF Append1, SegmentTypeOK
<1>6. CutDue \in {"none", "release", "hard"}
  BY Zenon DEF CutDue
<1>7. CallTypeOK'
  BY <1>6, FrameDoneType DEF Append1, InSegment
<1> QED
  BY <1>1, <1>2, <1>5, <1>7

LEMMA AppendErrorType ==
  ASSUME TypeOK, AppendError, UNCHANGED <<prebufferVars, next_prebuffered>>
  PROVE  TypeOK'
<1>1. EventTypeOK' /\ PrebufferTypeOK'
  BY KeptTypes DEF AppendError
<1>2. StorageTypeOK'
  BY AppendFailsType DEF AppendError, SegmentTypeOK
<1>3. SegmentTypeOK'
  BY <1>2, Zenon DEF AppendError, SegmentTypeOK
<1>4. CallTypeOK' /\ input' \in Nat
  BY ReturnErrorType DEF AppendError, StreamTypeOK
<1>5. StreamTypeOK'
  BY <1>4 DEF AppendError, StreamTypeOK
<1> QED
  BY <1>1, <1>3, <1>4, <1>5

LEMMA EmitType ==
  ASSUME TypeOK, Emit, UNCHANGED <<prebufferVars, next_prebuffered>>
  PROVE  TypeOK'
<1> USE SegmenterAssumption
<1>0. PrebufferTypeOK' /\ CutEvent \in {"TX_ON", "TX_OFF", "HARD_CUT"} /\ FinishedSegment \in Segments
  BY KeptTypes, FinishedSegmentType DEF CutEvent
<1>1. CASE EmitDelivers
  <2>1. 0 \in Nat /\ 0 \in 0 .. MaxSpool /\ 0 \in 0 .. ULongModulus - 1 /\ <<>> \in Seq(Nat)
    OBVIOUS
  <2>2. SegmentTypeOK'
    BY <1>1, <2>1, Zenon DEF EmitDelivers, ResetSegment, SegmentTypeOK, StorageTypeOK
  <2>3. StreamTypeOK'
    BY <1>1, KeptTypes DEF EmitDelivers
  <2>4. CallTypeOK'
    <3>1. todo \in Seq(BOOLEAN) /\ Continue(todo)
      BY <1>1 DEF EmitDelivers, CallTypeOK
    <3> QED
      BY <3>1, ContinueType
  <2>5. EventTypeOK'
    <3>1. boundary' \in Nat
      BY <1>1 DEF EmitDelivers, StreamTypeOK
    <3>2. (segment_index + 1) % ULongModulus \in 0 .. ULongModulus - 1
      BY ModRange DEF EventTypeOK
    <3>3. tx' \in {"none", "TX_ON", "TX_OFF", "HARD_CUT"} /\ callback_error' \in BOOLEAN
      BY <1>0, <1>1, EmitStateType, Zenon DEF EmitDelivers
    <3> QED
      BY <1>0, <1>1, <3>1, <3>2, <3>3, Zenon DEF EmitDelivers, EventTypeOK
  <2> QED
    BY <1>0, <2>2, <2>3, <2>4, <2>5
<1>2. CASE EmitEventRefused \/ EmitSegmentRefused \/ EmitSeekFails
  <2>1. ReturnError("ERR_IO") /\ UNCHANGED <<segmentVars, source_frame_cursor, segment_index, boundary>>
    BY <1>2, Zenon DEF EmitEventRefused, EmitSegmentRefused, EmitSeekFails
  <2>2. CallTypeOK' /\ input' \in Nat
    BY <2>1, ReturnErrorType DEF StreamTypeOK
  <2>3. SegmentTypeOK'
    BY <2>1, KeptTypes
  <2>4. tx' \in {"none", "TX_ON", "TX_OFF", "HARD_CUT"} /\ callback_error' \in BOOLEAN
    BY <1>0, <1>2, Zenon DEF EmitEventRefused, EmitSegmentRefused, EmitSeekFails, EmitState, EventTypeOK
  <2>5. last' \in Segments
    BY <1>0, <1>2, Zenon DEF EmitEventRefused, EmitSegmentRefused, EmitSeekFails, EventTypeOK
  <2>6. EventTypeOK' /\ StreamTypeOK'
    BY <2>1, <2>2, <2>4, <2>5, Zenon DEF EventTypeOK, StreamTypeOK
  <2> QED
    BY <1>0, <2>2, <2>3, <2>6
<1> QED
  BY <1>1, <1>2 DEF Emit

LEMMA CallType ==
  ASSUME TypeOK, Call, UNCHANGED <<prebufferVars, next_prebuffered>>
  PROVE  TypeOK'
<1>0. PrebufferTypeOK'
  BY KeptTypes
<1>1. ASSUME NEW batch \in Batches, Push(batch) PROVE TypeOK'
  <2>1. batch \in Seq(BOOLEAN) /\ Len(batch) \in Nat
    BY SegmenterAssumption DEF Batches
  <2>2. SegmentTypeOK' /\ EventTypeOK'
    BY <1>1, KeptTypes DEF Push
  <2>3. StreamTypeOK'
    BY <1>1, <2>1 DEF Push, StreamTypeOK
  <2>4. CallTypeOK'
    BY <1>1, <2>1, Zenon DEF Push, CallTypeOK
  <2> QED
    BY <1>0, <2>2, <2>3, <2>4
<1>2. CASE Flush
  <2>1. SegmentTypeOK' /\ EventTypeOK' /\ StreamTypeOK'
    BY <1>2, KeptTypes DEF Flush, ReturnAtOnce, BeginEmit
  <2>2. CallTypeOK'
    BY <1>2, Zenon DEF Flush, ReturnAtOnce, BeginEmit, CallTypeOK
  <2> QED
    BY <1>0, <2>1, <2>2
<1> QED
  BY <1>1, <1>2 DEF Call

LEMMA TypeNext == TypeOK /\ [Next]_vars => TypeOK'
<1> SUFFICES ASSUME TypeOK, [Next]_vars PROVE TypeOK'
  OBVIOUS
<1>1. CASE AppendAtCap /\ UNCHANGED <<prebufferVars, next_prebuffered>>
  <2>1. CallTypeOK'
    BY <1>1, Zenon DEF AppendAtCap, CallTypeOK
  <2> QED
    BY <1>1, <2>1, KeptTypes DEF AppendAtCap
<1>2. CASE UNCHANGED vars
  BY <1>2, KeptTypes
<1> QED
  BY <1>1, <1>2, QuietType, OpenTxType, AppendPrebufferType, Append1Type,
     AppendErrorType, EmitType, CallType, Zenon DEF Next, Step, SegmentStep

\* Every reachable state of a VOX handle is well typed; in particular the
\* counters of the open segment and the prebuffer stay within the capacities
\* that cpkt_audio_vox_open allocated for them.
THEOREM TypeCorrect == Spec => []TypeOK
  BY TypeInit, TypeNext, PTL DEF Spec

-----------------------------------------------------------------------------
(* The inductive invariant.                                                *)

\* No call has failed and the timeline has not saturated.
Sound == healthy /\ source_frame_cursor < SizeMax

\* Where a call can be: the steps that need an open segment have one, a
\* refused call is over, a closed handle holds no frames and no file.
ControlInv ==
  /\ pc \in {"prebuffer", "append", "emit"} => open
  /\ callback_error => pc = "idle" /\ ~healthy
  /\ ~open => frames = <<>> /\ ~spool_file /\ total_frame_count = 0

\* The prebuffer is empty once its frames have moved into the open segment.
PrebufferInv ==
  Sound =>
    /\ boundary <= source_frame_cursor
    /\ pc = "prebuffer" => next_prebuffered <= prebuffer_count
    /\ open /\ pc # "prebuffer" => prebuffer_count = 0

\* The last delivered segment ends at or before the boundary, the open one
\* starts at or after it.
DeliveryInv ==
  Sound =>
    /\ last.start + last.count <= boundary
    /\ open => boundary <= segment_start_frame

IInv ==
  /\ ControlInv
  /\ PrebufferInv
  /\ Timeline
  /\ PrebufferIsTail
  /\ DeliveryInv

-----------------------------------------------------------------------------
(* Lemmas about the operators.                                             *)

LEMMA ModSmall ==
  ASSUME NEW n \in Nat \ {0}, NEW x \in 0 .. n - 1
  PROVE  x % n = x
  OBVIOUS

LEMMA ModWraps ==
  ASSUME NEW n \in Nat \ {0}, NEW x \in n .. 2 * n - 1
  PROVE  x % n = x - n
  OBVIOUS

\* Appending the next input frame extends an interval.
LEMMA IntervalAppend ==
  ASSUME NEW s \in Nat, NEW n \in Nat
  PROVE  Append(Interval(s, n), s + n) = Interval(s, n + 1)
  BY DEF Interval

LEMMA IntervalEmpty ==
  ASSUME NEW s \in Nat
  PROVE  Interval(s, 0) = <<>>
  BY DEF Interval

\* append_frame appends: what the reader will deliver grows by that frame,
\* whether it went to memory, to the file or through a spill.
LEMMA AppendFrameStores ==
  ASSUME StorageTypeOK, NEW frame \in Nat, AppendFrame(frame)
  PROVE  stored' = Append(stored, frame) /\ total_frame_count' = total_frame_count + 1
<1>1. total_frame_count' = total_frame_count + 1
  BY DEF AppendFrame
<1>2. CASE spool_file
  BY <1>2, Zenon DEF AppendFrame, stored
<1>3. CASE ~spool_file /\ frames' = Append(frames, frame) /\ UNCHANGED <<spool_file, spool>>
  BY <1>1, <1>3, Zenon DEF stored
<1>4. CASE ~spool_file /\ spool_file' = TRUE /\ spool' = Append(frames, frame)
  <2>1. stored = frames /\ stored' = spool'
    BY <1>4, SMT DEF stored
  <2> QED
    BY <1>1, <1>4, <2>1
<1> QED
  BY <1>1, <1>2, <1>3, <1>4, Zenon DEF AppendFrame

\* A step of the timeline that does not saturate is an ordinary addition.
LEMMA AdvanceExact ==
  ASSUME StreamTypeOK, AdvanceSource(1), healthy' = healthy, Sound'
  PROVE  /\ Sound
         /\ source_frame_cursor' = source_frame_cursor + 1
         /\ input' = input + 1
<1>1. source_frame_cursor' < SizeMax /\ healthy
  BY DEF Sound
<1>2. source_frame_cursor < SizeMax /\ source_frame_cursor' = source_frame_cursor + 1
  BY <1>1, SegmenterAssumption DEF AdvanceSource, SaturatingAdd, StreamTypeOK
<1> QED
  BY <1>1, <1>2 DEF Sound, AdvanceSource

\* A failed call ends what the invariants about the timeline promise.
LEMMA FailedCall ==
  ASSUME ~healthy'
  PROVE  PrebufferInv' /\ Timeline' /\ PrebufferIsTail' /\ DeliveryInv'
  BY DEF Sound, PrebufferInv, Timeline, PrebufferIsTail, DeliveryInv

\* A position less than one turn past the start of the ring wraps at most once.
LEMMA SlotOnce ==
  ASSUME NEW x \in 0 .. 2 * PrebufferCapacity - 1
  PROVE  Slot(x) = IF x < PrebufferCapacity THEN x ELSE x - PrebufferCapacity
  BY ModSmall, ModWraps, PrebufferAssumption DEF Slot

\* Distinct positions of the ring are distinct slots.
LEMMA SlotsDiffer ==
  ASSUME NEW c \in Slots, NEW i \in Slots, NEW j \in Slots, i # j
  PROVE  Slot(c + i) # Slot(c + j)
<1>1. c + i \in 0 .. 2 * PrebufferCapacity - 1 /\ c + j \in 0 .. 2 * PrebufferCapacity - 1
  BY PrebufferAssumption DEF Slots
<1> QED
  BY <1>1, SlotOnce, PrebufferAssumption DEF Slots

\* prebuffer_frame keeps the newest frames, in order.
LEMMA PrebufferFrameTail ==
  ASSUME PrebufferTypeOK, NEW frame \in Nat, PrebufferFrame(frame),
         NEW base \in Int,
         \A i \in 0 .. prebuffer_count - 1 : Prebuffered(i) = base + i,
         frame = base + prebuffer_count
  PROVE  /\ prebuffer_count' = IF prebuffer_count < PrebufferCapacity
                                 THEN prebuffer_count + 1 ELSE PrebufferCapacity
         /\ \A i \in 0 .. prebuffer_count' - 1 :
              Prebuffered(i)' = frame + 1 - prebuffer_count' + i
<1> USE PrebufferAssumption
<1> DEFINE at(i) == Slot(prebuffer_cursor + i)
<1>0. \A i \in Slots : at(i) \in Slots
  <2>1. \A i \in Slots : prebuffer_cursor + i \in Nat
    BY DEF PrebufferTypeOK, Slots
  <2> QED
    BY <2>1, SlotRange
<1>1. CASE prebuffer_count < PrebufferCapacity
  <2>1. prebuffer_count \in Slots /\ prebuffer_count' = prebuffer_count + 1 /\ prebuffer_cursor' = prebuffer_cursor
    BY <1>1 DEF PrebufferFrame, PrebufferTypeOK, Slots
  <2>2. prebuffer_frames' = [prebuffer_frames EXCEPT ![at(prebuffer_count)] = frame]
    BY <1>1 DEF PrebufferFrame
  <2>3. ASSUME NEW i \in 0 .. prebuffer_count PROVE prebuffer_frames'[at(i)] = base + i
    <3>1. i \in Slots
      BY <2>1 DEF Slots
    <3>2. CASE i = prebuffer_count
      BY <1>0, <2>1, <2>2, <3>2 DEF PrebufferTypeOK
    <3>3. CASE i # prebuffer_count
      <4>1. at(i) # at(prebuffer_count)
        BY <2>1, <3>1, <3>3, SlotsDiffer DEF PrebufferTypeOK
      <4>2. prebuffer_frames'[at(i)] = prebuffer_frames[at(i)]
        BY <1>0, <2>2, <3>1, <4>1 DEF PrebufferTypeOK
      <4>3. i \in 0 .. prebuffer_count - 1
        BY <2>1, <3>3 DEF Slots
      <4> QED
        BY <4>2, <4>3 DEF Prebuffered
    <3> QED
      BY <3>2, <3>3
  <2>4. \A i \in 0 .. prebuffer_count : Prebuffered(i)' = base + i
    BY <2>1, <2>3 DEF Prebuffered
  <2> QED
    BY <1>1, <2>1, <2>4 DEF PrebufferTypeOK
<1>2. CASE ~(prebuffer_count < PrebufferCapacity)
  <2>1. /\ prebuffer_count = PrebufferCapacity /\ prebuffer_count' = PrebufferCapacity
        /\ prebuffer_cursor' = Slot(prebuffer_cursor + 1)
        /\ prebuffer_frames' = [prebuffer_frames EXCEPT ![prebuffer_cursor] = frame]
    BY <1>2 DEF PrebufferFrame, PrebufferTypeOK
  <2>3. prebuffer_cursor' = IF prebuffer_cursor + 1 < PrebufferCapacity
                              THEN prebuffer_cursor + 1 ELSE 0
    <3>1. prebuffer_cursor + 1 \in 0 .. 2 * PrebufferCapacity - 1
      BY DEF PrebufferTypeOK, Slots
    <3> QED
      BY <2>1, <3>1, SlotOnce DEF PrebufferTypeOK, Slots
  <2>2. ASSUME NEW i \in Slots PROVE Prebuffered(i)' = base + 1 + i
    <3>1. CASE i = PrebufferCapacity - 1
      <4>1. Slot(prebuffer_cursor' + i) = prebuffer_cursor
        BY <2>3, <3>1, SlotOnce DEF PrebufferTypeOK, Slots
      <4> QED
        BY <2>1, <3>1, <4>1 DEF Prebuffered, PrebufferTypeOK, Slots
    <3>2. CASE i # PrebufferCapacity - 1
      <4>1. i + 1 \in Slots /\ 0 \in Slots /\ i + 1 \in 0 .. prebuffer_count - 1
        BY <2>1, <3>2 DEF Slots
      <4>2. Slot(prebuffer_cursor' + i) = at(i + 1)
        <5>1. /\ prebuffer_cursor' + i \in 0 .. 2 * PrebufferCapacity - 1
              /\ prebuffer_cursor + (i + 1) \in 0 .. 2 * PrebufferCapacity - 1
          BY <2>3, <4>1 DEF PrebufferTypeOK, Slots
        <5>2. CASE prebuffer_cursor + 1 < PrebufferCapacity
          BY <2>3, <5>2 DEF PrebufferTypeOK, Slots
        <5>3. CASE ~(prebuffer_cursor + 1 < PrebufferCapacity)
          <6>1. prebuffer_cursor' + i = i /\ prebuffer_cursor + (i + 1) = PrebufferCapacity + i
            BY <2>3, <5>3 DEF PrebufferTypeOK, Slots
          <6>2. Slot(prebuffer_cursor' + i) = i
            BY <5>1, <6>1, SlotOnce DEF Slots
          <6>3. Slot(PrebufferCapacity + i) = i
            BY <5>1, <6>1, SlotOnce DEF Slots
          <6> QED
            BY <6>1, <6>2, <6>3
        <5> QED
          BY <5>2, <5>3
      <4>3. at(i + 1) # prebuffer_cursor
        BY <3>2, <4>1, SlotOnce DEF PrebufferTypeOK, Slots
      <4>4. prebuffer_frames'[at(i + 1)] = prebuffer_frames[at(i + 1)]
        BY <1>0, <2>1, <4>1, <4>3 DEF PrebufferTypeOK
      <4>5. Prebuffered(i + 1) = base + (i + 1)
        BY <4>1
      <4> QED
        BY <4>2, <4>4, <4>5 DEF Prebuffered, Slots
    <3> QED
      BY <3>1, <3>2
  <2> QED
    BY <1>2, <2>1, <2>2 DEF Slots
<1> QED
  BY <1>1, <1>2

-----------------------------------------------------------------------------
(* Every step preserves the invariant.                                     *)

USE DEF Sound

LEMMA IInvInit == Init => IInv
<1> SUFFICES ASSUME Init PROVE IInv
  OBVIOUS
<1> USE SegmenterAssumption, PrebufferAssumption DEF Init, SegmenterInit
<1>1. ControlInv
  BY DEF ControlInv
<1>2. PrebufferInv /\ DeliveryInv
  BY DEF PrebufferInv, DeliveryInv, NoSegment
<1>3. Timeline /\ PrebufferIsTail
  BY DEF Timeline, PrebufferIsTail
<1> QED
  BY <1>1, <1>2, <1>3 DEF IInv

LEMMA IInvQuiet ==
  ASSUME TypeOK, IInv, Quiet
  PROVE  IInv'
<1> USE SegmenterAssumption, PrebufferAssumption
<1>0. pc' \in {"idle", "frame"} /\ healthy' = healthy /\ ~open /\ ~callback_error
  BY DEF Quiet, Continue, IInv, ControlInv
<1>1. ControlInv'
  BY <1>0, Zenon DEF Quiet, IInv, ControlInv
<1>2. CASE ~Sound'
  BY <1>1, <1>2 DEF IInv, PrebufferInv, Timeline, PrebufferIsTail, DeliveryInv
<1>3. CASE Sound'
  <2>1. /\ Sound /\ source_frame_cursor' = source_frame_cursor + 1
        /\ input' = input + 1
    BY <1>0, <1>3, AdvanceExact DEF Quiet
  <2>2. source_frame_cursor = input /\ input \in Nat /\ boundary \in Nat
    BY <2>1 DEF IInv, Timeline, StreamTypeOK, EventTypeOK
  <2>3. boundary' = boundary /\ last' = last /\ ~open'
    BY <1>0 DEF Quiet
  <2>4. PrebufferInv' /\ Timeline' /\ DeliveryInv'
    <3>1. boundary <= source_frame_cursor /\ last.start + last.count <= boundary
      BY <2>1 DEF IInv, PrebufferInv, DeliveryInv
    <3>2. PrebufferInv'
      BY <1>0, <2>1, <2>2, <2>3, <3>1 DEF PrebufferInv
    <3>3. Timeline'
      BY <2>1, <2>2, <2>3 DEF Timeline
    <3>4. DeliveryInv'
      BY <2>3, <3>1 DEF DeliveryInv
    <3> QED
      BY <3>2, <3>3, <3>4
  <2>5. PrebufferIsTail'
    <3>1. /\ prebuffer_count = IF source_frame_cursor - boundary < PrebufferCapacity
                                 THEN source_frame_cursor - boundary ELSE PrebufferCapacity
          /\ \A i \in 0 .. prebuffer_count - 1 :
               Prebuffered(i) = (source_frame_cursor - prebuffer_count) + i
      BY <1>0, <2>1 DEF IInv, PrebufferIsTail
    <3>2. /\ PrebufferFrame(input) /\ PrebufferTypeOK
          /\ source_frame_cursor - prebuffer_count \in Int
          /\ input = (source_frame_cursor - prebuffer_count) + prebuffer_count
      BY <2>2 DEF Quiet, PrebufferTypeOK
    <3>3. /\ prebuffer_count' = IF prebuffer_count < PrebufferCapacity
                                  THEN prebuffer_count + 1 ELSE PrebufferCapacity
          /\ \A i \in 0 .. prebuffer_count' - 1 :
               Prebuffered(i)' = input + 1 - prebuffer_count' + i
      BY <2>2, <3>1, <3>2, PrebufferFrameTail
    <3>4. prebuffer_count' = IF source_frame_cursor' - boundary' < PrebufferCapacity
                               THEN source_frame_cursor' - boundary' ELSE PrebufferCapacity
      BY <2>1, <2>2, <2>3, <3>1, <3>3
    <3>5. \A i \in 0 .. prebuffer_count' - 1 :
            Prebuffered(i)' = source_frame_cursor' - prebuffer_count' + i
      BY <2>1, <2>2, <3>3
    <3> QED
      BY <3>4, <3>5 DEF PrebufferIsTail
  <2> QED
    BY <1>1, <2>4, <2>5 DEF IInv
<1> QED
  BY <1>2, <1>3

LEMMA IInvOpenTx ==
  ASSUME TypeOK, IInv, OpenTx
  PROVE  IInv'
<1> USE SegmenterAssumption, PrebufferAssumption
<1>0. /\ pc = "frame" /\ ~open /\ open' /\ ~callback_error
      /\ frames' = <<>> /\ total_frame_count' = 0 /\ ~spool_file /\ ~spool_file'
      /\ segment_start_frame' = StartFrame /\ next_prebuffered' = 0
  BY DEF OpenTx, OpenSegment, IInv, ControlInv
<1>1. CASE ReturnError("ERR_IO")
  <2>1. ControlInv'
    BY <1>0, <1>1 DEF ReturnError, ControlInv
  <2> QED
    BY <1>1, <2>1, FailedCall DEF ReturnError, IInv
<1>2. CASE /\ EmitState("TX_ON", TRUE)
           /\ pc' = "prebuffer"
           /\ UNCHANGED <<input, todo, cut, ret, healthy>>
  <2>1. ControlInv'
    BY <1>0, <1>2, SMTT(60) DEF EmitState, ControlInv
  <2>2. CASE ~Sound'
    BY <2>1, <2>2 DEF IInv, PrebufferInv, Timeline, PrebufferIsTail, DeliveryInv
  <2>3. CASE Sound'
    <3>1. /\ Sound /\ UNCHANGED <<source_frame_cursor, input, boundary, last>>
          /\ UNCHANGED <<prebuffer_frames, prebuffer_count, prebuffer_cursor>>
      BY <1>2, <2>3, SMTT(60) DEF OpenTx
    <3>2. /\ source_frame_cursor = input /\ boundary <= source_frame_cursor
          /\ last.start + last.count <= boundary
          /\ prebuffer_count = IF source_frame_cursor - boundary < PrebufferCapacity
                                 THEN source_frame_cursor - boundary ELSE PrebufferCapacity
          /\ \A i \in 0 .. prebuffer_count - 1 :
               Prebuffered(i) = source_frame_cursor - prebuffer_count + i
      BY <1>0, <3>1 DEF IInv, Timeline, PrebufferInv, PrebufferIsTail, DeliveryInv
    <3>3. /\ source_frame_cursor \in Nat /\ boundary \in Nat
          /\ prebuffer_count \in Nat
      BY DEF StreamTypeOK, EventTypeOK, PrebufferTypeOK
    <3>4. /\ StartFrame = source_frame_cursor - prebuffer_count
          /\ StartFrame \in Nat /\ boundary <= StartFrame
      BY <3>2, <3>3, SMTT(60) DEF StartFrame
    <3>5. PrebufferInv' /\ DeliveryInv'
      BY <1>0, <1>2, <3>1, <3>2, <3>3, <3>4, SMTT(60) DEF PrebufferInv, DeliveryInv
    <3>6. Timeline'
      <4>1. stored' = Interval(segment_start_frame', total_frame_count')
        BY <1>0, <3>4, IntervalEmpty DEF stored
      <4> QED
        BY <1>0, <1>2, <3>1, <3>2, <3>3, <3>4, <4>1 DEF Timeline
    <3>7. PrebufferIsTail'
      <4>1. \A i \in 0 .. prebuffer_count' - 1 : Prebuffered(i)' = Prebuffered(i)
        BY <3>1 DEF Prebuffered
      <4> QED
        BY <3>1, <3>2, <4>1 DEF PrebufferIsTail
    <3> QED
      BY <2>1, <3>5, <3>6, <3>7 DEF IInv
  <2> QED
    BY <2>2, <2>3
<1> QED
  BY <1>1, <1>2, Zenon DEF OpenTx

\* A frame stored at the end of the open segment keeps it an interval.
LEMMA StoredInterval ==
  ASSUME SegmentTypeOK, NEW frame \in Nat, AppendFrame(frame),
         stored = Interval(segment_start_frame, total_frame_count),
         frame = segment_start_frame + total_frame_count,
         segment_start_frame' = segment_start_frame
  PROVE  stored' = Interval(segment_start_frame', total_frame_count')
<1>1. segment_start_frame \in Nat /\ total_frame_count \in Nat
  BY SegmenterAssumption DEF SegmentTypeOK, StorageTypeOK
<1>2. stored' = Append(stored, frame) /\ total_frame_count' = total_frame_count + 1
  BY AppendFrameStores DEF SegmentTypeOK
<1> QED
  BY <1>1, <1>2, IntervalAppend, Zenon

LEMMA IInvAppendPrebuffer ==
  ASSUME TypeOK, IInv, AppendPrebuffer
  PROVE  IInv'
<1> USE SegmenterAssumption, PrebufferAssumption
<1>0. /\ pc = "prebuffer" /\ open /\ open' /\ ~callback_error /\ ~callback_error'
      /\ UNCHANGED <<segment_start_frame, source_frame_cursor, boundary, last>>
  BY DEF AppendPrebuffer, IInv, ControlInv
<1>1. CASE \E result \in {"AT_END", "ERR_IO"} : ReturnError(result)
  <2>1. ControlInv'
    BY <1>0, <1>1 DEF ReturnError, ControlInv
  <2> QED
    BY <1>1, <2>1, FailedCall DEF ReturnError, IInv
<1>2. CASE /\ next_prebuffered < prebuffer_count
           /\ AppendFrame(Prebuffered(next_prebuffered))
           /\ next_prebuffered' = next_prebuffered + 1
           /\ UNCHANGED <<prebufferVars, input, callVars>>
  <2>1. ControlInv'
    BY <1>0, <1>2 DEF ControlInv
  <2>2. CASE ~Sound
    BY <1>0, <1>2, <2>1, <2>2 DEF IInv, PrebufferInv, Timeline, PrebufferIsTail, DeliveryInv
  <2>3. CASE Sound
    <3>1. /\ source_frame_cursor = input /\ boundary <= source_frame_cursor
          /\ stored = Interval(segment_start_frame, total_frame_count)
          /\ segment_start_frame + total_frame_count =
               source_frame_cursor - prebuffer_count + next_prebuffered
          /\ boundary <= segment_start_frame /\ last.start + last.count <= boundary
          /\ Prebuffered(next_prebuffered) = source_frame_cursor - prebuffer_count + next_prebuffered
      <4>1. next_prebuffered \in 0 .. prebuffer_count - 1
        BY <1>2 DEF PrebufferTypeOK
      <4> QED
        BY <1>0, <2>3, <4>1 DEF IInv, Timeline, PrebufferInv, DeliveryInv, PrebufferIsTail
    <3>2. /\ segment_start_frame \in Nat /\ total_frame_count \in Nat
          /\ total_frame_count' = total_frame_count + 1
          /\ prebuffer_count \in Nat /\ next_prebuffered \in Nat /\ source_frame_cursor \in Nat
      BY <1>2, SMTT(60) DEF SegmentTypeOK, StorageTypeOK, PrebufferTypeOK, StreamTypeOK, AppendFrame
    <3>3. stored' = Interval(segment_start_frame', total_frame_count')
      BY <1>0, <1>2, <3>1, <3>2, StoredInterval, SMTT(60)
    <3>4. Timeline'
      BY <1>0, <1>2, <3>1, <3>2, <3>3, SMTT(60) DEF Timeline
    <3>5. PrebufferInv' /\ DeliveryInv'
      BY <1>0, <1>2, <3>1, <3>2, SMTT(60) DEF PrebufferInv, DeliveryInv
    <3>6. PrebufferIsTail'
      <4>1. \A i \in 0 .. prebuffer_count' - 1 : Prebuffered(i)' = Prebuffered(i)
        BY <1>2 DEF Prebuffered
      <4> QED
        BY <1>0, <1>2, <2>3, <4>1 DEF IInv, PrebufferIsTail
    <3> QED
      BY <2>1, <3>4, <3>5, <3>6, SMTT(60) DEF IInv
  <2> QED
    BY <2>2, <2>3
<1>3. CASE /\ next_prebuffered >= prebuffer_count
           /\ ResetPrebuffer
           /\ pc' = "append"
           /\ UNCHANGED <<frames, spool_file, spool, total_frame_count, input,
                          todo, cut, ret, healthy, next_prebuffered>>
  <2>1. ControlInv'
    BY <1>0, <1>3, SMTT(60) DEF ControlInv
  <2>2. CASE ~Sound
    BY <1>0, <1>3, <2>1, <2>2 DEF IInv, PrebufferInv, Timeline, PrebufferIsTail, DeliveryInv
  <2>3. CASE Sound
    <3>1. /\ source_frame_cursor = input /\ boundary <= source_frame_cursor
          /\ stored = Interval(segment_start_frame, total_frame_count)
          /\ segment_start_frame + total_frame_count =
               source_frame_cursor - prebuffer_count + next_prebuffered
          /\ boundary <= segment_start_frame /\ last.start + last.count <= boundary
          /\ next_prebuffered <= prebuffer_count
      BY <1>0, <2>3 DEF IInv, Timeline, PrebufferInv, DeliveryInv
    <3>2. segment_start_frame + total_frame_count = source_frame_cursor
      BY <1>3, <3>1 DEF PrebufferTypeOK, StreamTypeOK
    <3>3. stored' = stored
      BY <1>3, SMTT(60) DEF stored
    <3>4. Timeline' /\ PrebufferIsTail'
      BY <1>0, <1>3, <3>1, <3>2, <3>3, SMTT(60) DEF Timeline, PrebufferIsTail
    <3>5. PrebufferInv' /\ DeliveryInv'
      BY <1>0, <1>3, <3>1 DEF ResetPrebuffer, PrebufferInv, DeliveryInv
    <3> QED
      BY <2>1, <3>4, <3>5, SMTT(60) DEF IInv
  <2> QED
    BY <2>2, <2>3
<1> QED
  BY <1>1, <1>2, <1>3, Zenon DEF AppendPrebuffer

LEMMA IInvAppend1 ==
  ASSUME TypeOK, IInv, Append1, UNCHANGED <<prebufferVars, next_prebuffered>>
  PROVE  IInv'
<1> USE SegmenterAssumption, PrebufferAssumption
<1>0. /\ open /\ open' /\ pc # "prebuffer" /\ ~callback_error /\ ~callback_error'
      /\ pc' \in {"idle", "frame", "emit"} /\ healthy' = healthy
      /\ UNCHANGED <<segment_start_frame, boundary, last>>
  BY DEF Append1, InSegment, FrameDone, Continue, IInv, ControlInv
<1>1. ControlInv'
  BY <1>0, SMTT(60) DEF ControlInv
<1>2. CASE ~Sound'
  BY <1>1, <1>2 DEF IInv, PrebufferInv, Timeline, PrebufferIsTail, DeliveryInv
<1>3. CASE Sound'
  <2>1. /\ Sound /\ source_frame_cursor' = source_frame_cursor + 1
        /\ input' = input + 1
    BY <1>0, <1>3, AdvanceExact, SMTT(60) DEF Append1
  <2>2. /\ source_frame_cursor = input /\ boundary <= source_frame_cursor
        /\ stored = Interval(segment_start_frame, total_frame_count)
        /\ segment_start_frame + total_frame_count = source_frame_cursor
        /\ boundary <= segment_start_frame /\ last.start + last.count <= boundary
        /\ prebuffer_count = 0
    BY <1>0, <2>1, SMTT(60) DEF IInv, Timeline, PrebufferInv, DeliveryInv
  <2>3. /\ segment_start_frame \in Nat /\ total_frame_count \in Nat /\ input \in Nat
        /\ boundary \in Nat /\ total_frame_count' = total_frame_count + 1
    BY SMTT(60) DEF Append1, AppendFrame, SegmentTypeOK, StorageTypeOK, StreamTypeOK, EventTypeOK
  <2>4. stored' = Interval(segment_start_frame', total_frame_count')
    BY <1>0, <2>2, <2>3, StoredInterval, SMTT(60) DEF Append1
  <2>5. Timeline' /\ PrebufferIsTail'
    BY <1>0, <2>1, <2>2, <2>3, <2>4, SMTT(60) DEF Timeline, PrebufferIsTail
  <2>6. PrebufferInv' /\ DeliveryInv'
    BY <1>0, <2>1, <2>2, <2>3 DEF PrebufferInv, DeliveryInv
  <2> QED
    BY <1>1, <2>5, <2>6 DEF IInv
<1> QED
  BY <1>2, <1>3, SMTT(60)

LEMMA IInvEmit ==
  ASSUME TypeOK, IInv, Emit, UNCHANGED <<prebufferVars, next_prebuffered>>
  PROVE  IInv'
<1> USE SegmenterAssumption, PrebufferAssumption
<1>0. pc = "emit" /\ open /\ ~callback_error
  BY DEF Emit, IInv, ControlInv
<1>1. CASE EmitEventRefused \/ EmitSegmentRefused \/ EmitSeekFails
  <2>1. ReturnError("ERR_IO") /\ open' = open
    BY <1>1, ZenonT(60) DEF EmitEventRefused, EmitSegmentRefused, EmitSeekFails
  <2>2. ControlInv'
    BY <1>0, <2>1 DEF ReturnError, ControlInv
  <2> QED
    BY <2>1, <2>2, FailedCall, SMTT(60) DEF ReturnError, IInv
<1>2. CASE EmitDelivers
  <2>0. /\ ~open' /\ ~spool_file' /\ frames' = <<>> /\ total_frame_count' = 0
        /\ pc' \in {"idle", "frame"} /\ healthy' = healthy
        /\ callback_error' = callback_error /\ boundary' = source_frame_cursor
        /\ UNCHANGED <<source_frame_cursor, input>>
    BY <1>2 DEF EmitDelivers, ResetSegment, Continue, EmitState
  <2>1. ControlInv'
    BY <1>0, <2>0 DEF ControlInv
  <2>2. CASE ~Sound
    BY <2>0, <2>1, <2>2 DEF IInv, PrebufferInv, Timeline, PrebufferIsTail, DeliveryInv
  <2>3. CASE Sound
    <3>1. /\ source_frame_cursor = input /\ boundary <= source_frame_cursor
          /\ segment_start_frame + total_frame_count = source_frame_cursor
          /\ last.start + last.count <= boundary
          /\ prebuffer_count = 0
      BY <1>0, <2>3 DEF IInv, Timeline, PrebufferInv, DeliveryInv
    <3>2. source_frame_cursor \in Nat /\ boundary \in Nat /\ last.start \in Nat /\ last.count \in Nat
      BY DEF StreamTypeOK, EventTypeOK, Segments
    <3>3. last'.start + last'.count <= source_frame_cursor
      <4>1. CASE last' = last
        BY <3>1, <3>2, <4>1, SMTT(60)
      <4>2. CASE last' = FinishedSegment
        BY <3>1, <3>2, <4>2, SMTT(60) DEF FinishedSegment
      <4> QED
        BY <1>2, <4>1, <4>2 DEF EmitDelivers
    <3>4. PrebufferInv' /\ DeliveryInv'
      BY <2>0, <3>1, <3>2, <3>3, SMTT(60) DEF PrebufferInv, DeliveryInv
    <3>5. Timeline' /\ PrebufferIsTail'
      BY <2>0, <3>1, <3>2 DEF Timeline, PrebufferIsTail
    <3> QED
      BY <2>1, <3>4, <3>5 DEF IInv
  <2> QED
    BY <2>2, <2>3
<1> QED
  BY <1>1, <1>2 DEF Emit

\* A step that moves only the program counter keeps the invariant.
LEMMA IInvMoves ==
  ASSUME IInv, ControlInv',
         pc # "prebuffer", pc' # "prebuffer",
         healthy' = healthy, UNCHANGED <<segmentVars, streamVars, eventVars>>,
         UNCHANGED <<prebufferVars, next_prebuffered>>
  PROVE  IInv'
<1>1. PrebufferInv' /\ DeliveryInv'
  BY DEF IInv, PrebufferInv, DeliveryInv
<1>2. Timeline'
  <2>1. stored' = stored
    BY SMTT(60) DEF stored
  <2> QED
    BY <2>1 DEF IInv, Timeline
<1>3. PrebufferIsTail'
  <2>1. \A i \in 0 .. prebuffer_count' - 1 : Prebuffered(i)' = Prebuffered(i)
    BY DEF Prebuffered
  <2> QED
    BY <2>1 DEF IInv, PrebufferIsTail
<1> QED
  BY <1>1, <1>2, <1>3, SMTT(60) DEF IInv

LEMMA IInvCall ==
  ASSUME TypeOK, IInv, Call, UNCHANGED <<prebufferVars, next_prebuffered>>
  PROVE  IInv'
<1>1. ASSUME NEW batch \in Batches, Push(batch) PROVE IInv'
  <2>0. pc = "idle" /\ UNCHANGED <<segmentVars, source_frame_cursor, eventVars, healthy>>
    BY <1>1, Zenon DEF Push
  <2>1. CASE callback_error
    <3>1. ~healthy' /\ pc' = pc
      BY <1>1, <2>0, <2>1 DEF Push, IInv, ControlInv
    <3>2. ControlInv'
      BY <2>0, <3>1, SMTT(60) DEF IInv, ControlInv
    <3> QED
      BY <3>1, <3>2, FailedCall, SMTT(60) DEF IInv
  <2>2. CASE ~callback_error
    <3>1. pc' = "frame" /\ input' = input
      BY <1>1, <2>2 DEF Push
    <3>2. ControlInv'
      BY <2>0, <2>2, <3>1 DEF IInv, ControlInv
    <3> QED
      BY <2>0, <3>1, <3>2, IInvMoves, SMTT(60)
  <2> QED
    BY <2>1, <2>2
<1>2. CASE Flush
  <2>1. CASE BeginEmit("final") /\ open /\ ~callback_error
    <3>1. ControlInv'
      BY <2>1 DEF BeginEmit, ControlInv
    <3> QED
      BY <1>2, <2>1, <3>1, IInvMoves DEF Flush, BeginEmit
  <2>2. CASE \E result \in {"ERR_IO", "OK"} : ReturnAtOnce(result)
    <3>1. ControlInv'
      BY <2>2 DEF ReturnAtOnce, IInv, ControlInv
    <3>2. pc = "idle" /\ pc' = "idle" /\ healthy' = healthy
      BY <1>2, <2>2, Zenon DEF Flush, ReturnAtOnce
    <3>3. UNCHANGED <<segmentVars, streamVars, eventVars>>
      BY <2>2, Zenon DEF ReturnAtOnce
    <3> QED
      BY <3>1, <3>2, <3>3, IInvMoves
  <2> QED
    BY <1>2, <2>1, <2>2, Zenon DEF Flush
<1> QED
  BY <1>1, <1>2 DEF Call

LEMMA IInvNext == TypeOK /\ IInv /\ [Next]_vars => IInv'
<1> SUFFICES ASSUME TypeOK, IInv, [Next]_vars PROVE IInv'
  BY SMTT(60)
<1>1. CASE AppendAtCap /\ UNCHANGED <<prebufferVars, next_prebuffered>>
  <2>1. pc # "prebuffer" /\ pc' = "emit" /\ open /\ ~callback_error
    BY <1>1, SMTT(60) DEF AppendAtCap, InSegment, IInv, ControlInv
  <2>2. ControlInv'
    BY <1>1, <2>1, SMTT(60) DEF AppendAtCap, ControlInv
  <2> QED
    BY <1>1, <2>1, <2>2, IInvMoves, SMTT(60) DEF AppendAtCap
<1>2. CASE AppendError /\ UNCHANGED <<prebufferVars, next_prebuffered>>
  <2>1. open' /\ healthy' = FALSE /\ pc' = "idle"
    BY <1>2 DEF AppendError, ReturnError, InSegment, IInv, ControlInv
  <2>2. ControlInv'
    BY <2>1 DEF ControlInv
  <2> QED
    BY <2>1, <2>2, FailedCall, SMTT(60) DEF IInv
<1>3. CASE UNCHANGED vars
  <2>1. ControlInv' /\ PrebufferInv' /\ DeliveryInv'
    BY <1>3, SMTT(60) DEF IInv, ControlInv, PrebufferInv, DeliveryInv
  <2>2. stored' = stored /\ \A i \in 0 .. prebuffer_count' - 1 : Prebuffered(i)' = Prebuffered(i)
    BY <1>3, SMTT(60) DEF stored, Prebuffered
  <2>3. Timeline' /\ PrebufferIsTail'
    BY <1>3, <2>2 DEF IInv, Timeline, PrebufferIsTail
  <2> QED
    BY <2>1, <2>3, SMTT(60) DEF IInv
<1> QED
  BY <1>1, <1>2, <1>3, IInvQuiet, IInvOpenTx, IInvAppendPrebuffer, IInvAppend1,
     IInvEmit, IInvCall, Zenon DEF Next, Step, SegmentStep

\* The open segment is, at every moment, exactly the run of input frames that
\* its start and its length name, and the prebuffer is the tail of what came
\* before, whatever the capacities, the batches, the spill and the cuts
\* (cpkt_audio_vox_push, cpkt_audio_vox_append_frame, cpkt_audio_vox_prebuffer_frame).
THEOREM NothingLost == Spec => []InputAccounted
<1>1. TypeOK /\ IInv /\ [Next]_vars => TypeOK' /\ IInv'
  BY TypeNext, IInvNext
<1>2. IInv => InputAccounted
  BY DEF IInv, InputAccounted
<1> QED
  BY <1>1, <1>2, TypeInit, IInvInit, PTL DEF Spec

-----------------------------------------------------------------------------
(* What the sinks see.                                                     *)

LEMMA FloorTickBounds ==
  ASSUME NEW x \in Nat
  PROVE  /\ FloorTick(x) * FramesPerTick <= x
         /\ x < (FloorTick(x) + 1) * FramesPerTick
  BY SegmenterAssumption DEF FloorTick

LEMMA CeilTickBounds ==
  ASSUME NEW x \in Nat
  PROVE  /\ x <= CeilTick(x) * FramesPerTick
         /\ (CeilTick(x) - 1) * FramesPerTick < x
<1> USE SegmenterAssumption
<1>1. CASE x % FramesPerTick = 0
  <2>1. x = (x \div FramesPerTick) * FramesPerTick /\ x \div FramesPerTick \in Nat
    BY <1>1
  <2>2. CeilTick(x) = x \div FramesPerTick
    BY <1>1, <2>1 DEF CeilTick
  <2> QED
    BY <2>1, <2>2
<1>2. CASE x % FramesPerTick # 0
  <2>1. x > (x \div FramesPerTick) * FramesPerTick /\ x \div FramesPerTick \in Nat
    BY <1>2
  <2>2. x < (x \div FramesPerTick + 1) * FramesPerTick
    OBVIOUS
  <2>3. CeilTick(x) = x \div FramesPerTick + 1
    BY <1>2 DEF CeilTick
  <2> QED
    BY <2>1, <2>2, <2>3
<1> QED
  BY <1>1, <1>2

\* What emit hands over, while no call has failed, is exact.
LEMMA FinishedExact ==
  ASSUME TypeOK, IInv, Sound, pc = "emit"
  PROVE  Exact(FinishedSegment) /\ Follows(FinishedSegment, last)
<1>1. /\ stored = Interval(segment_start_frame, total_frame_count)
      /\ segment_start_frame + total_frame_count = source_frame_cursor
      /\ boundary <= segment_start_frame /\ last.start + last.count <= boundary
  BY SMTT(60) DEF IInv, ControlInv, Timeline, DeliveryInv
<1>2. /\ segment_start_frame \in Nat /\ total_frame_count \in Nat
      /\ boundary \in Nat /\ last.start \in Nat /\ last.count \in Nat
  BY SegmenterAssumption DEF SegmentTypeOK, StorageTypeOK, EventTypeOK, Segments
<1>3. SaturatingAdd(segment_start_frame, total_frame_count) = segment_start_frame + total_frame_count
  BY <1>1, <1>2, SegmenterAssumption, SMTT(60) DEF SaturatingAdd
<1>4. /\ FinishedSegment.start = segment_start_frame
      /\ FinishedSegment.count = total_frame_count
      /\ FinishedSegment.content = stored
      /\ FinishedSegment.t0 = FloorTick(segment_start_frame)
      /\ FinishedSegment.t1 = CeilTick(segment_start_frame + total_frame_count)
  BY <1>3, SMTT(60) DEF FinishedSegment
<1>5. Exact(FinishedSegment)
  BY <1>1, <1>2, <1>4, FloorTickBounds, CeilTickBounds DEF Exact
<1> QED
  BY <1>1, <1>2, <1>4, <1>5 DEF Follows

\* Every segment the sink sees while no call has failed holds exactly the
\* input frames and the times it claims, and starts after the one before
\* (cpkt_audio_vox_emit).
THEOREM DeliveredSegmentsExact == Spec => SegmentsExact
<1>1. TypeOK /\ IInv /\ [Next]_vars => TypeOK' /\ IInv'
  BY TypeNext, IInvNext
<1>2. ASSUME TypeOK, IInv, [Next]_vars, last' # last, Sound
      PROVE  Exact(last') /\ Follows(last', last)
  <2>1. Emit
    BY <1>2, Zenon DEF Next, Step, SegmentStep, Call, Quiet, OpenTx, AppendPrebuffer, Append1,
       AppendAtCap, AppendError, Push, Flush, ReturnAtOnce, BeginEmit
  <2>2. last' = FinishedSegment /\ pc = "emit"
    BY <1>2, <2>1, Zenon DEF Emit, EmitDelivers, EmitEventRefused, EmitSegmentRefused, EmitSeekFails
  <2> QED
    BY <1>2, <2>2, FinishedExact
<1>3. TypeOK /\ IInv /\ [Next]_vars =>
        [last' # last /\ healthy /\ source_frame_cursor < SizeMax
           => Exact(last') /\ Follows(last', last)]_vars
  BY <1>2
<1> QED
  BY <1>1, <1>3, TypeInit, IInvInit, PTL DEF Spec, SegmentsExact

\* The state events tell whether a segment is open (cpkt_audio_vox_emit_state).
THEOREM EventsTell == Spec => []EventsTrackOpen
<1>1. Init => EventsTrackOpen
  BY DEF Init, SegmenterInit, EventsTrackOpen
<1>2. ASSUME TypeOK, IInv, EventsTrackOpen, [Next]_vars PROVE EventsTrackOpen'
  <2>1. CASE open' = open /\ tx' = tx /\ (healthy' => healthy)
    BY <1>2, <2>1 DEF EventsTrackOpen
  <2>2. CASE ~healthy'
    BY <2>2 DEF EventsTrackOpen
  <2>3. CASE OpenTx
    BY <2>3 DEF OpenTx, OpenSegment, EmitState, ReturnError, EventsTrackOpen
  <2>4. CASE EmitDelivers
    <3>1. ~open' /\ tx' \in {"HARD_CUT", "TX_OFF"}
      BY <2>4, SMTT(60) DEF EmitDelivers, ResetSegment, EmitState, CutEvent
    <3> QED
      BY <3>1 DEF EventsTrackOpen
  <2>5. CASE EmitEventRefused \/ EmitSegmentRefused \/ EmitSeekFails \/ AppendError
    BY <2>2, <2>5, ZenonT(60) DEF EmitEventRefused, EmitSegmentRefused, EmitSeekFails,
       AppendError, ReturnError
  <2>6. CASE Quiet \/ Append1 \/ AppendAtCap \/ AppendPrebuffer \/ Call \/ UNCHANGED vars
    <3>1. open' = open /\ tx' = tx
      BY <2>6, Zenon DEF Quiet, Append1, AppendAtCap, AppendPrebuffer, Call, Push, Flush,
         ReturnAtOnce, BeginEmit
    <3>2. healthy' = healthy \/ healthy' = FALSE
      BY <2>6, Zenon DEF Quiet, Append1, AppendAtCap, AppendPrebuffer, Call, Push, Flush,
         ReturnAtOnce, BeginEmit, Continue, FrameDone, ReturnError
    <3> QED
      BY <2>1, <2>2, <3>1, <3>2
  <2> QED
    BY <1>2, <2>3, <2>4, <2>5, <2>6, Zenon DEF Next, Step, SegmentStep, Emit
<1>3. TypeOK /\ IInv /\ EventsTrackOpen /\ [Next]_vars => TypeOK' /\ IInv' /\ EventsTrackOpen'
  BY <1>2, TypeNext, IInvNext
<1> QED
  BY <1>1, <1>3, TypeInit, IInvInit, PTL DEF Spec

\* Nothing happens behind a refused event or segment: no frame is taken and
\* nothing is delivered by any later call (the tests of callback_error).
THEOREM RefusalFinal == Spec => RefusalIsFinal
<1>1. TypeOK /\ IInv /\ [Next]_vars => TypeOK' /\ IInv'
  BY TypeNext, IInvNext
<1>2. ASSUME IInv, [Next]_vars, callback_error
      PROVE  UNCHANGED <<tx, last, segment_index, source_frame_cursor,
                         total_frame_count, prebuffer_count>>
  <2>1. pc = "idle"
    BY <1>2 DEF IInv, ControlInv
  <2>2. ~Step
    BY <2>1 DEF Step, SegmentStep, Quiet, OpenTx, AppendPrebuffer, Append1, AppendAtCap,
       AppendError, InSegment, Emit
  <2>3. CASE Call /\ UNCHANGED <<prebufferVars, next_prebuffered>>
    <3>1. UNCHANGED <<segmentVars, source_frame_cursor, eventVars>>
      BY <2>3, Zenon DEF Call, Push, Flush, ReturnAtOnce, BeginEmit
    <3> QED
      BY <2>3, <3>1
  <2> QED
    BY <1>2, <2>2, <2>3, ZenonT(60) DEF Next
<1>3. IInv /\ [Next]_vars =>
        [callback_error => UNCHANGED <<tx, last, segment_index, source_frame_cursor,
                                       total_frame_count, prebuffer_count>>]_vars
  BY <1>2
<1> QED
  BY <1>1, <1>3, TypeInit, IInvInit, PTL DEF Spec, RefusalIsFinal

-----------------------------------------------------------------------------
(* How much a segment holds.                                               *)

\* How long the open segment can be at each place of the loop.
LengthInv ==
  healthy /\ MaxSegment # 0 =>
    /\ open /\ pc \in {"idle", "frame"} => total_frame_count < MaxSegment
    /\ pc = "prebuffer" => total_frame_count = next_prebuffered
    /\ pc = "append" => total_frame_count <= PrebufferCapacity
    /\ pc = "emit" => \/ total_frame_count <= MaxSegment
                      \/ total_frame_count <= PrebufferCapacity + 1

LEMMA MemoryNext ==
  ASSUME TypeOK, Len(frames) <= FrameCapacity, [Next]_vars
  PROVE  Len(frames') <= FrameCapacity
<1> USE SegmenterAssumption
<1>0. Len(<<>>) <= FrameCapacity
  BY SMTT(60)
<1>1. CASE frames' = frames \/ frames' = <<>>
  BY <1>0, <1>1
<1>2. ASSUME NEW frame \in Nat, AppendFrame(frame) PROVE Len(frames') <= FrameCapacity
  <2>1. CASE Len(frames) < FrameCapacity /\ frames' = Append(frames, frame)
    BY <2>1 DEF SegmentTypeOK, StorageTypeOK
  <2> QED
    BY <1>1, <1>2, <2>1, Zenon DEF AppendFrame
<1>3. CASE AppendFails
  BY <1>1, <1>3, Zenon DEF AppendFails, SpillFails
<1>4. CASE Append1
  BY <1>2, <1>4 DEF Append1, StreamTypeOK
<1>5. CASE AppendPrebuffer
  <2>1. CASE AppendFrame(Prebuffered(next_prebuffered))
    <3>1. prebuffer_cursor + next_prebuffered \in Nat
      BY PrebufferAssumption, SMTT(60) DEF PrebufferTypeOK, Slots
    <3>2. Prebuffered(next_prebuffered) \in Nat
      BY <3>1, SlotRange DEF Prebuffered, PrebufferTypeOK
    <3> QED
      BY <1>2, <2>1, <3>2, SMTT(60)
  <2> QED
    BY <1>1, <1>3, <1>5, <2>1, Zenon DEF AppendPrebuffer
<1>6. CASE Emit
  BY <1>1, <1>6, Zenon DEF Emit, EmitDelivers, ResetSegment, EmitEventRefused,
     EmitSegmentRefused, EmitSeekFails
<1>7. CASE Quiet \/ OpenTx \/ AppendAtCap \/ Call \/ UNCHANGED vars
  BY <1>1, <1>7, Zenon DEF Quiet, OpenTx, OpenSegment, AppendAtCap, Call, Push, Flush,
     ReturnAtOnce, BeginEmit
<1>8. CASE AppendError
  BY <1>3, <1>8 DEF AppendError
<1> QED
  BY <1>4, <1>5, <1>6, <1>7, <1>8, Zenon DEF Next, Step, SegmentStep

LEMMA LengthNext ==
  ASSUME TypeOK, IInv, LengthInv, [Next]_vars
  PROVE  LengthInv'
<1> USE SegmenterAssumption, PrebufferAssumption
<1>0. total_frame_count \in Nat /\ next_prebuffered \in Nat /\ MaxSegment \in Nat
  BY SMTT(60) DEF SegmentTypeOK, StorageTypeOK, PrebufferTypeOK
<1>1. CASE ~healthy'
  BY <1>1, SMTT(60) DEF LengthInv
<1>2. CASE ~open' /\ pc' \in {"idle", "frame"}
  BY <1>2 DEF LengthInv
<1>3. CASE Quiet
  BY <1>2, <1>3, Zenon DEF Quiet, Continue
<1>4. CASE OpenTx
  <2>1. CASE pc' = "prebuffer"
    BY <1>4, <2>1 DEF OpenTx, OpenSegment, LengthInv
  <2> QED
    BY <1>1, <1>4, <2>1, Zenon DEF OpenTx, ReturnError
<1>5. CASE AppendPrebuffer
  <2>1. CASE /\ AppendFrame(Prebuffered(next_prebuffered))
             /\ next_prebuffered' = next_prebuffered + 1
             /\ UNCHANGED callVars
    BY <1>0, <1>5, <2>1, SMTT(60) DEF AppendPrebuffer, AppendFrame, LengthInv
  <2>2. CASE pc' = "append" /\ UNCHANGED <<total_frame_count, healthy>>
    BY <1>0, <1>5, <2>2, SMTT(60) DEF AppendPrebuffer, LengthInv, PrebufferTypeOK
  <2> QED
    BY <1>1, <1>5, <2>1, <2>2, Zenon DEF AppendPrebuffer, ReturnError
<1>6. CASE Append1
  <2>1. /\ total_frame_count' = total_frame_count + 1 /\ healthy' = healthy
        /\ pc \in {"append", "frame"} /\ open
        /\ \/ CutDue = "none" /\ pc' \in {"idle", "frame"}
           \/ CutDue # "none" /\ pc' = "emit"
    BY <1>6, SMTT(60) DEF Append1, AppendFrame, InSegment, FrameDone, Continue, IInv, ControlInv
  <2>2. healthy /\ MaxSegment # 0 => \/ total_frame_count' <= MaxSegment
                                     \/ total_frame_count' <= PrebufferCapacity + 1
    BY <1>0, <2>1, SMTT(60) DEF LengthInv
  <2>3. CutDue = "none" /\ MaxSegment # 0 => total_frame_count' < MaxSegment
    BY <1>0, <2>1, SMTT(60) DEF CutDue
  <2> QED
    BY <2>1, <2>2, <2>3, SMTT(60) DEF LengthInv
<1>7. CASE AppendAtCap
  <2>1. UNCHANGED <<total_frame_count, healthy, open>> /\ pc' = "emit" /\ pc \in {"append", "frame"} /\ open
    BY <1>7, SMTT(60) DEF AppendAtCap, InSegment, IInv, ControlInv
  <2> QED
    BY <1>0, <2>1, SMTT(60) DEF LengthInv
<1>8. CASE AppendError
  BY <1>1, <1>8 DEF AppendError, ReturnError
<1>9. CASE Emit
  <2>1. CASE EmitDelivers
    BY <1>2, <2>1, Zenon DEF EmitDelivers, ResetSegment, Continue
  <2> QED
    BY <1>1, <1>9, <2>1, Zenon DEF Emit, EmitEventRefused, EmitSegmentRefused, EmitSeekFails,
       ReturnError
<1>10. CASE Call \/ UNCHANGED vars
  <2>1. /\ UNCHANGED <<total_frame_count, healthy, open>>
        /\ \/ pc' = pc /\ (pc = "idle" \/ UNCHANGED next_prebuffered)
           \/ pc = "idle" /\ pc' \in {"frame", "emit"} /\ (pc' = "emit" => open)
    BY <1>10, Zenon DEF Call, Push, Flush, ReturnAtOnce, BeginEmit
  <2> QED
    BY <1>0, <2>1 DEF LengthInv
<1> QED
  BY <1>3, <1>4, <1>5, <1>6, <1>7, <1>8, <1>9, <1>10, Zenon DEF Next, Step, SegmentStep

\* No segment outgrows what cpkt_audio_vox_open allowed for: memory by
\* frame_capacity, a segment by the time cap or by the prebuffer and the frame
\* that opened it.
THEOREM WithinBudget == Spec => []Budget
<1> USE SegmenterAssumption, PrebufferAssumption
<1>1. Init => LengthInv /\ Budget
  BY DEF Init, SegmenterInit, LengthInv, Budget, NoSegment
<1>2. ASSUME TypeOK, IInv, LengthInv, Budget, [Next]_vars
      PROVE  Budget'
  <2>1. Len(frames') <= FrameCapacity
    BY <1>2, MemoryNext, SMTT(60) DEF Budget
  <2>2. CASE last' = last /\ (healthy' => healthy)
    BY <1>2, <2>1, <2>2 DEF Budget
  <2>3. CASE ~healthy'
    BY <2>1, <2>3, SMTT(60) DEF Budget
  <2>4. CASE EmitDelivers /\ pc = "emit"
    <3>1. healthy' = healthy /\ (last' = last \/ last'.count = total_frame_count)
      BY <2>4, SMTT(60) DEF EmitDelivers, Continue, FinishedSegment
    <3>2. total_frame_count \in Nat
      BY <1>2, SMTT(60) DEF SegmentTypeOK, StorageTypeOK
    <3> QED
      BY <1>2, <2>1, <2>2, <2>4, <3>1, <3>2, SMTT(60) DEF LengthInv, Budget
  <2>5. CASE EmitEventRefused \/ EmitSegmentRefused \/ EmitSeekFails \/ AppendError
    BY <2>3, <2>5, Zenon DEF EmitEventRefused, EmitSegmentRefused, EmitSeekFails, AppendError,
       ReturnError
  <2>6. CASE Quiet \/ OpenTx \/ Append1 \/ AppendAtCap \/ AppendPrebuffer \/ Call \/ UNCHANGED vars
    <3>1. last' = last
      BY <2>6, Zenon DEF Quiet, OpenTx, Append1, AppendAtCap, AppendPrebuffer, Call, Push, Flush,
         ReturnAtOnce, BeginEmit
    <3>2. healthy' = healthy \/ healthy' = FALSE
      BY <2>6, Zenon DEF Quiet, OpenTx, Append1, AppendAtCap, AppendPrebuffer, Call, Push, Flush,
         ReturnAtOnce, BeginEmit, Continue, FrameDone, ReturnError
    <3> QED
      BY <2>2, <2>3, <3>1, <3>2
  <2> QED
    BY <1>2, <2>4, <2>5, <2>6, Zenon DEF Next, Step, SegmentStep, Emit
<1>3. TypeOK /\ IInv /\ LengthInv /\ Budget /\ [Next]_vars
        => TypeOK' /\ IInv' /\ LengthInv' /\ Budget'
  BY <1>2, TypeNext, IInvNext, LengthNext
<1> QED
  BY <1>1, <1>3, TypeInit, IInvInit, PTL DEF Spec

=============================================================================
