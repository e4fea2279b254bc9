------------------------------ MODULE Capture ------------------------------
(***************************************************************************)
(* cpkt_audio_capture on a native device.  The device's thread runs        *)
(* capture_callback once per period and queues the period's frames in the  *)
(* ring; when there is no room it moves the READER's cursor, to drop the   *)
(* oldest frames.  The caller's thread starts, stops, waits and reads.     *)
(***************************************************************************)
EXTENDS PcmRing, SequencesExt

CONSTANTS
  Periods,       \* frame counts a callback may deliver
  MaxRead,       \* bound: frame_capacity of a read call
  MaxFrames      \* bound: frames captured over a behaviour

CaptureAssumption ==
  /\ Periods \subseteq Nat \ {0}
  /\ MaxRead \in Nat \ {0}
  /\ MaxFrames \in Nat

VARIABLES
  started, overrun,
  pc, ret,                      \* the caller's thread and its last result
  frame_capacity, total_read,   \* the read call's argument and cursor
  chunk, position,              \* its current chunk
  delivered,                    \* the frames read so far, in the order returned
  running,                      \* the device's thread is started
  cb, remaining, drop_frames, cb_chunk,   \* capture_callback
  captured,                     \* frames the device has delivered so far
  overtaken                     \* frames were dropped while a read held a chunk

readVars == <<frame_capacity, total_read, chunk, position, delivered>>
callerVars == <<started, pc, ret, readVars>>
deviceVars == <<cb, remaining, drop_frames, cb_chunk, captured, overrun, overtaken>>
vars == <<ringVars, callerVars, deviceVars, running>>

Init ==
  /\ RingInit
  /\ started = FALSE /\ running = FALSE /\ overrun = FALSE
  /\ pc = "idle" /\ ret = "OK"
  /\ frame_capacity = 0 /\ total_read = 0 /\ chunk = 0 /\ position = 0
  /\ delivered = <<>>
  /\ cb = "wait" /\ remaining = 0 /\ drop_frames = 0 /\ cb_chunk = 0
  /\ captured = 0
  /\ overtaken = FALSE

Return(result) == pc' = "idle" /\ ret' = result

-----------------------------------------------------------------------------
(* The caller's thread: start, read_f32_mono_16k, wait_ready, stop.        *)

Start ==
  /\ pc = "idle"
  /\ IF started
       THEN Return("OK") /\ UNCHANGED <<started, running>>
       ELSE \/ Return("OK") /\ started' = TRUE /\ running' = TRUE
            \/ Return("ERR_IO") /\ UNCHANGED <<started, running>>
  /\ UNCHANGED <<ringVars, readVars, deviceVars>>

\* read does not ask whether the handle is started.
Read(capacity) ==
  /\ pc = "idle"
  /\ pc' = "read"
  /\ frame_capacity' = capacity
  /\ total_read' = 0
  /\ UNCHANGED <<ringVars, started, ret, chunk, position, delivered, deviceVars, running>>

ReadAcquire ==
  /\ pc = "read"
  /\ total_read < frame_capacity
  /\ AcquireRead(frame_capacity - total_read) > 0
  /\ chunk' = AcquireRead(frame_capacity - total_read)
  /\ position' = rb_read
  /\ pc' = "copy"
  /\ UNCHANGED <<ringVars, started, ret, frame_capacity, total_read, delivered,
                 deviceVars, running>>

ReadCopy ==
  /\ pc = "copy"
  /\ delivered' = delivered \o Chunk(position, chunk)
  /\ pc' = "commit"
  /\ UNCHANGED <<ringVars, started, ret, frame_capacity, total_read, chunk, position,
                 deviceVars, running>>

ReadCommit ==
  /\ pc = "commit"
  /\ CommitRead(chunk)
  /\ total_read' = total_read + chunk
  /\ pc' = "read"
  /\ UNCHANGED <<rb, rb_write, started, ret, frame_capacity, chunk, position,
                 delivered, deviceVars, running>>

\* The end of read: CAPTURE_READY is emitted for the frames read, and the
\* state sink's refusal becomes the result.
ReadDone ==
  /\ pc = "read"
  /\ total_read = frame_capacity \/ AcquireRead(frame_capacity - total_read) = 0
  /\ \/ Return("OK")
     \/ total_read > 0 /\ Return("ERR_IO")
  /\ UNCHANGED <<ringVars, started, readVars, deviceVars, running>>

WaitReady ==
  /\ pc = "idle"
  /\ IF started THEN pc' = "wait" /\ UNCHANGED ret ELSE Return("ERR_IO")
  /\ UNCHANGED <<ringVars, started, readVars, deviceVars, running>>

\* One round of the polling loop; timeout_ms = 0 never expires.
WaitPoll ==
  /\ pc = "wait"
  /\ IF AvailableRead > 0 THEN Return("OK") ELSE pc' = "empty" /\ UNCHANGED ret
  /\ UNCHANGED <<ringVars, started, readVars, deviceVars, running>>

WaitExpired ==
  /\ pc = "empty"
  /\ \/ Return("TIMEOUT")
     \/ pc' = "wait" /\ UNCHANGED ret
  /\ UNCHANGED <<ringVars, started, readVars, deviceVars, running>>

\* ma_device_stop waits for a callback that is running.
Stop ==
  /\ pc = "idle"
  /\ started => cb = "wait"
  /\ running' = FALSE
  /\ started' = FALSE
  /\ Return("OK")
  /\ UNCHANGED <<ringVars, readVars, deviceVars>>

\* destroy: ma_device_uninit waits for a running callback and ends the thread,
\* then the ring and the handle are released.
DestroyDevice ==
  /\ pc = "idle"
  /\ cb = "wait"
  /\ running' = FALSE
  /\ pc' = "gone"
  /\ UNCHANGED <<ringVars, started, ret, readVars, deviceVars>>

-----------------------------------------------------------------------------
(* The device's thread: capture_callback.                                  *)

unmoved == <<callerVars, running>>

\* available_write, the first look at the ring.
CallbackBegin(frames) ==
  /\ running
  /\ cb = "wait"
  /\ captured + frames <= MaxFrames
  /\ remaining' = frames
  /\ IF AvailableWrite < frames
       THEN cb' = "drop" /\ drop_frames' = frames - AvailableWrite
       ELSE cb' = "write" /\ UNCHANGED drop_frames
  /\ UNCHANGED <<ringVars, unmoved, cb_chunk, captured, overrun, overtaken>>

\* Mutated form: the drop is not flagged.
CallbackDrop_Silent ==
  /\ cb = "drop"
  /\ SeekRead(Min({drop_frames, AvailableRead}))
  /\ overtaken' = (overtaken \/ (AvailableRead > 0 /\ pc \in {"copy", "commit"}))
  /\ cb' = "write"
  /\ UNCHANGED <<rb, rb_write, unmoved, remaining, drop_frames, cb_chunk, captured, overrun>>

\* available_read and seek_read.
CallbackDrop ==
  /\ cb = "drop"
  /\ SeekRead(Min({drop_frames, AvailableRead}))
  /\ overrun' = (overrun \/ AvailableRead > 0)
  /\ overtaken' = (overtaken \/ (AvailableRead > 0 /\ pc \in {"copy", "commit"}))
  /\ cb' = "write"
  /\ UNCHANGED <<rb, rb_write, unmoved, remaining, drop_frames, cb_chunk, captured>>

\* acquire_write and memcpy; with no room left the rest of the period is lost.
CallbackWrite ==
  /\ cb = "write"
  /\ cb_chunk' = AcquireWrite(remaining)
  /\ IF cb_chunk' = 0
       THEN /\ overrun' = TRUE
            /\ captured' = captured + remaining
            /\ cb' = "wait"
            /\ UNCHANGED rb
       ELSE /\ rb' = Filled(rb_write, cb_chunk', captured + 1)
            /\ cb' = "commit"
            /\ UNCHANGED <<overrun, captured>>
  /\ UNCHANGED <<rb_read, rb_write, unmoved, remaining, drop_frames, overtaken>>

CallbackCommit ==
  /\ cb = "commit"
  /\ CommitWrite(cb_chunk)
  /\ captured' = captured + cb_chunk
  /\ remaining' = remaining - cb_chunk
  /\ cb' = IF remaining' > 0 THEN "write" ELSE "wait"
  /\ UNCHANGED <<rb, rb_read, unmoved, drop_frames, cb_chunk, overrun, overtaken>>

-----------------------------------------------------------------------------

Call ==
  \/ Start
  \/ \E capacity \in 1 .. MaxRead : Read(capacity)
  \/ WaitReady
  \/ Stop
  \/ DestroyDevice

Step == ReadAcquire \/ ReadCopy \/ ReadCommit \/ ReadDone
        \/ WaitPoll \/ WaitExpired

Callback ==
  \/ \E frames \in Periods : CallbackBegin(frames)
  \/ CallbackDrop \/ CallbackWrite \/ CallbackCommit

Next == Call \/ Step \/ Callback

Spec == Init /\ [][Next]_vars

-----------------------------------------------------------------------------
(* Properties.                                                             *)

TypeOK ==
  /\ RingTypeOK
  /\ started \in BOOLEAN /\ running \in BOOLEAN /\ overrun \in BOOLEAN
  /\ pc \in {"idle", "read", "copy", "commit", "wait", "empty", "gone"}
  /\ ret \in {"OK", "ERR_IO", "TIMEOUT"}
  /\ total_read \in 0 .. frame_capacity
  /\ frame_capacity \in 0 .. MaxRead
  /\ cb \in {"wait", "drop", "write", "commit"}

Increasing(seq) == \A i, j \in DOMAIN seq : i < j => seq[i] < seq[j]

\* Frames are delivered in the order captured and none twice, however many are
\* dropped.  audio.h, read: "The handle uses a bounded ring buffer and may drop
\* oldest frames when a live producer outruns the consumer."
DeliveredInOrder == Increasing(delivered)

\* The same, as long as no drop has moved the read cursor under a read that
\* holds a chunk (capture_callback's seek_read against read's commit).
DeliveredUnlessOvertaken == ~overtaken => Increasing(delivered)

\* A gap in the delivered frames is never silent: the handle has been marked
\* overrun (capture_callback).
GapsAreOverruns ==
  ~overrun => delivered = [i \in 1 .. Len(delivered) |-> i]

\* As long as no drop has overtaken a read, the ring never holds more than it
\* has room for, and its frames are in the order captured, none twice: a drop
\* frees exactly the slots the period is then copied to (capture_callback).
RingInOrder ==
  ~overtaken =>
    /\ rb_read <= rb_write
    /\ rb_write - rb_read <= RingCapacity
    /\ Increasing(Chunk(rb_read, rb_write - rb_read))

\* No callback runs, or will, on a handle that has been released
\* (capture_destroy).
NoCallbackAfterDestroy == pc = "gone" => ~running /\ cb = "wait"

=============================================================================
