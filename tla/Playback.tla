------------------------------ MODULE Playback ------------------------------
(***************************************************************************)
(* cpkt_audio_playback on a native device.  The caller's thread queues     *)
(* frames in the ring; the device's thread runs playback_callback once per *)
(* period and takes frames out.  Both threads also keep pending_frames, a  *)
(* volatile counter without a lock: each += and -= is a load and a store.  *)
(***************************************************************************)
EXTENDS PcmRing, Integers, SequencesExt

CONSTANTS
  Period,        \* frame_count of a callback
  MaxWrite,      \* bound: frames in one write call
  MaxFrames,     \* bound: frames written over a behaviour
  MaxStops       \* bound: stop calls of a behaviour

ASSUME PlaybackAssumption ==
  /\ Period \in Nat \ {0}
  /\ MaxWrite \in Nat \ {0}
  /\ MaxFrames \in Nat
  /\ MaxStops \in Nat

VARIABLES
  started, pending_frames, underrun, turn_frames_written,
  pc,            \* where the caller's thread is
  ret,           \* the result of its last call
  frame_count, total_written, first,   \* the write call's arguments and cursor
  chunk, loaded,                       \* its current chunk, its load of pending_frames
  running,       \* the device's thread is started (ma_device)
  cb,            \* where that thread is
  remaining, cb_chunk, cb_loaded,      \* playback_callback's locals
  heard,         \* the frames that reached the device, in order
  stops          \* stop calls so far

callerVars == <<started, turn_frames_written, pc, ret, frame_count,
                total_written, first, chunk, loaded, stops>>
deviceVars == <<cb, remaining, cb_chunk, cb_loaded, heard, underrun>>
vars == <<ringVars, pending_frames, callerVars, deviceVars, running>>

Init ==
  /\ RingInit
  /\ started = FALSE /\ running = FALSE
  /\ pending_frames = 0 /\ turn_frames_written = 0 /\ underrun = FALSE
  /\ pc = "idle" /\ ret = "OK"
  /\ frame_count = 0 /\ total_written = 0 /\ first = 1
  /\ chunk = 0 /\ loaded = 0
  /\ cb = "wait" /\ remaining = 0 /\ cb_chunk = 0 /\ cb_loaded = 0
  /\ heard = <<>>
  /\ stops = 0

Return(result) == pc' = "idle" /\ ret' = result

-----------------------------------------------------------------------------
(* The caller's thread: start, write, drain, stop.                         *)

writeVars == <<frame_count, total_written, first, chunk, loaded>>

StartAgain ==
  /\ pc = "idle" /\ started
  /\ Return("OK")
  /\ UNCHANGED <<ringVars, pending_frames, started, turn_frames_written,
                 writeVars, stops, deviceVars, running>>

\* ma_device_start: the callback may run before start has gone on.
StartDevice ==
  /\ pc = "idle" /\ ~started
  /\ \/ running' = TRUE /\ pc' = "start" /\ UNCHANGED ret
     \/ Return("ERR_IO") /\ UNCHANGED running
  /\ UNCHANGED <<ringVars, pending_frames, started, turn_frames_written,
                 writeVars, stops, deviceVars>>

Started ==
  /\ pc = "start"
  /\ started' = TRUE
  /\ pending_frames' = 0
  /\ turn_frames_written' = 0
  /\ Return("OK")
  /\ UNCHANGED <<ringVars, writeVars, stops, deviceVars, running>>

Write(count) ==
  /\ pc = "idle"
  /\ first + count - 1 <= MaxFrames
  /\ IF ~started
       THEN Return("ERR_IO") /\ UNCHANGED writeVars
       ELSE /\ pc' = "write"
            /\ frame_count' = count
            /\ total_written' = 0
            /\ UNCHANGED <<ret, first, chunk, loaded>>
  /\ UNCHANGED <<ringVars, pending_frames, started, turn_frames_written,
                 stops, deviceVars, running>>

\* acquire_write and memcpy; while there is no room the loop sleeps.
WriteCopy ==
  /\ pc = "write"
  /\ total_written < frame_count
  /\ chunk' = AcquireWrite(frame_count - total_written)
  /\ chunk' > 0
  /\ rb' = Filled(rb_write, chunk', first + total_written)
  /\ pc' = "commit"
  /\ UNCHANGED <<rb_read, rb_write, pending_frames, started, turn_frames_written,
                 ret, frame_count, total_written, first, loaded, stops,
                 deviceVars, running>>

WriteCommit ==
  /\ pc = "commit"
  /\ CommitWrite(chunk)
  /\ pc' = "load"
  /\ UNCHANGED <<rb, rb_read, pending_frames, started, turn_frames_written, ret,
                 writeVars, stops, deviceVars, running>>

\* pending_frames += chunk: the load, then the store.
WriteLoad ==
  /\ pc = "load"
  /\ loaded' = pending_frames
  /\ pc' = "store"
  /\ UNCHANGED <<ringVars, pending_frames, started, turn_frames_written, ret,
                 frame_count, total_written, first, chunk, stops,
                 deviceVars, running>>

WriteStore ==
  /\ pc = "store"
  /\ pending_frames' = loaded + chunk
  /\ total_written' = total_written + chunk
  /\ pc' = "write"
  /\ UNCHANGED <<ringVars, started, turn_frames_written, ret, frame_count,
                 first, chunk, loaded, stops, deviceVars, running>>

\* The end of write, note_written included.
WriteDone ==
  /\ pc = "write"
  /\ total_written = frame_count
  /\ turn_frames_written' = turn_frames_written + total_written
  /\ first' = first + total_written
  /\ Return("OK")
  /\ UNCHANGED <<ringVars, pending_frames, started, frame_count, total_written,
                 chunk, loaded, stops, deviceVars, running>>

Drain ==
  /\ pc = "idle"
  /\ pc' = "drain_queue"
  /\ UNCHANGED <<ringVars, pending_frames, started, turn_frames_written, ret,
                 writeVars, stops, deviceVars, running>>

\* Mutated form: the ring may still hold frames.
DrainQueue_Skipped ==
  /\ pc = "drain_queue"
  /\ pc' = "drain_pending"
  /\ UNCHANGED <<ringVars, pending_frames, started, turn_frames_written, ret,
                 writeVars, stops, deviceVars, running>>

DrainQueue ==
  /\ pc = "drain_queue"
  /\ AvailableRead = 0
  /\ pc' = "drain_pending"
  /\ UNCHANGED <<ringVars, pending_frames, started, turn_frames_written, ret,
                 writeVars, stops, deviceVars, running>>

\* The second loop ends; wait_turn_elapsed sleeps and forgets the turn.
DrainPending ==
  /\ pc = "drain_pending"
  /\ pending_frames = 0
  /\ turn_frames_written' = 0
  /\ Return("OK")
  /\ UNCHANGED <<ringVars, pending_frames, started, writeVars, stops,
                 deviceVars, running>>

\* ma_device_stop waits for a callback that is running.
Stop ==
  /\ pc = "idle"
  /\ stops < MaxStops
  /\ stops' = stops + 1
  /\ Return("OK")
  /\ IF started
       THEN /\ cb = "wait"
            /\ running' = FALSE
            /\ started' = FALSE
            /\ pending_frames' = 0
            /\ turn_frames_written' = 0
       ELSE UNCHANGED <<running, started, pending_frames, turn_frames_written>>
  /\ UNCHANGED <<ringVars, writeVars, deviceVars>>

\* destroy: ma_device_uninit waits for a running callback and ends the thread,
\* then the ring and the handle are released.
DestroyDevice ==
  /\ pc = "idle"
  /\ cb = "wait"
  /\ running' = FALSE
  /\ pc' = "gone"
  /\ UNCHANGED <<ringVars, pending_frames, started, turn_frames_written, ret,
                 writeVars, stops, deviceVars>>

-----------------------------------------------------------------------------
(* The device's thread: playback_callback.                                 *)

unmoved == <<started, turn_frames_written, pc, ret, writeVars, stops, running>>

CallbackBegin ==
  /\ running
  /\ cb = "wait"
  /\ remaining' = Period
  /\ cb' = "read"
  /\ UNCHANGED <<ringVars, pending_frames, unmoved, cb_chunk, cb_loaded, heard, underrun>>

\* acquire_read and memcpy, or silence for the rest of the period.
CallbackRead ==
  /\ cb = "read"
  /\ remaining > 0
  /\ cb_chunk' = AcquireRead(remaining)
  /\ IF cb_chunk' = 0
       THEN /\ underrun' = TRUE
            /\ cb' = "wait"
            /\ remaining' = 0
            /\ UNCHANGED heard
       ELSE /\ heard' = heard \o Chunk(rb_read, cb_chunk')
            /\ cb' = "commit"
            /\ UNCHANGED <<underrun, remaining>>
  /\ UNCHANGED <<ringVars, pending_frames, unmoved, cb_loaded>>

CallbackCommit ==
  /\ cb = "commit"
  /\ CommitRead(cb_chunk)
  /\ cb' = "test"
  /\ UNCHANGED <<rb, rb_write, pending_frames, unmoved, remaining, cb_chunk,
                 cb_loaded, heard, underrun>>

\* Mutated form: it subtracts without the test.
CallbackTest_Skipped ==
  /\ cb = "test"
  /\ cb' = "load"
  /\ UNCHANGED <<ringVars, pending_frames, unmoved, remaining, cb_chunk,
                 cb_loaded, heard, underrun>>

\* if (pending_frames >= chunk) ...: the test's load, then the -='s own load.
CallbackTest ==
  /\ cb = "test"
  /\ cb' = IF pending_frames >= cb_chunk THEN "load" ELSE "clear"
  /\ UNCHANGED <<ringVars, pending_frames, unmoved, remaining, cb_chunk,
                 cb_loaded, heard, underrun>>

CallbackLoad ==
  /\ cb = "load"
  /\ cb_loaded' = pending_frames
  /\ cb' = "subtract"
  /\ UNCHANGED <<ringVars, pending_frames, unmoved, remaining, cb_chunk, heard, underrun>>

NextChunk ==
  /\ remaining' = remaining - cb_chunk
  /\ cb' = IF remaining' > 0 THEN "read" ELSE "wait"
  /\ UNCHANGED <<ringVars, unmoved, cb_chunk, cb_loaded, heard, underrun>>

CallbackSubtract ==
  /\ cb = "subtract"
  /\ pending_frames' = cb_loaded - cb_chunk
  /\ NextChunk

CallbackClear ==
  /\ cb = "clear"
  /\ pending_frames' = 0
  /\ NextChunk

-----------------------------------------------------------------------------

Call ==
  \/ StartAgain
  \/ StartDevice
  \/ \E count \in 1 .. MaxWrite : Write(count)
  \/ Drain
  \/ Stop
  \/ DestroyDevice

Step ==
  \/ Started
  \/ WriteCopy \/ WriteCommit \/ WriteLoad \/ WriteStore \/ WriteDone
  \/ DrainQueue \/ DrainPending

Callback ==
  \/ CallbackBegin \/ CallbackRead \/ CallbackCommit
  \/ CallbackTest \/ CallbackLoad \/ CallbackSubtract \/ CallbackClear

Next == Call \/ Step \/ Callback

Spec == Init /\ [][Next]_vars

\* A call that has begun goes on whenever it can, and a started device calls
\* back once per period.
FairSpec == Spec /\ WF_vars(Step) /\ WF_vars(Callback)

-----------------------------------------------------------------------------
(* Properties.                                                             *)

TypeOK ==
  /\ RingTypeOK
  /\ started \in BOOLEAN /\ running \in BOOLEAN /\ underrun \in BOOLEAN
  /\ pending_frames \in Nat /\ turn_frames_written \in Nat
  /\ pc \in {"idle", "start", "write", "commit", "load", "store",
             "drain_queue", "drain_pending", "gone"}
  /\ ret \in {"OK", "ERR_IO"}
  /\ cb \in {"wait", "read", "commit", "test", "load", "subtract", "clear"}
  /\ remaining \in 0 .. Period /\ cb_chunk \in 0 .. Period
  /\ frame_count \in Nat /\ total_written \in Nat /\ first \in Nat
  /\ chunk \in Nat /\ loaded \in Nat /\ cb_loaded \in Nat
  /\ heard \in Seq(Nat)

\* The device hears every frame once and in the order written, stops and
\* restarts included: neither thread copies a slot the other may touch
\* (playback_write, playback_callback).
PlayedInOrder == heard = [i \in 1 .. Len(heard) |-> i]

\* The frames of the ring are the ones written and not yet heard, never more
\* than it has room for.
QueueExact ==
  /\ rb_read <= rb_write
  /\ rb_write - rb_read <= RingCapacity
  /\ Chunk(rb_read, rb_write - rb_read) =
       [i \in 1 .. rb_write - rb_read |-> rb_read + i]

\* pending_frames never goes below zero, although test and subtraction load it
\* separately: it would wrap to 2^64 - chunk.
NoUnderflow == cb = "subtract" => cb_loaded >= cb_chunk

\* No callback runs, or will, on a handle that has been released
\* (playback_destroy).
NoCallbackAfterDestroy == pc = "gone" => ~running /\ cb = "wait"

\* What is heard was written, once and in the order written; the ring holds the
\* frames written and not heard; pending_frames never wraps below zero; no callback
\* runs on a released handle (playback_write, playback_callback, playback_destroy).
PlaybackExact ==
  TypeOK /\ PlayedInOrder /\ QueueExact /\ NoUnderflow /\ NoCallbackAfterDestroy

\* When drain is over, every frame written since the device was started has
\* been heard, and nothing of the turn is left to wait for (playback_drain).
DrainHeard ==
  pc = "drain_pending" /\ pc' = "idle" => rb_read = rb_write /\ turn_frames_written' = 0
DrainedIsHeard == [][DrainHeard]_vars

\* A write to a running device returns: room appears as the device plays.
WriteReturns == pc = "write" ~> pc = "idle"

\* drain leaves its first loop, which waits for the ring to run empty.
\* audio.h: "Waits until queued playback frames have been consumed."
DrainQueueEnds == pc = "drain_queue" ~> pc # "drain_queue"

\* drain leaves its second loop once the ring is empty.
\* audio.h: "Waits until queued playback frames have been consumed."
DrainPendingEnds == pc = "drain_pending" ~> pc # "drain_pending"

=============================================================================
