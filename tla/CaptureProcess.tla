--------------------------- MODULE CaptureProcess ---------------------------
(***************************************************************************)
(* cpkt_audio_capture on the process backend: the child writes 16-bit      *)
(* little-endian samples to the pipe, read by read_f32_mono_16k without    *)
(* blocking.  A frame is the pair of bytes it was decoded from.            *)
(***************************************************************************)
EXTENDS ChildProcess, FiniteSetsExt

CONSTANTS
  MaxRead,       \* bound: frame_capacity of a read call
  MaxBytes,      \* bound: bytes a child writes
  FrameChunk,    \* CPKT_AUDIO_PROCESS_FRAME_CHUNK
  MaxPolls       \* bound: polls of a wait_ready before its timeout

CaptureProcessAssumption ==
  /\ MaxRead \in Nat \ {0}
  /\ MaxBytes \in Nat
  /\ FrameChunk \in Nat \ {0}
  /\ MaxPolls \in Nat

VARIABLES
  started, has_pending_byte, pending_byte,
  pc, ret,
  frame_capacity, frames,   \* the read call's argument, and what it has decoded
  after,                    \* the result of the call that is stopping the child
  sent,                     \* bytes the latest child has written
  delivered,                \* the frames returned to the caller, in order
  lost,                     \* a read failed with frames decoded
  ready,                    \* wait_ready has just answered OK
  polls                     \* polls until a wait_ready times out; 0 for never

readVars == <<frame_capacity, frames, delivered, lost>>
byteVars == <<has_pending_byte, pending_byte>>
vars == <<childVars, started, byteVars, pc, ret, readVars, after, sent, ready, polls>>

NoByte == <<0, 0>>

Init ==
  /\ ChildInit
  /\ started = FALSE /\ has_pending_byte = FALSE /\ pending_byte = NoByte
  /\ pc = "idle" /\ ret = "OK"
  /\ frame_capacity = 0 /\ frames = <<>> /\ after = "OK"
  /\ sent = 0 /\ delivered = <<>> /\ lost = FALSE /\ ready = FALSE /\ polls = 0

Return(result) == pc' = "idle" /\ ret' = result

-----------------------------------------------------------------------------
(* The child.                                                              *)

ChildWrites ==
  /\ child = "running" /\ process_fd
  /\ sent < MaxBytes
  /\ sent' = sent + 1
  /\ pipe' = Append(pipe, <<spawned, sent>>)
  /\ UNCHANGED <<process_pid, process_fd, child, spawned, signals, leaked,
                 started, byteVars, pc, ret, readVars, after, ready, polls>>

ChildEnds ==
  /\ child = "running"
  /\ child' \in {"exited", "failed"}
  /\ UNCHANGED <<process_pid, process_fd, pipe, spawned, signals, leaked,
                 started, byteVars, pc, ret, readVars, after, sent, ready, polls>>

-----------------------------------------------------------------------------
(* start, stop and destroy.                                                *)

Start ==
  /\ pc = "idle"
  /\ ready' = FALSE
  /\ IF started
       THEN Return("OK") /\ UNCHANGED <<childVars, started, sent>>
       ELSE \/ ProcessSpawn /\ started' = TRUE /\ sent' = 0 /\ Return("OK")
            \/ ProcessSpawnFails /\ Return("ERR_IO") /\ UNCHANGED <<started, sent>>
  /\ UNCHANGED <<byteVars, readVars, after, polls>>

\* process_stop, from stop or from a read that met the end of the stream.
BeginStop(result) ==
  /\ ProcessTerminate
  /\ after' = result
  /\ pc' = "reap"

\* stop, and destroy, which frees the handle when the child is gone.
Stop(result) ==
  /\ pc = "idle"
  /\ BeginStop(result)
  /\ ready' = FALSE
  /\ UNCHANGED <<started, byteVars, ret, readVars, sent, polls>>

StopDone ==
  /\ started' = FALSE
  /\ IF after = "gone" THEN pc' = "gone" /\ UNCHANGED ret ELSE Return(after)

\* Mutated form: an interrupted wait is not repeated.
StopReap_Once ==
  /\ pc = "reap"
  /\ \/ process_pid = 0 /\ UNCHANGED childVars /\ StopDone
     \/ process_pid # 0 /\ Reap /\ StopDone
     \/ process_pid # 0 /\ Forget /\ StopDone
  /\ UNCHANGED <<byteVars, readVars, after, sent, ready, polls>>

StopReap ==
  /\ pc = "reap"
  /\ \/ process_pid = 0 /\ UNCHANGED childVars /\ StopDone
     \/ process_pid # 0 /\ Reap /\ StopDone
     \/ process_pid # 0 /\ WaitInterrupted /\ pc' = "reap_again" /\ UNCHANGED <<started, ret>>
  /\ UNCHANGED <<byteVars, readVars, after, sent, ready, polls>>

StopReapAgain ==
  /\ pc = "reap_again"
  /\ Reap \/ Forget
  /\ StopDone
  /\ UNCHANGED <<byteVars, readVars, after, sent, ready, polls>>

-----------------------------------------------------------------------------
(* read_f32_mono_16k                                                       *)

Read(capacity) ==
  /\ pc = "idle"
  /\ IF ~started \/ ~process_fd
       THEN Return("OK") /\ ready' = FALSE /\ UNCHANGED <<frame_capacity, frames>>
       ELSE /\ pc' = "read"
            /\ frame_capacity' = capacity
            /\ frames' = <<>>
            /\ UNCHANGED <<ret, ready>>
  /\ UNCHANGED <<childVars, started, byteVars, delivered, lost, after, sent, polls>>

Reading == pc = "read" /\ Len(frames) < frame_capacity

\* *frames_read is set, and CAPTURE_READY emitted for the frames; the sink's
\* refusal becomes the result.
ReadDone ==
  /\ delivered' = delivered \o frames
  /\ \/ Return("OK")
     \/ frames # <<>> /\ Return("ERR_IO")
  /\ ready' = FALSE
  /\ UNCHANGED <<process_pid, process_fd, child, pipe, spawned, leaked, started,
                 byteVars, frame_capacity, frames, lost, after, sent, polls>>

ReadFull ==
  /\ pc = "read"
  /\ Len(frames) = frame_capacity
  /\ ReadDone
  /\ UNCHANGED signals

\* EAGAIN: the pipe is empty and the child still has its end of it.
ReadWouldBlock ==
  /\ Reading
  /\ pipe = <<>> /\ ~Ended
  /\ ReadDone
  /\ UNCHANGED signals

\* EINTR ends the loop like EAGAIN.
ReadInterrupted == Reading /\ Interrupted /\ ReadDone

\* Any other error: *frames_read stays zero.
ReadFails ==
  /\ Reading
  /\ Return("ERR_IO")
  /\ lost' = (lost \/ frames # <<>>)
  /\ ready' = FALSE
  /\ UNCHANGED <<childVars, started, byteVars, frame_capacity, frames, delivered, after, sent, polls>>

\* The second byte of a split sample; at the end of the stream the loop just ends.
ReadSecondByte ==
  /\ Reading
  /\ has_pending_byte
  /\ pipe # <<>>
  /\ frames' = Append(frames, <<pending_byte, Head(pipe)>>)
  /\ pipe' = Tail(pipe)
  /\ has_pending_byte' = FALSE
  /\ UNCHANGED <<process_pid, process_fd, child, spawned, signals, leaked, started,
                 pending_byte, pc, ret, frame_capacity, delivered, lost, after, sent, ready, polls>>

ReadSplitAtEnd ==
  /\ Reading
  /\ has_pending_byte
  /\ pipe = <<>> /\ Ended
  /\ ReadDone
  /\ UNCHANGED signals


\* read returns any part of what the pipe holds; an odd byte is kept.
ReadBytes ==
  /\ Reading
  /\ ~has_pending_byte
  /\ \E got \in 1 .. Min({2 * (frame_capacity - Len(frames)), 2 * FrameChunk, Len(pipe)}) :
       /\ frames' = frames \o [i \in 1 .. got \div 2 |-> <<pipe[2 * i - 1], pipe[2 * i]>>]
       /\ pipe' = SubSeq(pipe, got + 1, Len(pipe))
       /\ has_pending_byte' = (got % 2 = 1)
       /\ pending_byte' = IF got % 2 = 1 THEN pipe[got] ELSE pending_byte
  /\ UNCHANGED <<process_pid, process_fd, child, spawned, signals, leaked, started,
                 pc, ret, frame_capacity, delivered, lost, after, sent, ready, polls>>

\* The end of the stream: *frames_read stays zero, whatever has been decoded.
ReadAtEnd ==
  /\ Reading
  /\ ~has_pending_byte
  /\ pipe = <<>> /\ Ended
  /\ BeginStop("ERR_IO")
  /\ lost' = (lost \/ frames # <<>>)
  /\ ready' = FALSE
  /\ UNCHANGED <<started, byteVars, ret, frame_capacity, frames, delivered, sent, polls>>

-----------------------------------------------------------------------------
(* wait_ready: select answers for data and for the end of the stream.      *)

Readable == pipe # <<>> \/ Ended
waiting == <<childVars, started, byteVars, readVars, after, sent>>

\* timeout_ms, in polls of 10 ms; zero waits indefinitely.
WaitReady(timeout) ==
  /\ pc = "idle"
  /\ IF ~started \/ ~process_fd
       THEN Return("ERR_IO") /\ UNCHANGED polls
       ELSE pc' = "wait" /\ polls' = timeout /\ UNCHANGED ret
  /\ ready' = FALSE
  /\ UNCHANGED waiting

WaitAnswers ==
  /\ pc = "wait"
  /\ Readable
  /\ Return("OK")
  /\ ready' = TRUE /\ polls' = 0
  /\ UNCHANGED waiting

\* select finds nothing for 10 ms, or is interrupted,
WaitPolls ==
  /\ pc = "wait" /\ ~Readable
  /\ pc' = "expired"
  /\ UNCHANGED <<waiting, ret, ready, polls>>
WaitPollInterrupted ==
  /\ pc = "wait"
  /\ WaitInterrupted
  /\ pc' = "expired"
  /\ UNCHANGED <<started, byteVars, readVars, after, sent, ret, ready, polls>>

\* and wait_expired looks at the clock; the child may have written meanwhile.
WaitExpired ==
  /\ pc = "expired"
  /\ IF polls = 1 THEN Return("TIMEOUT") ELSE pc' = "wait" /\ UNCHANGED ret
  /\ polls' = IF polls = 0 THEN 0 ELSE polls - 1
  /\ UNCHANGED <<waiting, ready>>

\* Any other error of select.
WaitFails ==
  /\ pc = "wait"
  /\ Return("ERR_IO") /\ polls' = 0
  /\ UNCHANGED <<waiting, ready>>

-----------------------------------------------------------------------------

Call ==
  \/ Start \/ Stop("OK") \/ Stop("gone")
  \/ \E timeout \in 0 .. MaxPolls : WaitReady(timeout)
  \/ \E capacity \in 1 .. MaxRead : Read(capacity)

Step ==
  \/ StopReap \/ StopReapAgain
  \/ ReadFull \/ ReadWouldBlock
  \/ ReadSecondByte \/ ReadSplitAtEnd \/ ReadBytes \/ ReadAtEnd
  \/ WaitAnswers \/ WaitPolls \/ WaitExpired

Fault == ReadInterrupted \/ ReadFails \/ WaitPollInterrupted \/ WaitFails

Next == Call \/ Step \/ Fault \/ ChildWrites \/ ChildEnds

Spec == Init /\ [][Next]_vars

\* A call that has begun goes on; no fault is needed for that.
FairSpec == Spec /\ WF_vars(Step)

-----------------------------------------------------------------------------
(* Properties.                                                             *)

TypeOK ==
  /\ ChildTypeOK
  /\ started \in BOOLEAN /\ has_pending_byte \in BOOLEAN
  /\ pc \in {"idle", "read", "reap", "reap_again", "wait", "expired", "gone"}
  /\ ret \in {"OK", "ERR_IO", "TIMEOUT"} /\ after \in {"OK", "ERR_IO", "gone"}
  /\ Len(frames) <= frame_capacity /\ frame_capacity \in 0 .. MaxRead
  /\ polls \in 0 .. MaxPolls

\* The bytes of the frames, in order.
Bytes(seq) == [i \in 1 .. 2 * Len(seq) |-> seq[(i + 1) \div 2][2 - (i % 2)]]

\* Bytes written by child n, from the k-th on.
Stream(n, k, count) == [i \in 1 .. count |-> <<n, k + i - 1>>]

\* As long as the handle is on its first child, that child's pipe is open and no
\* read has failed with frames decoded, nothing of the stream is lost, repeated
\* or shifted between the pipe, the split sample, the read in progress and the
\* frames delivered, whatever the sizes of the reads (capture_read).
StreamExact ==
  spawned = 1 /\ process_fd /\ ~lost =>
    Bytes(delivered) \o (IF pc = "read" THEN Bytes(frames) ELSE <<>>)
      \o (IF has_pending_byte THEN <<pending_byte>> ELSE <<>>) \o pipe
    = Stream(1, 0, sent)

\* Every frame is decoded from the two bytes of one sample.
\* audio.h, read: "Reads captured audio as 32-bit float, mono, 16000 Hz PCM
\* frames."
FramesAligned ==
  \A i \in DOMAIN delivered :
    /\ delivered[i][1][1] = delivered[i][2][1]
    /\ delivered[i][1][2] % 2 = 0
    /\ delivered[i][2][2] = delivered[i][1][2] + 1

\* The handle's pid and fd agree between calls: a started handle owns a running
\* or ended child and a pipe, a stopped one neither.
OwnsChild ==
  pc \in {"idle", "gone"} => (started <=> process_fd) /\ (started <=> process_pid # 0)

\* A child is waited for before the handle forgets it, if at most one wait of a
\* stop is interrupted (process_stop).
ChildrenReaped == signals < 2 => ~leaked

\* When wait_ready has answered OK, a read that finds the child gone returns
\* frames or reports the end; it does not say "nothing yet" again and again.
\* audio.h, wait_ready: "Blocks until capture has readable current-device audio."
ReadyThenRead ==
  [][pc = "read" /\ pc' = "idle" /\ ready /\ Ended /\ signals' = signals =>
       ret' # "OK" \/ delivered' # delivered]_vars

\* Every call returns, but for a wait_ready without a timeout on a child that
\* neither writes nor ends.  audio.h, wait_ready: "Zero waits indefinitely."
Endless == pc \in {"wait", "expired"} /\ polls = 0 /\ ~Readable
InCall == pc \notin {"idle", "gone"} /\ ~Endless
CallsReturn == InCall ~> ~InCall

=============================================================================
