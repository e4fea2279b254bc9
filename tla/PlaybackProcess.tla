-------------------------- MODULE PlaybackProcess --------------------------
(***************************************************************************)
(* cpkt_audio_playback on the process backend: the first write after start *)
(* or drain spawns the play command, writes are samples on its pipe, drain *)
(* closes the pipe and waits for the command to finish.                    *)
(***************************************************************************)
EXTENDS ChildProcess, FiniteSetsExt

CONSTANTS
  MaxWrite,      \* bound: frames in one write call
  MaxBytes,      \* bound: bytes written to one child
  PipeSize,      \* bytes a pipe holds
  FrameChunk     \* CPKT_AUDIO_PROCESS_FRAME_CHUNK

PlaybackProcessAssumption ==
  /\ MaxWrite \in Nat \ {0}
  /\ MaxBytes \in Nat
  /\ PipeSize \in Nat \ {0}
  /\ FrameChunk \in Nat \ {0}

VARIABLES
  started, turn_frames_written,
  pc, ret,
  frame_count, total_written, byte_count, byte_offset,   \* the write call
  begin,         \* bytes of earlier writes to this child
  after,         \* how the call that is waiting for the child goes on
  played         \* the bytes the latest child has taken from its pipe

writeVars == <<frame_count, total_written, byte_count, byte_offset, begin>>
vars == <<childVars, started, turn_frames_written, pc, ret, writeVars, after, played>>

Init ==
  /\ ChildInit
  /\ started = FALSE /\ turn_frames_written = 0
  /\ pc = "idle" /\ ret = "OK"
  /\ frame_count = 0 /\ total_written = 0 /\ byte_count = 0 /\ byte_offset = 0
  /\ begin = 0 /\ after = "OK" /\ played = <<>>

Return(result) == pc' = "idle" /\ ret' = result

-----------------------------------------------------------------------------
(* The child plays what it reads.  It exits with status 0 only at the end  *)
(* of its input, and may fail at any time.                                 *)

caller == <<process_pid, process_fd, spawned, signals, leaked, started,
            turn_frames_written, pc, ret, writeVars, after>>

ChildPlays ==
  /\ child = "running"
  /\ pipe # <<>>
  /\ played' = Append(played, Head(pipe))
  /\ pipe' = Tail(pipe)
  /\ UNCHANGED <<child, caller>>

ChildExits ==
  /\ child = "running"
  /\ pipe = <<>> /\ ~process_fd
  /\ child' = "exited"
  /\ UNCHANGED <<pipe, played, caller>>

ChildFails ==
  /\ child = "running"
  /\ child' = "failed"
  /\ UNCHANGED <<pipe, played, caller>>

-----------------------------------------------------------------------------
(* start and write_f32_mono_16k                                            *)

Start ==
  /\ pc = "idle"
  /\ started' = TRUE
  /\ turn_frames_written' = IF started THEN turn_frames_written ELSE 0
  /\ Return("OK")
  /\ UNCHANGED <<childVars, writeVars, after, played>>

Write(count) ==
  /\ pc = "idle"
  /\ \/ ~started /\ Return("ERR_IO") /\ UNCHANGED <<childVars, writeVars, played>>
     \/ /\ started /\ process_fd
        /\ begin + 2 * count <= MaxBytes
        /\ pc' = "frames" /\ frame_count' = count /\ total_written' = 0
        /\ UNCHANGED <<childVars, ret, byte_count, byte_offset, begin, played>>
     \/ /\ started /\ ~process_fd
        /\ ProcessSpawn
        /\ pc' = "frames" /\ frame_count' = count /\ total_written' = 0 /\ begin' = 0
        /\ played' = <<>>
        /\ UNCHANGED <<ret, byte_count, byte_offset>>
     \/ /\ started /\ ~process_fd
        /\ ProcessSpawnFails
        /\ Return("ERR_IO")
        /\ UNCHANGED <<writeVars, played>>
  /\ UNCHANGED <<started, turn_frames_written, after>>

\* The next chunk of frames is converted.
WriteFrames ==
  /\ pc = "frames"
  /\ total_written < frame_count
  /\ byte_count' = 2 * Min({frame_count - total_written, FrameChunk})
  /\ byte_offset' = 0
  /\ pc' = "bytes"
  /\ UNCHANGED <<childVars, started, turn_frames_written, ret, frame_count,
                 total_written, begin, after, played>>

\* Mutated form: a write waits until all of the chunk fits.
WriteBytes_AllOrNothing ==
  /\ pc = "bytes"
  /\ byte_offset < byte_count
  /\ child = "running"
  /\ byte_count - byte_offset <= PipeSize - Len(pipe)
  /\ pipe' = pipe \o
       [i \in 1 .. byte_count |-> <<spawned, begin + 2 * total_written + byte_offset + i - 1>>]
  /\ byte_offset' = byte_count
  /\ UNCHANGED <<process_pid, process_fd, child, spawned, signals, leaked, started,
                 turn_frames_written, pc, ret, frame_count, total_written,
                 byte_count, begin, after, played>>

\* process_write: some of the bytes, as far as the pipe has room; it blocks
\* while there is none.
WriteBytes ==
  /\ pc = "bytes"
  /\ byte_offset < byte_count
  /\ child = "running"
  /\ \E wrote \in 1 .. Min({byte_count - byte_offset, PipeSize - Len(pipe)}) :
       /\ pipe' = pipe \o
            [i \in 1 .. wrote |-> <<spawned, begin + 2 * total_written + byte_offset + i - 1>>]
       /\ byte_offset' = byte_offset + wrote
  /\ UNCHANGED <<process_pid, process_fd, child, spawned, signals, leaked, started,
                 turn_frames_written, pc, ret, frame_count, total_written,
                 byte_count, begin, after, played>>

\* EINTR: the write is repeated.
WriteInterrupted ==
  /\ pc = "bytes"
  /\ byte_offset < byte_count
  /\ WaitInterrupted
  /\ UNCHANGED <<started, turn_frames_written, pc, ret, writeVars, after, played>>

\* EPIPE: the child is gone.  The handle keeps it; *frames_written stays zero.
WriteBroken ==
  /\ pc = "bytes"
  /\ byte_offset < byte_count
  /\ Ended
  /\ Return("ERR_IO")
  /\ UNCHANGED <<childVars, started, turn_frames_written, writeVars, after, played>>

ChunkDone ==
  /\ pc = "bytes"
  /\ byte_offset = byte_count
  /\ total_written' = total_written + byte_count \div 2
  /\ pc' = "frames"
  /\ UNCHANGED <<childVars, started, turn_frames_written, ret, frame_count,
                 byte_count, byte_offset, begin, after, played>>

\* The end of write, note_written included.
WriteDone ==
  /\ pc = "frames"
  /\ total_written = frame_count
  /\ begin' = begin + 2 * total_written
  /\ turn_frames_written' = turn_frames_written + total_written
  /\ Return("OK")
  /\ UNCHANGED <<childVars, started, frame_count, total_written, byte_count,
                 byte_offset, after, played>>

-----------------------------------------------------------------------------
(* drain: process_finish                                                   *)

Drain ==
  /\ pc = "idle"
  /\ IF ~started
       THEN Return("OK") /\ UNCHANGED process_fd
       ELSE pc' = "finish" /\ process_fd' = FALSE /\ UNCHANGED ret
  /\ UNCHANGED <<process_pid, child, pipe, spawned, signals, leaked, started,
                 turn_frames_written, writeVars, after, played>>

\* waitpid gives the status of the ended child, or fails.
DrainReap ==
  /\ pc = "finish"
  /\ \/ process_pid = 0 /\ Return("OK") /\ UNCHANGED childVars
     \/ process_pid # 0 /\ Reap /\ Return(IF child = "exited" THEN "OK" ELSE "ERR_IO")
     \/ process_pid # 0 /\ Reap /\ Return("ERR_IO")
  /\ turn_frames_written' = 0
  /\ UNCHANGED <<started, writeVars, after, played>>

DrainInterrupted ==
  /\ pc = "finish"
  /\ process_pid # 0
  /\ WaitInterrupted
  /\ UNCHANGED <<started, turn_frames_written, pc, ret, writeVars, after, played>>

-----------------------------------------------------------------------------
(* stop, and destroy, which frees the handle: process_stop                 *)

Stop(result) ==
  /\ pc = "idle"
  /\ ProcessTerminate
  /\ after' = result
  /\ pc' = "reap"
  /\ UNCHANGED <<started, turn_frames_written, ret, writeVars, played>>

StopDone ==
  /\ started' = FALSE
  /\ turn_frames_written' = 0
  /\ IF after = "gone" THEN pc' = "gone" /\ UNCHANGED ret ELSE Return("OK")

StopReap ==
  /\ pc = "reap"
  /\ \/ process_pid = 0 /\ UNCHANGED childVars /\ StopDone
     \/ process_pid # 0 /\ Reap /\ StopDone
     \/ /\ process_pid # 0
        /\ WaitInterrupted
        /\ pc' = "reap_again"
        /\ UNCHANGED <<started, turn_frames_written, ret>>
  /\ UNCHANGED <<writeVars, after, played>>

StopReapAgain ==
  /\ pc = "reap_again"
  /\ Reap \/ Forget
  /\ StopDone
  /\ UNCHANGED <<writeVars, after, played>>

-----------------------------------------------------------------------------

Call ==
  \/ Start \/ Drain \/ Stop("OK") \/ Stop("gone")
  \/ \E count \in 1 .. MaxWrite : Write(count)

Step ==
  \/ WriteFrames \/ WriteBytes \/ WriteInterrupted \/ WriteBroken
  \/ ChunkDone \/ WriteDone
  \/ DrainReap \/ DrainInterrupted
  \/ StopReap \/ StopReapAgain

Child == ChildPlays \/ ChildExits

Next == Call \/ Step \/ Child \/ ChildFails

Spec == Init /\ [][Next]_vars

\* A call that has begun goes on when it can, and the play command plays.
FairSpec == Spec /\ WF_vars(Step) /\ WF_vars(Child)

-----------------------------------------------------------------------------
(* Properties.                                                             *)

TypeOK ==
  /\ ChildTypeOK
  /\ started \in BOOLEAN /\ turn_frames_written \in Nat
  /\ pc \in {"idle", "frames", "bytes", "finish", "reap", "reap_again", "gone"}
  /\ ret \in {"OK", "ERR_IO"} /\ after \in {"OK", "gone"}
  /\ total_written \in 0 .. frame_count /\ byte_offset \in 0 .. byte_count
  /\ Len(pipe) <= PipeSize

\* The child is given the samples in order, every byte once, however the writes
\* are split (playback_write's inner loop).
PlayedInOrder ==
  child = "running" =>
    LET given == played \o pipe
    IN  given = [i \in 1 .. Len(given) |-> <<spawned, i - 1>>]

\* drain answers OK only when the child has played all that was written to it.
\* process_finish reports how the command ended.
DrainPlayed ==
  pc = "finish" /\ pc' = "idle" /\ ret' = "OK" /\ process_pid # 0 => Len(played) >= begin
DrainOkIsPlayed == [][DrainPlayed]_vars

\* A handle that is not in a call owns no pipe without the child it leads to,
\* and none at all when it is stopped.
OwnsChild ==
  pc \in {"idle", "gone"} =>
    /\ process_fd <=> process_pid # 0
    /\ ~started => process_pid = 0

\* A child is waited for before the handle forgets it, if at most one wait of a
\* stop is interrupted (process_stop).
ChildrenReaped == signals < 2 => ~leaked

\* Every call returns: the pipe is emptied, and the command ends when its input
\* does.
CallsReturn == pc # "idle" ~> pc \in {"idle", "gone"}

=============================================================================
