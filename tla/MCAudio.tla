------------------------------ MODULE MCAudio ------------------------------
(***************************************************************************)
(* Devices and URL sources for TLC.  A handle shares nothing with other    *)
(* handles, so a behaviour is that of one handle: part says of which.  The *)
(* variables of Playback are those of the part playback; s1, s2, ... are   *)
(* the variables of any other one, in the order of their declaration.      *)
(*   playback, capture       a native device.  The rings are small enough  *)
(*                           to fill up and wrap, a write and a period may *)
(*                           be longer than the ring                       *)
(*   recorder, player        a child process.  It ends in the middle of a  *)
(*                           sample, a pipe is shorter than a write, and   *)
(*                           there is one restart                          *)
(*   url, mp3                the byte source below a WAV or FLAC decoder,  *)
(*                           any order of reads and seeks; the same below  *)
(*                           the MP3 decoder, with a tag in front          *)
(***************************************************************************)
EXTENDS Playback

VARIABLES
  part,
  s1, s2, s3, s4, s5, s6, s7, s8, s9, s10, s11, s12, s13, s14, s15, s16, s17,
  s18, s19, s20

mcVars ==
  <<vars, part, s1, s2, s3, s4, s5, s6, s7, s8, s9, s10, s11, s12, s13, s14, s15, s16, s17,
    s18, s19, s20>>

\* What a part with fewer variables leaves unused.
rest19 == <<s20>>
rest18 == <<s19, rest19>>
rest13 == <<s14, s15, s16, s17, s18, rest18>>
rest0 == <<s1, s2, s3, s4, s5, s6, s7, s8, s9, s10, s11, s12, s13, rest13>>

Unused19 == s20 = 0
Unused18 == s19 = 0 /\ Unused19
Unused13 == s14 = 0 /\ s15 = 0 /\ s16 = 0 /\ s17 = 0 /\ s18 = 0 /\ Unused18
Unused0 == /\ s1 = 0 /\ s2 = 0 /\ s3 = 0 /\ s4 = 0 /\ s5 = 0 /\ s6 = 0 /\ s7 = 0
           /\ s8 = 0 /\ s9 = 0 /\ s10 = 0 /\ s11 = 0 /\ s12 = 0 /\ s13 = 0
           /\ Unused13

Microphone == INSTANCE Capture WITH
  RingCapacity <- 3, Periods <- {1, 2, 4}, MaxRead <- 3, MaxFrames <- 6,
  rb <- s1, rb_read <- s2, rb_write <- s3, started <- s4, overrun <- s5, pc <- s6,
  ret <- s7, frame_capacity <- s8, total_read <- s9, chunk <- s10, position <- s11,
  delivered <- s12, running <- s13, cb <- s14, remaining <- s15, drop_frames <- s16,
  cb_chunk <- s17, captured <- s18, overtaken <- s19

Recorder == INSTANCE CaptureProcess WITH
  MaxChildren <- 2, MaxSignals <- 2, MaxRead <- 2, MaxBytes <- 4, FrameChunk <- 2,
  MaxPolls <- 1,
  process_pid <- s1, process_fd <- s2, child <- s3, pipe <- s4, spawned <- s5,
  signals <- s6, leaked <- s7, started <- s8, has_pending_byte <- s9,
  pending_byte <- s10, pc <- s11, ret <- s12, frame_capacity <- s13, frames <- s14,
  after <- s15, sent <- s16, delivered <- s17, lost <- s18, ready <- s19, polls <- s20

Player == INSTANCE PlaybackProcess WITH
  MaxChildren <- 2, MaxSignals <- 2, MaxWrite <- 3, MaxBytes <- 6, PipeSize <- 3,
  FrameChunk <- 2,
  process_pid <- s1, process_fd <- s2, child <- s3, pipe <- s4, spawned <- s5,
  signals <- s6, leaked <- s7, started <- s8, turn_frames_written <- s9, pc <- s10,
  ret <- s11, frame_count <- s12, total_written <- s13, byte_count <- s14,
  byte_offset <- s15, begin <- s16, after <- s17, played <- s18

Url == INSTANCE UrlSource WITH
  RewindBytes <- 2, SignatureBytes <- 2, Length <- 6, MaxChunk <- 3, MaxRead <- 3,
  TagBytes <- 4, TagMark <- 2, TagHeader <- 3, FrameBytes <- 3, FramePcm <- 2,
  Mp3Chunk <- 4,
  buffer <- s1, buffer_base <- s2, buffer_cursor <- s3, done <- s4, failed <- s5,
  content_type <- s6, pc <- s7, target_offset <- s8, wanted <- s9, result <- s10,
  copied <- s11, received <- s12, high <- s13, mp3_bytes <- s14, mp3_input <- s15,
  mp3_eof <- s16, opened <- s17, decoded <- s18, passed <- s19, lost <- s20

Mp3 == INSTANCE UrlSource WITH
  RewindBytes <- 2, SignatureBytes <- 2, Length <- 16, MaxChunk <- 6, MaxRead <- 1,
  TagBytes <- 4, TagMark <- 2, TagHeader <- 3, FrameBytes <- 3, FramePcm <- 2,
  Mp3Chunk <- 4,
  buffer <- s1, buffer_base <- s2, buffer_cursor <- s3, done <- s4, failed <- s5,
  content_type <- s6, pc <- s7, target_offset <- s8, wanted <- s9, result <- s10,
  copied <- s11, received <- s12, high <- s13, mp3_bytes <- s14, mp3_input <- s15,
  mp3_eof <- s16, opened <- s17, decoded <- s18, passed <- s19, lost <- s20

ASSUME Assumptions ==
  /\ Microphone!RingCapacityAssumption /\ Microphone!CaptureAssumption
  /\ Recorder!ChildProcessAssumption /\ Recorder!CaptureProcessAssumption
  /\ Player!ChildProcessAssumption /\ Player!PlaybackProcessAssumption
  /\ Url!UrlSourceAssumption /\ Mp3!UrlSourceAssumption /\ Mp3!UrlMp3Assumption

MCInit ==
  /\ Init
  /\ \/ part = "playback" /\ Unused0
     \/ part = "capture" /\ Microphone!Init /\ Unused19
     \/ part = "recorder" /\ Recorder!Init
     \/ part = "player" /\ Player!Init /\ Unused18
     \/ part = "url" /\ Url!SourceInit /\ Unused13
     \/ part = "mp3" /\ Mp3!Mp3Init

MCNext ==
  /\ UNCHANGED part
  /\ \/ part = "playback" /\ Next /\ UNCHANGED rest0
     \/ part = "capture" /\ Microphone!Next /\ UNCHANGED <<vars, rest19>>
     \/ part = "recorder" /\ Recorder!Next /\ UNCHANGED vars
     \/ part = "player" /\ Player!Next /\ UNCHANGED <<vars, rest18>>
     \/ part = "url" /\ Url!SourceNext /\ UNCHANGED <<vars, rest13>>
     \/ part = "mp3" /\ Mp3!Mp3Next /\ UNCHANGED vars

\* A call goes on.
MCStep ==
  /\ UNCHANGED part
  /\ \/ part = "playback" /\ Step /\ UNCHANGED rest0
     \/ part = "recorder" /\ Recorder!Step /\ UNCHANGED vars
     \/ part = "player" /\ Player!Step /\ UNCHANGED <<vars, rest18>>
     \/ part = "url" /\ Url!SourceStep /\ UNCHANGED <<vars, rest13>>
     \/ part = "mp3" /\ Mp3!Mp3Step /\ UNCHANGED vars

\* A device calls back, the play command plays, a transfer moves on.
Elsewhere ==
  /\ UNCHANGED part
  /\ \/ part = "playback" /\ Callback /\ UNCHANGED rest0
     \/ part = "player" /\ Player!Child /\ UNCHANGED <<vars, rest18>>
     \/ part \in {"url", "mp3"} /\ Url!Transfer /\ UNCHANGED <<vars, rest13>>

\* The fairness of the components: part never changes, so that each of the two
\* conditions is that of the handle at work.
MCSpec == MCInit /\ [][MCNext]_mcVars /\ WF_mcVars(MCStep) /\ WF_mcVars(Elsewhere)

-----------------------------------------------------------------------------
(* Properties, beside PlaybackExact and DrainedIsHeard: the parts are      *)
(* explained in the component modules.                                     *)

\* Unless a drop overtakes a read in progress, frames are delivered in the order
\* captured and none twice; a gap is flagged as an overrun; a drop frees exactly the
\* slots the period is then copied to; no callback runs on a released handle
\* (capture_callback, capture_read, capture_destroy).
CaptureExact ==
  part = "capture" =>
    /\ Microphone!TypeOK
    /\ Microphone!DeliveredUnlessOvertaken /\ Microphone!GapsAreOverruns
    /\ Microphone!RingInOrder /\ Microphone!NoCallbackAfterDestroy

\* No byte is lost, repeated or shifted between the child's pipe and the frames
\* read, nor between the frames written and what the play command is given
\* (process capture_read until a read fails or the child is stopped or restarted,
\* process playback_write).  Between calls the pid, the pipe
\* and started agree, and a child is waited for before it is forgotten, if at most
\* one wait of a stop is interrupted (process_stop).
ProcessExact ==
  /\ part = "recorder" =>
       /\ Recorder!TypeOK /\ Recorder!StreamExact
       /\ Recorder!OwnsChild /\ Recorder!ChildrenReaped
  /\ part = "player" =>
       /\ Player!TypeOK /\ Player!PlayedInOrder
       /\ Player!OwnsChild /\ Player!ChildrenReaped

\* The buffer is the received part of the response from buffer_base on, with the
\* cursor in it and the promised bytes behind it, below either decoder (url_write,
\* discard_consumed); MP3 frames are decoded in order and once, and none is missing
\* but those the MP3 decoder itself passed over (decode_next_frame, skip_id3v2,
\* skip_to_sync).
SourceExact ==
  /\ part = "url" => Url!SourceTypeOK /\ Url!WindowExact /\ Url!RewindKept
  /\ part = "mp3" =>
       Mp3!Mp3TypeOK /\ Mp3!WindowExact /\ Mp3!RewindKept /\ Mp3!FramesInOrder

\* What a call reports is so.  The process drain answers OK only when the command
\* has played all that was written (process playback_drain); a read gives the bytes
\* the cursor passes, fewer than asked for only at the end or after a failure
\* (url_read).
ReportsTrue ==
  [][/\ part = "player" => Player!DrainPlayed
     /\ part \in {"url", "mp3"} => Url!ReadExact]_mcVars

\* A call is in progress.  Two are not counted: a drain of a native device, because
\* a device that stops leaves it waiting, and a wait_ready without a timeout as
\* long as the child neither writes nor ends.
InCall ==
  \/ part = "playback" /\ pc \in {"write", "commit", "load", "store"}
  \/ part = "recorder" /\ Recorder!InCall
  \/ part = "player" /\ s10 \notin {"idle", "gone"}
  \/ part \in {"url", "mp3"} /\ s7 \notin {"idle", "closed"}

\* A call returns: a write to a running device (playback_write); reads, writes,
\* stops and drains on a child process, its wait_ready when there is a timeout or
\* the child writes or ends (wait_expired); a read of a URL source, whatever the
\* transfer does.
CallsReturn == InCall ~> ~InCall
=============================================================================
