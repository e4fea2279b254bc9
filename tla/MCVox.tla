------------------------------- MODULE MCVox -------------------------------
(***************************************************************************)
(* VOX and push-to-talk handles for TLC.  A handle shares nothing with the *)
(* others, so a behaviour is that of one handle: part says of which.       *)
(*   vox          the handle of the .cfg has a time cap below its spool    *)
(*                cap, and every I/O failure                               *)
(*   vox_spool    no time cap, so that the spool cap cuts, and no failure  *)
(*   ptt          a push-to-talk handle with a time cap                    *)
(*   ptt_spool    one without, with every I/O failure                      *)
(* Every loudness pattern of every batch of at most MaxBatch frames is     *)
(* pushed, with every refusal of a sink.  The time cap of vox is the spool *)
(* cap of vox_spool, so that Budget bounds both.                           *)
(***************************************************************************)
EXTENDS Vox

VARIABLES
  part,
  \* Ptt
  p_open, p_start, p_frames, p_spool_file, p_spool, p_total, p_speech, p_silence,
  p_cursor, p_index, p_error, p_pc, p_todo, p_cut, p_input, p_ret, p_healthy,
  p_tx, p_last, p_boundary, ptt_pressed

pttVars ==
  <<p_open, p_start, p_frames, p_spool_file, p_spool, p_total, p_speech, p_silence,
    p_cursor, p_index, p_error, p_pc, p_todo, p_cut, p_input, p_ret, p_healthy,
    p_tx, p_last, p_boundary, ptt_pressed>>
mcVars == <<vars, part, pttVars>>

Spooled == INSTANCE Vox WITH
  MaxSegment <- 0, MinSegment <- 2, MaxSpool <- MaxSegment, IoFaults <- {}

Ptt == INSTANCE Ptt WITH
  ReleaseSilence <- 1, MaxSegment <- 3, MinSegment <- 2, FrameCapacity <- 1,
  MaxSpool <- 4, IoFaults <- {}, MaxInput <- 9,
  open <- p_open, segment_start_frame <- p_start, frames <- p_frames,
  spool_file <- p_spool_file, spool <- p_spool, total_frame_count <- p_total,
  speech_frame_count <- p_speech, silence_frames <- p_silence,
  source_frame_cursor <- p_cursor, segment_index <- p_index,
  callback_error <- p_error, pc <- p_pc, todo <- p_todo, cut <- p_cut,
  input <- p_input, ret <- p_ret, healthy <- p_healthy, tx <- p_tx,
  last <- p_last, boundary <- p_boundary

PttSpooled == INSTANCE Ptt WITH
  ReleaseSilence <- 1, MaxSegment <- 0, MinSegment <- 2, FrameCapacity <- 1,
  MaxSpool <- 3, MaxInput <- 6,
  open <- p_open, segment_start_frame <- p_start, frames <- p_frames,
  spool_file <- p_spool_file, spool <- p_spool, total_frame_count <- p_total,
  speech_frame_count <- p_speech, silence_frames <- p_silence,
  source_frame_cursor <- p_cursor, segment_index <- p_index,
  callback_error <- p_error, pc <- p_pc, todo <- p_todo, cut <- p_cut,
  input <- p_input, ret <- p_ret, healthy <- p_healthy, tx <- p_tx,
  last <- p_last, boundary <- p_boundary

MCInit == part \in {"vox", "vox_spool", "ptt", "ptt_spool"} /\ Init /\ Ptt!Init

VoxMoves(A, B) ==
  /\ \/ part = "vox" /\ A
     \/ part = "vox_spool" /\ B
  /\ UNCHANGED <<part, pttVars>>
PttMoves(A, B) ==
  /\ \/ part = "ptt" /\ A
     \/ part = "ptt_spool" /\ B
  /\ UNCHANGED <<part, vars>>

MCNext == VoxMoves(Next, Spooled!Next) \/ PttMoves(Ptt!Next, PttSpooled!Next)

\* The fairness of FairSpec: a call goes on.  part never changes, so that the
\* condition is that of the handle at work.
MCSpec ==
  /\ MCInit /\ [][MCNext]_mcVars
  /\ WF_mcVars(VoxMoves(Step, Spooled!Step) \/ PttMoves(Ptt!Step, PttSpooled!Step))

-----------------------------------------------------------------------------
(* Properties: those of Vox, and these two.                                *)

\* Push to talk: the open segment is the run of frames pushed with the button
\* down, in memory and in the file together, and no segment is longer than the
\* caps of its handle (ptt_push, vox_append_frame); segments hold different
\* frames, in input order (vox_emit).
HeldRuns ==
  /\ [](/\ Ptt!TypeOK /\ Ptt!HeldRun
        /\ part = "ptt" => Ptt!Budget
        /\ part = "ptt_spool" => PttSpooled!Budget)
  /\ Ptt!SegmentsInOrder

\* Every call on a handle of either kind returns, the retry of a frame after a
\* spool cut included.
EveryCallReturns == (pc # "idle" \/ p_pc # "idle") ~> (pc = "idle" /\ p_pc = "idle")
=============================================================================
