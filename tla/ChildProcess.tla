---------------------------- MODULE ChildProcess ----------------------------
(***************************************************************************)
(* The process backend of cpkt_audio: a handle owns at most one child (the *)
(* platform's record or play command) and one end of a pipe to it.         *)
(* A byte is <<n, i>>: byte i of what the n-th child of the handle writes  *)
(* or is written.                                                          *)
(***************************************************************************)
EXTENDS Naturals, Sequences

CONSTANTS
  MaxChildren,   \* bound: children spawned over a behaviour
  MaxSignals     \* bound: system calls interrupted by a signal

ChildProcessAssumption == MaxChildren \in Nat /\ MaxSignals \in Nat

VARIABLES
  process_pid,   \* the child the handle owns, by number; 0 for none (-1)
  process_fd,    \* the handle's end of the pipe is open
  child,         \* what has become of the latest child
  pipe,          \* the bytes in the pipe
  spawned,       \* children so far
  signals,       \* interrupted calls so far
  leaked         \* the handle forgot a child it had not waited for

childVars == <<process_pid, process_fd, child, pipe, spawned, signals, leaked>>

ChildInit ==
  /\ process_pid = 0 /\ process_fd = FALSE
  /\ child = "none" /\ pipe = <<>>
  /\ spawned = 0 /\ signals = 0 /\ leaked = FALSE

ProcessSpawn ==
  /\ spawned < MaxChildren
  /\ spawned' = spawned + 1
  /\ process_pid' = spawned'
  /\ process_fd' = TRUE
  /\ child' = "running"
  /\ pipe' = <<>>
  /\ UNCHANGED <<signals, leaked>>

\* The command is missing, or pipe or fork fails.
ProcessSpawnFails ==
  /\ process_pid' = 0
  /\ process_fd' = FALSE
  /\ UNCHANGED <<child, pipe, spawned, signals, leaked>>

\* A system call returns EINTR.
Interrupted == signals < MaxSignals /\ signals' = signals + 1

Ended == child \in {"exited", "failed"}

\* process_stop up to its first waitpid: the pipe is closed and the child gets
\* SIGTERM, of which it dies unless it has ended before.
ProcessTerminate ==
  /\ process_fd' = FALSE
  /\ pipe' = <<>>
  /\ child' = IF process_pid # 0 /\ child = "running" THEN "failed" ELSE child
  /\ UNCHANGED <<process_pid, spawned, signals, leaked>>

\* waitpid returns for the ended child, or fails because something else in the
\* program has waited for it (ECHILD); the handle forgets it.
Reap ==
  /\ Ended
  /\ child' = "reaped"
  /\ process_pid' = 0
  /\ UNCHANGED <<process_fd, pipe, spawned, signals, leaked>>

WaitInterrupted ==
  /\ Interrupted
  /\ UNCHANGED <<process_pid, process_fd, child, pipe, spawned, leaked>>

\* The handle forgets the child although waitpid failed.
Forget ==
  /\ Interrupted
  /\ process_pid' = 0
  /\ leaked' = TRUE
  /\ UNCHANGED <<process_fd, child, pipe, spawned>>

ChildTypeOK ==
  /\ process_pid \in 0 .. MaxChildren
  /\ process_fd \in BOOLEAN
  /\ child \in {"none", "running", "exited", "failed", "reaped"}
  /\ pipe \in Seq((1 .. MaxChildren) \X Nat)
  /\ spawned \in 0 .. MaxChildren /\ signals \in 0 .. MaxSignals
  /\ leaked \in BOOLEAN

=============================================================================
