------------------------------ MODULE PcmRing ------------------------------
(***************************************************************************)
(* ma_pcm_rb, the ring buffer between a device thread and the caller's     *)
(* thread, as audio.c uses it.  It is a library's: one thread writes, one  *)
(* reads, each first acquiring a contiguous chunk and committing it when   *)
(* the copy is done.  The positions count frames and never wrap here; the  *)
(* slot of a position is the position modulo the capacity.  A frame is the *)
(* number it was given by the thread that made it.                         *)
(***************************************************************************)
EXTENDS Naturals, Sequences, FiniteSetsExt

CONSTANT RingCapacity
ASSUME RingCapacityAssumption == RingCapacity \in Nat \ {0}

VARIABLES rb, rb_read, rb_write

ringVars == <<rb, rb_read, rb_write>>

NoFrame == 0

RingInit ==
  /\ rb = [slot \in 0 .. RingCapacity - 1 |-> NoFrame]
  /\ rb_read = 0
  /\ rb_write = 0

RingSlot(position) == position % RingCapacity

AvailableRead == IF rb_write > rb_read THEN rb_write - rb_read ELSE 0

AvailableWrite == RingCapacity - Min({AvailableRead, RingCapacity})

\* The length of the chunk an acquire grants: what is there, up to the end of
\* the storage.
AcquireRead(wanted) ==
  Min({wanted, AvailableRead, RingCapacity - RingSlot(rb_read)})

AcquireWrite(wanted) ==
  Min({wanted, AvailableWrite, RingCapacity - RingSlot(rb_write)})

\* The frames a chunk holds now.
Chunk(position, count) ==
  [i \in 1 .. count |-> rb[RingSlot(position + i - 1)]]

\* The storage after copying count frames, numbered from first on, to position.
Filled(position, count, first) ==
  [slot \in DOMAIN rb |->
     LET hits == {i \in 0 .. count - 1 : RingSlot(position + i) = slot}
     IN  IF hits = {} THEN rb[slot] ELSE first + Min(hits)]

CommitWrite(count) == rb_write' = rb_write + count

\* A commit that would run over the end of the storage is refused.
CommitRead(count) ==
  rb_read' = IF RingSlot(rb_read) + count > RingCapacity
               THEN rb_read ELSE rb_read + count

SeekRead(count) == rb_read' = rb_read + Min({count, AvailableRead})

RingTypeOK ==
  /\ rb \in [0 .. RingCapacity - 1 -> Nat]
  /\ rb_read \in Nat
  /\ rb_write \in Nat

=============================================================================
