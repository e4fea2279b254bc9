--------------------------- MODULE PlaybackProofs ---------------------------
(***************************************************************************)
(* Playback on a native device, for any ring, period and length of a write *)
(* call: the caller's thread and the device's thread share the ring and    *)
(* the counter without a lock.                                             *)
(***************************************************************************)
EXTENDS Playback, TLAPS

-----------------------------------------------------------------------------
(* The ring.                                                               *)

\* The least of three numbers.
LEMMA MinOfThree ==
  ASSUME NEW a \in Int, NEW b \in Int, NEW c \in Int
  PROVE  LET m == Min({a, b, c})
         IN  m \in {a, b, c} /\ m <= a /\ m <= b /\ m <= c
<1> DEFINE S == {a, b, c}
<1>1. \E x \in S : \A y \in S : x =< y
  BY SMT
<1> QED BY <1>1 DEF Min

\* The least of two.
LEMMA MinOfTwo ==
  ASSUME NEW a \in Int, NEW b \in Int
  PROVE  LET m == Min({a, b}) IN m \in {a, b} /\ m <= a /\ m <= b
<1> DEFINE S == {a, b}
<1>1. \E x \in S : \A y \in S : x =< y
  BY SMT
<1> QED BY <1>1 DEF Min

\* The least of one.
LEMMA MinOfOne == ASSUME NEW a \in Int PROVE Min({a}) = a
BY DEF Min

\* A position has a slot.
LEMMA SlotRange == ASSUME NEW k \in Nat PROVE RingSlot(k) \in 0 .. RingCapacity - 1
BY RingCapacityAssumption DEF RingSlot

\* Positions less than a capacity apart have different slots.
LEMMA SlotsDiffer ==
  ASSUME NEW j \in Nat, NEW k \in Nat, j < k, k < j + RingCapacity
  PROVE  RingSlot(j) # RingSlot(k)
<1> DEFINE C == RingCapacity
<1>1. C \in Nat \ {0}
  BY RingCapacityAssumption
<1>2. ASSUME NEW n \in Nat PROVE \E q \in Int : n % C = n - C * q
  <2>1. n % C = n - C * (n \div C) /\ n \div C \in Int
    BY <1>1, Z3
  <2> QED BY <2>1
<1>3. PICK p \in Int : j % C = j - C * p
  BY <1>2
<1>4. PICK q \in Int : k % C = k - C * q
  BY <1>2
<1> SUFFICES ASSUME j % C = k % C PROVE FALSE
  BY DEF RingSlot
<1> HIDE DEF C
<1>5. k - j = C * q - C * p
  BY <1>1, <1>3, <1>4
<1>6. C * q - C * p = C * (q - p)
  BY <1>1
<1>7. 0 < C * (q - p) /\ C * (q - p) < C
  BY <1>1, <1>5, <1>6 DEF C
<1>8. q - p >= 1
  BY <1>1, <1>7
<1>9. C * (q - p) >= C
  BY <1>1, <1>8
<1> QED BY <1>1, <1>7, <1>9

\* A copy of n frames to position p fills its slots and leaves the others.
CopiedAt(p, n, f) ==
  /\ Filled(p, n, f) \in [0 .. RingCapacity - 1 -> Nat]
  /\ \A i \in 0 .. n - 1 : Filled(p, n, f)[RingSlot(p + i)] = f + i
  /\ \A k \in Nat : (\A i \in 0 .. n - 1 : RingSlot(p + i) # RingSlot(k))
                      => Filled(p, n, f)[RingSlot(k)] = rb[RingSlot(k)]

\* It does for any copy that fits in the ring.
LEMMA FilledSlots ==
  ASSUME RingTypeOK, NEW p \in Nat, NEW n \in Nat, NEW f \in Nat, n <= RingCapacity
  PROVE  CopiedAt(p, n, f)
<1> DEFINE Hits(slot) == {i \in 0 .. n - 1 : RingSlot(p + i) = slot}
           New(slot) == IF Hits(slot) = {} THEN rb[slot] ELSE f + Min(Hits(slot))
<1>1. DOMAIN rb = 0 .. RingCapacity - 1 /\ \A slot \in DOMAIN rb : rb[slot] \in Nat
  BY DEF RingTypeOK
<1>2. Filled(p, n, f) = [slot \in 0 .. RingCapacity - 1 |-> New(slot)]
  BY <1>1 DEF Filled
<1>3. ASSUME NEW i \in 0 .. n - 1 PROVE Hits(RingSlot(p + i)) = {i}
  <2>1. ASSUME NEW j \in 0 .. n - 1, j # i PROVE RingSlot(p + j) # RingSlot(p + i)
    <3>1. /\ p + i \in Nat /\ p + j \in Nat /\ RingCapacity \in Nat
          /\ (p + i < p + j /\ p + j < p + i + RingCapacity)
             \/ (p + j < p + i /\ p + i < p + j + RingCapacity)
      BY <2>1, RingCapacityAssumption
    <3> QED BY <3>1, SlotsDiffer
  <2> QED BY <2>1
<1>4. ASSUME NEW i \in 0 .. n - 1 PROVE New(RingSlot(p + i)) = f + i
  BY <1>3, MinOfOne
<1>5. ASSUME NEW slot \in 0 .. RingCapacity - 1 PROVE New(slot) \in Nat
  <2>1. CASE Hits(slot) = {}
    BY <1>1, <2>1
  <2>2. CASE Hits(slot) # {}
    <3>1. PICK i \in 0 .. n - 1 : RingSlot(p + i) = slot
      BY <2>2
    <3>2. New(slot) = f + i
      BY <1>4, <3>1, ZenonT(60)
    <3> HIDE DEF New
    <3> QED BY <3>2
  <2> QED BY <2>1, <2>2
<1>6. ASSUME NEW k \in Nat, \A i \in 0 .. n - 1 : RingSlot(p + i) # RingSlot(k)
      PROVE  New(RingSlot(k)) = rb[RingSlot(k)]
  BY <1>6
<1>7. \A k \in Nat : RingSlot(k) \in 0 .. RingCapacity - 1
  BY SlotRange
<1>8. \A i \in 0 .. n - 1 : p + i \in Nat
  OBVIOUS
<1> HIDE DEF New
<1> QED BY <1>2, <1>4, <1>5, <1>6, <1>7, <1>8, Zenon DEF CopiedAt

\* Two runs of numbers that follow each other.
LEMMA Joined ==
  ASSUME NEW m \in Nat, NEW n \in Nat
  PROVE  [i \in 1 .. m |-> i] \o [i \in 1 .. n |-> m + i] = [i \in 1 .. m + n |-> i]
<1> DEFINE s == [i \in 1 .. m |-> i]
           t == [i \in 1 .. n |-> m + i]
<1>1. s \in Seq(Nat) /\ t \in Seq(Nat) /\ Len(s) = m /\ Len(t) = n
  OBVIOUS
<1>2. s \o t \in Seq(Nat) /\ Len(s \o t) = m + n
  BY <1>1
<1>3. ASSUME NEW i \in 1 .. m + n PROVE (s \o t)[i] = i
  BY <1>1
<1> QED BY <1>2, <1>3

-----------------------------------------------------------------------------
(* The inductive invariant.                                                *)

\* Frames copied into the ring, and those taken out, committed or not.
Filling == IF pc = "commit" THEN rb_write + chunk ELSE rb_write
Taken == IF cb = "commit" THEN rb_read + cb_chunk ELSE rb_read

\* The frame at position k of the ring has number k + 1.
RingInv ==
  /\ rb_read <= rb_write /\ Filling <= rb_read + RingCapacity
  /\ \A k \in Nat : rb_read <= k /\ k < Filling => rb[RingSlot(k)] = k + 1

\* The write call: what it has committed, and what is still to be copied.
CallerInv ==
  /\ pc \in {"write", "commit"} =>
       rb_write + 1 = first + total_written /\ total_written <= frame_count
  /\ pc = "commit" => total_written + chunk <= frame_count
  /\ pc \in {"load", "store"} =>
       /\ rb_write + 1 = first + total_written + chunk
       /\ total_written + chunk <= frame_count
  /\ pc \notin {"write", "commit", "load", "store"} => rb_write + 1 = first
  /\ pc \in {"write", "commit", "load", "store"} => started
  /\ pc = "drain_pending" => rb_read = rb_write

\* The callback: what it has taken is there, and lies within the storage.
DeviceInv ==
  /\ heard = [i \in 1 .. Taken |-> i]
  /\ cb = "read" => remaining > 0
  /\ cb \notin {"wait", "read"} => 1 <= cb_chunk /\ cb_chunk <= remaining
  /\ cb = "commit" =>
       rb_read + cb_chunk <= rb_write /\ RingSlot(rb_read) + cb_chunk <= RingCapacity
  /\ ~running => cb = "wait"
  /\ pc = "gone" => ~running
  /\ pc = "start" => ~started
  /\ ~started /\ pc # "start" => ~running

\* The shared counter: only a write raises it, so that what either thread has
\* loaded bounds what the other makes of it.
PendingInv ==
  /\ ~started => pending_frames = 0 /\ cb \notin {"load", "subtract"}
  /\ pc = "store" => pending_frames <= loaded
  /\ pc = "store" /\ cb = "subtract" => cb_loaded <= loaded
  /\ cb = "load" => cb_chunk <= pending_frames
  /\ cb = "subtract" => cb_chunk <= cb_loaded /\ cb_loaded <= pending_frames

\* The inductive invariant.
IInv == TypeOK /\ RingInv /\ CallerInv /\ DeviceInv /\ PendingInv

\* A fresh handle.
LEMMA Initially == Init => IInv
<1> SUFFICES ASSUME Init PROVE IInv
  OBVIOUS
<1> USE DEF Init, RingInit
<1>1. TypeOK
  <2>1. RingTypeOK
    BY RingCapacityAssumption DEF RingTypeOK, NoFrame
  <2>2. heard \in Seq(Nat)
    OBVIOUS
  <2>3. remaining \in 0 .. Period /\ cb_chunk \in 0 .. Period
    BY PlaybackAssumption
  <2> QED BY <2>1, <2>2, <2>3, ZenonT(60) DEF TypeOK
<1>2. RingInv
  BY RingCapacityAssumption DEF RingInv, Filling
<1>3. CallerInv /\ PendingInv
  BY DEF CallerInv, PendingInv
<1>4. DeviceInv
  <2>1. heard = [i \in 1 .. 0 |-> i]
    OBVIOUS
  <2> QED BY <2>1 DEF DeviceInv, Taken
<1> QED BY <1>1, <1>2, <1>3, <1>4 DEF IInv

\* A start of a started handle changes nothing the invariant speaks of.
LEMMA StartAgainStep == ASSUME IInv, StartAgain PROVE IInv'
<1> USE DEF IInv
<1>1. TypeOK'
  BY PlaybackAssumption DEF StartAgain, Return, ringVars, writeVars, deviceVars, TypeOK, RingTypeOK, DeviceInv, PendingInv
<1>2. RingInv'
  BY DEF StartAgain, Return, ringVars, writeVars, deviceVars, RingInv, Filling, RingSlot
<1>3. CallerInv'
  BY DEF StartAgain, Return, ringVars, writeVars, deviceVars, CallerInv, TypeOK, RingTypeOK, RingInv
<1>4. DeviceInv'
  BY PlaybackAssumption DEF StartAgain, Return, ringVars, writeVars, deviceVars, DeviceInv, Taken, CallerInv, TypeOK, RingSlot
<1>5. PendingInv'
  BY SMTT(60) DEF StartAgain, Return, ringVars, writeVars, deviceVars, PendingInv, CallerInv, DeviceInv, TypeOK
<1> QED BY <1>1, <1>2, <1>3, <1>4, <1>5

\* ma_device_start lets the callback run before the counters are cleared.
LEMMA StartDeviceStep == ASSUME IInv, StartDevice PROVE IInv'
<1> USE DEF IInv
<1>1. TypeOK'
  BY PlaybackAssumption, Zenon DEF StartDevice, Return, ringVars, writeVars, deviceVars, TypeOK, RingTypeOK, DeviceInv, PendingInv
<1>2. RingInv'
  BY DEF StartDevice, Return, ringVars, writeVars, deviceVars, RingInv, Filling, RingSlot
<1>3. CallerInv'
  BY DEF StartDevice, Return, ringVars, writeVars, deviceVars, CallerInv, TypeOK, RingTypeOK, RingInv
<1>4. DeviceInv'
  BY PlaybackAssumption DEF StartDevice, Return, ringVars, writeVars, deviceVars, DeviceInv, Taken, CallerInv, TypeOK, RingSlot
<1>5. PendingInv'
  BY DEF StartDevice, Return, ringVars, writeVars, deviceVars, PendingInv, CallerInv, DeviceInv, TypeOK
<1> QED BY <1>1, <1>2, <1>3, <1>4, <1>5

\* start clears pending_frames: until then it is zero and no callback subtracts.
LEMMA StartedStep == ASSUME IInv, Started PROVE IInv'
<1> USE DEF IInv
<1>1. TypeOK'
  BY PlaybackAssumption DEF Started, Return, ringVars, writeVars, deviceVars, TypeOK, RingTypeOK, DeviceInv, PendingInv
<1>2. RingInv'
  BY DEF Started, Return, ringVars, writeVars, deviceVars, RingInv, Filling, RingSlot
<1>3. CallerInv'
  BY DEF Started, Return, ringVars, writeVars, deviceVars, CallerInv, TypeOK, RingTypeOK, RingInv
<1>4. DeviceInv'
  BY PlaybackAssumption DEF Started, Return, ringVars, writeVars, deviceVars, DeviceInv, Taken, CallerInv, TypeOK, RingSlot
<1>5. PendingInv'
  BY DEF Started, Return, ringVars, writeVars, deviceVars, PendingInv, CallerInv, DeviceInv, TypeOK
<1> QED BY <1>1, <1>2, <1>3, <1>4, <1>5

\* A write begins after the last frame of the one before it.
LEMMA WriteStep == ASSUME IInv, NEW count \in 1 .. MaxWrite, Write(count) PROVE IInv'
<1> USE DEF IInv
<1>1. TypeOK'
  BY PlaybackAssumption DEF Write, Return, ringVars, writeVars, deviceVars, TypeOK, RingTypeOK, DeviceInv, PendingInv
<1>2. RingInv'
  BY DEF Write, Return, ringVars, writeVars, deviceVars, RingInv, Filling, RingSlot
<1>3. CallerInv'
  BY SMTT(60) DEF Write, Return, ringVars, writeVars, deviceVars, CallerInv, TypeOK, RingTypeOK, RingInv
<1>4. DeviceInv'
  BY PlaybackAssumption DEF Write, Return, ringVars, writeVars, deviceVars, DeviceInv, Taken, CallerInv, TypeOK, RingSlot
<1>5. PendingInv'
  BY SMTT(60) DEF Write, Return, ringVars, writeVars, deviceVars, PendingInv, CallerInv, DeviceInv, TypeOK
<1> QED BY <1>1, <1>2, <1>3, <1>4, <1>5, SMTT(60)

\* The load half of pending_frames += chunk.
LEMMA WriteLoadStep == ASSUME IInv, WriteLoad PROVE IInv'
<1> USE DEF IInv
<1>1. TypeOK'
  BY PlaybackAssumption DEF WriteLoad, ringVars, writeVars, deviceVars, TypeOK, RingTypeOK, DeviceInv, PendingInv
<1>2. RingInv'
  BY DEF WriteLoad, ringVars, writeVars, deviceVars, RingInv, Filling, RingSlot
<1>3. CallerInv'
  BY DEF WriteLoad, ringVars, writeVars, deviceVars, CallerInv, TypeOK, RingTypeOK, RingInv
<1>4. DeviceInv'
  BY PlaybackAssumption DEF WriteLoad, ringVars, writeVars, deviceVars, DeviceInv, Taken, CallerInv, TypeOK, RingSlot
<1>5. PendingInv'
  BY SMTT(60) DEF WriteLoad, ringVars, writeVars, deviceVars, PendingInv, CallerInv, DeviceInv, TypeOK
<1> QED BY <1>1, <1>2, <1>3, <1>4, <1>5

\* The store half: it may undo a subtraction, and never lowers the counter.
LEMMA WriteStoreStep == ASSUME IInv, WriteStore PROVE IInv'
<1> USE DEF IInv
<1>1. TypeOK'
  BY PlaybackAssumption DEF WriteStore, ringVars, writeVars, deviceVars, TypeOK, RingTypeOK, DeviceInv, PendingInv
<1>2. RingInv'
  BY DEF WriteStore, ringVars, writeVars, deviceVars, RingInv, Filling, RingSlot
<1>3. CallerInv'
  BY DEF WriteStore, ringVars, writeVars, deviceVars, CallerInv, TypeOK, RingTypeOK, RingInv
<1>4. DeviceInv'
  BY PlaybackAssumption DEF WriteStore, ringVars, writeVars, deviceVars, DeviceInv, Taken, CallerInv, TypeOK, RingSlot
<1>5. PendingInv'
  BY SMTT(60) DEF WriteStore, ringVars, writeVars, deviceVars, PendingInv, CallerInv, DeviceInv, TypeOK
<1> QED BY <1>1, <1>2, <1>3, <1>4, <1>5

\* write returns with every frame of the call in the ring.
LEMMA WriteDoneStep == ASSUME IInv, WriteDone PROVE IInv'
<1> USE DEF IInv
<1>1. TypeOK'
  BY PlaybackAssumption DEF WriteDone, Return, ringVars, writeVars, deviceVars, TypeOK, RingTypeOK, DeviceInv, PendingInv
<1>2. RingInv'
  BY DEF WriteDone, Return, ringVars, writeVars, deviceVars, RingInv, Filling, RingSlot
<1>3. CallerInv'
  BY DEF WriteDone, Return, ringVars, writeVars, deviceVars, CallerInv, TypeOK, RingTypeOK, RingInv
<1>4. DeviceInv'
  BY PlaybackAssumption DEF WriteDone, Return, ringVars, writeVars, deviceVars, DeviceInv, Taken, CallerInv, TypeOK, RingSlot
<1>5. PendingInv'
  BY SMTT(60) DEF WriteDone, Return, ringVars, writeVars, deviceVars, PendingInv, CallerInv, DeviceInv, TypeOK
<1> QED BY <1>1, <1>2, <1>3, <1>4, <1>5

\* drain begins.
LEMMA DrainStep == ASSUME IInv, Drain PROVE IInv'
<1> USE DEF IInv
<1>1. TypeOK'
  BY PlaybackAssumption DEF Drain, ringVars, writeVars, deviceVars, TypeOK, RingTypeOK, DeviceInv, PendingInv
<1>2. RingInv'
  BY DEF Drain, ringVars, writeVars, deviceVars, RingInv, Filling, RingSlot
<1>3. CallerInv'
  BY DEF Drain, ringVars, writeVars, deviceVars, CallerInv, TypeOK, RingTypeOK, RingInv
<1>4. DeviceInv'
  BY PlaybackAssumption DEF Drain, ringVars, writeVars, deviceVars, DeviceInv, Taken, CallerInv, TypeOK, RingSlot
<1>5. PendingInv'
  BY SMTT(60) DEF Drain, ringVars, writeVars, deviceVars, PendingInv, CallerInv, DeviceInv, TypeOK
<1> QED BY <1>1, <1>2, <1>3, <1>4, <1>5

\* The first loop of drain ends with the ring empty.
LEMMA DrainQueueStep == ASSUME IInv, DrainQueue PROVE IInv'
<1> USE DEF IInv
<1>1. TypeOK'
  BY PlaybackAssumption DEF DrainQueue, AvailableRead, ringVars, writeVars, deviceVars, TypeOK, RingTypeOK, DeviceInv, PendingInv
<1>2. RingInv'
  BY DEF DrainQueue, AvailableRead, ringVars, writeVars, deviceVars, RingInv, Filling, RingSlot
<1>3. CallerInv'
  BY DEF DrainQueue, AvailableRead, ringVars, writeVars, deviceVars, CallerInv, TypeOK, RingTypeOK, RingInv
<1>4. DeviceInv'
  BY PlaybackAssumption DEF DrainQueue, AvailableRead, ringVars, writeVars, deviceVars, DeviceInv, Taken, CallerInv, TypeOK, RingSlot
<1>5. PendingInv'
  BY SMTT(60) DEF DrainQueue, AvailableRead, ringVars, writeVars, deviceVars, PendingInv, CallerInv, DeviceInv, TypeOK
<1> QED BY <1>1, <1>2, <1>3, <1>4, <1>5

\* The second loop of drain ends.
LEMMA DrainPendingStep == ASSUME IInv, DrainPending PROVE IInv'
<1> USE DEF IInv
<1>1. TypeOK'
  BY PlaybackAssumption DEF DrainPending, Return, ringVars, writeVars, deviceVars, TypeOK, RingTypeOK, DeviceInv, PendingInv
<1>2. RingInv'
  BY DEF DrainPending, Return, ringVars, writeVars, deviceVars, RingInv, Filling, RingSlot
<1>3. CallerInv'
  BY DEF DrainPending, Return, ringVars, writeVars, deviceVars, CallerInv, TypeOK, RingTypeOK, RingInv
<1>4. DeviceInv'
  BY PlaybackAssumption DEF DrainPending, Return, ringVars, writeVars, deviceVars, DeviceInv, Taken, CallerInv, TypeOK, RingSlot
<1>5. PendingInv'
  BY SMTT(60) DEF DrainPending, Return, ringVars, writeVars, deviceVars, PendingInv, CallerInv, DeviceInv, TypeOK
<1> QED BY <1>1, <1>2, <1>3, <1>4, <1>5

\* stop waits for the callback, so no subtraction is under way when it clears.
LEMMA StopStep == ASSUME IInv, Stop PROVE IInv'
<1> USE DEF IInv
<1>1. TypeOK'
  <2>1. CASE started
    <3>1. /\ pc' = "idle" /\ ret' = "OK" /\ running' = FALSE /\ started' = FALSE
          /\ pending_frames' = 0 /\ turn_frames_written' = 0
          /\ UNCHANGED <<ringVars, writeVars, deviceVars>>
      BY <2>1 DEF Stop, Return
    <3> QED BY <3>1, ZenonT(60) DEF ringVars, writeVars, deviceVars, TypeOK, RingTypeOK
  <2>2. CASE ~started
    BY <2>2 DEF Stop, Return, ringVars, writeVars, deviceVars, TypeOK, RingTypeOK
  <2> QED BY <2>1, <2>2
<1>2. RingInv'
  BY DEF Stop, Return, ringVars, writeVars, deviceVars, RingInv, Filling, RingSlot
<1>3. CallerInv'
  BY DEF Stop, Return, ringVars, writeVars, deviceVars, CallerInv, TypeOK, RingTypeOK, RingInv
<1>4. DeviceInv'
  BY PlaybackAssumption DEF Stop, Return, ringVars, writeVars, deviceVars, DeviceInv, Taken, CallerInv, TypeOK, RingSlot
<1>5. PendingInv'
  BY DEF Stop, Return, ringVars, writeVars, deviceVars, PendingInv, CallerInv, DeviceInv, TypeOK
<1> QED BY <1>1, <1>2, <1>3, <1>4, <1>5

\* destroy waits for the callback and ends the device's thread.
LEMMA DestroyDeviceStep == ASSUME IInv, DestroyDevice PROVE IInv'
<1> USE DEF IInv
<1>1. TypeOK'
  BY PlaybackAssumption, ZenonT(60) DEF DestroyDevice, ringVars, writeVars, deviceVars, TypeOK, RingTypeOK, DeviceInv, PendingInv
<1>2. RingInv'
  BY DEF DestroyDevice, ringVars, writeVars, deviceVars, RingInv, Filling, RingSlot
<1>3. CallerInv'
  BY DEF DestroyDevice, ringVars, writeVars, deviceVars, CallerInv, TypeOK, RingTypeOK, RingInv
<1>4. DeviceInv'
  BY PlaybackAssumption DEF DestroyDevice, ringVars, writeVars, deviceVars, DeviceInv, Taken, CallerInv, TypeOK, RingSlot
<1>5. PendingInv'
  BY DEF DestroyDevice, ringVars, writeVars, deviceVars, PendingInv, CallerInv, DeviceInv, TypeOK
<1> QED BY <1>1, <1>2, <1>3, <1>4, <1>5

\* A callback begins with a whole period to fill.
LEMMA CallbackBeginStep == ASSUME IInv, CallbackBegin PROVE IInv'
<1> USE DEF IInv
<1>1. TypeOK'
  BY PlaybackAssumption DEF CallbackBegin, ringVars, unmoved, writeVars, TypeOK, RingTypeOK, DeviceInv, PendingInv
<1>2. RingInv'
  BY DEF CallbackBegin, ringVars, unmoved, writeVars, RingInv, Filling, RingSlot
<1>3. CallerInv'
  BY DEF CallbackBegin, ringVars, unmoved, writeVars, CallerInv, TypeOK, RingTypeOK, RingInv
<1>4. DeviceInv'
  BY PlaybackAssumption DEF CallbackBegin, ringVars, unmoved, writeVars, DeviceInv, Taken, CallerInv, TypeOK, RingSlot
<1>5. PendingInv'
  BY SMTT(60) DEF CallbackBegin, ringVars, unmoved, writeVars, PendingInv, CallerInv, DeviceInv, TypeOK
<1> QED BY <1>1, <1>2, <1>3, <1>4, <1>5

\* The callback compares pending_frames with its chunk.
LEMMA CallbackTestStep == ASSUME IInv, CallbackTest PROVE IInv'
<1> USE DEF IInv
<1>1. TypeOK'
  BY PlaybackAssumption DEF CallbackTest, ringVars, unmoved, writeVars, TypeOK, RingTypeOK, DeviceInv, PendingInv
<1>2. RingInv'
  BY DEF CallbackTest, ringVars, unmoved, writeVars, RingInv, Filling, RingSlot
<1>3. CallerInv'
  BY DEF CallbackTest, ringVars, unmoved, writeVars, CallerInv, TypeOK, RingTypeOK, RingInv
<1>4. DeviceInv'
  BY PlaybackAssumption DEF CallbackTest, ringVars, unmoved, writeVars, DeviceInv, Taken, CallerInv, TypeOK, RingSlot
<1>5. PendingInv'
  BY SMTT(60) DEF CallbackTest, ringVars, unmoved, writeVars, PendingInv, CallerInv, DeviceInv, TypeOK
<1> QED BY <1>1, <1>2, <1>3, <1>4, <1>5

\* The subtraction's own load: nothing has lowered the counter since the test.
LEMMA CallbackLoadStep == ASSUME IInv, CallbackLoad PROVE IInv'
<1> USE DEF IInv
<1>1. TypeOK'
  BY PlaybackAssumption DEF CallbackLoad, ringVars, unmoved, writeVars, TypeOK, RingTypeOK, DeviceInv, PendingInv
<1>2. RingInv'
  BY DEF CallbackLoad, ringVars, unmoved, writeVars, RingInv, Filling, RingSlot
<1>3. CallerInv'
  BY DEF CallbackLoad, ringVars, unmoved, writeVars, CallerInv, TypeOK, RingTypeOK, RingInv
<1>4. DeviceInv'
  BY PlaybackAssumption DEF CallbackLoad, ringVars, unmoved, writeVars, DeviceInv, Taken, CallerInv, TypeOK, RingSlot
<1>5. PendingInv'
  BY SMTT(60) DEF CallbackLoad, ringVars, unmoved, writeVars, PendingInv, CallerInv, DeviceInv, TypeOK
<1> QED BY <1>1, <1>2, <1>3, <1>4, <1>5

\* The subtraction's store.
LEMMA CallbackSubtractStep == ASSUME IInv, CallbackSubtract PROVE IInv'
<1> USE DEF IInv
<1>1. TypeOK'
  BY PlaybackAssumption DEF CallbackSubtract, NextChunk, ringVars, unmoved, writeVars, TypeOK, RingTypeOK, DeviceInv, PendingInv
<1>2. RingInv'
  BY DEF CallbackSubtract, NextChunk, ringVars, unmoved, writeVars, RingInv, Filling, RingSlot
<1>3. CallerInv'
  BY DEF CallbackSubtract, NextChunk, ringVars, unmoved, writeVars, CallerInv, TypeOK, RingTypeOK, RingInv
<1>4. DeviceInv'
  BY PlaybackAssumption DEF CallbackSubtract, NextChunk, ringVars, unmoved, writeVars, DeviceInv, Taken, CallerInv, TypeOK, RingSlot
<1>5. PendingInv'
  BY SMTT(60) DEF CallbackSubtract, NextChunk, ringVars, unmoved, writeVars, PendingInv, CallerInv, DeviceInv, TypeOK
<1> QED BY <1>1, <1>2, <1>3, <1>4, <1>5

\* The other branch stores zero.
LEMMA CallbackClearStep == ASSUME IInv, CallbackClear PROVE IInv'
<1> USE DEF IInv
<1>1. TypeOK'
  BY PlaybackAssumption DEF CallbackClear, NextChunk, ringVars, unmoved, writeVars, TypeOK, RingTypeOK, DeviceInv, PendingInv
<1>2. RingInv'
  BY DEF CallbackClear, NextChunk, ringVars, unmoved, writeVars, RingInv, Filling, RingSlot
<1>3. CallerInv'
  BY DEF CallbackClear, NextChunk, ringVars, unmoved, writeVars, CallerInv, TypeOK, RingTypeOK, RingInv
<1>4. DeviceInv'
  BY PlaybackAssumption DEF CallbackClear, NextChunk, ringVars, unmoved, writeVars, DeviceInv, Taken, CallerInv, TypeOK, RingSlot
<1>5. PendingInv'
  BY SMTT(60) DEF CallbackClear, NextChunk, ringVars, unmoved, writeVars, PendingInv, CallerInv, DeviceInv, TypeOK
<1> QED BY <1>1, <1>2, <1>3, <1>4, <1>5

\* commit_write publishes the slots that were filled.
LEMMA WriteCommitStep == ASSUME IInv, WriteCommit PROVE IInv'
<1> USE DEF IInv
<1>1. TypeOK'
  BY DEF WriteCommit, CommitWrite, writeVars, deviceVars, TypeOK, RingTypeOK
<1>2. RingInv'
  BY DEF WriteCommit, CommitWrite, writeVars, RingInv, Filling, RingSlot, TypeOK, RingTypeOK
<1>3. CallerInv'
  BY DEF WriteCommit, CommitWrite, writeVars, CallerInv, TypeOK, RingTypeOK
<1>4. DeviceInv'
  BY DEF WriteCommit, CommitWrite, writeVars, deviceVars, DeviceInv, Taken, CallerInv, TypeOK,
         RingTypeOK, RingSlot
<1>5. PendingInv'
  BY SMTT(60) DEF WriteCommit, deviceVars, PendingInv, CallerInv, TypeOK
<1> QED BY <1>1, <1>2, <1>3, <1>4, <1>5

\* commit_read gives the slots back once their frames are out.
LEMMA CallbackCommitStep == ASSUME IInv, CallbackCommit PROVE IInv'
<1> USE DEF IInv
<1>0. rb_read' = rb_read + cb_chunk /\ rb_read' <= rb_write /\ cb = "commit" /\ cb' = "test"
  <2>0. cb_chunk \in Nat /\ rb_read \in Nat
    BY PlaybackAssumption DEF TypeOK, RingTypeOK
  <2>1. cb_chunk \in Nat /\ RingSlot(rb_read) \in Nat
    BY <2>0, SlotRange, RingCapacityAssumption, SMTT(60)
  <2> QED BY <2>1, RingCapacityAssumption, SMTT(60) DEF CallbackCommit, CommitRead, DeviceInv
<1>1. TypeOK'
  BY <1>0, PlaybackAssumption DEF CallbackCommit, unmoved, writeVars, TypeOK, RingTypeOK
<1>2. RingInv'
  <2>1. /\ Filling' = Filling /\ Filling \in Nat /\ rb_read \in Nat /\ cb_chunk \in Nat
        /\ rb' = rb /\ rb_write' = rb_write /\ rb_write \in Nat
    BY PlaybackAssumption DEF CallbackCommit, unmoved, writeVars, Filling, TypeOK, RingTypeOK
  <2>2. ASSUME NEW k \in Nat, rb_read' <= k, k < Filling PROVE rb[RingSlot(k)] = k + 1
    BY <1>0, <2>1, <2>2, SMTT(60) DEF RingInv
  <2>3. rb_read' <= rb_write /\ Filling <= rb_read' + RingCapacity
    BY <1>0, <2>1, RingCapacityAssumption, SMTT(60) DEF RingInv
  <2> QED BY <2>1, <2>2, <2>3, SMTT(60) DEF RingInv, RingSlot
<1>3. CallerInv'
  BY <1>0, PlaybackAssumption, SMTT(60) DEF CallbackCommit, unmoved, writeVars, CallerInv, TypeOK, RingTypeOK, DeviceInv
<1>4. DeviceInv'
  BY <1>0 DEF CallbackCommit, unmoved, DeviceInv, Taken
<1>5. PendingInv'
  BY DEF CallbackCommit, unmoved, writeVars, PendingInv
<1> QED BY <1>1, <1>2, <1>3, <1>4, <1>5

\* The callback copies frames the writer has published and may not overwrite.
LEMMA CallbackReadStep == ASSUME IInv, CallbackRead PROVE IInv'
<1> USE DEF IInv
<1> DEFINE c == AcquireRead(remaining)
<1>0. /\ remaining \in Nat /\ remaining <= Period /\ AvailableRead = rb_write - rb_read
      /\ RingSlot(rb_read) \in 0 .. RingCapacity - 1 /\ rb_read \in Nat /\ rb_write \in Nat
  BY SlotRange, PlaybackAssumption DEF TypeOK, RingTypeOK, RingInv, AvailableRead
<1>1. /\ c \in Nat /\ c <= remaining /\ rb_read + c <= rb_write
      /\ RingSlot(rb_read) + c <= RingCapacity
  <2>1. AvailableRead \in Nat /\ RingCapacity - RingSlot(rb_read) \in Nat
    BY <1>0, RingCapacityAssumption DEF RingInv
  <2>2. c \in {remaining, AvailableRead, RingCapacity - RingSlot(rb_read)}
        /\ c <= remaining /\ c <= AvailableRead /\ c <= RingCapacity - RingSlot(rb_read)
    <3>1. /\ remaining \in Int /\ AvailableRead \in Int
          /\ RingCapacity - RingSlot(rb_read) \in Int
      BY <1>0, <2>1, SMTT(60)
    <3> HIDE DEF IInv
    <3> QED BY <3>1, MinOfThree, Zenon DEF AcquireRead
  <2> HIDE DEF c
  <2> QED BY <1>0, <2>1, <2>2, RingCapacityAssumption, SMTT(60)
<1> HIDE DEF c
<1>2. cb = "read" /\ cb_chunk' = c /\ UNCHANGED <<ringVars, pending_frames, unmoved, cb_loaded>>
  BY DEF CallbackRead, c
<1>3. /\ c = 0 => cb' = "wait" /\ remaining' = 0 /\ heard' = heard /\ underrun' = TRUE
      /\ c # 0 => /\ cb' = "commit" /\ UNCHANGED <<underrun, remaining>>
                  /\ heard' = heard \o Chunk(rb_read, c)
  BY <1>2 DEF CallbackRead
<1>4. RingInv'
  BY <1>2 DEF ringVars, unmoved, writeVars, RingInv, Filling, RingSlot
<1>5. CallerInv'
  BY <1>2 DEF ringVars, unmoved, writeVars, CallerInv
<1>6. heard' = [i \in 1 .. Taken' |-> i]
  <2>1. CASE c = 0
    BY <1>2, <1>3, <2>1, SMTT(60) DEF DeviceInv, Taken, ringVars
  <2>2. CASE c # 0
    <3>1. heard = [i \in 1 .. rb_read |-> i] /\ Taken' = rb_read + c
      BY <1>2, <1>3, <2>2, SMTT(60) DEF DeviceInv, Taken, ringVars
    <3>2. ASSUME NEW i \in 1 .. c PROVE rb[RingSlot(rb_read + i - 1)] = rb_read + i
      <4>1. rb_read + i - 1 \in Nat /\ rb_read <= rb_read + i - 1 /\ rb_read + i - 1 < Filling
        BY <1>0, <1>1 DEF Filling, TypeOK
      <4> QED BY <1>0, <1>1, <4>1, SMTT(60) DEF RingInv
    <3>3. Chunk(rb_read, c) = [i \in 1 .. c |-> rb_read + i]
      BY <3>2 DEF Chunk
    <3> QED BY <1>0, <1>1, <1>3, <2>2, <3>1, <3>3, Joined, SMTT(60)
  <2> QED BY <2>1, <2>2
<1>7. DeviceInv'
  BY <1>1, <1>2, <1>3, <1>6, SMTT(60) DEF DeviceInv, ringVars, unmoved, RingSlot
<1>8. PendingInv'
  BY <1>2, <1>3, SMTT(60) DEF PendingInv, unmoved, writeVars
<1>9. TypeOK'
  <2>1. heard' \in Seq(Nat)
    <3>1. Taken' \in Nat
      BY <1>0, <1>1, <1>2, SMTT(60) DEF Taken, ringVars
    <3> QED BY <1>6, <3>1, SMTT(60)
  <2>2. remaining' \in 0 .. Period /\ cb_chunk' \in 0 .. Period
    BY <1>0, <1>1, <1>2, <1>3, PlaybackAssumption, SMTT(60)
  <2>3. underrun' \in BOOLEAN /\ cb' \in {"wait", "commit"}
    BY <1>3, ZenonT(60) DEF TypeOK
  <2> QED BY <1>2, <2>1, <2>2, <2>3, SMTT(60) DEF TypeOK, RingTypeOK, ringVars, unmoved, writeVars
<1> QED BY <1>4, <1>5, <1>7, <1>8, <1>9, SMTT(60)

\* The writer fills slots the callback has given back, and no others.
LEMMA WriteCopyStep == ASSUME IInv, WriteCopy PROVE IInv'
<1>0. /\ rb_read \in Nat /\ rb_write \in Nat /\ rb_read <= rb_write
      /\ rb_write <= rb_read + RingCapacity /\ RingCapacity \in Nat
      /\ first \in Nat /\ total_written \in Nat /\ frame_count \in Nat
      /\ rb_write + 1 = first + total_written
      /\ pc = "write" /\ total_written < frame_count
  BY RingCapacityAssumption DEF WriteCopy, TypeOK, RingTypeOK, RingInv, Filling, CallerInv, IInv
<1>1. AvailableWrite = RingCapacity - (rb_write - rb_read)
  <2>1. AvailableRead = rb_write - rb_read /\ AvailableRead \in Int /\ RingCapacity \in Int
    BY <1>0 DEF AvailableRead
  <2>2. Min({AvailableRead, RingCapacity}) = AvailableRead
    <3> DEFINE a == AvailableRead
               m == Min({a, RingCapacity})
    <3>1. m \in {a, RingCapacity} /\ m <= a /\ m <= RingCapacity
      BY <2>1, MinOfTwo, Zenon
    <3> HIDE DEF m
    <3> QED BY <1>0, <2>1, <3>1, SMTT(60) DEF m
  <2> QED BY <2>1, <2>2 DEF AvailableWrite
<1>2. PICK n \in Nat : /\ n = chunk' /\ n > 0 /\ rb_write + n <= rb_read + RingCapacity
                        /\ total_written + n <= frame_count /\ n <= RingCapacity
  <2> DEFINE a == frame_count - total_written
             b == AvailableWrite
             c == RingCapacity - RingSlot(rb_write)
  <2>1. a \in Int /\ b \in Int /\ c \in Int
    BY <1>0, <1>1, SlotRange
  <2>2. chunk' \in {a, b, c} /\ chunk' <= a /\ chunk' <= b /\ chunk' <= c
    <3>1. chunk' = Min({a, b, c})
      BY DEF WriteCopy, AcquireWrite
    <3> HIDE DEF a, b, c
    <3> QED BY <2>1, <3>1, MinOfThree, Zenon
  <2>3. chunk' > 0
    BY DEF WriteCopy
  <2>4. PICK n \in Int : n = chunk'
    BY <2>1, <2>2
  <2>5. n > 0 /\ n <= frame_count - total_written /\ n <= RingCapacity - (rb_write - rb_read)
    BY <1>1, <2>2, <2>3, <2>4, SMTT(60)
  <2> QED BY <1>0, <2>4, <2>5, SMTT(60)
<1>a. /\ n > 0 /\ rb_write + n <= rb_read + RingCapacity
      /\ total_written + n <= frame_count /\ n <= RingCapacity
  BY <1>2
<1>3. /\ chunk' = n /\ rb' = Filled(rb_write, n, first + total_written) /\ pc' = "commit"
      /\ UNCHANGED <<rb_read, rb_write, pending_frames, started, turn_frames_written, ret,
                     frame_count, total_written, first, loaded, stops, deviceVars, running>>
  BY <1>2, SMTT(60) DEF WriteCopy
<1>4. /\ rb' \in [0 .. RingCapacity - 1 -> Nat]
      /\ \A i \in 0 .. n - 1 : rb'[RingSlot(rb_write + i)] = first + total_written + i
      /\ \A k \in Nat : (\A i \in 0 .. n - 1 : RingSlot(rb_write + i) # RingSlot(k))
                          => rb'[RingSlot(k)] = rb[RingSlot(k)]
  <2>1. first + total_written \in Nat /\ RingTypeOK
    BY <1>0 DEF TypeOK, IInv
  <2>2. rb_write \in Nat /\ n <= RingCapacity /\ rb' = Filled(rb_write, n, first + total_written)
    BY <1>0, <1>a, <1>3, SMTT(60)
  <2>3. PICK f \in Nat : f = first + total_written
    BY <2>1
  <2>4. PICK p \in Nat : p = rb_write
    BY <2>2
  <2>5. CopiedAt(p, n, f)
    BY <2>1, <2>2, FilledSlots, SMTT(60)
  <2> QED BY <2>2, <2>3, <2>4, <2>5, SMTT(60) DEF CopiedAt
<1>5. ASSUME NEW k \in Nat, rb_read <= k, k < rb_write + n
      PROVE  rb'[RingSlot(k)] = k + 1
  <2>1. CASE k < rb_write
    <3>1. ASSUME NEW i \in 0 .. n - 1 PROVE RingSlot(rb_write + i) # RingSlot(k)
      <4>1. rb_write + i \in Nat /\ k < rb_write + i /\ rb_write + i < k + RingCapacity
        BY <1>0, <1>a, <1>5, <2>1, SMTT(60)
      <4> QED BY <4>1, SlotsDiffer, SMTT(60)
    <3>2. rb[RingSlot(k)] = k + 1
      BY <1>0, <1>5, <2>1, SMTT(60) DEF RingInv, Filling, IInv
    <3> QED BY <1>4, <3>1, <3>2, SMTT(60)
  <2>2. CASE k >= rb_write
    <3>1. PICK i \in 0 .. n - 1 : k = rb_write + i
      <4>1. k - rb_write \in 0 .. n - 1 /\ k = rb_write + (k - rb_write)
        BY <1>0, <1>a, <1>5, <2>2, SMTT(60)
      <4> QED BY <4>1
    <3>2. rb'[RingSlot(rb_write + i)] = first + total_written + i
      BY <1>4
    <3>3. first + total_written + i = k + 1
      BY <1>0, <3>1, SMTT(60)
    <3> QED BY <3>1, <3>2, <3>3, SMTT(60)
  <2> QED BY <1>0, <2>1, <2>2, SMTT(60)
<1>6. TypeOK'
  BY <1>a, <1>3, <1>4, SMTT(60) DEF TypeOK, RingTypeOK, deviceVars, IInv
<1>7. RingInv'
  BY <1>0, <1>a, <1>3, <1>5, SMTT(60) DEF RingInv, Filling, RingSlot, IInv
<1>8. CallerInv'
  BY <1>0, <1>a, <1>3, SMTT(60) DEF CallerInv, IInv
<1>9. DeviceInv' /\ PendingInv'
  BY <1>0, <1>3 DEF DeviceInv, PendingInv, Taken, deviceVars, RingSlot, IInv
<1> QED BY <1>6, <1>7, <1>8, <1>9 DEF IInv

\* Every step keeps the invariant.
LEMMA Invariance == IInv /\ [Next]_vars => IInv'
<1> SUFFICES ASSUME IInv, [Next]_vars PROVE IInv'
  BY SMTT(60)
<1>1. CASE UNCHANGED vars
  BY <1>1, SMTT(60) DEF vars, ringVars, callerVars, deviceVars, IInv, TypeOK, RingTypeOK, RingInv, Filling,
              RingSlot, CallerInv, DeviceInv, Taken, PendingInv
<1>2. CASE Call
  BY <1>2, StartAgainStep, StartDeviceStep, WriteStep, DrainStep, StopStep, DestroyDeviceStep, SMTT(60)
     DEF Call
<1>3. CASE Step
  BY <1>3, StartedStep, WriteCopyStep, WriteCommitStep, WriteLoadStep, WriteStoreStep,
     WriteDoneStep, DrainQueueStep, DrainPendingStep, SMTT(60) DEF Step
<1>4. CASE Callback
  BY <1>4, CallbackBeginStep, CallbackReadStep, CallbackCommitStep, CallbackTestStep,
     CallbackLoadStep, CallbackSubtractStep, CallbackClearStep, SMTT(60) DEF Callback
<1> QED BY <1>1, <1>2, <1>3, <1>4, SMTT(60) DEF Next

\* The invariant holds throughout.
LEMMA Always == Spec => []IInv
BY Initially, Invariance, PTL DEF Spec

\* The device hears what was written, once and in order; the ring holds the frames
\* written and not heard; pending_frames never wraps below zero; no callback runs
\* on a released handle.  For every interleaving of the two threads, any ring,
\* period and write, through stops and restarts.
THEOREM PlaybackIsExact == Spec => []PlaybackExact
<1>1. IInv => PlaybackExact
  <2> SUFFICES ASSUME IInv PROVE PlaybackExact
    OBVIOUS
  <2>0. /\ rb_read \in Nat /\ rb_write \in Nat /\ Taken \in Nat /\ rb_read <= rb_write
        /\ RingCapacity \in Nat /\ rb_write <= Filling /\ rb_write <= rb_read + RingCapacity
    BY RingCapacityAssumption, PlaybackAssumption
       DEF IInv, TypeOK, RingTypeOK, Taken, RingInv, Filling
  <2>1. PlayedInOrder
    BY <2>0 DEF IInv, DeviceInv, PlayedInOrder
  <2>2. QueueExact
    <3>1. ASSUME NEW i \in 1 .. rb_write - rb_read
          PROVE  rb[RingSlot(rb_read + i - 1)] = rb_read + i
      <4>1. /\ rb_read + i - 1 \in Nat /\ rb_read <= rb_read + i - 1
            /\ rb_read + i - 1 < Filling
        BY <2>0 DEF Filling, IInv, TypeOK
      <4> QED BY <2>0, <4>1, SMTT(60) DEF IInv, RingInv
    <3>2. Chunk(rb_read, rb_write - rb_read) =
            [i \in 1 .. rb_write - rb_read |-> rb_read + i]
      BY <3>1, SMTT(60) DEF Chunk
    <3> QED BY <2>0, <3>2 DEF QueueExact
  <2>3. NoUnderflow /\ NoCallbackAfterDestroy
    BY PlaybackAssumption DEF IInv, TypeOK, PendingInv, DeviceInv, NoUnderflow, NoCallbackAfterDestroy
  <2> QED BY <2>1, <2>2, <2>3, SMTT(60) DEF IInv, PlaybackExact
<1> QED BY <1>1, Always, PTL

\* A drain that returns has seen every written frame out of the ring (the two
\* loops of playback_drain).
THEOREM DrainsAreHeard == Spec => DrainedIsHeard
<1>1. IInv /\ [Next]_vars => [DrainHeard]_vars
  <2> SUFFICES ASSUME IInv, Next, pc = "drain_pending", pc' = "idle"
               PROVE  rb_read = rb_write /\ turn_frames_written' = 0
    BY DEF DrainHeard
  <2>1. rb_read = rb_write
    BY SMTT(60) DEF IInv, CallerInv
  <2>2. DrainPending
    BY DEF Next, Call, Step, Callback, StartAgain, StartDevice, Started, Write, WriteCopy,
           WriteCommit, WriteLoad, WriteStore, WriteDone, Drain, DrainQueue, Stop,
           DestroyDevice, CallbackBegin, CallbackRead, CallbackCommit, CallbackTest,
           CallbackLoad, CallbackSubtract, CallbackClear, NextChunk, unmoved
  <2> QED BY <2>1, <2>2 DEF DrainPending
<1>2. Spec => [][DrainHeard]_vars
  BY <1>1, Always, PTL DEF Spec
<1> QED BY <1>2 DEF DrainedIsHeard
=============================================================================
