--------------------------- MODULE OpensslBioProofs ---------------------------
(***************************************************************************)
(* BIO shells, their methods and poll items, for any number of BIOs and    *)
(* threads, any limit on references and any width of a descriptor.         *)
(***************************************************************************)
EXTENDS OpensslBio, FiniteSetTheorems, TLAPS

\* A shell belongs to a native BIO with references, the facade's and those of
\* running operations among them; only an open facade has callbacks.
BioInv(b) ==
  /\ shell[b] \in {"open", "closed"} <=> refs[b] > 0
  /\ ex_data[b] <=> refs[b] > 0
  /\ callback[b] => shell[b] = "open"
  /\ attached[b] => callback[b]
  /\ Held(b) <= refs[b]

\* An edited record is in the copy, and in the original once it is copied back;
\* the free callback of a copied BIO is not entered.
OpOK(o) ==
  /\ o.edited => o.public = 1 /\ (o.at \in {"running", "in_batch"} \/ o.native = 1)
  /\ o.op = "dup" => o.at \in {"check", "done"}

OpInv(t) == thread[t] # Idle => OpOK(thread[t])

\* While the generic callback runs, BIO_close is refused.
RunInv(t) == thread[t].at = "running" => shell[thread[t].bio] = "open"

\* The inductive invariant.
IInv ==
  /\ TypeOK /\ faults = {}
  /\ method.bios = Cardinality(Shells) /\ method.callbacks = Cardinality(Calling)
  /\ method.live \/ Shells = {}
  /\ \A b \in Bios : BioInv(b)
  /\ \A t \in Threads : OpInv(t) /\ RunInv(t)
  /\ polled \subseteq {Reads(copy_poll_descriptor_to_native(item))}

-----------------------------------------------------------------------------
(* Sets and their sizes.                                                   *)

\* The sets that are counted are finite.
LEMMA Finite ==
  /\ IsFiniteSet(Shells) /\ IsFiniteSet(Calling)
  /\ \A b : IsFiniteSet(Users(b))
<1>1. Shells \subseteq Bios /\ Calling \subseteq Threads /\ \A b : Users(b) \subseteq Threads
  BY DEF Shells, Calling, Users
<1> QED BY <1>1, BioAssumption, FS_Subset

\* Their sizes are numbers, zero for the empty set only.
LEMMA Sizes ==
  ASSUME NEW S, IsFiniteSet(S)
  PROVE  /\ Cardinality(S) \in Nat
         /\ Cardinality(S) = 0 <=> S = {}
BY FS_CardinalityType, FS_EmptySet

\* One element more, one less.
LEMMA OneMore ==
  ASSUME NEW S, IsFiniteSet(S), NEW x, x \notin S
  PROVE  Cardinality(S \cup {x}) = Cardinality(S) + 1
BY FS_AddElement

LEMMA OneLess ==
  ASSUME NEW S, IsFiniteSet(S), NEW x \in S
  PROVE  Cardinality(S \ {x}) = Cardinality(S) - 1
BY FS_RemoveElement

\* An operation in progress is one that is not idle.
LEMMA Busy ==
  ASSUME TypeOK, NEW t \in Threads
  PROVE  /\ thread[t].at # "idle" <=> thread[t] # Idle
         /\ thread[t].at # "idle" => thread[t] \in Operation
<1>1. thread[t] \in Operation \/ thread[t] = Idle
  BY DEF TypeOK
<1>2. ASSUME thread[t] \in Operation PROVE thread[t].at # "idle"
  BY <1>2 DEF Operation
<1> QED BY <1>1, <1>2 DEF Idle

\* A BIO that an operation works on has a reference, and so a shell.
LEMMA BusyBio ==
  ASSUME IInv, NEW t \in Threads, thread[t].at # "idle"
  PROVE  /\ thread[t].bio \in Bios
         /\ refs[thread[t].bio] > 0
         /\ shell[thread[t].bio] \in {"open", "closed"}
         /\ method.live
<1> DEFINE b == thread[t].bio
<1>1. b \in Bios /\ t \in Users(b)
  BY Busy DEF IInv, Operation, Users
<1>2. Cardinality(Users(b)) \in Nat /\ Cardinality(Users(b)) # 0
  BY <1>1, Finite, Sizes
<1>3. refs[b] > 0
  <2>1. Held(b) <= refs[b] /\ refs[b] \in Nat
    BY <1>1 DEF IInv, BioInv, TypeOK
  <2> QED BY <2>1, <1>2 DEF Held
<1>4. shell[b] \in {"open", "closed"}
  BY <1>1, <1>3 DEF IInv, BioInv
<1>5. b \in Shells
  BY <1>1, <1>4 DEF Shells
<1> QED BY <1>1, <1>3, <1>4, <1>5 DEF IInv

\* A running callback is counted.
LEMMA CallbackCounted ==
  ASSUME IInv, NEW t \in Threads, InCallback(t)
  PROVE  method.callbacks \in Nat \ {0}
BY Finite, Sizes DEF IInv, Calling

-----------------------------------------------------------------------------
(* Steps of an operation.                                                  *)

\* How many callbacks run, when one thread moves on.
LEMMA CallingMoves ==
  ASSUME IInv, NEW t \in Threads,
         \A u \in Threads \ {t} : thread'[u] = thread[u]
  PROVE  Cardinality(Calling)' = Cardinality(Calling)
                                  + (IF InCallback(t)' THEN 1 ELSE 0)
                                  - (IF InCallback(t) THEN 1 ELSE 0)
<1>1. Cardinality(Calling) \in Nat
  BY Finite, Sizes
<1>2. CASE InCallback(t)' <=> InCallback(t)
  <2>1. Calling' = Calling
    BY <1>2 DEF Calling, InCallback
  <2> QED BY <1>1, <1>2, <2>1
<1>3. CASE InCallback(t)' /\ ~InCallback(t)
  <2>1. Calling' = Calling \cup {t} /\ t \notin Calling
    BY <1>3 DEF Calling, InCallback
  <2> QED BY <1>1, <1>3, <2>1, OneMore, Finite
<1>4. CASE ~InCallback(t)' /\ InCallback(t)
  <2>1. Calling' = Calling \ {t} /\ t \in Calling
    BY <1>4 DEF Calling, InCallback
  <2> QED BY <1>1, <1>4, <2>1, OneLess, Finite
<1> QED BY <1>2, <1>3, <1>4

\* A step of one running operation that keeps its BIO, and the count of callbacks.
LEMMA OperationMoves ==
  ASSUME IInv, NEW t \in Threads, thread[t] \in Operation, NEW o \in Operation,
         thread' = [thread EXCEPT ![t] = o], o.bio = thread[t].bio, OpOK(o),
         o.at = "running" => shell[o.bio] = "open",
         UNCHANGED <<shell, refs, ex_data, callback, attached, faults, poll_vars>>,
         method' \in [live : BOOLEAN, batch : SUBSET Batches, bios : Nat, callbacks : Nat],
         method'.live = method.live, method'.bios = method.bios,
         method'.callbacks = method.callbacks + (IF o.at \in Inside THEN 1 ELSE 0)
                                              - (IF thread[t].at \in Inside THEN 1 ELSE 0)
  PROVE  IInv'
<1> USE DEF IInv
<1>0. thread'[t] = o /\ \A u \in Threads \ {t} : thread'[u] = thread[u]
  BY DEF TypeOK
<1>1. TypeOK'
  BY DEF TypeOK, poll_vars, Items
<1>2. Shells' = Shells
  BY DEF Shells
<1>3. ASSUME NEW b \in Bios PROVE BioInv(b)'
  <2>1. Users(b)' = Users(b)
    BY <1>0, Busy, Idle \notin Operation DEF Users, Operation, Idle
  <2> QED BY <2>1 DEF BioInv, Held
<1>4. method'.callbacks = Cardinality(Calling)'
  <2>1. (InCallback(t)' <=> o.at \in Inside) /\ (InCallback(t) <=> thread[t].at \in Inside)
    BY <1>0 DEF InCallback
  <2> QED BY <1>0, <2>1, CallingMoves
<1>5. \A u \in Threads : OpInv(u)' /\ RunInv(u)'
  BY <1>0 DEF OpInv, RunInv
<1>6. (polled \subseteq {Reads(copy_poll_descriptor_to_native(item))})'
  BY DEF poll_vars
<1> QED BY <1>1, <1>2, <1>3, <1>4, <1>5, <1>6

\* What the invariant says of one operation.
LEMMA OpFacts ==
  ASSUME IInv, NEW t \in Threads, thread[t].at # "idle"
  PROVE  thread[t] \in Operation /\ OpOK(thread[t]) /\ RunInv(t)
BY Busy DEF IInv, OpInv

\* The test of native, outside the lock.
LEMMA native_differsStep ==
  ASSUME IInv, NEW t \in Threads, native_differs(t) PROVE IInv'
<1>1. thread[t] \in Operation /\ OpOK(thread[t]) /\ RunInv(t) /\ thread[t].at \in {"check"}
  BY OpFacts, Zenon DEF native_differs
<1>2. UNCHANGED <<shell, refs, ex_data, callback, attached, faults, poll_vars>>
  BY <1>1, BusyBio, Zenon DEF native_differs, IInv
<1>3. IInv'
  <2> DEFINE o == [thread[t] EXCEPT !.at = (IF ~OtherNative(t) THEN "enter" ELSE IF thread[t].op = "dup" \/ thread[t].after THEN "done" ELSE "batch")]
  <2>1. /\ thread' = [thread EXCEPT ![t] = o]
        /\ method' = method
    BY <1>1, Zenon DEF native_differs, Goto, IInv, TypeOK
  <2>2. o \in Operation
    BY <1>1, Zenon DEF Operation
  <2>3. o.at \in {"enter", "done", "batch"} /\ o.bio = thread[t].bio /\ o.op = thread[t].op
    BY <1>1 DEF Operation
  <2>4. OpOK(o) /\ (o.at = "running" => shell[o.bio] = "open")
    BY <1>1 DEF OpOK, Operation, OtherNative
  <2>5. /\ method' \in [live : BOOLEAN, batch : SUBSET Batches, bios : Nat, callbacks : Nat]
        /\ method'.live = method.live /\ method'.bios = method.bios
        /\ method'.callbacks = method.callbacks + (IF o.at \in Inside THEN 1 ELSE 0)
                                                - (IF thread[t].at \in Inside THEN 1 ELSE 0)
    BY <1>1, <2>1, <2>3, CallbackCounted DEF IInv, TypeOK, Inside, InCallback
  <2> HIDE DEF o
  <2> QED BY <1>1, <1>2, <2>1, <2>2, <2>3, <2>4, <2>5, OperationMoves, Zenon
<1> QED BY <1>3

\* A callback is counted, perhaps of a facade that is closed by now.
LEMMA callback_enterStep ==
  ASSUME IInv, NEW t \in Threads, callback_enter(t) PROVE IInv'
<1>1. thread[t] \in Operation /\ OpOK(thread[t]) /\ RunInv(t) /\ thread[t].at \in {"enter"}
  BY OpFacts DEF callback_enter
<1>2. UNCHANGED <<shell, refs, ex_data, callback, attached, faults, poll_vars>>
  BY <1>1, BusyBio DEF callback_enter, IInv
<1>3. IInv'
  <2> DEFINE o == [thread[t] EXCEPT !.at = "pick"]
  <2>1. /\ thread' = [thread EXCEPT ![t] = o]
        /\ method' = [method EXCEPT !.callbacks = @ + 1]
    BY <1>1 DEF callback_enter, Goto, IInv, TypeOK
  <2>2. o \in Operation
    BY <1>1, Zenon DEF Operation
  <2>3. o.at \in {"pick"} /\ o.bio = thread[t].bio /\ o.op = thread[t].op
    BY <1>1 DEF Operation
  <2>4. OpOK(o) /\ (o.at = "running" => shell[o.bio] = "open")
    BY <1>1, BusyBio DEF OpOK, Operation, IInv, BioInv, RunInv
  <2>5. /\ method' \in [live : BOOLEAN, batch : SUBSET Batches, bios : Nat, callbacks : Nat]
        /\ method'.live = method.live /\ method'.bios = method.bios
        /\ method'.callbacks = method.callbacks + (IF o.at \in Inside THEN 1 ELSE 0)
                                                - (IF thread[t].at \in Inside THEN 1 ELSE 0)
    BY <1>1, <2>1, <2>3, CallbackCounted DEF IInv, TypeOK, Inside, InCallback
  <2> HIDE DEF o
  <2> QED BY <1>1, <1>2, <2>1, <2>2, <2>3, <2>4, <2>5, OperationMoves, Zenon
<1> QED BY <1>3

\* The callback of an open facade is called, if there is one and memory.
LEMMA callback_trampolineStep ==
  ASSUME IInv, NEW t \in Threads, NEW memory \in BOOLEAN, callback_trampoline(t, memory) PROVE IInv'
<1>1. thread[t] \in Operation /\ OpOK(thread[t]) /\ RunInv(t) /\ thread[t].at \in {"pick"}
  BY OpFacts DEF callback_trampoline
<1>2. UNCHANGED <<shell, refs, ex_data, callback, attached, faults, poll_vars>>
  BY <1>1, BusyBio DEF callback_trampoline, IInv
<1>3. CASE callback[thread[t].bio] /\ memory
  <2> DEFINE o == [thread[t] EXCEPT !.at = "running", !.public = thread[t].native]
  <2>1. /\ thread' = [thread EXCEPT ![t] = o]
        /\ method' = method
    BY <1>3, <1>1, ZenonT(60) DEF callback_trampoline, Goto, IInv, TypeOK
  <2>2. o \in Operation
    BY <1>1, Zenon DEF Operation
  <2>3. o.at \in {"running"} /\ o.bio = thread[t].bio /\ o.op = thread[t].op
    BY <1>1 DEF Operation
  <2>4. OpOK(o) /\ (o.at = "running" => shell[o.bio] = "open")
    BY <1>3, <1>1, BusyBio DEF OpOK, Operation, IInv, BioInv, RunInv
  <2>5. /\ method' \in [live : BOOLEAN, batch : SUBSET Batches, bios : Nat, callbacks : Nat]
        /\ method'.live = method.live /\ method'.bios = method.bios
        /\ method'.callbacks = method.callbacks + (IF o.at \in Inside THEN 1 ELSE 0)
                                                - (IF thread[t].at \in Inside THEN 1 ELSE 0)
    BY <1>1, <2>1, <2>3, CallbackCounted DEF IInv, TypeOK, Inside, InCallback
  <2> HIDE DEF o
  <2> QED BY <1>1, <1>2, <2>1, <2>2, <2>3, <2>4, <2>5, OperationMoves, Zenon
<1>4. CASE ~(callback[thread[t].bio] /\ memory)
  <2> DEFINE o == [thread[t] EXCEPT !.at = "leave", !.goes_on = ~callback[thread[t].bio]]
  <2>1. /\ thread' = [thread EXCEPT ![t] = o]
        /\ method' = method
    BY <1>4, <1>1, ZenonT(60) DEF callback_trampoline, Goto, IInv, TypeOK
  <2>2. o \in Operation
    BY <1>1, Zenon DEF Operation
  <2>3. o.at \in {"leave"} /\ o.bio = thread[t].bio /\ o.op = thread[t].op
    BY <1>1 DEF Operation
  <2>4. OpOK(o) /\ (o.at = "running" => shell[o.bio] = "open")
    BY <1>4, <1>1, BusyBio DEF OpOK, Operation, IInv, BioInv, RunInv
  <2>5. /\ method' \in [live : BOOLEAN, batch : SUBSET Batches, bios : Nat, callbacks : Nat]
        /\ method'.live = method.live /\ method'.bios = method.bios
        /\ method'.callbacks = method.callbacks + (IF o.at \in Inside THEN 1 ELSE 0)
                                                - (IF thread[t].at \in Inside THEN 1 ELSE 0)
    BY <1>1, <2>1, <2>3, CallbackCounted DEF IInv, TypeOK, Inside, InCallback
  <2> HIDE DEF o
  <2> QED BY <1>1, <1>2, <2>1, <2>2, <2>3, <2>4, <2>5, OperationMoves, Zenon
<1> QED BY <1>3, <1>4

\* The application edits the copy.
LEMMA AppEditsStep ==
  ASSUME IInv, NEW t \in Threads, AppEdits(t) PROVE IInv'
<1>1. thread[t] \in Operation /\ OpOK(thread[t]) /\ RunInv(t) /\ thread[t].at \in {"running", "in_batch"}
  BY OpFacts DEF AppEdits
<1>2. UNCHANGED <<shell, refs, ex_data, callback, attached, faults, poll_vars>>
  BY <1>1, BusyBio DEF AppEdits, IInv
<1>3. IInv'
  <2> DEFINE o == [thread[t] EXCEPT !.public = 1, !.edited = TRUE]
  <2>1. /\ thread' = [thread EXCEPT ![t] = o]
        /\ method' = method
    BY <1>1, Zenon DEF AppEdits, Goto, IInv, TypeOK
  <2>2. o \in Operation
    <3>1. 1 \in 0 .. 1
      OBVIOUS
    <3> QED BY <1>1, <3>1, Zenon DEF Operation
  <2>3. o.at \in {thread[t].at} /\ o.bio = thread[t].bio /\ o.op = thread[t].op
    BY <1>1 DEF Operation
  <2>4. OpOK(o) /\ (o.at = "running" => shell[o.bio] = "open")
    BY <1>1, BusyBio DEF OpOK, Operation, IInv, BioInv, RunInv
  <2>5. /\ method' \in [live : BOOLEAN, batch : SUBSET Batches, bios : Nat, callbacks : Nat]
        /\ method'.live = method.live /\ method'.bios = method.bios
        /\ method'.callbacks = method.callbacks + (IF o.at \in Inside THEN 1 ELSE 0)
                                                - (IF thread[t].at \in Inside THEN 1 ELSE 0)
    BY <1>1, <2>1, <2>3, CallbackCounted DEF IInv, TypeOK, Inside, InCallback
  <2> HIDE DEF o
  <2> QED BY <1>1, <1>2, <2>1, <2>2, <2>3, <2>4, <2>5, OperationMoves, Zenon
<1> QED BY <1>3

\* The edited copy is copied back.
LEMMA callback_mmsg_copy_backStep ==
  ASSUME IInv, NEW t \in Threads, NEW answer \in BOOLEAN, callback_mmsg_copy_back(t, answer) PROVE IInv'
<1>1. thread[t] \in Operation /\ OpOK(thread[t]) /\ RunInv(t) /\ thread[t].at \in {"running"}
  BY OpFacts DEF callback_mmsg_copy_back
<1>2. UNCHANGED <<shell, refs, ex_data, callback, attached, faults, poll_vars>>
  BY <1>1, BusyBio DEF callback_mmsg_copy_back, IInv
<1>3. IInv'
  <2> DEFINE o == [thread[t] EXCEPT !.at = "leave", !.native = thread[t].public, !.goes_on = answer]
  <2>1. /\ thread' = [thread EXCEPT ![t] = o]
        /\ method' = method
    BY <1>1, Zenon DEF callback_mmsg_copy_back, Goto, IInv, TypeOK
  <2>2. o \in Operation
    BY <1>1, Zenon DEF Operation
  <2>3. o.at \in {"leave"} /\ o.bio = thread[t].bio /\ o.op = thread[t].op
    BY <1>1 DEF Operation
  <2>4. OpOK(o) /\ (o.at = "running" => shell[o.bio] = "open")
    BY <1>1, BusyBio DEF OpOK, Operation, IInv, BioInv, RunInv
  <2>5. /\ method' \in [live : BOOLEAN, batch : SUBSET Batches, bios : Nat, callbacks : Nat]
        /\ method'.live = method.live /\ method'.bios = method.bios
        /\ method'.callbacks = method.callbacks + (IF o.at \in Inside THEN 1 ELSE 0)
                                                - (IF thread[t].at \in Inside THEN 1 ELSE 0)
    BY <1>1, <2>1, <2>3, CallbackCounted DEF IInv, TypeOK, Inside, InCallback
  <2> HIDE DEF o
  <2> QED BY <1>1, <1>2, <2>1, <2>2, <2>3, <2>4, <2>5, OperationMoves, Zenon
<1> QED BY <1>3

\* The trampoline is left.
LEMMA callback_leaveStep ==
  ASSUME IInv, NEW t \in Threads, callback_leave(t) PROVE IInv'
<1>1. thread[t] \in Operation /\ OpOK(thread[t]) /\ RunInv(t) /\ thread[t].at \in {"leave"}
  BY OpFacts DEF callback_leave
<1>2. UNCHANGED <<shell, refs, ex_data, callback, attached, faults, poll_vars>>
  BY <1>1, BusyBio DEF callback_leave, IInv
<1>3. IInv'
  <2> DEFINE o == [thread[t] EXCEPT !.at = (IF thread[t].goes_on /\ ~thread[t].after THEN "batch" ELSE "done")]
  <2>1. /\ thread' = [thread EXCEPT ![t] = o]
        /\ method' = [method EXCEPT !.callbacks = @ - 1]
    BY <1>1 DEF callback_leave, Goto, IInv, TypeOK
  <2>2. o \in Operation
    BY <1>1, Zenon DEF Operation
  <2>3. o.at \in {"batch", "done"} /\ o.bio = thread[t].bio /\ o.op = thread[t].op
    BY <1>1 DEF Operation
  <2>4. OpOK(o) /\ (o.at = "running" => shell[o.bio] = "open")
    BY <1>1, BusyBio DEF OpOK, Operation, IInv, BioInv, RunInv
  <2>5. /\ method' \in [live : BOOLEAN, batch : SUBSET Batches, bios : Nat, callbacks : Nat]
        /\ method'.live = method.live /\ method'.bios = method.bios
        /\ method'.callbacks = method.callbacks + (IF o.at \in Inside THEN 1 ELSE 0)
                                                - (IF thread[t].at \in Inside THEN 1 ELSE 0)
    BY <1>1, <2>1, <2>3, CallbackCounted DEF IInv, TypeOK, Inside, InCallback
  <2> HIDE DEF o
  <2> QED BY <1>1, <1>2, <2>1, <2>2, <2>3, <2>4, <2>5, OperationMoves, Zenon
<1> QED BY <1>3

\* The batch callback gets a copy of what the first one left.
LEMMA mmsg_callback_invokeStep ==
  ASSUME IInv, NEW t \in Threads, NEW memory \in BOOLEAN, mmsg_callback_invoke(t, memory) PROVE IInv'
<1>1. thread[t] \in Operation /\ OpOK(thread[t]) /\ RunInv(t) /\ thread[t].at \in {"batch"}
  BY OpFacts, Zenon DEF mmsg_callback_invoke
<1>2. UNCHANGED <<shell, refs, ex_data, callback, attached, faults, poll_vars>>
  BY <1>1, BusyBio, Zenon DEF mmsg_callback_invoke, IInv
<1>3. CASE thread[t].op \notin method.batch
  <2> DEFINE o == [thread[t] EXCEPT !.at = (IF attached[thread[t].bio] THEN "check" ELSE "done"), !.after = TRUE]
  <2>1. /\ thread' = [thread EXCEPT ![t] = o]
        /\ method' = method
    BY <1>3, <1>1, Zenon DEF mmsg_callback_invoke, Goto, BatchDone, IInv, TypeOK
  <2>2. o \in Operation
    BY <1>1, Zenon DEF Operation
  <2>3. o.at \in {"check", "done"} /\ o.bio = thread[t].bio /\ o.op = thread[t].op
    BY <1>1 DEF Operation
  <2>4. OpOK(o) /\ (o.at = "running" => shell[o.bio] = "open")
    BY <1>3, <1>1, BusyBio DEF OpOK, Operation, IInv, BioInv, RunInv
  <2>5. /\ method' \in [live : BOOLEAN, batch : SUBSET Batches, bios : Nat, callbacks : Nat]
        /\ method'.live = method.live /\ method'.bios = method.bios
        /\ method'.callbacks = method.callbacks + (IF o.at \in Inside THEN 1 ELSE 0)
                                                - (IF thread[t].at \in Inside THEN 1 ELSE 0)
    BY <1>1, <2>1, <2>3, CallbackCounted DEF IInv, TypeOK, Inside, InCallback
  <2> HIDE DEF o
  <2> QED BY <1>1, <1>2, <2>1, <2>2, <2>3, <2>4, <2>5, OperationMoves, Zenon
<1>4. CASE thread[t].op \in method.batch /\ memory
  <2> DEFINE o == [thread[t] EXCEPT !.at = "in_batch", !.public = thread[t].native]
  <2>1. /\ thread' = [thread EXCEPT ![t] = o]
        /\ method' = [method EXCEPT !.callbacks = @ + 1]
    BY <1>4, <1>1, Zenon DEF mmsg_callback_invoke, Goto, IInv, TypeOK
  <2>2. o \in Operation
    BY <1>1, Zenon DEF Operation
  <2>3. o.at \in {"in_batch"} /\ o.bio = thread[t].bio /\ o.op = thread[t].op
    BY <1>1 DEF Operation
  <2>4. OpOK(o) /\ (o.at = "running" => shell[o.bio] = "open")
    BY <1>4, <1>1, BusyBio DEF OpOK, Operation, IInv, BioInv, RunInv
  <2>5. /\ method' \in [live : BOOLEAN, batch : SUBSET Batches, bios : Nat, callbacks : Nat]
        /\ method'.live = method.live /\ method'.bios = method.bios
        /\ method'.callbacks = method.callbacks + (IF o.at \in Inside THEN 1 ELSE 0)
                                                - (IF thread[t].at \in Inside THEN 1 ELSE 0)
    BY <1>1, <2>1, <2>3, CallbackCounted DEF IInv, TypeOK, Inside, InCallback
  <2> HIDE DEF o
  <2> QED BY <1>1, <1>2, <2>1, <2>2, <2>3, <2>4, <2>5, OperationMoves, Zenon
<1>5. CASE thread[t].op \in method.batch /\ ~memory
  <2> DEFINE o == [thread[t] EXCEPT !.at = "out", !.public = thread[t].native]
  <2>1. /\ thread' = [thread EXCEPT ![t] = o]
        /\ method' = [method EXCEPT !.callbacks = @ + 1]
    BY <1>5, <1>1, Zenon DEF mmsg_callback_invoke, Goto, IInv, TypeOK
  <2>2. o \in Operation
    BY <1>1, Zenon DEF Operation
  <2>3. o.at \in {"out"} /\ o.bio = thread[t].bio /\ o.op = thread[t].op
    BY <1>1 DEF Operation
  <2>4. OpOK(o) /\ (o.at = "running" => shell[o.bio] = "open")
    BY <1>5, <1>1, BusyBio DEF OpOK, Operation, IInv, BioInv, RunInv
  <2>5. /\ method' \in [live : BOOLEAN, batch : SUBSET Batches, bios : Nat, callbacks : Nat]
        /\ method'.live = method.live /\ method'.bios = method.bios
        /\ method'.callbacks = method.callbacks + (IF o.at \in Inside THEN 1 ELSE 0)
                                                - (IF thread[t].at \in Inside THEN 1 ELSE 0)
    BY <1>1, <2>1, <2>3, CallbackCounted DEF IInv, TypeOK, Inside, InCallback
  <2> HIDE DEF o
  <2> QED BY <1>1, <1>2, <2>1, <2>2, <2>3, <2>4, <2>5, OperationMoves, Zenon
<1> QED BY <1>3, <1>4, <1>5

\* That copy is copied back, too.
LEMMA mmsg_callback_returnsStep ==
  ASSUME IInv, NEW t \in Threads, mmsg_callback_returns(t) PROVE IInv'
<1>1. thread[t] \in Operation /\ OpOK(thread[t]) /\ RunInv(t) /\ thread[t].at \in {"in_batch"}
  BY OpFacts DEF mmsg_callback_returns
<1>2. UNCHANGED <<shell, refs, ex_data, callback, attached, faults, poll_vars>>
  BY <1>1, BusyBio DEF mmsg_callback_returns, IInv
<1>3. IInv'
  <2> DEFINE o == [thread[t] EXCEPT !.at = "out", !.native = thread[t].public]
  <2>1. /\ thread' = [thread EXCEPT ![t] = o]
        /\ method' = method
    BY <1>1, Zenon DEF mmsg_callback_returns, Goto, IInv, TypeOK
  <2>2. o \in Operation
    BY <1>1, Zenon DEF Operation
  <2>3. o.at \in {"out"} /\ o.bio = thread[t].bio /\ o.op = thread[t].op
    BY <1>1 DEF Operation
  <2>4. OpOK(o) /\ (o.at = "running" => shell[o.bio] = "open")
    BY <1>1, BusyBio DEF OpOK, Operation, IInv, BioInv, RunInv
  <2>5. /\ method' \in [live : BOOLEAN, batch : SUBSET Batches, bios : Nat, callbacks : Nat]
        /\ method'.live = method.live /\ method'.bios = method.bios
        /\ method'.callbacks = method.callbacks + (IF o.at \in Inside THEN 1 ELSE 0)
                                                - (IF thread[t].at \in Inside THEN 1 ELSE 0)
    BY <1>1, <2>1, <2>3, CallbackCounted DEF IInv, TypeOK, Inside, InCallback
  <2> HIDE DEF o
  <2> QED BY <1>1, <1>2, <2>1, <2>2, <2>3, <2>4, <2>5, OperationMoves, Zenon
<1> QED BY <1>3

\* The batch callback is left.
LEMMA mmsg_callback_leavesStep ==
  ASSUME IInv, NEW t \in Threads, mmsg_callback_leaves(t) PROVE IInv'
<1>1. thread[t] \in Operation /\ OpOK(thread[t]) /\ RunInv(t) /\ thread[t].at \in {"out"}
  BY OpFacts DEF mmsg_callback_leaves
<1>2. UNCHANGED <<shell, refs, ex_data, callback, attached, faults, poll_vars>>
  BY <1>1, BusyBio DEF mmsg_callback_leaves, IInv
<1>3. IInv'
  <2> DEFINE o == [thread[t] EXCEPT !.at = (IF attached[thread[t].bio] THEN "check" ELSE "done"), !.after = TRUE]
  <2>1. /\ thread' = [thread EXCEPT ![t] = o]
        /\ method' = [method EXCEPT !.callbacks = @ - 1]
    BY <1>1, Zenon DEF mmsg_callback_leaves, Goto, BatchDone, IInv, TypeOK
  <2>2. o \in Operation
    BY <1>1, Zenon DEF Operation
  <2>3. o.at \in {"check", "done"} /\ o.bio = thread[t].bio /\ o.op = thread[t].op
    BY <1>1 DEF Operation
  <2>4. OpOK(o) /\ (o.at = "running" => shell[o.bio] = "open")
    BY <1>1, BusyBio DEF OpOK, Operation, IInv, BioInv, RunInv
  <2>5. /\ method' \in [live : BOOLEAN, batch : SUBSET Batches, bios : Nat, callbacks : Nat]
        /\ method'.live = method.live /\ method'.bios = method.bios
        /\ method'.callbacks = method.callbacks + (IF o.at \in Inside THEN 1 ELSE 0)
                                                - (IF thread[t].at \in Inside THEN 1 ELSE 0)
    BY <1>1, <2>1, <2>3, CallbackCounted DEF IInv, TypeOK, Inside, InCallback
  <2> HIDE DEF o
  <2> QED BY <1>1, <1>2, <2>1, <2>2, <2>3, <2>4, <2>5, OperationMoves, Zenon
<1> QED BY <1>3

-----------------------------------------------------------------------------
(* Steps of a shell.                                                       *)

\* How many shells there are, when one changes.
LEMMA ShellsMove ==
  ASSUME IInv, NEW b \in Bios, \A c \in Bios \ {b} : shell'[c] = shell[c]
  PROVE  /\ Cardinality(Shells)' = Cardinality(Shells)
                                     + (IF shell'[b] = "none" THEN 0 ELSE 1)
                                     - (IF shell[b] = "none" THEN 0 ELSE 1)
         /\ Cardinality(Shells) \in Nat /\ shell[b] # "none" => Cardinality(Shells) > 0
<1>1. Cardinality(Shells) \in Nat
  BY Finite, Sizes
<1>2. CASE shell'[b] = "none" <=> shell[b] = "none"
  <2>1. Shells' = Shells
    BY <1>2 DEF Shells
  <2> QED BY <1>1, <1>2, <2>1, Sizes, Finite DEF Shells
<1>3. CASE shell'[b] # "none" /\ shell[b] = "none"
  <2>1. Shells' = Shells \cup {b} /\ b \notin Shells
    BY <1>3 DEF Shells
  <2> QED BY <1>1, <1>3, <2>1, OneMore, Finite
<1>4. CASE shell'[b] = "none" /\ shell[b] # "none"
  <2>1. Shells' = Shells \ {b} /\ b \in Shells
    BY <1>4 DEF Shells
  <2> QED BY <1>1, <1>4, <2>1, OneLess, Finite, Sizes
<1> QED BY <1>2, <1>3, <1>4

\* A reference is dropped that neither the facade nor an operation holds any more:
\* the last one takes the shell and its pin along.
LEMMA DropStep ==
  ASSUME IInv, NEW b \in Bios, Drop(b), UNCHANGED <<callback, attached, poll_vars>>,
         thread' \in [Threads -> Operation \cup {Idle}],
         \A c \in Bios \ {b} : Users(c)' = Users(c),
         Cardinality(Users(b)') + (IF shell[b] = "open" THEN 1 ELSE 0) < refs[b],
         Calling' = Calling, \A t \in Threads : OpInv(t)',
         \A t \in Threads : thread'[t] = thread[t] \/ thread'[t] = Idle
  PROVE  IInv'
<1> USE DEF IInv
<1>0. Cardinality(Users(b)') \in Nat
  <2>1. Users(b)' \subseteq Threads
    BY DEF Users
  <2> QED BY <2>1, BioAssumption, FS_Subset, Sizes
<1>1. refs[b] \in 1 .. MaxRefs /\ ex_data[b] /\ shell[b] \in {"open", "closed"}
  BY <1>0, BioAssumption DEF TypeOK, BioInv
<1>2. method.live
  BY <1>1 DEF Shells
<1>3. refs' = [refs EXCEPT ![b] = @ - 1]
  BY DEF Drop
<1>4. ASSUME NEW c \in Bios \ {b}, shell'[c] = shell[c], ex_data'[c] = ex_data[c]
      PROVE  BioInv(c)'
  BY <1>3, <1>4 DEF BioInv, Held, TypeOK
<1>5. (polled \subseteq {Reads(copy_poll_descriptor_to_native(item))})'
  BY SMTT(60) DEF poll_vars
<1>8. ASSUME \A c \in Bios : shell[c] = "open" => shell'[c] = "open" PROVE \A t \in Threads : RunInv(t)'
  BY <1>8, BusyBio DEF RunInv, Idle
<1>6. CASE refs[b] = 1
  <2>1. /\ ex_data' = [ex_data EXCEPT ![b] = FALSE]
        /\ shell' = [shell EXCEPT ![b] = "none"]
        /\ method' = [method EXCEPT !.bios = IF @ = 0 THEN 0 ELSE @ - 1]
        /\ faults' = {}
    BY <1>1, <1>2, <1>6, Zenon DEF Drop, release_shell
  <2>2. Cardinality(Shells)' = method.bios - 1 /\ method.bios \in Nat \ {0}
    BY <1>1, <2>1, ShellsMove DEF TypeOK
  <2>3. method'.bios = method.bios - 1 /\ method'.live /\ method'.callbacks = method.callbacks
    BY <1>2, <2>1, <2>2 DEF TypeOK
  <2>4. TypeOK'
    <3>1. method' \in [live : BOOLEAN, batch : SUBSET Batches, bios : Nat, callbacks : Nat]
      BY <2>1, <2>2 DEF TypeOK
    <3>2. refs' \in [Bios -> 0 .. MaxRefs]
      BY <1>1, <1>3, BioAssumption, SMTT(60) DEF TypeOK
    <3> QED BY <3>1, <3>2, <2>1, BioAssumption DEF TypeOK, poll_vars
  <2>5. BioInv(b)'
    <3>1. shell[b] # "open" /\ Cardinality(Users(b)') = 0
      BY <1>0, <1>6
    <3>2. refs'[b] = 0 /\ ~ex_data'[b] /\ shell'[b] = "none" /\ ~callback'[b] /\ ~attached'[b]
      BY <1>3, <1>6, <2>1, <3>1 DEF TypeOK, BioInv
    <3> QED BY <3>1, <3>2 DEF BioInv, Held
  <2>6. \A c \in Bios \ {b} : BioInv(c)'
    BY <1>4, <2>1 DEF TypeOK
  <2>7. \A c \in Bios : shell[c] = "open" => shell'[c] = "open"
    BY <1>0, <1>6, <2>1, SMTT(60) DEF TypeOK
  <2> QED BY <1>5, <1>8, <2>1, <2>2, <2>3, <2>4, <2>5, <2>6, <2>7
<1>7. CASE refs[b] # 1
  <2>1. UNCHANGED <<ex_data, method, shell, faults>>
    BY <1>7 DEF Drop
  <2>2. TypeOK'
    <3>1. refs' \in [Bios -> 0 .. MaxRefs]
      BY <1>1, <1>3, BioAssumption, SMTT(60) DEF TypeOK
    <3> QED BY <2>1, <3>1 DEF TypeOK, poll_vars
  <2>3. BioInv(b)'
    BY <1>0, <1>1, <1>3, <1>7, <2>1, SMTT(60) DEF BioInv, Held, TypeOK
  <2>4. \A c \in Bios \ {b} : BioInv(c)'
    BY <1>4, <2>1
  <2>5. Shells' = Shells
    BY <2>1 DEF Shells
  <2> QED BY <1>5, <1>8, <2>1, <2>2, <2>3, <2>4, <2>5
<1> QED BY <1>6, <1>7

\* BIO_free in BIO_close drops the reference that the facade gave up.
LEMMA CloseFreesStep == ASSUME IInv, NEW b \in Bios, CloseFrees(b) PROVE IInv'
<1>1. UNCHANGED thread /\ refs[b] > Held(b) /\ Drop(b) /\ UNCHANGED <<callback, attached, poll_vars>>
  BY DEF CloseFrees
<1>2. Calling' = Calling /\ \A c \in Bios : Users(c)' = Users(c)
  BY <1>1, SMTT(60) DEF Calling, InCallback, Users
<1>3. \A t \in Threads : OpInv(t)' /\ thread'[t] = thread[t]
  BY <1>1 DEF OpInv, IInv
<1>4. Cardinality(Users(b)) + (IF shell[b] = "open" THEN 1 ELSE 0) < refs[b]
  <2>1. Held(b) \in Nat /\ refs[b] \in Nat
    BY Finite, Sizes, SMTT(60) DEF Held, IInv, TypeOK
  <2> QED BY <2>1, <1>1 DEF Held
<1> QED BY <1>1, <1>2, <1>3, <1>4, DropStep DEF IInv, TypeOK

\* An operation drops its reference when it ends.
LEMMA OperationEndsStep == ASSUME IInv, NEW t \in Threads, OperationEnds(t) PROVE IInv'
<1>1. PICK b \in Bios : b = thread[t].bio
  BY BusyBio DEF OperationEnds
<1>2. thread[t] # Idle /\ t \in Users(b)
  BY <1>1, Busy DEF OperationEnds, IInv, Users
<1>3. thread' = [thread EXCEPT ![t] = Idle] /\ Drop(b) /\ UNCHANGED <<callback, attached, poll_vars>>
  BY <1>1 DEF OperationEnds
<1>4. thread' \in [Threads -> Operation \cup {Idle}]
  BY <1>3 DEF IInv, TypeOK
<1>5. Users(b)' = Users(b) \ {t} /\ \A c \in Bios \ {b} : Users(c)' = Users(c)
  BY <1>1, <1>2, <1>3 DEF Users, IInv, TypeOK
<1>6. Calling' = Calling
  BY <1>3 DEF Calling, InCallback, Inside, OperationEnds, IInv, TypeOK, Idle
<1>7. \A u \in Threads : OpInv(u)' /\ (thread'[u] = thread[u] \/ thread'[u] = Idle)
  BY <1>3 DEF OpInv, IInv, TypeOK
<1>8. Cardinality(Users(b)') + (IF shell[b] = "open" THEN 1 ELSE 0) < refs[b]
  <2>1. Cardinality(Users(b)') = Cardinality(Users(b)) - 1 /\ Cardinality(Users(b)) \in Nat
    BY <1>2, <1>5, OneLess, Finite, Sizes
  <2>2. Held(b) <= refs[b] /\ refs[b] \in Nat
    BY SMTT(60) DEF IInv, BioInv, TypeOK
  <2> QED BY <2>1, <2>2 DEF Held
<1> QED BY <1>3, <1>4, <1>5, <1>6, <1>7, <1>8, DropStep, SMTT(60)

\* An operation holds a reference from its start.
LEMMA StartedStep ==
  ASSUME IInv, NEW t \in Threads, NEW b \in Bios, NEW kind \in Batches \cup {"dup"},
         NEW at \in {"check", "batch", "done"}, kind = "dup" => at # "batch",
         Started(t, b, kind, at)
  PROVE  IInv'
<1> USE DEF IInv
<1> DEFINE op == [at |-> at, bio |-> b, op |-> kind, after |-> FALSE, goes_on |-> TRUE,
                  native |-> 0, public |-> 0, edited |-> FALSE]
<1>1. thread[t] = Idle /\ thread' = [thread EXCEPT ![t] = op]
  BY DEF Started
<1>2. op \in Operation /\ op # Idle
  BY DEF Operation, Idle
<1>3. refs[b] \in 1 .. MaxRefs - 1 /\ refs' = [refs EXCEPT ![b] = @ + 1]
  BY SMTT(60) DEF Started, UpRef
<1>4. UNCHANGED <<method, shell, ex_data, callback, attached, faults, poll_vars>>
  BY DEF Started
<1>5. TypeOK'
  <2>1. refs' \in [Bios -> 0 .. MaxRefs]
    BY <1>3, BioAssumption DEF TypeOK
  <2>2. thread' \in [Threads -> Operation \cup {Idle}]
    BY <1>1, <1>2, SMTT(60) DEF TypeOK
  <2> QED BY <2>1, <2>2, <1>4 DEF TypeOK, poll_vars
<1>6. Shells' = Shells /\ Calling' = Calling
  <2>1. thread'[t] = op /\ \A u \in Threads \ {t} : thread'[u] = thread[u]
    BY <1>1, SMTT(60) DEF TypeOK
  <2>2. ~InCallback(t) /\ ~InCallback(t)'
    BY <1>1, <2>1 DEF InCallback, Inside, Idle
  <2> QED BY <1>4, <2>1, <2>2 DEF Shells, Calling, InCallback
<1>7. ASSUME NEW c \in Bios, c # b PROVE BioInv(c)'
  <2>1. Users(c)' = Users(c)
    BY <1>1, <1>2, <1>7, SMTT(60) DEF Users, TypeOK
  <2> QED BY <1>3, <1>4, <1>7, <2>1 DEF BioInv, Held, TypeOK
<1>8. BioInv(b)'
  <2>1. Users(b)' = Users(b) \cup {t} /\ t \notin Users(b)
    BY <1>1, <1>2 DEF Users, TypeOK
  <2>2. Cardinality(Users(b)') = Cardinality(Users(b)) + 1 /\ Cardinality(Users(b)) \in Nat
    BY <2>1, OneMore, Finite, Sizes
  <2>3. Held(b)' = Held(b) + 1
    BY <2>2, <1>4 DEF Held
  <2>4. Held(b) \in Nat /\ refs[b] \in Nat \ {0} /\ refs'[b] = refs[b] + 1
    BY <2>2, <1>3, BioAssumption, SMTT(60) DEF Held, TypeOK
  <2> QED BY <2>3, <2>4, <1>4 DEF BioInv
<1>9. \A u \in Threads : OpInv(u)' /\ RunInv(u)'
  <2>1. thread'[t] = op /\ \A u \in Threads \ {t} : thread'[u] = thread[u]
    BY <1>1, SMTT(60) DEF TypeOK
  <2>2. OpOK(op) /\ op.at # "running"
    BY DEF OpOK
  <2> QED BY <1>4, <2>1, <2>2 DEF OpInv, RunInv
<1> QED BY <1>4, <1>5, <1>6, <1>7, <1>8, <1>9, SMTT(60) DEF poll_vars

\* A batch operation, and the copy that ex_data_dup refuses.
LEMMA OperateStep ==
  ASSUME IInv, NEW t \in Threads, NEW b \in Bios, NEW op \in Batches, Operate(t, b, op) PROVE IInv'
<1> DEFINE at == IF op \notin method.batch THEN "done" ELSE IF attached[b] THEN "check" ELSE "batch"
<1>1. at \in {"check", "batch", "done"} /\ op # "dup" /\ Started(t, b, op, at)
  BY DEF Operate, Batches
<1> QED BY <1>1, StartedStep

LEMMA ex_data_dupStep ==
  ASSUME IInv, NEW t \in Threads, NEW b \in Bios, ex_data_dup(t, b) PROVE IInv'
<1> DEFINE at == IF attached[b] THEN "check" ELSE "done"
<1>1. at \in {"check", "batch", "done"} /\ at # "batch" /\ Started(t, b, "dup", at)
  BY DEF ex_data_dup
<1> QED BY <1>1, StartedStep

\* A step of one shell that keeps references and operations.
LEMMA ShellStep ==
  ASSUME IInv, NEW b \in Bios, UNCHANGED <<thread, poll_vars>>, TypeOK', faults' = {},
         \A c \in Bios \ {b} :
           UNCHANGED <<shell[c], refs[c], ex_data[c], callback[c], attached[c]>>,
         shell[b] = "open" => shell'[b] = "open" \/ Calling = {},
         BioInv(b)', method.live, method'.live, method'.callbacks = method.callbacks,
         method'.bios = method.bios + (IF shell'[b] = "none" THEN 0 ELSE 1)
                                    - (IF shell[b] = "none" THEN 0 ELSE 1)
  PROVE  IInv'
<1> USE DEF IInv
<1>1. Calling' = Calling /\ \A c \in Bios : Users(c)' = Users(c)
  BY SMTT(60) DEF Calling, InCallback, Users
<1>2. \A c \in Bios \ {b} : BioInv(c)'
  BY <1>1, SMTT(60) DEF BioInv, Held
<1>3. method'.bios = Cardinality(Shells)'
  BY ShellsMove
<1>4. \A t \in Threads : OpInv(t)' /\ RunInv(t)'
  <2>1. \A t \in Threads : thread[t].at = "running" => t \in Calling /\ thread[t].bio \in Bios
    BY BusyBio, SMTT(60) DEF Calling, InCallback, Inside
  <2> QED BY <2>1, SMTT(60) DEF OpInv, RunInv
<1>5. (polled \subseteq {Reads(copy_poll_descriptor_to_native(item))})'
  BY DEF poll_vars
<1> QED BY <1>1, <1>2, <1>3, <1>4, <1>5, SMTT(60)

\* Only shells and methods in use are touched: a shell pins its method.
LEMMA Pinned == ASSUME IInv, NEW b \in Bios, shell[b] # "none"
                PROVE  method.live /\ method.bios \in Nat \ {0}
BY ShellsMove, Finite, Sizes, ZenonT(60) DEF IInv, Shells

\* A BIO without references is used by nobody.
LEMMA Unused == ASSUME IInv, NEW b \in Bios, refs[b] = 0
                PROVE  Cardinality(Users(b)) = 0 /\ shell[b] \in {"none", "pinned"}
BY Finite, Sizes, SMTT(60) DEF IInv, BioInv, Held, TypeOK

\* A new shell pins the method.
LEMMA bio_new_internalStep == ASSUME IInv, NEW b \in Bios, bio_new_internal(b) PROVE IInv'
<1>1. shell[b] = "none" /\ method.live /\ method.bios \in Nat /\ (shell[b] # "none" => method.bios > 0)
  BY Pinned DEF bio_new_internal, IInv, TypeOK
<1>2. method' = [method EXCEPT !.bios = @ + 1]
  BY DEF bio_new_internal
<1>3. shell'[b] = "pinned" /\ refs'[b] = refs[b] /\ refs[b] = 0
  BY <1>1 DEF bio_new_internal, IInv, TypeOK, BioInv
<1>4. ~callback'[b] /\ ~attached'[b] /\ (ex_data'[b] <=> ex_data[b])
  BY <1>1 DEF bio_new_internal, IInv, TypeOK, BioInv
<1>5. TypeOK'
  <2>1. method' \in [live : BOOLEAN, batch : SUBSET Batches, bios : Nat, callbacks : Nat]
    BY <1>1, <1>2 DEF IInv, TypeOK
  <2> QED BY <2>1, BioAssumption DEF bio_new_internal, IInv, TypeOK, poll_vars
<1>6. /\ UNCHANGED <<thread, poll_vars>>
      /\ \A c \in Bios \ {b} :
           UNCHANGED <<shell[c], refs[c], ex_data[c], callback[c], attached[c]>>
  BY DEF bio_new_internal, IInv, TypeOK
<1>7. faults' = {}
  BY <1>1 DEF bio_new_internal, IInv
<1>8. /\ method'.live /\ method'.callbacks = method.callbacks
      /\ method'.bios = method.bios + (IF shell'[b] = "none" THEN 0 ELSE 1)
                                    - (IF shell[b] = "none" THEN 0 ELSE 1)
  BY <1>1, <1>2, <1>3, SMTT(60) DEF IInv, TypeOK
<1>9. BioInv(b)'
  <2>1. Users(b)' = Users(b) /\ Cardinality(Users(b)) \in Nat
    BY <1>6, Finite, Sizes, Zenon DEF Users
  <2>2. Held(b)' <= refs'[b]
    BY <1>1, <1>3, <2>1, Unused, SMTT(60) DEF IInv, TypeOK, BioInv, Held
  <2> QED BY <1>1, <1>3, <1>4, <2>2 DEF IInv, TypeOK, BioInv
<1> QED BY <1>1, <1>5, <1>6, <1>7, <1>8, <1>3, <1>9, ShellStep

\* The native BIO takes the shell into its ex-data.
LEMMA ConstructedStep == ASSUME IInv, NEW b \in Bios, Constructed(b) PROVE IInv'
<1>1. shell[b] = "pinned" /\ method.live /\ method.bios \in Nat /\ (shell[b] # "none" => method.bios > 0)
  BY Pinned DEF Constructed, IInv, TypeOK
<1>2. method' = method
  BY DEF Constructed
<1>3. shell'[b] = "open" /\ refs'[b] = 1 /\ refs[b] = 0
  BY <1>1 DEF Constructed, IInv, TypeOK, BioInv
<1>4. ex_data'[b] /\ ~callback'[b] /\ ~attached'[b]
  BY <1>1 DEF Constructed, IInv, TypeOK, BioInv
<1>5. TypeOK'
  <2>1. method' \in [live : BOOLEAN, batch : SUBSET Batches, bios : Nat, callbacks : Nat]
    BY <1>1, <1>2 DEF IInv, TypeOK
  <2> QED BY <2>1, BioAssumption DEF Constructed, IInv, TypeOK, poll_vars
<1>6. /\ UNCHANGED <<thread, poll_vars>>
      /\ \A c \in Bios \ {b} :
           UNCHANGED <<shell[c], refs[c], ex_data[c], callback[c], attached[c]>>
  BY DEF Constructed, IInv, TypeOK
<1>7. faults' = {}
  BY <1>1, SMTT(60) DEF Constructed, IInv
<1>8. /\ method'.live /\ method'.callbacks = method.callbacks
      /\ method'.bios = method.bios + (IF shell'[b] = "none" THEN 0 ELSE 1)
                                    - (IF shell[b] = "none" THEN 0 ELSE 1)
  BY <1>1, <1>2, <1>3, SMTT(60) DEF IInv, TypeOK
<1>9. BioInv(b)'
  <2>1. Users(b)' = Users(b) /\ Cardinality(Users(b)) \in Nat
    BY <1>6, Finite, Sizes, Zenon DEF Users
  <2>2. Held(b)' <= refs'[b]
    BY <1>1, <1>3, <2>1, Unused, SMTT(60) DEF IInv, TypeOK, BioInv, Held
  <2> QED BY <1>1, <1>3, <1>4, <2>2, SMTT(60) DEF IInv, TypeOK, BioInv
<1> QED BY <1>1, <1>5, <1>6, <1>7, <1>8, <1>3, <1>9, ShellStep

\* A closed facade has no callbacks.
LEMMA BIO_closeStep == ASSUME IInv, NEW b \in Bios, BIO_close(b) PROVE IInv'
<1>1. shell[b] = "open" /\ method.live /\ method.bios \in Nat /\ (shell[b] # "none" => method.bios > 0)
  BY Pinned DEF BIO_close, IInv, TypeOK
<1>2. method' = method
  BY DEF BIO_close
<1>3. shell'[b] = "closed" /\ refs'[b] = refs[b]
  BY <1>1 DEF BIO_close, IInv, TypeOK, BioInv
<1>4. ~callback'[b] /\ ~attached'[b] /\ (ex_data'[b] <=> ex_data[b])
  BY <1>1 DEF BIO_close, IInv, TypeOK, BioInv
<1>5. TypeOK'
  <2>1. method' \in [live : BOOLEAN, batch : SUBSET Batches, bios : Nat, callbacks : Nat]
    BY <1>1, <1>2 DEF IInv, TypeOK
  <2> QED BY <2>1, BioAssumption DEF BIO_close, IInv, TypeOK, poll_vars
<1>6. /\ UNCHANGED <<thread, poll_vars>>
      /\ \A c \in Bios \ {b} :
           UNCHANGED <<shell[c], refs[c], ex_data[c], callback[c], attached[c]>>
  BY DEF BIO_close, IInv, TypeOK
<1>7. faults' = {}
  BY <1>1, SMTT(60) DEF BIO_close, IInv
<1>8. /\ method'.live /\ method'.callbacks = method.callbacks
      /\ method'.bios = method.bios + (IF shell'[b] = "none" THEN 0 ELSE 1)
                                    - (IF shell[b] = "none" THEN 0 ELSE 1)
  BY <1>1, <1>2, <1>3, SMTT(60) DEF IInv, TypeOK
<1>9. BioInv(b)'
  <2>1. Users(b)' = Users(b) /\ Cardinality(Users(b)) \in Nat
    BY <1>6, Finite, Sizes, Zenon DEF Users
  <2>2. Held(b)' <= refs'[b]
    BY <1>1, <1>3, <2>1, Unused, SMTT(60) DEF IInv, TypeOK, BioInv, Held
  <2>3. refs[b] > 0 /\ ex_data[b]
    BY <1>1 DEF IInv, BioInv
  <2> QED BY <1>3, <1>4, <2>2, <2>3, SMTT(60) DEF BioInv
<1>10. Calling = {}
  <2>1. Cardinality(Calling) = 0
    BY DEF BIO_close, IInv
  <2> QED BY <2>1, Finite, Sizes
<1> QED BY <1>1, <1>5, <1>6, <1>7, <1>8, <1>9, <1>10, ShellStep, ZenonT(60)

\* Only an open facade gets callbacks.
LEMMA BIO_set_callbackStep == ASSUME IInv, NEW b \in Bios, NEW set \in BOOLEAN, BIO_set_callback(b, set) PROVE IInv'
<1>1. shell[b] = "open" /\ method.live /\ method.bios \in Nat /\ (shell[b] # "none" => method.bios > 0)
  BY Pinned DEF BIO_set_callback, IInv, TypeOK
<1>2. method' = method
  BY DEF BIO_set_callback
<1>3. shell'[b] = "open" /\ refs'[b] = refs[b]
  BY <1>1 DEF BIO_set_callback, IInv, TypeOK, BioInv
<1>4. (callback'[b] <=> attached'[b]) /\ (ex_data'[b] <=> ex_data[b])
  BY <1>1 DEF BIO_set_callback, IInv, TypeOK, BioInv
<1>5. TypeOK'
  <2>1. method' \in [live : BOOLEAN, batch : SUBSET Batches, bios : Nat, callbacks : Nat]
    BY <1>1, <1>2 DEF IInv, TypeOK
  <2> QED BY <2>1, BioAssumption DEF BIO_set_callback, IInv, TypeOK, poll_vars
<1>6. /\ UNCHANGED <<thread, poll_vars>>
      /\ \A c \in Bios \ {b} :
           UNCHANGED <<shell[c], refs[c], ex_data[c], callback[c], attached[c]>>
  BY DEF BIO_set_callback, IInv, TypeOK
<1>7. faults' = {}
  BY <1>1, SMTT(60) DEF BIO_set_callback, IInv
<1>8. /\ method'.live /\ method'.callbacks = method.callbacks
      /\ method'.bios = method.bios + (IF shell'[b] = "none" THEN 0 ELSE 1)
                                    - (IF shell[b] = "none" THEN 0 ELSE 1)
  BY <1>1, <1>2, <1>3, SMTT(60) DEF IInv, TypeOK
<1>9. BioInv(b)'
  <2>1. Users(b)' = Users(b) /\ Cardinality(Users(b)) \in Nat
    BY <1>6, Finite, Sizes, ZenonT(60) DEF Users
  <2>2. Held(b)' <= refs'[b]
    BY <1>1, <1>3, <2>1, Unused, SMTT(60) DEF IInv, TypeOK, BioInv, Held
  <2>3. refs[b] > 0 /\ ex_data[b]
    BY <1>1, SMTT(60) DEF IInv, BioInv
  <2> QED BY <1>3, <1>4, <2>2, <2>3 DEF BioInv
<1> QED BY <1>1, <1>5, <1>6, <1>7, <1>8, <1>3, <1>9, ShellStep, SMTT(60)

\* A failed construction gives the shell and its pin back.
LEMMA ConstructionFailsStep == ASSUME IInv, NEW b \in Bios, NEW stage, ConstructionFails(b, stage) PROVE IInv'
<1>1. shell[b] = "pinned" /\ method.live /\ method.bios \in Nat /\ (shell[b] # "none" => method.bios > 0)
  BY Pinned DEF ConstructionFails, IInv, TypeOK
<1>2. method' = [method EXCEPT !.bios = IF @ = 0 THEN 0 ELSE @ - 1]
  BY Zenon DEF ConstructionFails, release_shell
<1>3. shell'[b] = "none" /\ refs'[b] = refs[b] /\ refs[b] = 0
  BY <1>1 DEF ConstructionFails, release_shell, IInv, TypeOK, BioInv
<1>4. ~callback'[b] /\ ~attached'[b] /\ (ex_data'[b] <=> ex_data[b])
  BY <1>1 DEF ConstructionFails, release_shell, IInv, TypeOK, BioInv
<1>5. TypeOK'
  <2>1. method' \in [live : BOOLEAN, batch : SUBSET Batches, bios : Nat, callbacks : Nat]
    BY <1>1, <1>2 DEF IInv, TypeOK
  <2> QED BY <2>1, BioAssumption, Zenon DEF ConstructionFails, release_shell, IInv, TypeOK, poll_vars
<1>6. /\ UNCHANGED <<thread, poll_vars>>
      /\ \A c \in Bios \ {b} :
           UNCHANGED <<shell[c], refs[c], ex_data[c], callback[c], attached[c]>>
  BY Zenon DEF ConstructionFails, release_shell, IInv, TypeOK
<1>7. faults' = {}
  BY <1>1 DEF ConstructionFails, release_shell, IInv
<1>8. /\ method'.live /\ method'.callbacks = method.callbacks
      /\ method'.bios = method.bios + (IF shell'[b] = "none" THEN 0 ELSE 1)
                                    - (IF shell[b] = "none" THEN 0 ELSE 1)
  BY <1>1, <1>2, <1>3, SMTT(60) DEF IInv, TypeOK
<1>9. BioInv(b)'
  <2>1. Users(b)' = Users(b) /\ Cardinality(Users(b)) \in Nat
    BY <1>6, Finite, Sizes, Zenon DEF Users
  <2>2. Held(b)' <= refs'[b]
    BY <1>1, <1>3, <2>1, Unused, SMTT(60) DEF IInv, TypeOK, BioInv, Held
  <2> QED BY <1>1, <1>3, <1>4, <2>2 DEF IInv, TypeOK, BioInv
<1> QED BY <1>1, <1>5, <1>6, <1>7, <1>8, <1>3, <1>9, ShellStep, ZenonT(60)

\* A method is made and closed when it has no shells, and so no callbacks.
LEMMA MethodStep ==
  ASSUME IInv,
         \/ BIO_meth_new \/ BIO_meth_close
         \/ \E set \in BOOLEAN : BIO_meth_set_sendmmsg(set) \/ BIO_meth_set_recvmmsg(set)
  PROVE  IInv'
<1> USE DEF IInv
<1>1. UNCHANGED <<shell, refs, ex_data, callback, attached, thread, faults, poll_vars>>
  BY DEF BIO_meth_new, BIO_meth_close, BIO_meth_set_sendmmsg, BIO_meth_set_recvmmsg, SetBatch
<1>2. Shells' = Shells /\ Calling' = Calling /\ \A b \in Bios : Users(b)' = Users(b)
  BY <1>1 DEF Shells, Calling, InCallback, Users
<1>3. method' \in [live : BOOLEAN, batch : SUBSET Batches, bios : Nat, callbacks : Nat]
  <2>1. CASE BIO_meth_new
    BY <2>1 DEF BIO_meth_new
  <2>2. CASE BIO_meth_close
    BY <2>2, Zenon DEF BIO_meth_close, TypeOK
  <2>3. ASSUME NEW op \in Batches, NEW set \in BOOLEAN, SetBatch(op, set)
        PROVE  method' \in [live : BOOLEAN, batch : SUBSET Batches, bios : Nat, callbacks : Nat]
    BY <2>3 DEF SetBatch, TypeOK
  <2> QED BY <2>1, <2>2, <2>3 DEF BIO_meth_set_sendmmsg, BIO_meth_set_recvmmsg, Batches
<1>4. TypeOK'
  BY <1>1, <1>3, SMTT(60) DEF TypeOK, poll_vars
<1>5. /\ method'.bios = Cardinality(Shells) /\ method'.callbacks = Cardinality(Calling)
      /\ method'.live \/ Shells = {}
  <2>1. CASE BIO_meth_new
    <3>1. Shells = {}
      BY <2>1, Zenon DEF BIO_meth_new
    <3>2. Calling = {}
      BY <3>1, BusyBio DEF Calling, InCallback, Inside, Shells
    <3> QED BY <2>1, <3>1, <3>2, Sizes, Finite, ZenonT(60) DEF BIO_meth_new
  <2>2. CASE BIO_meth_close
    BY <2>2, Sizes, Finite, ZenonT(60) DEF BIO_meth_close, TypeOK
  <2>3. CASE \E set \in BOOLEAN : BIO_meth_set_sendmmsg(set) \/ BIO_meth_set_recvmmsg(set)
    BY <2>3, SMTT(60) DEF BIO_meth_set_sendmmsg, BIO_meth_set_recvmmsg, SetBatch, TypeOK
  <2> QED BY <2>1, <2>2, <2>3, SMTT(60)
<1>6. \A b \in Bios : BioInv(b)'
  <2>1. ASSUME NEW b \in Bios PROVE Held(b)' = Held(b)
    BY <1>1, <1>2, <2>1, Zenon DEF Held
  <2>2. ASSUME NEW b \in Bios PROVE BioInv(b)
    BY <2>2, Zenon
  <2> QED BY <1>1, <2>1, <2>2, Zenon DEF BioInv
<1>7. \A t \in Threads : OpInv(t)' /\ RunInv(t)'
  BY <1>1 DEF OpInv, RunInv
<1> QED BY <1>1, <1>2, <1>4, <1>5, <1>6, <1>7, ZenonT(60) DEF poll_vars

-----------------------------------------------------------------------------
(* Poll items.                                                             *)

\* A value that fits keeps its value.
LEMMA Fits ==
  ASSUME NEW n \in Nat
  PROVE  n % Word \in 0 .. Word - 1 /\ (n % Word) % Word = n % Word
BY BioAssumption

\* What fits a descriptor fits the union.
LEMMA Narrow == Word - 1 <= Word * Word - 1
BY BioAssumption

\* Converting a native descriptor to an item and back keeps what SSL_poll reads.
LEMMA RoundTrip ==
  ASSUME NEW i \in Items
  PROVE  LET n == copy_poll_descriptor_to_native(i)
             j == copy_poll_descriptor_from_native(n)
         IN  j \in Items /\ Reads(copy_poll_descriptor_to_native(j)) = Reads(n)
<1> DEFINE n == copy_poll_descriptor_to_native(i)
           j == copy_poll_descriptor_from_native(n)
<1>1. n.type \in Types /\ n.value \in 0 .. Word * Word - 1 /\ n.value \in Nat
  BY Fits, Narrow, BioAssumption DEF copy_poll_descriptor_to_native, Items
<1>2. CASE n.type = "sock_fd"
  <2>1. j = [type |-> "sock_fd", kind |-> "fd", value |-> n.value % Word]
    BY <1>2 DEF copy_poll_descriptor_from_native
  <2>2. j \in Items
    <3>1. n.value % Word \in 0 .. Word * Word - 1
      <4>1. n.value % Word \in 0 .. Word - 1
        BY <1>1, Fits
      <4> HIDE DEF n
      <4> QED BY <4>1, Narrow, BioAssumption
    <3> QED BY <2>1, <3>1 DEF Items, Types, Kinds
  <2>3. copy_poll_descriptor_to_native(j) = [type |-> "sock_fd", value |-> n.value % Word]
    BY <1>1, <2>1, Fits DEF copy_poll_descriptor_to_native
  <2> QED BY <1>1, <1>2, <2>2, <2>3, Fits DEF Reads
<1>3. CASE n.type = "ssl" \/ n.type = "custom"
  <2>1. j = [type |-> n.type, kind |-> IF n.type = "ssl" THEN "ssl" ELSE "pointer",
             value |-> n.value]
    BY <1>3 DEF copy_poll_descriptor_from_native
  <2>2. j \in Items
    BY <1>1, <2>1 DEF Items, Types, Kinds
  <2>3. copy_poll_descriptor_to_native(j) = [type |-> n.type, value |-> n.value]
    BY <1>1, <2>1 DEF copy_poll_descriptor_to_native
  <2> QED BY <1>1, <1>3, <2>2, <2>3 DEF Reads
<1>4. CASE n.type = "none"
  <2>1. j = [type |-> "none", kind |-> "none", value |-> 0]
    BY <1>4 DEF copy_poll_descriptor_from_native
  <2>2. j \in Items
    BY <2>1, Narrow, BioAssumption DEF Items, Types, Kinds
  <2>3. copy_poll_descriptor_to_native(j).type = "none"
    BY <2>1 DEF copy_poll_descriptor_to_native
  <2> QED BY <1>4, <2>2, <2>3 DEF Reads
<1> QED BY <1>1, <1>2, <1>3, <1>4 DEF Types

\* Polling leaves an item that polls the same; filling it forgets what was polled.
LEMMA PollStep == ASSUME IInv, PollNext PROVE IInv'
<1> USE DEF IInv
<1>1. UNCHANGED bio_vars
  BY DEF PollNext, SSL_poll, AppFills
<1>2. item' \in Items /\ polled' \subseteq {Reads(copy_poll_descriptor_to_native(item'))}
  <2>1. CASE SSL_poll
    <3> DEFINE n == copy_poll_descriptor_to_native(item)
    <3>1. item' = copy_poll_descriptor_from_native(n) /\ polled' = polled \cup {Reads(n)}
      BY <2>1 DEF SSL_poll
    <3>2. item' \in Items /\ Reads(copy_poll_descriptor_to_native(item')) = Reads(n)
      BY <3>1, RoundTrip DEF TypeOK
    <3> QED BY <3>1, <3>2, SMTT(60)
  <2>2. CASE AppFills
    BY <2>2 DEF AppFills
  <2> QED BY <2>1, <2>2 DEF PollNext
<1>3. TypeOK'
  BY <1>1, <1>2, SMTT(60) DEF TypeOK, bio_vars
<1>4. Shells' = Shells /\ Calling' = Calling /\ \A b \in Bios : Users(b)' = Users(b)
  BY <1>1, SMTT(60) DEF Shells, Calling, InCallback, Users, bio_vars
<1>5. (\A b \in Bios : BioInv(b)') /\ (\A t \in Threads : OpInv(t)' /\ RunInv(t)')
  BY <1>1, <1>4 DEF BioInv, Held, OpInv, RunInv, bio_vars
<1> QED BY <1>1, <1>2, <1>3, <1>4, <1>5 DEF bio_vars

-----------------------------------------------------------------------------
\* Nothing exists at first.
LEMMA Initially == Init => IInv
<1> SUFFICES ASSUME Init PROVE IInv
  OBVIOUS
<1>1. TypeOK
  <2>1. item \in Items
    BY Narrow, BioAssumption DEF Init, Items, Types, Kinds
  <2> QED BY <2>1, BioAssumption DEF Init, TypeOK
<1>2. Shells = {} /\ Calling = {} /\ \A b \in Bios : Users(b) = {}
  BY DEF Init, Shells, Calling, InCallback, Inside, Users, Idle
<1>3. Cardinality({}) = 0
  BY FS_EmptySet
<1>4. \A b \in Bios : BioInv(b)
  <2> SUFFICES ASSUME NEW b \in Bios PROVE BioInv(b)
    OBVIOUS
  <2>1. Held(b) = 0
    <3>1. Cardinality(Users(b)) = 0
      BY <1>2, <1>3, Zenon
    <3>2. shell[b] = "none"
      BY DEF Init
    <3> QED BY <3>1, <3>2 DEF Held
  <2> QED BY <2>1 DEF Init, BioInv
<1>5. \A t \in Threads : OpInv(t) /\ RunInv(t)
  BY DEF Init, OpInv, RunInv, Idle
<1> QED BY <1>1, <1>2, <1>3, <1>4, <1>5 DEF Init, IInv

\* Every step keeps the invariant.
LEMMA Invariance == IInv /\ [Next]_vars => IInv'
<1> SUFFICES ASSUME IInv, [Next]_vars PROVE IInv'
  BY SMTT(60)
<1>1. CASE UNCHANGED vars
  BY <1>1 DEF vars, IInv, TypeOK, Shells, Calling, InCallback, BioInv, Held, Users, OpInv, RunInv
<1>2. ASSUME NEW b \in Bios,
             \/ bio_new_internal(b) \/ Constructed(b) \/ BIO_close(b) \/ CloseFrees(b)
             \/ \E stage \in {"native", "ex_data"} : ConstructionFails(b, stage)
             \/ \E set \in BOOLEAN : BIO_set_callback(b, set)
      PROVE  IInv'
  BY <1>2, bio_new_internalStep, ConstructedStep, BIO_closeStep, CloseFreesStep,
     ConstructionFailsStep, BIO_set_callbackStep, SMTT(60)
<1>3. ASSUME NEW t \in Threads,
             \/ \E b \in Bios : ex_data_dup(t, b) \/ \E op \in Batches : Operate(t, b, op)
             \/ native_differs(t) \/ callback_enter(t) \/ callback_leave(t)
             \/ \E memory \in BOOLEAN : \/ callback_trampoline(t, memory)
                                        \/ mmsg_callback_invoke(t, memory)
             \/ \E answer \in BOOLEAN : callback_mmsg_copy_back(t, answer)
             \/ AppEdits(t) \/ mmsg_callback_returns(t) \/ mmsg_callback_leaves(t)
             \/ OperationEnds(t)
      PROVE  IInv'
  BY <1>3, ex_data_dupStep, OperateStep, native_differsStep, callback_enterStep,
     callback_mmsg_copy_backStep, callback_leaveStep,
     callback_trampolineStep, mmsg_callback_invokeStep, AppEditsStep,
     mmsg_callback_returnsStep, mmsg_callback_leavesStep, OperationEndsStep, SMTT(60)
<1>4. CASE \/ BIO_meth_new \/ BIO_meth_close
           \/ \E set \in BOOLEAN : BIO_meth_set_sendmmsg(set) \/ BIO_meth_set_recvmmsg(set)
  BY <1>4, MethodStep
<1>5. CASE PollNext
  BY <1>5, PollStep
<1> QED BY <1>1, <1>2, <1>3, <1>4, <1>5 DEF Next, BioNext

\* The invariant holds throughout.
LEMMA Always == Spec => []IInv
BY Initially, Invariance, PTL DEF Spec

\* The counters of a method are its shells and running callbacks, so that
\* BIO_meth_close frees nothing in use; a shell lives exactly as long as its native
\* BIO and is released once; what callbacks edit reaches OpenSSL; and an item that
\* is polled again polls the same: for any number of BIOs and threads, with every
\* failed construction and every interleaving of close and operations.
THEOREM BiosAreExact == Spec => []BiosExact
<1>1. IInv => BiosExact
  <2> SUFFICES ASSUME IInv PROVE BiosExact
    OBVIOUS
  <2>1. PinsExact
    <3>1. method.live \/ Calling = {}
      BY BusyBio DEF Calling, InCallback, Inside
    <3> QED BY <3>1 DEF PinsExact, IInv
  <2>2. ShellsExact
    <3>1. \A t \in Threads : thread[t].at = "running" =>
              shell[thread[t].bio] = "open" /\ thread[t].op # "dup"
      BY OpFacts DEF RunInv, OpOK
    <3> QED BY <3>1, SMTT(60) DEF IInv, BioInv, TypeOK, ShellsExact
  <2>3. EditsReachNative
    BY OpFacts DEF OpOK, EditsReachNative
  <2>4. PollStable
    <3> DEFINE r == Reads(copy_poll_descriptor_to_native(item))
    <3>1. polled \subseteq {r}
      BY DEF IInv
    <3>2. IsFiniteSet({r}) /\ Cardinality({r}) = 1
      BY FS_Singleton
    <3> QED BY <3>1, <3>2, FS_Subset, SMTT(60) DEF PollStable
  <2> QED BY <2>1, <2>2, <2>3, <2>4 DEF BiosExact, IInv
<1> QED BY <1>1, Always, PTL
===============================================================================
