----------------------------- MODULE OpensslBio -----------------------------
(***************************************************************************)
(* BIO facades of src/openssl.c.  A facade shell (cpkt_openssl_bio) is     *)
(* owned by the ex-data of its native BIO and pins its method, so a method *)
(* may be closed only when no shell and no callback is left.  Threads run  *)
(* the batch callback of the method and the generic callback of the BIO    *)
(* through trampolines; each critical section of method->lock is one       *)
(* action.  Poll items are converted to native descriptors and back.       *)
(*                                                                         *)
(* External: OpenSSL counts the references of a native BIO, releases its   *)
(* ex-data with the last one and, in BIO_dup_chain, copies callback and    *)
(* callback argument before it asks ex_data_dup.  The application uses a   *)
(* native BIO only while it holds a reference, uses a facade not after     *)
(* BIO_close took it, and closes a method when no other call is using it.  *)
(***************************************************************************)
EXTENDS Naturals, FiniteSets

CONSTANTS
  Bios,            \* facade shells, with their native BIO
  Threads,         \* threads inside a native batch operation or a copy
  MaxRefs,         \* references a native BIO may have
  Word             \* the union of a descriptor holds 0 .. Word*Word-1, an fd 0 .. Word-1

ASSUME BioAssumption ==
  /\ IsFiniteSet(Bios) /\ IsFiniteSet(Threads)
  /\ MaxRefs \in Nat \ {0} /\ Word \in Nat \ {0}

VARIABLES
  method,          \* the method: live, the batch callbacks set, its two counters
  shell,           \* per shell: none, pinned (native BIO in construction), open, closed
  refs,            \* references of the native BIO
  ex_data,         \* the native BIO's ex-data slot holds the shell
  callback,        \* the generic callback of the facade is set
  attached,        \* the trampoline is attached to the native BIO
  thread,          \* what each thread does
  faults,          \* what went wrong (nothing ever should)
  item, polled     \* a poll item and the native descriptor of its last SSL_poll

bio_vars  == <<method, shell, refs, ex_data, callback, attached, thread, faults>>
poll_vars == <<item, polled>>
vars == <<method, shell, refs, ex_data, callback, attached, thread, faults, item, polled>>

\* An operation: where it is, on which BIO, what it does, whether the batch
\* callback has been called, whether OpenSSL is told to go on, a message record
\* and the copy of it that a callback sees, and whether a callback edited it.
Idle == [at |-> "idle"]
Batches == {"send", "receive"}
Operation ==
  [at : {"check", "enter", "pick", "running", "leave", "batch", "in_batch", "out", "done"},
   bio : Bios, op : Batches \cup {"dup"}, after : BOOLEAN, goes_on : BOOLEAN,
   native : 0 .. 1, public : 0 .. 1, edited : BOOLEAN]

Kinds == {"none", "fd", "pointer", "uintptr", "ssl"}
Types == {"none", "sock_fd", "ssl", "custom"}
Items == [type : Types, kind : Kinds, value : 0 .. Word * Word - 1]

TypeOK ==
  /\ method \in [live : BOOLEAN, batch : SUBSET Batches, bios : Nat, callbacks : Nat]
  /\ shell \in [Bios -> {"none", "pinned", "open", "closed"}]
  /\ refs \in [Bios -> 0 .. MaxRefs] /\ ex_data \in [Bios -> BOOLEAN]
  /\ callback \in [Bios -> BOOLEAN] /\ attached \in [Bios -> BOOLEAN]
  /\ thread \in [Threads -> Operation \cup {Idle}]
  /\ item \in Items

Init ==
  /\ method = [live |-> FALSE, batch |-> {}, bios |-> 0, callbacks |-> 0]
  /\ shell = [b \in Bios |-> "none"]
  /\ refs = [b \in Bios |-> 0]
  /\ ex_data = [b \in Bios |-> FALSE]
  /\ callback = [b \in Bios |-> FALSE]
  /\ attached = [b \in Bios |-> FALSE]
  /\ thread = [t \in Threads |-> Idle]
  /\ faults = {}
  /\ item = [type |-> "none", kind |-> "none", value |-> 0]
  /\ polled = {}

-----------------------------------------------------------------------------
\* Methods.

BIO_meth_new ==
  /\ ~method.live
  /\ method' = [live |-> TRUE, batch |-> {}, bios |-> 0, callbacks |-> 0]
  /\ UNCHANGED <<shell, refs, ex_data, callback, attached, thread, faults, poll_vars>>

BIO_meth_close ==
  /\ method.live /\ method.bios = 0 /\ method.callbacks = 0
  /\ method' = [method EXCEPT !.live = FALSE]
  /\ UNCHANGED <<shell, refs, ex_data, callback, attached, thread, faults, poll_vars>>

\* A batch callback is set, or cleared with NULL; the other one is left alone.
SetBatch(op, set) ==
  /\ method.live
  /\ method' = [method EXCEPT !.batch = IF set THEN @ \cup {op} ELSE @ \ {op}]
  /\ UNCHANGED <<shell, refs, ex_data, callback, attached, thread, faults, poll_vars>>

BIO_meth_set_sendmmsg(set) == SetBatch("send", set)
BIO_meth_set_recvmmsg(set) == SetBatch("receive", set)

-----------------------------------------------------------------------------
\* Construction: the shell pins the method, then the native BIO is made
\* outside the lock and takes the shell into its ex-data.

bio_new_internal(b) ==
  /\ method.live /\ shell[b] = "none" /\ refs[b] = 0
  /\ shell' = [shell EXCEPT ![b] = "pinned"]
  /\ method' = [method EXCEPT !.bios = @ + 1]
  /\ callback' = [callback EXCEPT ![b] = FALSE]
  /\ attached' = [attached EXCEPT ![b] = FALSE]
  /\ UNCHANGED <<refs, ex_data, thread, faults, poll_vars>>

\* The shell is freed once and its pin with it.
release_shell(b) ==
  /\ method' = [method EXCEPT !.bios = IF @ = 0 THEN 0 ELSE @ - 1]
  /\ shell' = [shell EXCEPT ![b] = "none"]
  /\ faults' = faults \cup (IF shell[b] = "none" THEN {"shell released twice"} ELSE {})
                      \cup (IF ~method.live THEN {"pin of a freed method"} ELSE {})

Constructed(b) ==
  /\ shell[b] = "pinned"
  /\ shell' = [shell EXCEPT ![b] = "open"]
  /\ refs' = [refs EXCEPT ![b] = 1]
  /\ ex_data' = [ex_data EXCEPT ![b] = TRUE]
  /\ UNCHANGED <<method, callback, attached, thread, faults, poll_vars>>

\* BIO_new_ex fails, or BIO_set_ex_data does and the native BIO, which does
\* not own the shell yet, is freed first.
ConstructionFails(b, stage) ==
  /\ shell[b] = "pinned"
  /\ release_shell(b)
  /\ UNCHANGED <<refs, ex_data, callback, attached, thread, poll_vars>>

-----------------------------------------------------------------------------
\* Native references.

UpRef(b) ==
  /\ shell[b] \in {"open", "closed"} /\ refs[b] \in 1 .. MaxRefs - 1
  /\ refs' = [refs EXCEPT ![b] = @ + 1]

\* The last reference releases the ex-data, and the shell with it.
Drop(b) ==
  /\ refs' = [refs EXCEPT ![b] = @ - 1]
  /\ IF refs[b] = 1 /\ ex_data[b]
       THEN ex_data' = [ex_data EXCEPT ![b] = FALSE] /\ release_shell(b)
       ELSE UNCHANGED <<ex_data, method, shell, faults>>

\* Mutated form: the trampoline is detached, but the facade's callback stays set.
BIO_close_Armed(b) ==
  /\ shell[b] = "open" /\ method.callbacks = 0
  /\ shell' = [shell EXCEPT ![b] = "closed"]
  /\ attached' = [attached EXCEPT ![b] = FALSE]
  /\ UNCHANGED <<method, refs, ex_data, callback, thread, faults, poll_vars>>

\* BIO_close detaches the generic callbacks under the lock, unless a callback
\* of the method runs; BIO_free then drops the facade's reference.
BIO_close(b) ==
  /\ shell[b] = "open" /\ method.callbacks = 0
  /\ shell' = [shell EXCEPT ![b] = "closed"]
  /\ callback' = [callback EXCEPT ![b] = FALSE]
  /\ attached' = [attached EXCEPT ![b] = FALSE]
  /\ UNCHANGED <<method, refs, ex_data, thread, faults, poll_vars>>

\* References held by running operations and by a facade that is still open.
Users(b) == {t \in Threads : thread[t] # Idle /\ thread[t].bio = b}
Held(b) == Cardinality(Users(b)) + (IF shell[b] = "open" THEN 1 ELSE 0)

CloseFrees(b) ==
  /\ shell[b] = "closed" /\ refs[b] > Held(b)
  /\ Drop(b)
  /\ UNCHANGED <<callback, attached, thread, poll_vars>>

BIO_set_callback(b, set) ==
  /\ shell[b] = "open"
  /\ callback' = [callback EXCEPT ![b] = set]
  /\ attached' = [attached EXCEPT ![b] = set]
  /\ UNCHANGED <<method, shell, refs, ex_data, thread, faults, poll_vars>>

-----------------------------------------------------------------------------
\* A thread's native batch operation: OpenSSL calls the attached trampoline,
\* the method's batch callback and the trampoline again, and drops the thread's
\* reference.  The records cross as copies in both directions.

Started(t, b, op, at) ==
  /\ thread[t] = Idle
  /\ UpRef(b)
  /\ thread' = [thread EXCEPT ![t] =
       [at |-> at, bio |-> b, op |-> op, after |-> FALSE, goes_on |-> TRUE,
        native |-> 0, public |-> 0, edited |-> FALSE]]
  /\ UNCHANGED <<method, shell, ex_data, callback, attached, faults, poll_vars>>

Operate(t, b, op) ==
  Started(t, b, op, IF op \notin method.batch THEN "done"
                    ELSE IF attached[b] THEN "check" ELSE "batch")

\* BIO_dup_chain gives the copy the callbacks and the callback argument of the
\* original; then ex_data_dup refuses to share the shell, and the copy, whose
\* ex-data slot is empty, is freed: first its free callback, if it has one.
ex_data_dup(t, b) ==
  /\ ex_data[b]
  /\ Started(t, b, "dup", IF attached[b] THEN "check" ELSE "done")

Goto(t, at) == thread' = [thread EXCEPT ![t].at = at]

\* OpenSSL calls the trampoline after the batch callback, too.
BatchDone(t) ==
  thread' = [thread EXCEPT ![t].at = IF attached[thread[t].bio] THEN "check" ELSE "done",
                           ![t].after = TRUE]

\* The trampoline is called on a BIO that is not the facade's native one: a copy,
\* or the original of a closed facade.  The test of native is outside the lock.
OtherNative(t) == thread[t].op = "dup" \/ shell[thread[t].bio] # "open"

native_differs(t) ==
  /\ thread[t].at = "check"
  /\ Goto(t, IF ~OtherNative(t) THEN "enter"
             ELSE IF thread[t].op = "dup" \/ thread[t].after THEN "done" ELSE "batch")
  /\ faults' = faults \cup
       (IF shell[thread[t].bio] = "none" THEN {"callback argument freed"} ELSE {})
  /\ UNCHANGED <<method, shell, refs, ex_data, callback, attached, poll_vars>>

\* BIO_close may have taken the facade since.
callback_enter(t) ==
  /\ thread[t].at = "enter"
  /\ method' = [method EXCEPT !.callbacks = @ + 1]
  /\ Goto(t, "pick")
  /\ UNCHANGED <<shell, refs, ex_data, callback, attached, faults, poll_vars>>

\* The callback is read under the lock; the records are copied, or there is no
\* memory for the copy and OpenSSL is told to stop.
callback_trampoline(t, memory) ==
  /\ thread[t].at = "pick"
  /\ IF callback[thread[t].bio] /\ memory
       THEN thread' = [thread EXCEPT ![t].at = "running", ![t].public = thread[t].native]
       ELSE thread' = [thread EXCEPT ![t].at = "leave", ![t].goes_on = ~callback[thread[t].bio]]
  /\ UNCHANGED <<method, shell, refs, ex_data, callback, attached, faults, poll_vars>>

AppEdits(t) ==
  /\ thread[t].at \in {"running", "in_batch"} /\ ~thread[t].edited
  /\ thread' = [thread EXCEPT ![t].public = 1, ![t].edited = TRUE]
  /\ UNCHANGED <<method, shell, refs, ex_data, callback, attached, faults, poll_vars>>

\* The application's answer is OpenSSL's: to go on, or not.
callback_mmsg_copy_back(t, answer) ==
  /\ thread[t].at = "running"
  /\ thread' = [thread EXCEPT ![t].at = "leave", ![t].native = thread[t].public,
                              ![t].goes_on = answer]
  /\ UNCHANGED <<method, shell, refs, ex_data, callback, attached, faults, poll_vars>>

callback_leave(t) ==
  /\ thread[t].at = "leave"
  /\ method' = [method EXCEPT !.callbacks = @ - 1]
  /\ Goto(t, IF thread[t].goes_on /\ ~thread[t].after THEN "batch" ELSE "done")
  /\ UNCHANGED <<shell, refs, ex_data, callback, attached, faults, poll_vars>>

\* bio_mmsg_callback_invoke up to the callback: the shell comes from the
\* callback argument, which outlives BIO_close.
mmsg_callback_invoke(t, memory) ==
  /\ thread[t].at = "batch"
  /\ IF thread[t].op \notin method.batch
       THEN BatchDone(t) /\ UNCHANGED method
       ELSE /\ method' = [method EXCEPT !.callbacks = @ + 1]
            /\ thread' = [thread EXCEPT ![t].at = IF memory THEN "in_batch" ELSE "out",
                                        ![t].public = thread[t].native]
  /\ faults' = faults \cup
       (IF shell[thread[t].bio] = "none" THEN {"callback argument freed"} ELSE {})
  /\ UNCHANGED <<shell, refs, ex_data, callback, attached, poll_vars>>

mmsg_callback_returns(t) ==
  /\ thread[t].at = "in_batch"
  /\ thread' = [thread EXCEPT ![t].at = "out", ![t].native = thread[t].public]
  /\ UNCHANGED <<method, shell, refs, ex_data, callback, attached, faults, poll_vars>>

mmsg_callback_leaves(t) ==
  /\ thread[t].at = "out"
  /\ method' = [method EXCEPT !.callbacks = @ - 1]
  /\ BatchDone(t)
  /\ UNCHANGED <<shell, refs, ex_data, callback, attached, faults, poll_vars>>

\* The operation ends and its reference is dropped, perhaps the last one.
OperationEnds(t) ==
  /\ thread[t].at = "done"
  /\ Drop(thread[t].bio)
  /\ thread' = [thread EXCEPT ![t] = Idle]
  /\ UNCHANGED <<callback, attached, poll_vars>>

-----------------------------------------------------------------------------
\* Poll items.  A native descriptor is a type and a union.

copy_poll_descriptor_to_native(i) ==
  [type |-> i.type,
   value |-> CASE i.kind = "none" -> 0
               [] i.kind = "fd"   -> i.value % Word
               [] OTHER           -> i.value]

copy_poll_descriptor_from_native(n) ==
  CASE n.type = "sock_fd" -> [type |-> n.type, kind |-> "fd", value |-> n.value % Word]
    [] n.type = "ssl"     -> [type |-> n.type, kind |-> "ssl", value |-> n.value]
    [] n.type = "custom"  -> [type |-> n.type, kind |-> "pointer", value |-> n.value]
    [] OTHER              -> [type |-> n.type, kind |-> "none", value |-> 0]

\* External: what SSL_poll reads of a descriptor of each type.
Reads(n) ==
  CASE n.type = "none"    -> <<n.type>>
    [] n.type = "sock_fd" -> <<n.type, n.value % Word>>
    [] OTHER              -> <<n.type, n.value>>

\* The items are converted, polled and converted back over the caller's.
SSL_poll ==
  LET native == copy_poll_descriptor_to_native(item) IN
  /\ polled' = polled \cup {Reads(native)}
  /\ item' = copy_poll_descriptor_from_native(native)
  /\ UNCHANGED bio_vars

AppFills == item' \in Items /\ polled' = {} /\ UNCHANGED bio_vars

-----------------------------------------------------------------------------
BioNext ==
  \/ BIO_meth_new \/ BIO_meth_close
  \/ \E set \in BOOLEAN : BIO_meth_set_sendmmsg(set) \/ BIO_meth_set_recvmmsg(set)
  \/ \E b \in Bios :
       \/ bio_new_internal(b) \/ Constructed(b) \/ BIO_close(b) \/ CloseFrees(b)
       \/ \E stage \in {"native", "ex_data"} : ConstructionFails(b, stage)
       \/ \E set \in BOOLEAN : BIO_set_callback(b, set)
  \/ \E t \in Threads :
       \/ \E b \in Bios : ex_data_dup(t, b) \/ \E op \in Batches : Operate(t, b, op)
       \/ native_differs(t) \/ callback_enter(t) \/ callback_leave(t)
       \/ \E memory \in BOOLEAN : callback_trampoline(t, memory) \/ mmsg_callback_invoke(t, memory)
       \/ \E answer \in BOOLEAN : callback_mmsg_copy_back(t, answer)
       \/ AppEdits(t) \/ mmsg_callback_returns(t) \/ mmsg_callback_leaves(t) \/ OperationEnds(t)

PollNext == SSL_poll \/ AppFills

Next == BioNext \/ PollNext

Spec == Init /\ [][Next]_vars

-----------------------------------------------------------------------------
Inside == {"pick", "running", "leave", "in_batch", "out"}
InCallback(t) == thread[t].at \in Inside

Shells == {b \in Bios : shell[b] # "none"}
Calling == {t \in Threads : InCallback(t)}

\* A method's two counters are exactly its shells and the callbacks that run,
\* so BIO_meth_close frees neither the method under a shell nor the lock under
\* a callback, and no shell is released twice or left behind.
PinsExact ==
  /\ method.bios = Cardinality(Shells)
  /\ method.callbacks = Cardinality(Calling)
  /\ method.live \/ Calling = {}
  /\ faults = {}

\* A shell lives exactly as long as its native BIO: closing a facade whose
\* native BIO others still use keeps the shell for their batch callbacks.  The
\* generic callback runs only for a facade that is open, though BIO_close may come
\* between the trampoline's test of native and its critical section, and never
\* for a copy.
ShellsExact ==
  \A b \in Bios :
    /\ (shell[b] \in {"open", "closed"}) = (refs[b] > 0)
    /\ ex_data[b] = (refs[b] > 0)
    /\ attached[b] => callback[b] /\ shell[b] = "open"
    /\ \A t \in Threads : thread[t].at = "running" /\ thread[t].bio = b
                            => shell[b] = "open" /\ thread[t].op # "dup"

\* What an application's callback wrote into the message records is what
\* OpenSSL goes on with after the trampoline.
EditsReachNative ==
  \A t \in Threads : thread[t].at \notin {"idle", "running", "in_batch"} /\ thread[t].edited
                       => thread[t].native = 1

\* Polling an item again polls the same thing: the conversions of SSL_poll
\* keep all that OpenSSL reads of a descriptor, whatever its kind said.
PollStable == Cardinality(polled) <= 1

\* The two counters of a method are its shells and its running callbacks, so that
\* BIO_meth_close frees nothing in use; a shell lives exactly as long as its native
\* BIO, and its generic callback runs only while the facade is open; what a callback
\* edits in a message record reaches OpenSSL; polling an item again polls the same
\* thing (BIO_new, BIO_close, BIO_dup_chain, SSL_poll).
BiosExact == TypeOK /\ PinsExact /\ ShellsExact /\ EditsReachNative /\ PollStable
=============================================================================
