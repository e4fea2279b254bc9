-------------------------- MODULE SqliteUnlockNotify --------------------------
(***************************************************************************)
(* Unlock notifications of the SQLite facade (src/sqlite.c): the binding   *)
(* of a registration, its replacement, cancellation and delivery.          *)
(*                                                                         *)
(* SQLite is external.  One STATIC_MAIN mutex covers a call of             *)
(* sqlite3_unlock_notify and a whole delivery, callbacks included.  SQLite *)
(* remembers of a connection who blocked it last (pBlockingConnection) and *)
(* whom it registered for (pUnlockConnection).  The two differ when a      *)
(* statement of a connection that is registered is blocked by another      *)
(* one.  A registration while nothing blocks is delivered at once, from    *)
(* inside the call; one that would complete a cycle of registered          *)
(* connections is refused with SQLITE_LOCKED; an earlier registration      *)
(* stays in both cases.  Calls on one connection are serialized by its     *)
(* mutex, deliveries come from the threads of other connections.           *)
(*                                                                         *)
(* Overlapping says whether a connection that is registered and has been   *)
(* blocked by another one since may register again before it has cancelled *)
(* or heard the first registration.                                        *)
(***************************************************************************)
EXTENDS Naturals, FiniteSets

CONSTANTS Connections, Bindings, None, Overlapping

NotifyAssumption == None \notin Bindings /\ None \notin Connections

VARIABLES
  current,   \* state->unlock_notify_binding
  native,    \* SQLite's registration of each connection, pUnlockArg
  unlocker,  \* whom it is for, pUnlockConnection
  blocker,   \* who blocked the connection last, pBlockingConnection
  binding,   \* cpkt_sqlite_unlock_notify_binding
  caller,    \* a cpkt_sqlite_unlock_notify in progress
  delivery,  \* the delivery that holds STATIC_MAIN
  closed

vars == <<current, native, unlocker, blocker, binding, caller, delivery, closed>>

Unused == [memory |-> "unused", conn |-> None, delivered |-> FALSE, release |-> FALSE, heard |-> 0]
Idle == [pc |-> "idle", new |-> None, old |-> None]
NoDelivery == [pc |-> "none", args |-> {}, by |-> None]

Init == /\ current = [c \in Connections |-> None]
        /\ native = [c \in Connections |-> None]
        /\ unlocker = [c \in Connections |-> None]
        /\ blocker = [c \in Connections |-> None]
        /\ binding = [b \in Bindings |-> Unused]
        /\ caller = [c \in Connections |-> Idle]
        /\ delivery = NoDelivery
        /\ closed = [c \in Connections |-> FALSE]

Main == delivery.pc = "none"
Freed(bs, B) == [b \in Bindings |-> IF b \in B THEN [bs[b] EXCEPT !.memory = "freed"] ELSE bs[b]]

\* SQLite follows pUnlockConnection from d: is c on the way, that is, in
\* every set that holds d and whom its members are registered for?
Waits(d, c) ==
  \A S \in SUBSET Connections : d \in S /\ (\A x \in S : unlocker[x] \in S \cup {None}) => c \in S

\* A statement of the connection ends with SQLITE_LOCKED, because of d.
Block(c, d) ==
  /\ d # c /\ ~closed[d]
  /\ ~closed[c] /\ caller[c].pc = "idle" /\ Main
  /\ blocker' = [blocker EXCEPT ![c] = d]
  /\ UNCHANGED <<current, native, unlocker, binding, caller, delivery, closed>>

-----------------------------------------------------------------------------
(* cpkt_sqlite_unlock_notify                                               *)

\* A new binding is published before the native call; the old one is kept.
Publish(c, b) ==
  /\ ~closed[c] /\ caller[c].pc = "idle" /\ binding[b].memory = "unused"
  /\ Overlapping \/ unlocker[c] \in {None, blocker[c]}
  /\ binding' = [binding EXCEPT ![b] = [Unused EXCEPT !.memory = "live", !.conn = c]]
  /\ caller' = [caller EXCEPT ![c] = [pc |-> "published", new |-> b, old |-> current[c]]]
  /\ current' = [current EXCEPT ![c] = b]
  /\ UNCHANGED <<native, unlocker, blocker, delivery, closed>>

\* sqlite3_unlock_notify: accepted, delivered at once, or refused.
Accepted(c) ==
  /\ caller[c].pc = "published" /\ Main
  /\ blocker[c] # None /\ ~Waits(blocker[c], c)
  /\ native' = [native EXCEPT ![c] = caller[c].new]
  /\ unlocker' = [unlocker EXCEPT ![c] = blocker[c]]
  /\ caller' = [caller EXCEPT ![c].pc = "registered"]
  /\ UNCHANGED <<current, blocker, binding, delivery, closed>>
AtOnce(c) ==
  /\ caller[c].pc = "published" /\ Main /\ blocker[c] = None
  /\ delivery' = [pc |-> "mark", args |-> {caller[c].new}, by |-> c]
  /\ caller' = [caller EXCEPT ![c].pc = "delivering"]
  /\ UNCHANGED <<current, native, unlocker, blocker, binding, closed>>
Refused(c) ==
  /\ caller[c].pc = "published" /\ Main
  /\ blocker[c] # None /\ Waits(blocker[c], c)
  /\ caller' = [caller EXCEPT ![c].pc = "refused"]
  /\ UNCHANGED <<current, native, unlocker, blocker, binding, delivery, closed>>

\* Success frees the old binding.  A refusal puts it back unless it has been
\* delivered, under the global mutex, and then reads that flag again,
\* without the mutex, to decide whether to free it.
Registered(c) ==
  /\ caller[c].pc = "registered"
  /\ binding' = Freed(binding, {caller[c].old})
  /\ caller' = [caller EXCEPT ![c] = Idle]
  /\ UNCHANGED <<current, native, unlocker, blocker, delivery, closed>>
Delivered(b) == b # None /\ binding[b].delivered
Restore(c) ==
  /\ caller[c].pc = "refused"
  /\ current' = IF current[c] # caller[c].new THEN current
                ELSE [current EXCEPT ![c] = IF Delivered(caller[c].old) THEN None ELSE caller[c].old]
  /\ caller' = [caller EXCEPT ![c].pc = "restored"]
  /\ UNCHANGED <<native, unlocker, blocker, binding, delivery, closed>>
Restored(c) ==
  /\ caller[c].pc = "restored"
  /\ binding' = Freed(binding, {caller[c].new} \cup {b \in {caller[c].old} : Delivered(b)})
  /\ caller' = [caller EXCEPT ![c] = Idle]
  /\ UNCHANGED <<current, native, unlocker, blocker, delivery, closed>>

\* A null callback cancels in SQLite first.
CancelNative(c) ==
  /\ ~closed[c] /\ caller[c].pc = "idle" /\ Main
  /\ native' = [native EXCEPT ![c] = None]
  /\ unlocker' = [unlocker EXCEPT ![c] = None]
  /\ blocker' = [blocker EXCEPT ![c] = None]
  /\ caller' = [caller EXCEPT ![c].pc = "cancelled"]
  /\ UNCHANGED <<current, binding, delivery, closed>>
Cancel(c) ==
  /\ caller[c].pc = "cancelled"
  /\ binding' = Freed(binding, {current[c]})
  /\ current' = [current EXCEPT ![c] = None]
  /\ caller' = [caller EXCEPT ![c] = Idle]
  /\ UNCHANGED <<native, unlocker, blocker, delivery, closed>>

\* cpkt_sqlite_finish_close and cpkt_sqlite_close_strict: SQLite ends the
\* connection's transaction (Conclude) and forgets its registration, then
\* cpkt_sqlite_destroy frees the current binding.
Close(c) ==
  /\ ~closed[c] /\ caller[c].pc = "idle" /\ Main
  /\ \A e \in Connections : c \notin {blocker[e], unlocker[e]}
  /\ native' = [native EXCEPT ![c] = None]
  /\ unlocker' = [unlocker EXCEPT ![c] = None]
  /\ blocker' = [blocker EXCEPT ![c] = None]
  /\ binding' = Freed(binding, {current[c]})
  /\ current' = [current EXCEPT ![c] = None]
  /\ closed' = [closed EXCEPT ![c] = TRUE]
  /\ UNCHANGED <<caller, delivery>>

-----------------------------------------------------------------------------
(* The transaction of connection d ends: it blocks nobody any more, SQLite *)
(* collects the registrations for it and calls                             *)
(* cpkt_sqlite_unlock_notify_trampoline with them.                         *)

For(d) == {c \in Connections : unlocker[c] = d}

Conclude(d) ==
  /\ Main /\ ~closed[d] /\ caller[d].pc = "idle"
  /\ blocker' = [c \in Connections |-> IF blocker[c] = d THEN None ELSE blocker[c]]
  /\ unlocker' = [c \in Connections |-> IF c \in For(d) THEN None ELSE unlocker[c]]
  /\ native' = [c \in Connections |-> IF c \in For(d) THEN None ELSE native[c]]
  /\ delivery' = IF For(d) = {} THEN NoDelivery
                 ELSE [pc |-> "mark", args |-> {native[c] : c \in For(d)}, by |-> None]
  /\ UNCHANGED <<current, binding, caller, closed>>

\* Under the global mutex: a binding that is still current is the
\* delivery's to free, a replaced one stays the replacement's.
\* Mutated form: the delivery frees every binding.
Mark_All ==
  /\ delivery.pc = "mark"
  /\ binding' = [b \in Bindings |->
       IF b \in delivery.args THEN [binding[b] EXCEPT !.delivered = TRUE, !.release = TRUE] ELSE binding[b]]
  /\ current' = [c \in Connections |-> IF current[c] \in delivery.args THEN None ELSE current[c]]
  /\ delivery' = [delivery EXCEPT !.pc = "call"]
  /\ UNCHANGED <<native, unlocker, blocker, caller, closed>>
Mark ==
  /\ delivery.pc = "mark"
  /\ binding' = [b \in Bindings |->
       IF b \in delivery.args
       THEN [binding[b] EXCEPT !.delivered = TRUE, !.release = current[binding[b].conn] = b]
       ELSE binding[b]]
  /\ current' = [c \in Connections |-> IF current[c] \in delivery.args THEN None ELSE current[c]]
  /\ delivery' = [delivery EXCEPT !.pc = "call"]
  /\ UNCHANGED <<native, unlocker, blocker, caller, closed>>

\* Every registration hears its callback once, with the contexts of all that
\* share the callback, or with its own alone when there is no memory.
\* Mutated form: one that a call is replacing is passed over.
CallBack_Current ==
  /\ delivery.pc = "call"
  /\ binding' = [b \in Bindings |-> IF b \in delivery.args /\ binding[b].release
                                    THEN [binding[b] EXCEPT !.heard = @ + 1] ELSE binding[b]]
  /\ delivery' = [delivery EXCEPT !.pc = "free"]
  /\ UNCHANGED <<current, native, unlocker, blocker, caller, closed>>
CallBack ==
  /\ delivery.pc = "call"
  /\ binding' = [b \in Bindings |-> IF b \in delivery.args
                                    THEN [binding[b] EXCEPT !.heard = @ + 1] ELSE binding[b]]
  /\ delivery' = [delivery EXCEPT !.pc = "free"]
  /\ UNCHANGED <<current, native, unlocker, blocker, caller, closed>>
Release ==
  /\ delivery.pc = "free"
  /\ binding' = Freed(binding, {b \in delivery.args : binding[b].release})
  /\ delivery' = NoDelivery
  /\ caller' = IF delivery.by = None THEN caller ELSE [caller EXCEPT ![delivery.by].pc = "registered"]
  /\ UNCHANGED <<current, native, unlocker, blocker, closed>>

Next ==
  \/ \E c \in Connections :
       \/ Accepted(c) \/ AtOnce(c) \/ Refused(c) \/ Registered(c) \/ Restore(c) \/ Restored(c)
       \/ CancelNative(c) \/ Cancel(c) \/ Close(c) \/ Conclude(c)
       \/ \E d \in Connections : Block(c, d)
       \/ \E b \in Bindings : Publish(c, b)
  \/ Mark \/ CallBack \/ Release

Spec == Init /\ [][Next]_vars

-----------------------------------------------------------------------------
InCall(c) == {caller[c].new, caller[c].old} \ {None}

\* "SQLite serializes this call with delivery using its STATIC_MAIN mutex.
\* Keep old_binding alive until the call returns." (src/sqlite.c): a
\* delivery never works on a binding that has been freed.
DeliveryKeepsBindings == \A b \in delivery.args : binding[b].memory = "live"

\* Between them the connection, SQLite, a running call and a running
\* delivery hold every binding that is not freed, and no other; a
\* registration that was accepted and not replaced is SQLite's too, so none
\* is lost; the binding a call replaces is not freed by anyone else; each is
\* heard at most once.
RegistrationsExact ==
  /\ \A b \in Bindings : binding[b].memory = "live" =>
       \/ \E c \in Connections : b = current[c] \/ b \in InCall(c)
       \/ b \in delivery.args
  /\ \A c \in Connections : /\ current[c] # None => binding[current[c]].memory = "live"
                            /\ caller[c].old # None => binding[caller[c].old].memory = "live"
                            /\ native[c] # None => binding[native[c]].memory = "live"
                            /\ caller[c].pc = "idle" /\ current[c] \notin delivery.args =>
                                 native[c] = current[c]
  /\ \A b \in Bindings : binding[b].heard <= 1 /\ (binding[b].heard = 1 => binding[b].delivered)

NotifyExact == DeliveryKeepsBindings /\ RegistrationsExact

-----------------------------------------------------------------------------
\* The promise that the facade keeps.  A registration is asked for until the
\* native call has answered and due until its callback has been called.
Used == {b \in Bindings : binding[b].memory # "unused"}
Asked == [c \in Connections |-> IF caller[c].pc \in {"published", "refused", "restored"} THEN caller[c].new ELSE None]
Due == IF delivery.pc \in {"mark", "call"} THEN delivery.args ELSE {}
Heard == {b \in Bindings : binding[b].heard = 1}

Service == INSTANCE Notifications WITH
  used <- Used, asked <- Asked, waiting <- native, due <- Due, heard <- Heard

\* The bindings, the native call and the trampoline implement the service:
\* what a registration, a replacement, a cancellation and a delivery do to
\* each other is what its steps say.
NotificationsKept == Service!Spec
=============================================================================
