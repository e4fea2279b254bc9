-------------------------- MODULE SqliteConnections --------------------------
(***************************************************************************)
(* Lifetime of a connection receiver of the SQLite facade (src/sqlite.c):  *)
(* the list that finds the receiver of a native connection, the count of   *)
(* statements, blobs and backups that hold it, the deferred close and the  *)
(* strict close, from several threads.                                     *)
(*                                                                         *)
(* A step is one section under the bookkeeping mutex or one native call.   *)
(* Receivers are never reused, so that a use after free is visible; the    *)
(* addresses of native connections are, when Reuse holds.                  *)
(***************************************************************************)
EXTENDS Naturals, Sequences, FiniteSets, SequencesExt

CONSTANTS Threads, Receivers, Addresses, Children, None,
          Reuse      \* malloc gives the address of a closed connection again

ReuseAssumption == Reuse \in BOOLEAN /\ None \notin Receivers

VARIABLES
  native,     \* native connections, by address: "fresh", "open" or "closed"
  receiver,   \* cpkt_sqlite and its cpkt_sqlite_state
  child,      \* statements, blobs and backups: native state and owners
  held,       \* receivers the application got from open and has not closed
  thread      \* the call each thread is in

vars == <<native, receiver, child, held, thread>>

NoReceiver == [state |-> "unused", database |-> None, child_count |-> 0,
               closing |-> FALSE, finish_started |-> FALSE,
               listed |-> FALSE, open_pending |-> FALSE]
NoChild == [state |-> "unused", owners |-> <<>>]
Idle == [pc |-> "idle", self |-> None, addr |-> None, child |-> None, rest |-> <<>>]

Init == /\ native = [a \in Addresses |-> "fresh"]
        /\ receiver = [r \in Receivers |-> NoReceiver]
        /\ child = [c \in Children |-> NoChild]
        /\ held = {}
        /\ thread = [t \in Threads |-> Idle]

At(t, pc) == thread[t].pc = pc
Goto(t, pc) == thread' = [thread EXCEPT ![t].pc = pc]
Return(t) == thread' = [thread EXCEPT ![t] = Idle]
Free(a) == native[a] = "fresh" \/ (Reuse /\ native[a] = "closed")
Alive(r) == receiver[r].state = "live"

-----------------------------------------------------------------------------
(* cpkt_sqlite_open.  With an automatic extension the receiver is made     *)
(* inside sqlite3_open_v2, and complete_open finds it in the list.         *)

Open(t, a) ==
  /\ At(t, "idle")
  /\ Free(a)
  /\ native' = [native EXCEPT ![a] = "open"]
  /\ \E pc \in {"extension", "complete"} :
       thread' = [thread EXCEPT ![t] = [Idle EXCEPT !.pc = pc, !.addr = a]]
  /\ UNCHANGED <<receiver, child, held>>

Listed(a) == {r \in Receivers : receiver[r].listed /\ receiver[r].database = a}

\* The first section of wrap_database.
Lookup(t) ==
  /\ thread[t].pc \in {"extension", "complete"}
  /\ IF Listed(thread[t].addr) # {}
     THEN \E r \in Listed(thread[t].addr) :
            thread' = [thread EXCEPT ![t] = [@ EXCEPT !.self = r,
                         !.pc = IF At(t, "extension") THEN "opened" ELSE "return"]]
     ELSE Goto(t, IF At(t, "extension") THEN "extension_link" ELSE "link")
  /\ UNCHANGED <<native, receiver, child, held>>

\* The second section, and the client data of a receiver that is pending.
Link(t, r) ==
  /\ thread[t].pc \in {"extension_link", "link"}
  /\ receiver[r].state = "unused"
  /\ LET pending == At(t, "extension_link") IN
     /\ receiver' = [receiver EXCEPT ![r] =
          [NoReceiver EXCEPT !.state = "live", !.database = thread[t].addr,
                             !.listed = TRUE, !.open_pending = pending]]
     /\ thread' = [thread EXCEPT ![t] = [@ EXCEPT !.self = r,
                     !.pc = IF pending THEN "opened" ELSE "return"]]
  /\ UNCHANGED <<native, child, held>>

\* No memory for the receiver: complete_open closes the connection, or the
\* extension fails and sqlite3_open_v2 does.
LinkFails(t) ==
  /\ thread[t].pc \in {"extension_link", "link"}
  /\ native' = [native EXCEPT ![thread[t].addr] = "closed"]
  /\ Return(t)
  /\ UNCHANGED <<receiver, child, held>>

\* sqlite3_open_v2 returns the connection the extensions have seen,
Opened(t) ==
  /\ At(t, "opened")
  /\ thread' = [thread EXCEPT ![t] = [@ EXCEPT !.pc = "complete", !.self = None]]
  /\ UNCHANGED <<native, receiver, child, held>>

\* cpkt_sqlite_destroy takes the receiver off the list and frees it.
Destroyed(r) == [receiver EXCEPT ![r].state = "freed", ![r].listed = FALSE]

\* The native connection is freed; its client data destructor,
\* open_wrapper_cleanup, destroys a receiver that is still pending.
NativelyClosed(r) ==
  /\ native' = [native EXCEPT ![receiver[r].database] = "closed"]
  /\ receiver' = IF receiver[r].open_pending THEN Destroyed(r) ELSE receiver

\* or, after a failure, destroys it and returns NULL.
OpenFails(t) ==
  /\ At(t, "opened")
  /\ NativelyClosed(thread[t].self)
  /\ Return(t)
  /\ UNCHANGED <<child, held>>

OpenReturns(t) ==
  /\ At(t, "return")
  /\ receiver' = [receiver EXCEPT ![thread[t].self].open_pending = FALSE]
  /\ held' = held \cup {thread[t].self}
  /\ Return(t)
  /\ UNCHANGED <<native, child>>

-----------------------------------------------------------------------------
(* Children.  A statement or a blob has one owner, a backup two.           *)

\* The application does not close a receiver inside another call on it.
Using(r) == \E t \in Threads : thread[t].pc = "retain"
                               /\ r \in Range(thread[t].rest)

\* prepare, open_blob, backup_start: the native object,
NewChild(t, c, owners) ==
  /\ At(t, "idle")
  /\ child[c].state = "unused"
  /\ child' = [child EXCEPT ![c] = [state |-> "open", owners |-> owners]]
  /\ thread' = [thread EXCEPT ![t] =
                  [Idle EXCEPT !.pc = "retain", !.child = c, !.rest = owners]]
  /\ UNCHANGED <<native, receiver, held>>

\* and cpkt_sqlite_retain_child for each of its owners.
Retain(t) ==
  /\ At(t, "retain")
  /\ receiver' = [receiver EXCEPT ![Head(thread[t].rest)].child_count = @ + 1]
  /\ IF Len(thread[t].rest) = 1
     THEN Return(t)
     ELSE thread' = [thread EXCEPT ![t].rest = Tail(@)]
  /\ UNCHANGED <<native, child, held>>

\* finalize, blob close, backup close: the native object first,
CloseChild(t, c) ==
  /\ At(t, "idle")
  /\ child[c].state = "open"
  /\ \A u \in Threads : thread[u].child # c
  /\ child' = [child EXCEPT ![c].state = "closed"]
  /\ thread' = [thread EXCEPT ![t] =
                  [Idle EXCEPT !.pc = "release", !.rest = child[c].owners]]
  /\ UNCHANGED <<native, receiver, held>>

\* then cpkt_sqlite_release_child: the last child of a closing receiver
\* finishes the close.
ReleaseChild(t) ==
  /\ At(t, "release")
  /\ LET r == Head(thread[t].rest)
         rest == Tail(thread[t].rest)
         count == receiver[r].child_count
         finish == /\ count = 1 /\ receiver[r].closing
                   /\ ~receiver[r].finish_started
     IN  /\ receiver' = IF count = 0 THEN receiver
                        ELSE [receiver EXCEPT ![r].child_count = count - 1,
                                              ![r].finish_started = @ \/ finish]
         /\ thread' = [thread EXCEPT ![t] =
              IF finish THEN [@ EXCEPT !.pc = "finish_close", !.self = r, !.rest = rest]
              ELSE IF rest = <<>> THEN Idle
              ELSE [@ EXCEPT !.rest = rest]]
  /\ UNCHANGED <<native, child, held>>

-----------------------------------------------------------------------------
(* Closing *)

\* Mutated form: close does not wait for the children.
Close_AtOnce(t, r) ==
  /\ At(t, "idle")
  /\ r \in held /\ ~Using(r)
  /\ held' = held \ {r}
  /\ receiver' = [receiver EXCEPT ![r].closing = TRUE, ![r].finish_started = TRUE]
  /\ thread' = [thread EXCEPT ![t] = [Idle EXCEPT !.pc = "finish_close", !.self = r]]
  /\ UNCHANGED <<native, child>>

Close(t, r) ==
  /\ At(t, "idle")
  /\ r \in held /\ ~Using(r)
  /\ held' = held \ {r}
  /\ LET finish == receiver[r].child_count = 0 IN
     IF receiver[r].closing
     THEN UNCHANGED <<receiver, thread>>
     ELSE /\ receiver' = [receiver EXCEPT ![r].closing = TRUE,
                                          ![r].finish_started = @ \/ finish]
          /\ thread' = IF finish
                       THEN [thread EXCEPT ![t] =
                               [Idle EXCEPT !.pc = "finish_close", !.self = r]]
                       ELSE thread
  /\ UNCHANGED <<native, child>>

\* sqlite3_close_v2 in finish_close,
NativeClose(t) ==
  /\ At(t, "finish_close")
  /\ NativelyClosed(thread[t].self)
  /\ Goto(t, "destroy")
  /\ UNCHANGED <<child, held>>

\* and cpkt_sqlite_destroy, after which a backup goes on to its other owner.
Destroy(t) ==
  /\ At(t, "destroy")
  /\ receiver' = Destroyed(thread[t].self)
  /\ thread' = [thread EXCEPT ![t] =
                  IF @.rest = <<>> THEN Idle
                  ELSE [@ EXCEPT !.pc = "release", !.self = None]]
  /\ UNCHANGED <<native, child, held>>

\* A busy or closing receiver is refused and stays with the caller.
CloseStrict(t, r) ==
  /\ At(t, "idle")
  /\ r \in held /\ ~Using(r)
  /\ ~receiver[r].closing
  /\ receiver[r].child_count = 0
  /\ held' = held \ {r}
  /\ receiver' = [receiver EXCEPT ![r].closing = TRUE, ![r].finish_started = TRUE]
  /\ thread' = [thread EXCEPT ![t] = [Idle EXCEPT !.pc = "strict", !.self = r]]
  /\ UNCHANGED <<native, child>>

\* sqlite3_close succeeds, and the receiver is destroyed,
StrictNativeClose(t) ==
  /\ At(t, "strict")
  /\ NativelyClosed(thread[t].self)
  /\ Goto(t, "destroy")
  /\ UNCHANGED <<child, held>>

\* or finds a native object the facade does not know of.
StrictBusy(t) ==
  /\ At(t, "strict")
  /\ receiver' = [receiver EXCEPT ![thread[t].self].closing = FALSE,
                                  ![thread[t].self].finish_started = FALSE]
  /\ held' = held \cup {thread[t].self}
  /\ Return(t)
  /\ UNCHANGED <<native, child>>

-----------------------------------------------------------------------------
Owners == {<<r>> : r \in held}
          \cup {<<p[1], p[2]>> : p \in {q \in held \X held : q[1] # q[2]}}

Step(t) == \/ Lookup(t) \/ Opened(t) \/ OpenReturns(t) \/ Retain(t)
           \/ (\E r \in Receivers : Link(t, r)) \/ ReleaseChild(t)
           \/ NativeClose(t) \/ Destroy(t) \/ StrictNativeClose(t)

Fault(t) == LinkFails(t) \/ OpenFails(t) \/ StrictBusy(t)

Application(t) ==
  \/ \E a \in Addresses : Open(t, a)
  \/ \E c \in Children : CloseChild(t, c) \/ \E o \in Owners : NewChild(t, c, o)
  \/ \E r \in Receivers : Close(t, r) \/ CloseStrict(t, r)

Next == \E t \in Threads : Step(t) \/ Fault(t) \/ Application(t)
Spec == Init /\ [][Next]_vars

-----------------------------------------------------------------------------
Finishing(r) == {t \in Threads : thread[t].self = r
                   /\ thread[t].pc \in {"finish_close", "destroy", "strict"}}
OwnedBy(r) == {c \in Children : child[c].state = "open" /\ r \in Range(child[c].owners)}

\* Every variable has its type.
TypeOK ==
  /\ native \in [Addresses -> {"fresh", "open", "closed"}]
  /\ \A r \in Receivers :
       /\ receiver[r].state \in {"unused", "live", "freed"}
       /\ receiver[r].child_count \in 0 .. Cardinality(Children)
       /\ receiver[r].database \in Addresses \cup {None}
  /\ held \subseteq Receivers
  /\ \A c \in Children : child[c].state \in {"unused", "open", "closed"}
  /\ \A t \in Threads : Range(thread[t].rest) \subseteq Receivers

\* "it defers native teardown until facade-owned statements, blobs, and
\* backups have been finalized or closed" (docs/sqlite-c89-facade-spec.md:95):
\* while a child is open its receivers are allocated and their native
\* connections open, in whatever order and thread the application closes them.
ChildKeepsConnection ==
  \A r \in Receivers : OwnedBy(r) # {} =>
    Alive(r) /\ native[receiver[r].database] = "open"

\* No thread works on a receiver that another has freed, and at most one
\* thread closes and destroys it (finish_started).
DestroyedOnce ==
  /\ \A t \in Threads : thread[t].self # None => Alive(thread[t].self)
  /\ \A t \in Threads : \A r \in Range(thread[t].rest) : Alive(r)
  /\ \A r \in Receivers : Cardinality(Finishing(r)) <= 1

\* A close is never lost: a receiver that is closing is waiting for a child
\* that is still to be released, is being destroyed, or is gone.
CloseHappens ==
  \A r \in Receivers : receiver[r].closing =>
    \/ receiver[r].child_count > 0
    \/ Finishing(r) # {}
    \/ receiver[r].state = "freed"

\* "The caller owns the returned receiver" (docs/sqlite-c89-facade-spec.md:23):
\* what open returned, and the application has not closed, is allocated, is
\* not being closed by anyone else and has an open native connection.
CallerOwnsReceiver ==
  \A r \in held : /\ Alive(r) /\ ~receiver[r].closing
                  /\ native[receiver[r].database] = "open"
=============================================================================
