----------------------------- MODULE PgResults -----------------------------
(***************************************************************************)
(* Lifetimes behind one cpkt_postgres_connection: the event owner with its *)
(* frozen per-result entries (postgres_events.c, under the events mutex)   *)
(* and the notice binding with the results that may still call it          *)
(* (postgres.c, under the hook lock).  The connection is used by one       *)
(* thread; each result by the thread that holds it.  A result is its       *)
(* native address, which libpq reuses once the result is cleared.          *)
(***************************************************************************)
EXTENDS Integers, FiniteSets

CONSTANTS
  Results, Events, Nobody,
  MaxEnding,       \* bound: clears past PQclear at the same time
  FireOnNotices    \* may a receiver fire RESULT_CREATE on its notice?

PgResultsAssumption ==
  /\ Nobody \notin Results /\ IsFiniteSet(Results) /\ FireOnNotices \in BOOLEAN
  /\ MaxEnding \in Nat \ {0}

VARIABLES
  conn,            \* connection_free: open, detached, destroyed, closed
  owner,           \* the event owner: none, live, disposed
  owner_closed, result_count,
  registered,      \* events whose REGISTER callback accepted
  registering,     \* events in their REGISTER callback
  refused,         \* events whose REGISTER callback declined
  entry,           \* cpkt_postgres_event_results, by address
  binding,         \* the notice binding: none, live, disposed
  binding_closed, binding_count,
  tracked,         \* cpkt_postgres_result_bindings
  native,          \* libpq's result at each address
  pc,              \* the step its thread is at
  via,             \* what it is created from: the connection or a result
  held,            \* the reference on the binding its thread holds
  ending,          \* clears that still have to give up their reference
  called           \* events whose CREATE or COPY succeeded and DESTROY is due

eventVars == <<owner, owner_closed, result_count, registered, registering, refused, entry>>
noticeVars == <<binding, binding_closed, binding_count, tracked>>
threadVars == <<native, pc, via, held, ending>>
vars == <<conn, eventVars, noticeVars, threadVars, called>>

NoEntry == [states |-> {}, initialized |-> {}, native_initialized |-> FALSE, is |-> FALSE]
Freed == [live |-> FALSE, events |-> FALSE, init |-> FALSE, hooks |-> FALSE]

Init ==
  /\ conn = "open"
  /\ owner = "none" /\ owner_closed = FALSE /\ result_count = 0
  /\ registered = {} /\ registering = {} /\ refused = {}
  /\ entry = [r \in Results |-> NoEntry]
  /\ binding = "none" /\ binding_closed = FALSE /\ binding_count = 0 /\ tracked = {}
  /\ native = [r \in Results |-> Freed]
  /\ pc = [r \in Results |-> "free"] /\ via = [r \in Results |-> Nobody]
  /\ held = [r \in Results |-> "none"] /\ ending = 0
  /\ called = [r \in Results |-> {}]

-----------------------------------------------------------------------------
(* Who is busy.                                                            *)

\* The connection's thread makes or clears r; in a notice receiver it is free
\* to use the connection again.
FromConnection(r) == via[r] = "conn" /\ pc[r] # "notice"
ConnectionIdle == conn = "open" /\ \A r \in Results : ~FromConnection(r)

\* r's thread is inside a copy made from r.
Copying(r) == \E d \in Results : via[d] = r

Goto(r, step) == pc' = [pc EXCEPT ![r] = step]

-----------------------------------------------------------------------------
(* Reference counts.                                                       *)


\* claim_disposal_locked, in the critical section that gives up a role.
DropRole(closed, count) ==
  /\ owner_closed' = closed
  /\ result_count' = count
  /\ owner' = IF closed /\ count = 0 THEN "disposed" ELSE owner

\* The end of a scope that held the notice binding.
ReleaseBinding ==
  /\ binding_count' = binding_count - 1
  /\ binding' = IF binding_closed /\ binding_count = 1 THEN "disposed" ELSE binding
  /\ UNCHANGED <<binding_closed, tracked>>

\* make_result: the states are frozen, the entry is linked and counted.
MakeResult(r, states, accepted, dispatched) ==
  /\ entry' = [entry EXCEPT ![r] =
       [states |-> states, initialized |-> accepted, native_initialized |-> dispatched, is |-> TRUE]]
  /\ result_count' = result_count + 1
  /\ UNCHANGED <<owner, owner_closed, registered, registering, refused>>

\* Mutated form: only lasting results are looked up.
NoticeOwnerOf_Lasting(r) == r \in tracked

\* find_result_notice_owner_locked: lasting, callback-local or being cleared.
NoticeOwnerOf(r) == r \in tracked \/ held[r] # "none"

-----------------------------------------------------------------------------
(* cpkt_postgres_event_register and the notice setters.                    *)

EnsureBinding == binding = "none" /\ binding' = "live"

SetNotice ==
  /\ ConnectionIdle
  /\ EnsureBinding
  /\ UNCHANGED <<conn, eventVars, binding_closed, binding_count, tracked, threadVars, called>>

\* The owner is made, the event listed, the dispatcher registered with libpq.
RegisterBegin(e) ==
  /\ ConnectionIdle
  /\ e \notin registered \cup registering \cup refused
  /\ owner' = "live"
  /\ registering' = registering \cup {e}
  /\ UNCHANGED <<conn, owner_closed, result_count, registered, refused, entry,
                 noticeVars, threadVars, called>>

RegisterEnd(e, accepted) ==
  /\ ConnectionIdle
  /\ e \in registering
  /\ registering' = registering \ {e}
  /\ registered' = IF accepted THEN registered \cup {e} ELSE registered
  /\ refused' = IF accepted THEN refused ELSE refused \cup {e}
  /\ UNCHANGED <<conn, owner, owner_closed, result_count, entry, noticeVars,
                 threadVars, called>>

-----------------------------------------------------------------------------
(* A result from the connection: libpq creates it with the connection's    *)
(* events and notice hooks, and fires RESULTCREATE for a query's result.   *)

NewNative(r, events, hooks) ==
  native' = [native EXCEPT ![r] =
    [live |-> TRUE, events |-> events, init |-> FALSE, hooks |-> hooks]]

Execute(r, fires) ==
  /\ ConnectionIdle
  /\ pc[r] = "free"
  /\ NewNative(r, owner = "live", binding = "live")
  /\ via' = [via EXCEPT ![r] = "conn"]
  /\ Goto(r, IF fires /\ owner = "live" THEN "create" ELSE "track")
  /\ UNCHANGED <<conn, eventVars, noticeVars, held, ending, called>>

\* RESULTCREATE: the entry cannot be allocated, or the callbacks answer.
Create(r) ==
  /\ pc[r] = "create"
  /\ Goto(r, "track")
  /\ \/ UNCHANGED <<eventVars, native, called>>
     \/ \E accepted \in SUBSET registered :
          /\ MakeResult(r, registered, accepted, TRUE)
          /\ native' = [native EXCEPT ![r].init = TRUE]
          /\ called' = [called EXCEPT ![r] = accepted]
  /\ UNCHANGED <<conn, noticeVars, via, held, ending>>

\* fire_result_create: RESULTCREATE when libpq has not initialized the result,
\* and otherwise the callbacks that have declined so far.
Fire(r) ==
  /\ ConnectionIdle
  /\ pc[r] = "live" \/ (FireOnNotices /\ pc[r] = "notice")
  /\ ~Copying(r)
  /\ entry[r].is
  /\ \E accepted \in SUBSET (entry[r].states \ entry[r].initialized) :
       /\ entry' = [entry EXCEPT ![r].initialized = @ \cup accepted,
                                 ![r].native_initialized = TRUE]
       /\ called' = [called EXCEPT ![r] = @ \cup accepted]
  /\ native' = [native EXCEPT ![r].init = TRUE]
  /\ UNCHANGED <<conn, owner, owner_closed, result_count, registered, registering,
                 refused, noticeVars, pc, via, held, ending>>

-----------------------------------------------------------------------------
(* result_copy, by the thread that holds the source or borrows it in a     *)
(* notice receiver or a DESTROY callback.                                  *)

CopyNative(s, r, events, hooks) ==
  /\ pc[s] \in {"live", "notice", "destroy"} /\ ~Copying(s)
  /\ pc[r] = "free"
  /\ NewNative(r, events /\ native[s].events, hooks /\ native[s].hooks)
  /\ via' = [via EXCEPT ![r] = s]
  /\ Goto(r, IF events /\ native[s].events /\ native[s].init THEN "copy" ELSE "track")
  /\ UNCHANGED <<conn, eventVars, noticeVars, held, ending, called>>

\* RESULTCOPY: no source entry, no memory, or the initialized callbacks answer.
CopyDispatch(r) ==
  LET source == entry[via[r]]
  IN  /\ pc[r] = "copy"
      /\ Goto(r, "track")
      /\ \/ UNCHANGED <<eventVars, native, called>>
         \/ /\ source.is
            /\ \E accepted \in SUBSET source.initialized :
                 /\ MakeResult(r, source.states, accepted, TRUE)
                 /\ native' = [native EXCEPT ![r].init = TRUE]
                 /\ called' = [called EXCEPT ![r] = accepted]
      /\ UNCHANGED <<conn, noticeVars, via, held, ending>>

-----------------------------------------------------------------------------
(* track_result and the prepare functions.                                 *)

NoticeFound(r) ==
  IF via[r] = "conn" THEN binding = "live" /\ ~binding_closed ELSE NoticeOwnerOf(via[r])

\* The result is tracked; or there is no memory and it is cleared in a scope
\* that holds the reference.
Track(r) ==
  /\ pc[r] = "track"
  /\ \/ /\ NoticeFound(r)
        /\ binding_count' = binding_count + 1
        /\ \/ tracked' = tracked \cup {r} /\ Goto(r, "prepare") /\ UNCHANGED held
           \/ /\ held' = [held EXCEPT ![r] = "pending"]
              /\ Goto(r, "check")
              /\ UNCHANGED tracked
     \/ /\ ~NoticeFound(r)
        /\ Goto(r, "prepare")
        /\ UNCHANGED <<binding_count, tracked, held>>
  /\ UNCHANGED <<conn, eventVars, binding, binding_closed, native, via, ending, called>>

\* prepare_result and prepare_copy: what the new result has to freeze.
ToFreeze(r) ==
  IF via[r] = "conn" THEN registered ELSE entry[via[r]].states

Prepare(r) ==
  /\ pc[r] = "prepare"
  /\ LET needed == /\ ~entry[r].is
                   /\ IF via[r] = "conn" THEN owner = "live" /\ ~owner_closed
                                         ELSE native[r].events /\ entry[via[r]].is
     IN  \/ /\ ~needed
            /\ Goto(r, "live")
            /\ via' = [via EXCEPT ![r] = Nobody]
            /\ UNCHANGED eventVars
         \/ /\ needed
            /\ MakeResult(r, ToFreeze(r), {}, FALSE)
            /\ Goto(r, "live")
            /\ via' = [via EXCEPT ![r] = Nobody]
         \/ /\ needed            \* no memory: result_free
            /\ Goto(r, "release_tracking")
            /\ UNCHANGED <<eventVars, via>>
  /\ UNCHANGED <<conn, noticeVars, native, held, ending, called>>

-----------------------------------------------------------------------------
(* A server notice, lent to the receiver in a callback scope.              *)

Notice(r) ==
  /\ ConnectionIdle
  /\ binding = "live" /\ ~binding_closed
  /\ pc[r] = "free"
  /\ NewNative(r, owner = "live", TRUE)
  /\ via' = [via EXCEPT ![r] = "conn"]
  /\ held' = [held EXCEPT ![r] = "scope"]
  /\ binding_count' = binding_count + 1
  /\ \/ owner = "live" /\ MakeResult(r, registered, {}, FALSE) /\ Goto(r, "notice")
     \/ UNCHANGED eventVars /\ Goto(r, "end_scope")   \* no receiver, or no memory
     \/ owner # "live" /\ UNCHANGED eventVars /\ Goto(r, "notice")
  /\ UNCHANGED <<conn, binding, binding_closed, tracked, ending, called>>

\* The receiver returns; release_notice is release_uninitialized.
NoticeReturns(r) ==
  /\ pc[r] = "notice" /\ ~Copying(r)
  /\ Goto(r, "check")
  /\ UNCHANGED <<conn, eventVars, noticeVars, native, via, held, ending, called>>

\* The receiver's callback scope ends; libpq then clears the notice.
EndScope(r) ==
  /\ pc[r] = "end_scope"
  /\ ReleaseBinding
  /\ held' = [held EXCEPT ![r] = "none"]
  /\ Goto(r, "clear")
  /\ UNCHANGED <<conn, eventVars, native, via, ending, called>>

-----------------------------------------------------------------------------
(* result_free.                                                            *)

Free(r) ==
  /\ pc[r] = "live" /\ ~Copying(r)
  /\ Goto(r, "release_tracking")
  /\ UNCHANGED <<conn, eventVars, noticeVars, native, via, held, ending, called>>

\* The tracking entry goes and its reference passes to the pending clear.
ReleaseTracking(r) ==
  /\ pc[r] = "release_tracking"
  /\ tracked' = tracked \ {r}
  /\ held' = [held EXCEPT ![r] = IF r \in tracked THEN "pending" ELSE "none"]
  /\ Goto(r, "check")
  /\ UNCHANGED <<conn, eventVars, binding, binding_closed, binding_count,
                 native, via, ending, called>>

AfterRelease(r) == IF held[r] = "scope" THEN "end_scope" ELSE "clear"

\* release_uninitialized looks ...
Check(r) ==
  /\ pc[r] = "check"
  /\ Goto(r, IF entry[r].native_initialized THEN AfterRelease(r) ELSE "release")
  /\ UNCHANGED <<conn, eventVars, noticeVars, native, via, held, ending, called>>

\* ... and result_release drops the entry.
Release(r) ==
  /\ pc[r] = "release"
  /\ Goto(r, AfterRelease(r))
  /\ entry' = [entry EXCEPT ![r] = NoEntry]
  /\ IF entry[r].is THEN DropRole(owner_closed, result_count - 1)
                    ELSE UNCHANGED <<owner, owner_closed, result_count>>
  /\ UNCHANGED <<conn, registered, registering, refused, noticeVars, native, via,
                 held, ending, called>>

\* PQclear dispatches RESULTDESTROY to an initialized result; the callbacks run
\* in a scope that holds the notice owner.
Clear(r) ==
  /\ pc[r] = "clear"
  /\ Goto(r, IF native[r].init /\ entry[r].is THEN "destroy" ELSE "native_free")
  /\ binding_count' = IF native[r].init /\ entry[r].is /\ NoticeOwnerOf(r)
                        THEN binding_count + 1 ELSE binding_count
  /\ called' = IF native[r].init THEN [called EXCEPT ![r] = @ \ entry[r].initialized]
                                 ELSE called
  /\ UNCHANGED <<conn, eventVars, binding, binding_closed, tracked, native, via, held, ending>>

DestroyReturns(r) ==
  /\ pc[r] = "destroy" /\ ~Copying(r)
  /\ IF NoticeOwnerOf(r) THEN ReleaseBinding ELSE UNCHANGED noticeVars
  /\ Goto(r, "unlink")
  /\ UNCHANGED <<conn, eventVars, native, via, held, ending, called>>

Unlink(r) ==
  /\ pc[r] = "unlink"
  /\ entry' = [entry EXCEPT ![r] = NoEntry]
  /\ DropRole(owner_closed, result_count - 1)
  /\ Goto(r, "native_free")
  /\ UNCHANGED <<conn, registered, registering, refused, noticeVars, native, via,
                 held, ending, called>>

\* libpq frees the result: its address may be used again before the clear's
\* reference is given up.
NativeFree(r) ==
  /\ pc[r] = "native_free"
  /\ held[r] = "pending" => ending < MaxEnding
  /\ native' = [native EXCEPT ![r] = Freed]
  /\ ending' = IF held[r] = "pending" THEN ending + 1 ELSE ending
  /\ held' = [held EXCEPT ![r] = "none"]
  /\ via' = [via EXCEPT ![r] = Nobody]
  /\ Goto(r, "free")
  /\ UNCHANGED <<conn, eventVars, noticeVars, called>>

\* pending_clear_end.
PendingClearEnd ==
  /\ ending > 0
  /\ ending' = ending - 1
  /\ ReleaseBinding
  /\ UNCHANGED <<conn, eventVars, native, pc, via, held, called>>

-----------------------------------------------------------------------------
(* connection_free.                                                        *)

\* detach_notice_binding, with a reference for as long as PQfinish runs.
Detach ==
  /\ conn = "open" /\ registering = {}
  /\ \A r \in Results : via[r] # "conn"
  /\ conn' = "detached"
  /\ IF binding = "none" THEN UNCHANGED <<binding_closed, binding_count>>
                         ELSE binding_closed' = TRUE /\ binding_count' = binding_count + 1
  /\ UNCHANGED <<eventVars, binding, tracked, threadVars, called>>

\* PQfinish: CONNDESTROY goes to the owner if libpq knows it.
ConnDestroy ==
  /\ conn = "detached"
  /\ conn' = "destroyed"
  /\ IF owner = "live" THEN DropRole(TRUE, result_count)
                       ELSE UNCHANGED <<owner, owner_closed, result_count>>
  /\ UNCHANGED <<registered, registering, refused, entry, noticeVars, threadVars, called>>

ReleaseDetached ==
  /\ conn = "destroyed"
  /\ conn' = "closed"
  /\ IF binding = "none" THEN UNCHANGED noticeVars ELSE ReleaseBinding
  /\ UNCHANGED <<eventVars, threadVars, called>>

-----------------------------------------------------------------------------

ResultStep(r) ==
  \/ Create(r) \/ CopyDispatch(r) \/ Track(r) \/ Prepare(r)
  \/ EndScope(r) \/ ReleaseTracking(r) \/ Check(r) \/ Release(r) \/ Clear(r)
  \/ DestroyReturns(r) \/ Unlink(r) \/ NativeFree(r)

ResultCall(r) ==
  \/ \E fires \in BOOLEAN : Execute(r, fires)
  \/ Fire(r) \/ Notice(r) \/ NoticeReturns(r) \/ Free(r)
  \/ \E s \in Results \ {r} : \E events \in BOOLEAN, hooks \in BOOLEAN :
       CopyNative(s, r, events, hooks)

ConnectionStep == Detach \/ ConnDestroy \/ ReleaseDetached

Next ==
  \/ SetNotice
  \/ \E e \in Events : RegisterBegin(e) \/ \E accepted \in BOOLEAN : RegisterEnd(e, accepted)
  \/ \E r \in Results : ResultStep(r) \/ ResultCall(r)
  \/ PendingClearEnd
  \/ ConnectionStep

Spec == Init /\ [][Next]_vars

-----------------------------------------------------------------------------
(* Properties.                                                             *)

TypeOK ==
  /\ conn \in {"open", "detached", "destroyed", "closed"}
  /\ owner \in {"none", "live", "disposed"} /\ owner_closed \in BOOLEAN
  /\ binding \in {"none", "live", "disposed"} /\ binding_closed \in BOOLEAN
  /\ result_count \in 0 .. Cardinality(Results)
  /\ binding_count \in Nat /\ ending \in 0 .. MaxEnding
  /\ registered \subseteq Events /\ registering \subseteq Events /\ refused \subseteq Events
  /\ tracked \subseteq Results
  /\ entry \in [Results -> [states : SUBSET Events, initialized : SUBSET Events,
                            native_initialized : BOOLEAN, is : BOOLEAN]]
  /\ native \in [Results -> [live : BOOLEAN, events : BOOLEAN, init : BOOLEAN, hooks : BOOLEAN]]
  /\ pc \in [Results -> {"free", "create", "copy", "track", "prepare", "live", "notice",
                         "end_scope", "release_tracking", "check", "release", "clear",
                         "destroy", "unlink", "native_free"}]
  /\ via \in [Results -> Results \cup {"conn", Nobody}]
  /\ held \in [Results -> {"none", "pending", "scope"}]

Entries == { r \in Results : entry[r].is }

\* The event owner is there for as long as a result's entry or libpq's event
\* array can still call it (claim_disposal_locked: a caller does not touch the
\* owner once it has given up its role).
OwnerOutlivesResults ==
  Entries # {} \/ (\E r \in Results : native[r].init /\ pc[r] # "native_free")
    => owner = "live"

\* Nothing is left behind: the connection and every result gone, both the owner
\* and the binding have been disposed of, whichever came last.
NothingLeaks ==
  conn = "closed" /\ ending = 0 /\ (\A r \in Results : pc[r] = "free")
    => owner # "live" /\ binding # "live"

\* An entry never outlives the result at its address, so a later result that
\* reuses the address starts with its own (release_uninitialized, RESULTDESTROY).
NoStaleEntry == \A r \in Results : pc[r] = "free" => ~entry[r].is /\ r \notin tracked

\* Every callback that accepted CREATE or COPY has had its DESTROY by the time
\* libpq frees the result.
DestroyBalanced == \A r \in Results : pc[r] \in {"native_free", "free"} => called[r] = {}

\* A registration in its REGISTER callback or refused there is in no result.
OnlyAcceptedFrozen ==
  \A r \in Results : entry[r].states \cap (registering \cup refused) = {}

\* The notice binding is alive while someone holds a reference on it, and the
\* references are counted exactly (hook lock sections of postgres.c).
BindingCounted ==
  /\ binding_count = Cardinality(tracked) + ending
       + Cardinality({ r \in Results : held[r] # "none" })
       + Cardinality({ r \in Results : pc[r] = "destroy" /\ NoticeOwnerOf(r) })
       + (IF conn \in {"detached", "destroyed"} /\ binding # "none" THEN 1 ELSE 0)
  /\ binding_count > 0 => binding = "live"

\* A result that carries notice hooks can still call them: a copy made with
\* them retains the snapshot of its source.
SnapshotsRetained ==
  \A r \in Results : native[r].hooks => binding = "live"

=============================================================================
