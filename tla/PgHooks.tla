------------------------------ MODULE PgHooks ------------------------------
(***************************************************************************)
(* The hooks, sinks and temporary objects of the PostgreSQL facade         *)
(* (src/postgres.c).  A hook is two things: the application's callback in  *)
(* the facade and the adapter installed in libpq.  An OAuth request adds a *)
(* third, the facade's state record, which carries the application's own   *)
(* cleanup until libpq runs the adapter's.  Calls that convert arguments   *)
(* own temporary copies for the time of the native call.                   *)
(*                                                                         *)
(* external: libpq asks the hook for a token, polls an accepted request    *)
(* any number of times and cleans it up once; a request that was refused   *)
(* has no native cleanup and is simply dropped.                            *)
(*                                                                         *)
(* The hooks are set before worker threads start, as postgres.h asks, so   *)
(* a setter is one step.                                                   *)
(***************************************************************************)
EXTENDS Integers, FiniteSets

CONSTANTS Hooks,      \* process-wide hooks
          Callbacks,  \* the application's callbacks
          Requests,   \* OAuth bearer requests
          None

VARIABLES facade,    \* per hook: the application's callback
          native,    \* per hook: is the adapter installed in libpq
          request,   \* per OAuth request: its progress
          cleaned,   \* per request: how often the application's cleanup ran
          trace,     \* the connection's trace: sink callback, native destination
          heap,      \* what the facade has allocated and not released
          given,     \* objects handed to the application, not yet released
          copies     \* converted arguments of the native call in progress

vars == <<facade, native, request, cleaned, trace, heap, given, copies>>

\* A request: at libpq's side; asynchronous and cleanup callbacks kept in the
\* facade's state record; whether the native request has the adapters.
Idle == [at |-> "idle", state |-> FALSE, cleanup |-> FALSE, async |-> FALSE]

TypeOK ==
  /\ facade \in [Hooks -> Callbacks \cup {None}]
  /\ native \in [Hooks -> BOOLEAN]
  /\ request \in [Requests -> [at : {"idle", "pending", "over"}, state : BOOLEAN,
                               cleanup : BOOLEAN, async : BOOLEAN]]
  /\ cleaned \in [Requests -> Nat]
  /\ trace \in [sink : Callbacks \cup {None}, to : {"none", "file", "sink"},
                binding : BOOLEAN]
  /\ heap \in Nat /\ given \in Nat /\ copies \in 0..1

Init ==
  /\ facade = [h \in Hooks |-> None] /\ native = [h \in Hooks |-> FALSE]
  /\ request = [r \in Requests |-> Idle] /\ cleaned = [r \in Requests |-> 0]
  /\ trace = [sink |-> None, to |-> "none", binding |-> FALSE]
  /\ heap = 0 /\ given = 0 /\ copies = 0

-----------------------------------------------------------------------------
\* A process-wide hook: the callback under the hook lock, then libpq's side.
SetHook(h, c) ==
  /\ facade' = [facade EXCEPT ![h] = c]
  /\ native' = [native EXCEPT ![h] = c # None]
  /\ UNCHANGED <<request, cleaned, trace, heap, given, copies>>

set_default_diagnostic_sink(c) == "default_diagnostic" \in Hooks /\ SetHook("default_diagnostic", c)
register_thread_lock(c) == "thread_lock" \in Hooks /\ SetHook("thread_lock", c)
set_ssl_key_password_hook(c) == "ssl_key_password" \in Hooks /\ SetHook("ssl_key_password", c)
set_auth_data_hook(c) == "auth_data" \in Hooks /\ SetHook("auth_data", c)

\* What the getters report: the callback, when libpq's hook is the adapter.
get_hook(h) == IF native[h] THEN facade[h] ELSE None

-----------------------------------------------------------------------------
\* The application answers a token request through the auth data hook:
\* positive accepts it, negative fails it, zero leaves it to libpq's default.
native_auth_data_hook(r, status, cleanup, async, memory) ==
  /\ request[r].at = "idle" /\ native["auth_data"] /\ facade["auth_data"] # None
  /\ IF status > 0 /\ memory
     THEN /\ request' = [request EXCEPT ![r] = [at |-> "pending", state |-> TRUE,
                                                cleanup |-> cleanup, async |-> async]]
          /\ heap' = heap + 1
          /\ UNCHANGED cleaned
     ELSE /\ request' = [request EXCEPT ![r].at = "over", ![r].cleanup = cleanup /\ status # 0]
          /\ cleaned' = [cleaned EXCEPT ![r] = IF status # 0 /\ cleanup THEN @ + 1 ELSE @]
          /\ UNCHANGED heap
  /\ UNCHANGED <<facade, native, trace, given, copies>>

\* libpq polls: the application sees a copy of the request and may change both
\* callbacks, which are copied back into the state record.
native_oauth_async(r, cleanup, async) ==
  /\ request[r].at = "pending" /\ request[r].async
  /\ request' = [request EXCEPT ![r].cleanup = cleanup, ![r].async = async]
  /\ UNCHANGED <<facade, native, cleaned, trace, heap, given, copies>>

\* Mutated form: the state record outlives the request.
native_oauth_cleanup_Keeps(r) ==
  /\ request[r].at = "pending"
  /\ cleaned' = [cleaned EXCEPT ![r] = IF request[r].cleanup THEN @ + 1 ELSE @]
  /\ request' = [request EXCEPT ![r].at = "over"]
  /\ UNCHANGED <<facade, native, trace, heap, given, copies>>

\* libpq ends the request: the application's cleanup, then the state record.
native_oauth_cleanup(r) ==
  /\ request[r].at = "pending"
  /\ cleaned' = [cleaned EXCEPT ![r] = IF request[r].cleanup THEN @ + 1 ELSE @]
  /\ request' = [request EXCEPT ![r].at = "over", ![r].state = FALSE]
  /\ heap' = heap - 1
  /\ UNCHANGED <<facade, native, trace, given, copies>>

-----------------------------------------------------------------------------
\* The two trace destinations replace each other.  A sink lives in the
\* connection's binding, which the first sink makes.
set_trace_sink(c, memory) ==
  /\ IF c # None /\ ~trace.binding /\ ~memory
     THEN UNCHANGED trace
     ELSE trace' = [sink |-> c, to |-> IF c = None THEN "none" ELSE "sink",
                    binding |-> trace.binding \/ c # None]
  /\ UNCHANGED <<facade, native, request, cleaned, heap, given, copies>>

postgres_trace ==
  /\ trace' = [trace EXCEPT !.sink = None, !.to = "file"]
  /\ UNCHANGED <<facade, native, request, cleaned, heap, given, copies>>

untrace ==
  /\ trace' = [trace EXCEPT !.sink = None, !.to = "none"]
  /\ UNCHANGED <<facade, native, request, cleaned, heap, given, copies>>

-----------------------------------------------------------------------------
\* A call with converted arguments: no native call when the allocation or a
\* conversion fails, and the copies are released once the call has returned.
native_oids(fits) == IF fits THEN 1 ELSE 0
Converted(fits) ==
  /\ copies = 0
  /\ copies' = native_oids(fits) /\ heap' = heap + native_oids(fits)
  /\ UNCHANGED <<facade, native, request, cleaned, trace, given>>

execute_params(fits) == Converted(fits)
send_query_params(fits) == Converted(fits)
fastpath(fits) == Converted(fits)
result_set_attributes(fits) == Converted(fits)

CallReturns ==
  /\ copies > 0
  /\ heap' = heap - copies /\ copies' = 0
  /\ UNCHANGED <<facade, native, request, cleaned, trace, given>>

\* A native notification is copied (record, channel, payload) and released;
\* when one text cannot be copied, so is what was copied before it.
notification_next(copied) ==
  /\ IF copied = 3 THEN heap' = heap + 3 /\ given' = given + 1
                   ELSE UNCHANGED <<heap, given>>
  /\ UNCHANGED <<facade, native, request, cleaned, trace, copies>>

notification_free ==
  /\ given > 0
  /\ heap' = heap - 3 /\ given' = given - 1
  /\ UNCHANGED <<facade, native, request, cleaned, trace, copies>>

-----------------------------------------------------------------------------
MaxGiven == 1
Next ==
  \/ \E c \in Callbacks \cup {None} :
       \/ set_default_diagnostic_sink(c) \/ register_thread_lock(c)
       \/ set_ssl_key_password_hook(c) \/ set_auth_data_hook(c)
       \/ \E memory \in BOOLEAN : set_trace_sink(c, memory)
  \/ \E r \in Requests, cleanup, async \in BOOLEAN :
       \/ \E status \in {-1, 0, 1}, memory \in BOOLEAN :
            native_auth_data_hook(r, status, cleanup, async, memory)
       \/ native_oauth_async(r, cleanup, async)
  \/ \E r \in Requests : native_oauth_cleanup(r)
  \/ postgres_trace \/ untrace
  \/ \E fits \in BOOLEAN : execute_params(fits) \/ send_query_params(fits)
                             \/ fastpath(fits) \/ result_set_attributes(fits)
  \/ CallReturns
  \/ \E copied \in 0..3 : given < MaxGiven /\ notification_next(copied)
  \/ notification_free

Spec == Init /\ [][Next]_vars

-----------------------------------------------------------------------------
\* A getter reports the callback set last: facade and libpq never disagree.
HooksAgree == \A h \in Hooks : get_hook(h) = facade[h]

\* The application's OAuth cleanup has run exactly once for a request that is
\* over and had one when it ended, and never for one still pending.
CleanupOnce ==
  \A r \in Requests :
    cleaned[r] = IF request[r].at = "over" /\ request[r].cleanup THEN 1 ELSE 0

\* The sink the facade would call is the one libpq is told to call.
TraceExact == (trace.sink # None) = (trace.to = "sink")

\* Every allocation belongs to a pending request, to a notification the
\* application still holds or to the call in progress: failed and completed calls leave nothing behind.
HeapExact ==
  heap = Cardinality({r \in Requests : request[r].at = "pending"}) + 3 * given + copies

PgHooksExact == HooksAgree /\ CleanupOnce /\ TraceExact /\ HeapExact
=============================================================================
