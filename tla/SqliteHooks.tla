----------------------------- MODULE SqliteHooks -----------------------------
(***************************************************************************)
(* What an application hands to one connection of the SQLite facade        *)
(* (src/sqlite.c).  First the hooks: what the facade remembers for its     *)
(* trampolines, beside what SQLite has installed.  Each setter runs under  *)
(* the connection's mutex, so it is one step.  Then the contexts that come *)
(* with a destructor, and the bindings that carry them: functions, window  *)
(* functions, collations, R-tree queries and geometries, autovacuum        *)
(* callbacks, UTF-16 functions, auxiliary data and 64-bit arrays; each     *)
(* kind is registered under one name.  The two touch no state in common.   *)
(*                                                                         *)
(* SQLite is external: sqlite3_busy_timeout and sqlite3_wal_autocheckpoint *)
(* install handlers of SQLite's own, a session takes the preupdate hook,   *)
(* and the three ways of tracing share one mask of events.  It calls the   *)
(* destructor of what is replaced, removed or left at close, and, for some *)
(* kinds, of what it fails to register.                                    *)
(***************************************************************************)
EXTENDS Naturals, FiniteSets

CONSTANTS Hooks,        \* among PlainHooks and "preupdate"
          Sessions,
          Kinds, Bindings, None

\* Setters of one callback; a commit hook, say, reports to the application
\* what SQLite reports to the facade.
PlainHooks == {"busy", "authorizer", "collation_needed", "collation_needed16", "progress",
               "commit", "rollback", "update", "wal"}

VARIABLES
  callback,   \* state->..._callback is set
  native,     \* SQLite's hook: "none", "facade", "sqlite" or "session"
  tracing,    \* trace_callback, legacy_trace_callback, legacy_profile_callback
  events,     \* SQLite's mTrace: v2, legacy and profile
  sessions,   \* the sessions SQLite has
  session_count,
  reported,   \* the callback the last event reached, if any
  binding,    \* memory of a binding, and the context it carries
  slot,       \* what SQLite has registered under each kind's name
  listed,     \* function16_bindings and rtree_geometry_bindings
  closed

hook_vars == <<callback, native, tracing, events, sessions, session_count, reported>>
binding_vars == <<binding, slot, listed, closed>>
vars == <<hook_vars, binding_vars>>

\* Kinds SQLite knows no destructor of: the facade keeps their bindings in
\* a list of the connection, and there is no context to destroy.
Listed == {"function16", "rtree_geometry"}

Tracers == {"trace", "legacy_trace", "legacy_profile"}

Unused == [memory |-> "unused", frees |-> 0, destroyed |-> 0]
New == [memory |-> "live", frees |-> 0, destroyed |-> 0]

Init == /\ callback = [h \in Hooks |-> FALSE]
        /\ native = [h \in Hooks |-> "none"]
        /\ tracing = {} /\ events = {}
        /\ sessions = {} /\ session_count = 0 /\ reported = "none"
        /\ binding = [b \in Bindings |-> Unused]
        /\ slot = [k \in Kinds |-> None]
        /\ listed = {}
        /\ closed = FALSE

-----------------------------------------------------------------------------
\* cpkt_sqlite_set_busy_handler and the setters like it.  The two of
\* collation_needed share a context and a native hook.
Twin == [h \in {"collation_needed", "collation_needed16"} |->
           IF h = "collation_needed" THEN "collation_needed16" ELSE "collation_needed"]
Cleared(h) == {g \in Hooks : h \in DOMAIN Twin /\ g = Twin[h]}
SetHook(h, on) ==
  /\ h \in PlainHooks
  /\ callback' = [g \in Hooks |-> IF g = h THEN on ELSE callback[g] /\ g \notin Cleared(h)]
  /\ native' = [g \in Hooks |-> IF g = h THEN (IF on THEN "facade" ELSE "none")
                                ELSE IF g \in Cleared(h) THEN "none" ELSE native[g]]
  /\ UNCHANGED <<tracing, events, sessions, session_count>>

\* cpkt_sqlite_busy_timeout and cpkt_sqlite_wal_auto_checkpoint
Builtin(h, on) ==
  /\ h \in {"busy", "wal"}
  /\ native' = [native EXCEPT ![h] = IF on THEN "sqlite" ELSE "none"]
  /\ UNCHANGED <<callback, tracing, events, sessions, session_count>>

\* cpkt_sqlite_set_preupdate_hook: refused while there are sessions.
SetPreupdate(on) ==
  /\ "preupdate" \in Hooks
  /\ IF session_count # 0 THEN UNCHANGED <<callback, native>>
     ELSE /\ callback' = [callback EXCEPT !["preupdate"] = on]
          /\ native' = [native EXCEPT !["preupdate"] = IF on THEN "facade" ELSE "none"]
  /\ UNCHANGED <<tracing, events, sessions, session_count>>

\* cpkt_sqlite_session_new: refused while there is a preupdate callback; a
\* session for which there is no memory is deleted again.
SessionTaken == [native EXCEPT !["preupdate"] = "session"]
SessionNew(s, memory) ==
  /\ "preupdate" \in Hooks /\ s \notin sessions
  /\ IF callback["preupdate"] \/ ~memory THEN UNCHANGED <<native, sessions, session_count>>
     ELSE /\ native' = SessionTaken
          /\ sessions' = sessions \cup {s}
          /\ session_count' = session_count + 1
  /\ UNCHANGED <<callback, tracing, events>>

\* cpkt_sqlite_session_close
SessionClose(s) ==
  /\ s \in sessions
  /\ sessions' = sessions \ {s}
  /\ native' = IF sessions' = {} THEN [native EXCEPT !["preupdate"] = "none"] ELSE native
  /\ session_count' = IF session_count > 0 THEN session_count - 1 ELSE session_count
  /\ UNCHANGED <<callback, tracing, events>>

-----------------------------------------------------------------------------
(* Tracing                                                                 *)

Only(t, on) == IF on THEN {t} ELSE {}

\* cpkt_sqlite_set_trace; an empty mask turns SQLite's tracing off and
\* keeps the callback.
SetTrace(on, mask) ==
  /\ tracing' = Only("trace", on)
  /\ events' = Only("trace", on /\ mask)
  /\ UNCHANGED <<callback, native, sessions, session_count>>

\* cpkt_sqlite_set_legacy_trace
SetLegacyTrace(on) ==
  /\ tracing' = Only("legacy_trace", on)
  /\ events' = Only("legacy_trace", on)
  /\ UNCHANGED <<callback, native, sessions, session_count>>

\* cpkt_sqlite_set_legacy_profile: SQLite keeps the events of trace_v2 and
\* drops legacy tracing.
SetLegacyProfile(on) ==
  /\ tracing' = (tracing \ {"legacy_trace", "legacy_profile"}) \cup Only("legacy_profile", on)
  /\ events' = (events \cap {"trace"}) \cup Only("legacy_profile", on)
  /\ UNCHANGED <<callback, native, sessions, session_count>>

-----------------------------------------------------------------------------
(* Events.  A trampoline that finds no callback tells nobody.              *)

Fires(h) ==
  /\ native[h] = "facade"
  /\ reported' = IF callback[h] THEN h ELSE "nobody"
  /\ UNCHANGED <<callback, native, tracing, events, sessions, session_count>>

\* The trampolines of the busy handler, the authorizer and the collations;
Asks(h) == h \in {"busy", "authorizer", "collation_needed", "collation_needed16"} /\ Fires(h)
\* of progress, transactions, changes and the write-ahead log.
Tells(h) == h \in {"progress", "commit", "rollback", "update", "wal", "preupdate"} /\ Fires(h)

\* The three tracing trampolines.
Traces(t) ==
  /\ t \in events
  /\ reported' = IF t \in tracing THEN t ELSE "nobody"
  /\ UNCHANGED <<callback, native, tracing, events, sessions, session_count>>

Sets ==
  \/ \E h \in Hooks, on \in BOOLEAN : SetHook(h, on) \/ Builtin(h, on)
  \/ \E on \in BOOLEAN : SetPreupdate(on) \/ SetLegacyTrace(on) \/ SetLegacyProfile(on)
  \/ \E on, mask \in BOOLEAN : SetTrace(on, mask)
  \/ \E s \in Sessions : SessionClose(s) \/ \E memory \in BOOLEAN : SessionNew(s, memory)

HookSteps ==
  /\ \/ Sets /\ reported' = "none"
     \/ \E h \in Hooks : Asks(h) \/ Tells(h)
     \/ \E t \in Tracers : Traces(t)
  /\ UNCHANGED binding_vars

-----------------------------------------------------------------------------
(* Contexts and bindings                                                   *)

Free(b) == [b EXCEPT !.memory = "freed", !.frees = @ + 1]
\* cpkt_sqlite_function_destroy, cpkt_sqlite_collation_destroy,
\* cpkt_sqlite_carray_i64_destroy and the others: the context, then the
\* binding.
Destroy(b) == [Free(b) EXCEPT !.destroyed = @ + 1]
DestroyAll(bs, B) == [b \in Bindings |-> IF b \in B THEN Destroy(bs[b]) ELSE bs[b]]

\* Whether sqlite3_create_function_v2, say, calls the destructor of what it
\* fails to register; sqlite3_create_collation_v2 does not.
NativeDestroys(k) == k \notin Listed \cup {"collation"}
\* What the facade then does itself.
AfterFailure(k, b) == IF k \in Listed \cup {"collation"} THEN Free(b) ELSE b
\* Without the arguments or the memory for a binding there is only the
\* context: functions and arrays destroy it, the caller keeps the others.
TooEarly(k) == [Unused EXCEPT !.memory = "freed",
                              !.destroyed = IF k \in {"function", "window", "carray"} THEN 1 ELSE 0]

\* The bundled SQLite does not fail to set an autovacuum callback.
Refusal(k, outcome) ==
  CASE outcome = "early" -> TooEarly(k)
    [] outcome = "failed" /\ k # "autovacuum" ->
         AfterFailure(k, IF NativeDestroys(k) THEN Destroy(New) ELSE New)
    [] OTHER -> Unused

\* SQLite destroys what is replaced.
Register(b, k, outcome) ==
  /\ k \in Kinds /\ ~closed /\ binding[b].memory = "unused" /\ k \notin Listed
  /\ IF outcome = "ok"
     THEN /\ binding' = [DestroyAll(binding, {slot[k]}) EXCEPT ![b] = New]
          /\ slot' = [slot EXCEPT ![k] = b]
     ELSE binding' = [binding EXCEPT ![b] = Refusal(k, outcome)] /\ UNCHANGED slot
  /\ UNCHANGED <<listed, closed>>

\* A binding that is replaced stays in the list, where a running statement
\* may still use it.
RegisterListed(b, k, outcome) ==
  /\ k \in Kinds /\ ~closed /\ binding[b].memory = "unused" /\ k \in Listed
  /\ IF outcome = "ok"
     THEN /\ binding' = [binding EXCEPT ![b] = New]
          /\ slot' = [slot EXCEPT ![k] = b]
          /\ listed' = listed \cup {b}
     ELSE binding' = [binding EXCEPT ![b] = Refusal(k, outcome)] /\ UNCHANGED <<slot, listed>>
  /\ UNCHANGED closed

\* A registration with no callback removes what is there; a statement's
\* array goes when it is bound again or finalized, auxiliary data when its
\* statement ends.
Remove(k) ==
  /\ ~closed /\ slot[k] # None /\ k # "rtree_geometry"
  /\ binding' = IF k \in Listed THEN binding ELSE DestroyAll(binding, {slot[k]})
  /\ slot' = [slot EXCEPT ![k] = None]
  /\ UNCHANGED <<listed, closed>>

\* sqlite3_close destroys what is registered, then cpkt_sqlite_destroy frees
\* the lists.
Close ==
  /\ ~closed
  /\ closed' = TRUE
  /\ binding' = [b \in Bindings |->
       IF b \in listed THEN Free(binding[b])
       ELSE IF \E k \in Kinds : slot[k] = b THEN Destroy(binding[b]) ELSE binding[b]]
  /\ slot' = [k \in Kinds |-> None]
  /\ listed' = {}

create_function(b, o) == Register(b, "function", o)
create_window_function(b, o) == Register(b, "window", o)
create_collation(b, o) == Register(b, "collation", o)
register_rtree_query(b, o) == Register(b, "rtree_query", o)
set_autovacuum_callback(b, o) == Register(b, "autovacuum", o)
bind_carray(b, o) == Register(b, "carray", o)
context_set_auxdata(b, o) == Register(b, "auxdata", o)
create_function16(b, o) == RegisterListed(b, "function16", o)
register_rtree_geometry(b, o) == RegisterListed(b, "rtree_geometry", o)

Registers(b, o) ==
  \/ create_function(b, o) \/ create_window_function(b, o) \/ create_collation(b, o)
  \/ register_rtree_query(b, o) \/ set_autovacuum_callback(b, o) \/ bind_carray(b, o)
  \/ context_set_auxdata(b, o) \/ create_function16(b, o) \/ register_rtree_geometry(b, o)

BindingSteps ==
  /\ \/ \E b \in Bindings, o \in {"ok", "failed", "early"} : Registers(b, o)
     \/ \E k \in Kinds : Remove(k)
     \/ Close
  /\ UNCHANGED hook_vars

Next == HookSteps \/ BindingSteps

Spec == Init /\ [][Next]_vars

-----------------------------------------------------------------------------
\* The facade's trampoline is installed exactly where it has a callback to
\* call, or where SQLite's own busy or checkpoint handler has since taken
\* its place; so no callback that was cleared is called and none that is set
\* is forgotten.
HooksAgree ==
  \A h \in Hooks : /\ native[h] = "facade" => callback[h]
                   /\ callback[h] => native[h] \in {"facade", "sqlite"}
                                     \/ (h \in {"busy", "wal"} /\ native[h] = "none")

\* Sessions and a preupdate callback exclude each other: as long as a
\* session records changes the preupdate hook is the session's.
SessionsRecord ==
  /\ session_count = Cardinality(sessions)
  /\ sessions # {} => native["preupdate"] = "session" /\ ~callback["preupdate"]

\* The facade remembers a tracer exactly when SQLite still reports to it,
\* through every order of the three setters (an empty mask apart).
TracersAgree ==
  /\ events \subseteq tracing
  /\ tracing \ events \subseteq {"trace"}

\* An event that SQLite reports to a trampoline reaches a callback.
EventsReported == reported # "nobody"

HooksExact == HooksAgree /\ SessionsRecord /\ TracersAgree /\ EventsReported

\* A context is destroyed at most once and a binding freed at most once,
\* whichever of SQLite and the facade does it; SQLite never has a binding
\* that is freed, and a binding nobody has is not left in memory.
BindingsExact ==
  /\ \A b \in Bindings : binding[b].destroyed <= 1 /\ binding[b].frees <= 1
  /\ \A k \in Kinds : slot[k] # None => binding[slot[k]].memory = "live"
  /\ \A b \in Bindings : binding[b].memory = "live" => b \in listed \/ \E k \in Kinds : slot[k] = b
=============================================================================
