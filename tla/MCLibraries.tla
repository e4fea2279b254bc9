---------------------------- MODULE MCLibraries ----------------------------
(***************************************************************************)
(* The PostgreSQL, Lua, OpenSSL and SASL facades for TLC, and of SQLite    *)
(* the virtual file systems and virtual tables.  They share nothing, so a  *)
(* behaviour is that of one part of one of them: part says of which.  The  *)
(* variables of OpensslBio are those of the parts bio and poll; s1, s2,    *)
(* ... are the variables of any other one, in the order of their           *)
(* declaration.                                                            *)
(*   bio, poll          BIO shells with their methods; SSL_poll            *)
(*   firing, quiet      results, events and notices of a connection; the   *)
(*                      notice receivers fire RESULT_CREATE on the result  *)
(*                      of their notice, or do not                         *)
(*   pg_hooks           the process-wide hooks, OAuth requests, traces     *)
(*   lua                a runtime with a memory cap and limits             *)
(*   sasl_plugins, sasl_connections                                        *)
(*   vfs, vtabs, fts5   SQLite's files, modules and FTS5                   *)
(***************************************************************************)
EXTENDS OpensslBio, TLC

CONSTANTS Results, Events, Nobody

VARIABLES
  part,
  s1, s2, s3, s4, s5, s6, s7, s8, s9, s10, s11, s12, s13, s14, s15, s16, s17,
  s18

mcVars ==
  <<vars, part, s1, s2, s3, s4, s5, s6, s7, s8, s9, s10, s11, s12, s13, s14, s15, s16, s17,
    s18>>

\* What a part with fewer variables leaves unused.
rest17 == <<s18>>
rest8 == <<s9, s10, s11, s12, s13, s14, s15, s16, s17, rest17>>
rest7 == <<s8, rest8>>
rest6 == <<s7, rest7>>
rest0 == <<s1, s2, s3, s4, s5, s6, rest6>>

Unused17 == s18 = 0
Unused8 == /\ s9 = 0 /\ s10 = 0 /\ s11 = 0 /\ s12 = 0 /\ s13 = 0 /\ s14 = 0
           /\ s15 = 0 /\ s16 = 0 /\ s17 = 0 /\ Unused17
Unused7 == s8 = 0 /\ Unused8
Unused6 == s7 = 0 /\ Unused7
Unused0 == s1 = 0 /\ s2 = 0 /\ s3 = 0 /\ s4 = 0 /\ s5 = 0 /\ s6 = 0 /\ Unused6

Firing == INSTANCE PgResults WITH
  MaxEnding <- 1, FireOnNotices <- TRUE,
  conn <- s1, owner <- s2, owner_closed <- s3, result_count <- s4, registered <- s5,
  registering <- s6, refused <- s7, entry <- s8, binding <- s9, binding_closed <- s10,
  binding_count <- s11, tracked <- s12, native <- s13, pc <- s14, via <- s15,
  held <- s16, ending <- s17, called <- s18

Quiet == INSTANCE PgResults WITH
  MaxEnding <- 1, FireOnNotices <- FALSE,
  conn <- s1, owner <- s2, owner_closed <- s3, result_count <- s4, registered <- s5,
  registering <- s6, refused <- s7, entry <- s8, binding <- s9, binding_closed <- s10,
  binding_count <- s11, tracked <- s12, native <- s13, pc <- s14, via <- s15,
  held <- s16, ending <- s17, called <- s18

PgProcess == INSTANCE PgHooks WITH
  Hooks <- {"default_diagnostic", "auth_data"}, Callbacks <- {"callback"},
  Requests <- {"r1", "r2"}, None <- "none",
  facade <- s1, native <- s2, request <- s3, cleaned <- s4, trace <- s5, heap <- s6,
  given <- s7, copies <- s8

Lua == INSTANCE LuaRuntime WITH
  MaxBytes <- 20, RuntimeBytes <- 4, ChunkBytes <- 1, TextBytes <- 3,
  NoMemoryBytes <- 2, Requests <- {3}, Blocks <- {"b1", "b2"}, Chunks <- {"c1", "c2"},
  Modules <- {"m"}, Coroutines <- {"co"}, Limits <- {1}, None <- "none",
  used <- s1, failed <- s2, runtime <- s3, lua <- s4, chunks <- s5, preload <- s6,
  last_error <- s7, limit <- s8, hit <- s9, hook <- s10, current <- s11, libs <- s12,
  wrapped <- s13, call <- s14, status <- s15, struck <- s16, stray <- s17

\* Plugins and connections are two parts, and have the same slots.
Sasl == INSTANCE Sasl WITH
  Registrations <- {"r1", "r2"}, Mechanisms <- {"c1", "c2"}, MaxPlugins <- 2,
  MaxReferences <- 2, Connections <- {"c1", "c2"}, Natives <- {"n1", "n2"},
  Lists <- {"l1", "l2"}, None <- "none", AddressReuse <- FALSE,
  references <- s1, reg <- s2, balance <- s3, mech <- s4, contexts <- s5, faults <- s6,
  conn <- s1, receivers <- s2, entries <- s3, secrets <- s4, cell <- s5, taken <- s6,
  reached <- s7

Vfs == INSTANCE SqliteVfs WITH
  Custom <- {"v1"}, Native <- "unix", Files <- {"f1", "f2"}, Views <- {"w1", "w2"},
  None <- "none",
  vfs <- s1, registry <- s2, file <- s3, view <- s4, find <- s5, answer <- s6

\* Modules and FTS5 are two parts, and have the same slots.
Vtabs == INSTANCE SqliteVtabs WITH
  Modules <- {"m1", "m2"}, Tables <- {"t1", "t2"}, Cursors <- {"c1", "c2"},
  None <- "none", MaxFunctions <- 1, Bindings <- {"b1", "b2", "b3"},
  Tokenizers <- {"k1"}, Founds <- {"f1"}, Threads <- {"t1", "t2"}, Depth <- 2,
  module <- s1, registry <- s2, table <- s3, cursor <- s4, heap <- s5, answer <- s6,
  open <- s1, binding <- s2, tokenizer <- s3, found <- s4, scopes <- s5, stack <- s6,
  read <- s7

ASSUME Assumptions ==
  /\ Firing!PgResultsAssumption /\ Quiet!PgResultsAssumption
  /\ Lua!LuaRuntimeAssumption

Interchangeable == Permutations(Results) \cup Permutations(Events)

\* A bound: one thread sends; the other one receives, or copies a BIO.
Roles == \A t \in Threads : thread[t] # Idle =>
           thread[t].op \in (IF t = "t1" THEN {"send"} ELSE {"receive", "dup"})

MCInit ==
  /\ Init
  /\ \/ part \in {"bio", "poll"} /\ Unused0
     \/ part \in {"firing", "quiet"} /\ Firing!Init
     \/ part = "pg_hooks" /\ PgProcess!Init /\ Unused8
     \/ part = "lua" /\ Lua!Init /\ Unused17
     \/ part = "sasl_plugins" /\ Sasl!PluginInit /\ Unused6
     \/ part = "sasl_connections" /\ Sasl!ConnectionInit /\ Unused7
     \/ part = "vfs" /\ Vfs!Init /\ Unused6
     \/ part = "vtabs" /\ Vtabs!TableInit /\ Unused6
     \/ part = "fts5" /\ Vtabs!Fts5Init /\ Unused7

MCNext ==
  /\ UNCHANGED part
  /\ \/ part = "bio" /\ BioNext /\ Roles' /\ UNCHANGED rest0
     \/ part = "poll" /\ PollNext /\ UNCHANGED rest0
     \/ part = "firing" /\ Firing!Next /\ UNCHANGED vars
     \/ part = "quiet" /\ Quiet!Next /\ UNCHANGED vars
     \/ part = "pg_hooks" /\ PgProcess!Next /\ UNCHANGED <<vars, rest8>>
     \/ part = "lua" /\ Lua!Next /\ UNCHANGED <<vars, rest17>>
     \/ part = "sasl_plugins" /\ Sasl!PluginNext /\ UNCHANGED <<vars, rest6>>
     \/ part = "sasl_connections" /\ Sasl!ConnectionNext /\ UNCHANGED <<vars, rest7>>
     \/ part = "vfs" /\ Vfs!Next /\ UNCHANGED <<vars, rest6>>
     \/ part = "vtabs" /\ Vtabs!TableNext /\ UNCHANGED <<vars, rest6>>
     \/ part = "fts5" /\ Vtabs!Fts5Next /\ UNCHANGED <<vars, rest7>>

MCSpec == MCInit /\ [][MCNext]_mcVars

-----------------------------------------------------------------------------
(* Properties, beside BiosExact: the parts are explained in the component  *)
(* modules.                                                                *)

\* The event owner and the notice binding live while anyone can call them, are
\* counted exactly, and are disposed of once the connection and every result are
\* gone, whichever came last (claim_disposal_locked, the hook lock sections).
\* Where no receiver fires an event on a notice, a result that carries notice
\* hooks can still call them (cpkt_postgres_result_copy).  Only registrations that
\* accepted are in a result, each that accepted CREATE or COPY has its DESTROY
\* before libpq frees the result, and no entry outlives the result at its address
\* (cpkt_postgres_native_event).
ResultsExact ==
  /\ part \in {"firing", "quiet"} =>
       /\ Firing!TypeOK /\ Firing!OwnerOutlivesResults
       /\ Firing!BindingCounted /\ Firing!NothingLeaks
       /\ Firing!OnlyAcceptedFrozen /\ Firing!DestroyBalanced /\ Firing!NoStaleEntry
  /\ part = "quiet" => Quiet!SnapshotsRetained

\* A getter reports the callback that was set last; the cleanup of an OAuth request
\* runs exactly once and only when the request is over, whichever way it ends; the
\* trace goes where the last setter sent it; every allocation belongs to a pending
\* request, a held notification or the call in progress (the hook setters,
\* native_oauth_cleanup).
PgHooksExact == part = "pg_hooks" => PgProcess!TypeOK /\ PgProcess!PgHooksExact

\* used is the number of bytes the runtime holds and never exceeds the cap, whatever
\* fails; a preload entry only names a chunk that is kept; the running thread,
\* coroutine or not, has the limit of its call in force, and a call the limit
\* interrupted says so and no other does (allocator_realloc, runtime_enter,
\* coroutine_resume).
RuntimeExact == part = "lua" => Lua!RuntimeExact

\* The plugins of a registration are released exactly once, also when one in the
\* middle is refused; an adopted record stays while the library may call it; every
\* mechanism context belongs to an open connection (add_plugin, finish, the plugin
\* trampolines).  Where no address is reused early, a native address names at most
\* one receiver, a utility record is forgotten by the close of its connection,
\* answers reach the prompt list that asked for them, secrets are erased and a
\* delegated credential has one owner (connection_new, forget_connection).
SaslExact ==
  /\ part = "sasl_plugins" => Sasl!PluginsExact
  /\ part = "sasl_connections" => Sasl!ConnectionsExact

\* SQLite's registry names no freed VFS, whether a VFS was registered through
\* its object or through a view; an open file keeps its VFS and has one owner,
\* SQLite or an owned view, so that an open that fails half-way leaves nothing
\* open and a borrowed view closes nothing; a call through a view reaches an open
\* file or a live VFS (vfs_register, file_open, the view methods).
FilesExact == part = "vfs" => Vfs!VfsExact

\* A module's context is destroyed once, when it is neither registered nor behind
\* a connected table; every table and cursor the application made, and every
\* function binding, belongs to a native object or has been freed, on every error
\* path; a failed callback writes no output (the module trampolines).  The list of
\* FTS5 scopes has one scope for each running auxiliary function, whatever runs
\* inside it and on the other thread, so user data is the call's own
\* (fts5_sql_context_head).
ModulesExact ==
  /\ part = "vtabs" => Vtabs!VtabsExact
  /\ part = "fts5" => Vtabs!Fts5Exact
=============================================================================
