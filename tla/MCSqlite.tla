------------------------------ MODULE MCSqlite ------------------------------
(***************************************************************************)
(* The SQLite facade for TLC, without files and virtual tables, which are  *)
(* in MCLibraries.  Its parts touch no records of each other, so a         *)
(* behaviour is that of one of them: part says of which.  The              *)
(* variables of SqliteUnlockNotify are those of the part notify; s1, s2,   *)
(* ... are the variables of any other one, in the order of their           *)
(* declaration.                                                            *)
(***************************************************************************)
EXTENDS SqliteUnlockNotify

VARIABLES
  part,
  s1, s2, s3, s4, s5, s6, s7, s8, s9, s10, s11, s12, s13, s14

mcVars ==
  <<vars, part, s1, s2, s3, s4, s5, s6, s7, s8, s9, s10, s11, s12, s13, s14>>

\* What a part with fewer variables leaves unused.
rest11 == <<s12, s13, s14>>
rest8 == <<s9, s10, s11, rest11>>
rest7 == <<s8, rest8>>
rest6 == <<s7, rest7>>
rest5 == <<s6, rest6>>
rest0 == <<s1, s2, s3, s4, s5, rest5>>

Unused11 == s12 = 0 /\ s13 = 0 /\ s14 = 0
Unused8 == s9 = 0 /\ s10 = 0 /\ s11 = 0 /\ Unused11
Unused7 == s8 = 0 /\ Unused8
Unused6 == s7 = 0 /\ Unused7
Unused5 == s6 = 0 /\ Unused6
Unused0 == s1 = 0 /\ s2 = 0 /\ s3 = 0 /\ s4 = 0 /\ s5 = 0 /\ Unused5

AutoExtensions == INSTANCE SqliteAutoExtensions WITH
  Threads <- {"t1", "t2"}, Extensions <- {"e1", "e2"}, None <- "none", MaxNest <- 3,
  MaxCalls <- 6,
  ext <- s1, trampoline_registered <- s2, native <- s3, transition <- s4, stack <- s5,
  calls <- s6

Lifetimes == INSTANCE SqliteConnections WITH
  Threads <- {"t1", "t2", "t3"}, Receivers <- {"r1", "r2"}, Addresses <- {"a1", "a2"},
  Children <- {"c1", "c2"}, None <- "none", Reuse <- FALSE,
  native <- s1, receiver <- s2, child <- s3, held <- s4, thread <- s5

\* The extra bytes of the pages start at a multiple of 8, 4 and 7 behind one.  The
\* page cache and the mutexes are two parts, and have the same slots.
Methods == INSTANCE SqliteMethods WITH
  Keys <- 0 .. 3, Pages <- {"p1", "p2", "p3"}, Items <- {"i1", "i2", "i3"},
  None <- "none", Buckets <- 1, MaxBuckets <- 2,
  ExtraAt <- [p1 |-> 16, p2 |-> 20, p3 |-> 31], ExtraSizes <- {0, 8, 100},
  WrapperBytes <- 12, IntMax <- 100, Threads <- {"t1", "t2"}, Static <- {"main"},
  Dynamic <- {"fast"}, Views <- {"v1", "v2"}, Adapters <- {"a1", "a2", "a3"},
  Entries <- {"e1", "e2", "e3"}, Handles <- {"h1", "h2"},
  cache <- s1, resident <- s2, pinned <- s3, item <- s4, bucket <- s5, page_count <- s6,
  wrapper <- s7, held <- s8, ready <- s1, config <- s2, current <- s3,
  methods_are_set <- s4, table <- s5, views <- s6, adapter <- s7, entry <- s8,
  handle <- s9, statics <- s10, view_statics <- s11, lock <- s12, thread <- s13,
  seen <- s14

Handed == INSTANCE SqliteHooks WITH
  Hooks <- {"busy", "wal", "collation_needed", "collation_needed16", "preupdate"},
  Sessions <- {"one", "two"},
  Kinds <- {"function", "window", "collation", "rtree_query", "autovacuum", "carray",
            "auxdata", "function16", "rtree_geometry"},
  Bindings <- {"b1", "b2", "b3"}, None <- "none",
  callback <- s1, native <- s2, tracing <- s3, events <- s4, sessions <- s5,
  session_count <- s6, reported <- s7, binding <- s8, slot <- s9, listed <- s10,
  closed <- s11

Shells == INSTANCE SqliteObjects WITH
  Objects <- {"o1", "o2"}, Natives <- {"n1", "n2", "n3"}, None <- "none",
  shell <- s1, live <- s2, lent <- s3, children <- s4, reached <- s5, out <- s6,
  faults <- s7

ASSUME Assumptions ==
  /\ AutoExtensions!BoundsAssumption /\ Lifetimes!ReuseAssumption
  /\ Methods!PageCacheAssumption

MCInit ==
  /\ Init
  /\ \/ part = "notify" /\ Unused0
     \/ part = "extensions" /\ AutoExtensions!Init /\ Unused6
     \/ part = "connections" /\ Lifetimes!Init /\ Unused5
     \/ part = "mutexes" /\ Methods!MutexInit
     \/ part = "cache" /\ Methods!CacheInit /\ Unused8
     \/ part \in {"hooks", "bindings"} /\ Handed!Init /\ Unused11
     \/ part = "objects" /\ Shells!Init /\ Unused7

\* A thread in a call goes on.
CallStep(t) ==
  /\ part \in {"extensions", "mutexes"}
  /\ \/ part = "extensions" /\ AutoExtensions!Step(t) /\ UNCHANGED rest6
     \/ part = "mutexes" /\ Methods!Step(t)
  /\ UNCHANGED <<vars, part>>

\* The connections and the bindings of unlock notifications are
\* interchangeable: they come to register in turn.
InTurn ==
  /\ \A pair \in {<<"b1", "b2">>, <<"b2", "b3">>} :
       binding[pair[1]].memory = "unused" => binding[pair[2]].memory = "unused"
  /\ binding["b1"].conn \in {"c1", "none"} /\ binding["b2"].conn \in {"c1", "c2", "none"}

MCNext ==
  /\ UNCHANGED part
  /\ \/ part = "notify" /\ Next /\ InTurn' /\ UNCHANGED rest0
     \/ part = "extensions" /\ AutoExtensions!Next /\ UNCHANGED <<vars, rest6>>
     \/ part = "connections" /\ Lifetimes!Next /\ UNCHANGED <<vars, rest5>>
     \/ part = "mutexes" /\ Methods!MutexNext /\ UNCHANGED vars
     \/ part = "cache" /\ Methods!CacheNext /\ UNCHANGED <<vars, rest8>>
     \/ part = "hooks" /\ Handed!HookSteps /\ UNCHANGED <<vars, rest11>>
     \/ part = "bindings" /\ Handed!BindingSteps /\ UNCHANGED <<vars, rest11>>
     \/ part = "objects" /\ Shells!Next /\ UNCHANGED <<vars, rest7>>

\* The fairness of the two parts with threads that wait: part never changes, so
\* that the condition is that of the part at work.
MCSpec == MCInit /\ [][MCNext]_mcVars /\ \A t \in {"t1", "t2"} : WF_mcVars(CallStep(t))

-----------------------------------------------------------------------------
(* Properties, beside NotifyExact and NotificationsKept: the parts are     *)
(* explained in the component modules.                                     *)

\* A binding in a trampoline's snapshot, or one a call works on, is not freed, and
\* a closed binding is freed by the last trampoline that holds it
\* (active_callbacks, close_requested); the facade's flag and SQLite's registry
\* agree outside registrations, and no registered extension is silent
\* (auto_extension_register, auto_extension_cancel).
ExtensionsExact ==
  part = "extensions" =>
    /\ AutoExtensions!TypeOK
    /\ AutoExtensions!BindingOutlivesUse /\ AutoExtensions!ClosedIsFreed
    /\ AutoExtensions!RegistryAgrees

\* An open statement, blob or backup keeps its connections alive and open; at
\* most one thread destroys a receiver and none works on a freed one; what open
\* returned stays the caller's until the caller closes it; a close is never lost
\* (release_child, finish_close).
ConnectionsExact ==
  part = "connections" =>
    /\ Lifetimes!TypeOK
    /\ Lifetimes!ChildKeepsConnection /\ Lifetimes!DestroyedOnce
    /\ Lifetimes!CallerOwnsReceiver /\ Lifetimes!CloseHappens

\* Two threads that ask for the same static mutex get the same one, every mutex
\* in use is live at both levels, and nothing allocated is lost when a step of an
\* allocation fails (mutex_alloc of the adapter and of the view).  The view's index
\* finds exactly the pages SQLite holds, before and after it is grown, rekeyed and
\* truncated; a page the adapter handed out is live; the aligned extra bytes lie
\* within what was asked of the cache below (page_cache_fetch, page_cache_rekey).
MethodsExact ==
  /\ part = "mutexes" => Methods!MutexesExact
  /\ part = "cache" => Methods!CacheExact

\* SQLite calls the facade exactly for the callbacks and tracers that are set, and
\* no preupdate callback displaces a session that records (the hook setters); a
\* context handed to a registration is destroyed at most once and its binding is
\* not left behind, also when the registration fails; every native object has one
\* owner and is released once, whichever of its two allocations failed (the
\* shells of values, blobs, changesets and snapshots).
OwnershipExact ==
  /\ part = "hooks" => Handed!HooksExact
  /\ part = "bindings" => Handed!BindingsExact
  /\ part = "objects" => Shells!ObjectsExact

\* Every call with automatic extensions returns, calls from inside callbacks
\* included; the lock of the static mutexes is always let go, and an allocation
\* whose lookup has been made returns.
CallsReturn ==
  \A t \in {"t1", "t2"} :
    (part = "extensions" /\ s5[t] # <<>>) \/ (part = "mutexes" /\ Methods!Allocating(t))
    ~> (part = "extensions" /\ s5[t] = <<>>) \/ (part = "mutexes" /\ Methods!Settled(t))
=============================================================================
