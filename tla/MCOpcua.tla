------------------------------ MODULE MCOpcua ------------------------------
(***************************************************************************)
(* The OPC UA facade for TLC.  Its records fall into groups that share     *)
(* nothing, so a behaviour is that of one group: part says of which.  The  *)
(* variables of OpcuaClient are those of the parts external and own; s1,   *)
(* s2, ... are the variables of any other one, in the order of their       *)
(* declaration.                                                            *)
(*   wide, deep             event loops: two loops and two servers, calls  *)
(*                          three deep; one of each, calls four deep, with *)
(*                          a UA_Server_delete that may fail               *)
(*   external, own          a client's timers and requests, on a loop that *)
(*                          outlives it, and on its own                    *)
(*   monitors, pubsub       a client's subscriptions and monitored items;  *)
(*                          the PubSub policies of a server                *)
(*   sockets, interrupts    registrations with the connection managers and *)
(*                          the interrupt manager                          *)
(*   timers ... nodes       the records behind a server's callbacks        *)
(*   configs                configurations, their plugins and their scopes *)
(*   attributes             reads and writes of attributes                 *)
(*   browses, methods       browsing with continuation points; nodes,      *)
(*                          references and method calls                    *)
(***************************************************************************)
EXTENDS OpcuaClient, TLC

CONSTANTS Xs, Ys, y

VARIABLES
  part,
  s1, s2, s3, s4, s5, s6, s7, s8, s9, s10, s11, s12

mcVars == <<vars, part, s1, s2, s3, s4, s5, s6, s7, s8, s9, s10, s11, s12>>

\* What a part with fewer variables leaves unused.
rest10 == <<s11, s12>>
rest8 == <<s9, s10, rest10>>
rest7 == <<s8, rest8>>
rest5 == <<s6, s7, rest7>>
rest4 == <<s5, rest5>>
rest3 == <<s4, rest4>>
rest0 == <<s1, s2, s3, rest3>>

Unused10 == s11 = 0 /\ s12 = 0
Unused8 == s9 = 0 /\ s10 = 0 /\ Unused10
Unused7 == s8 = 0 /\ Unused8
Unused5 == s6 = 0 /\ s7 = 0 /\ Unused7
Unused4 == s5 = 0 /\ Unused5
Unused3 == s4 = 0 /\ Unused4
Unused0 == s1 = 0 /\ s2 = 0 /\ s3 = 0 /\ Unused3

\* The same client on the loop it owns.
Own == INSTANCE OpcuaClient WITH External <- FALSE

Wide == INSTANCE OpcuaEventLoop WITH
  Loops <- Xs, Sources <- {"source"}, Servers <- Ys, MaxNest <- 3,
  DeleteMayFail <- FALSE,
  loop <- s1, source <- s2, server <- s3, stack <- s4

Deep == INSTANCE OpcuaEventLoop WITH
  Loops <- {"loop"}, Sources <- {"source"}, Servers <- {"server"}, MaxNest <- 4,
  DeleteMayFail <- TRUE,
  loop <- s1, source <- s2, server <- s3, stack <- s4

Monitored == INSTANCE OpcuaMonitors WITH
  Items <- {"i1", "i2", "i3"}, MaxNest <- 4, EarlyDelete <- {"subscription", "monitor"},
  record <- s1, frees <- s2, native <- s3, pending <- s4, listed <- s5, alive <- s6,
  stack <- s7

PubSub == INSTANCE OpcuaPubSub WITH
  Entries <- Ys \cup {y}, Ids <- Xs, MaxNest <- 3, UIntRange <- 8, LateOwner <- {},
  DeleteInPolicy <- FALSE,
  live <- s1, owner <- s2, depth <- s3, held <- s4, loop_depth <- s5,
  config_depth <- s6, entries <- s7, ent <- s8, components <- s9, issued <- s10,
  policy <- s11, stack <- s12

Sockets == INSTANCE OpcuaConnections WITH
  Regs <- Xs, Slots <- Ys, Ids <- {"i1", "i2"}, Irqs <- {"e1", "e2"}, Handles <- {"h"},
  MaxNest <- 3,
  reg <- s1, slot <- s2, conn <- s3, stack <- s4, buffer <- s5, irq <- s6,
  interrupts <- s7, irq_stack <- s8

Callbacks == INSTANCE OpcuaServerCallbacks WITH
  Timers <- {"t1", "t2"}, Operations <- {"a1", "a2", "a3"}, Producers <- {"p1", "p2"},
  Monitors <- {"m1", "m2"}, Reverses <- {"v1", "v2"}, Nodes <- {"n1", "n2"},
  Records <- {"e1", "e2", "e3", "e4"}, Contexts <- {"c1", "c2"}, MaxNest <- 4,
  stack <- s1, timer <- s2, operation <- s3, typed_asyncs <- s4, producer <- s5,
  monitor <- s6, reverse <- s7, slots <- s8, entries <- s9, refs <- s10

Configs == INSTANCE OpcuaConfigs WITH
  ClientConfigs <- {"c1"}, ServerConfigs <- {"s1"}, Owners <- Xs, Plugins <- {"p1"},
  Threads <- Ys, MaxNest <- 3,
  config <- s1, owner <- s2, plugin <- s3, views <- s4, stack <- s5

Attributes == INSTANCE OpcuaAttributes WITH
  Names <- {"nodeId", "nodeClass", "browseName", "displayName", "description", "writeMask",
            "isAbstract", "symmetric", "inverseName", "containsNoLoops", "eventNotifier",
            "dataType", "valueRank", "arrayDimensions", "accessLevel", "accessLevelEx",
            "minimumSamplingInterval", "historizing", "executable", "value"},
  Sizes <- 0 .. 2, Rooms <- 0 .. 3,
  attr <- s1, node <- s2, call <- s3

Calls == INSTANCE OpcuaCalls WITH
  Points <- {"p1", "p2"}, Contexts <- Xs, MethodNodes <- Ys, MaxRefs <- 2,
  MaxArguments <- 2,
  points <- s1, known <- s2, left <- s3, ctx <- s4, method <- s5, server <- s6,
  call <- s7, cb <- s8

ASSUME Assumptions ==
  Attributes!OpcuaAttributesAssumption /\ Calls!OpcuaCallsAssumption

\* Loops and servers, and two entries and the identifiers of PubSub, are
\* interchangeable.
Interchangeable == Permutations(Xs) \cup Permutations(Ys)

MCInit ==
  /\ Init
  /\ \/ part \in {"external", "own"} /\ Unused0
     \/ part = "wide" /\ Wide!Init /\ Unused4
     \/ part = "deep" /\ Deep!Init /\ Unused4
     \/ part = "monitors" /\ Monitored!Init /\ Unused7
     \/ part = "pubsub" /\ PubSub!Init
     \/ part \in {"sockets", "interrupts"} /\ Sockets!Init /\ Unused8
     \/ /\ part \in {"timers", "asyncs", "producers", "events", "nodes"}
        /\ Callbacks!Init /\ Unused10
     \/ part = "configs" /\ Configs!Init /\ Unused5
     \/ part = "attributes" /\ Attributes!Init /\ Unused3
     \/ part \in {"browses", "methods"} /\ Calls!Init /\ Unused8

MCNext ==
  /\ UNCHANGED part
  /\ \/ part = "external" /\ Next /\ UNCHANGED rest0
     \/ part = "own" /\ Own!Next /\ UNCHANGED rest0
     \/ part = "wide" /\ Wide!Next /\ UNCHANGED <<vars, rest4>>
     \/ part = "deep" /\ Deep!Next /\ UNCHANGED <<vars, rest4>>
     \/ part = "monitors" /\ Monitored!Next /\ UNCHANGED <<vars, rest7>>
     \/ part = "pubsub" /\ PubSub!Next /\ UNCHANGED vars
     \/ part = "sockets" /\ Sockets!ConnectionsMove /\ UNCHANGED <<vars, rest8>>
     \/ part = "interrupts" /\ Sockets!InterruptsMove /\ UNCHANGED <<vars, rest8>>
     \/ part = "timers" /\ Callbacks!TimersMove /\ UNCHANGED <<vars, rest10>>
     \/ part = "asyncs" /\ Callbacks!AsyncsMove /\ UNCHANGED <<vars, rest10>>
     \/ part = "producers" /\ Callbacks!ProducersMove /\ UNCHANGED <<vars, rest10>>
     \/ part = "events" /\ Callbacks!EventsMove /\ UNCHANGED <<vars, rest10>>
     \/ part = "nodes" /\ Callbacks!NodesMove /\ UNCHANGED <<vars, rest10>>
     \/ part = "configs" /\ Configs!Next /\ UNCHANGED <<vars, rest5>>
     \/ part = "attributes" /\ Attributes!Next /\ UNCHANGED <<vars, rest3>>
     \/ part = "browses" /\ Calls!BrowseNext /\ UNCHANGED <<vars, rest8>>
     \/ part = "methods" /\ Calls!MethodNext /\ UNCHANGED <<vars, rest8>>

MCSpec == MCInit /\ [][MCNext]_mcVars

-----------------------------------------------------------------------------
(* Properties, beside ClientRecordsExact and NoLateTimer: the parts are    *)
(* explained in the component modules.                                     *)

\* No call in progress works on a loop, source or server that is freed, and every
\* count is the number of calls in progress that took it, also after a start,
\* register, free or delete that failed (the depth, freeing and destroying
\* guards); between calls the facade and the native loop agree on the loop of a
\* source (loop_hook_register, loop_hook_source_free); no configuration points to
\* a freed loop and no two own one; the loop a live server owns is marked, so
\* that EventLoop_free refuses it.
LoopsExact ==
  /\ part = "wide" =>
       /\ Wide!TypeOK /\ Wide!NothingFreedInUse /\ Wide!CountsBalance
       /\ Wide!OwnershipAgrees /\ Wide!ConfigurationSound /\ Wide!OwnedLoopRefused
  /\ part = "deep" =>
       /\ Deep!TypeOK /\ Deep!NothingFreedInUse /\ Deep!CountsBalance
       /\ Deep!OwnershipAgrees

\* The native client and every running call hold allocated records of
\* subscriptions and monitored items, whatever the callbacks deleted; none is freed
\* twice; a client that is gone has left none behind (cpkt_monitor_unref,
\* cpkt_monitor_context_free).  The entry a policy callback or an operation uses is not
\* freed before it returns; a native component that uses a policy finds its entry;
\* every lease is given back once; a callback cannot delete its server
\* (pubsub_prune, pubsub_finish).
SubscriptionsExact ==
  /\ part = "monitors" =>
       /\ Monitored!TypeOK
       /\ Monitored!RecordOutlivesUse /\ Monitored!FreedOnce
       /\ Monitored!ReferencesExact /\ Monitored!NothingLeft
  /\ part = "pubsub" =>
       /\ PubSub!TypeOK
       /\ PubSub!EntryOutlivesUse /\ PubSub!ComponentKeepsEntry
       /\ PubSub!LeasesExact /\ PubSub!ServerOutlivesCallbacks

\* No obsolete entry is left when the outermost call with a lease returns
\* (pubsub_finish_server).
PoliciesFinished == [][part = "pubsub" => PubSub!Finished]_mcVars

\* A registration outlives its deliveries and the native connections that name
\* it, a slot belongs to one open connection, a buffer is held by one side, and a
\* deregistered interrupt is not delivered to freed memory (slot_release,
\* registration_release, interrupt_invoke).
SourcesExact == part \in {"sockets", "interrupts"} => Sockets!SourcesExact

\* The record of a timer, an asynchronous operation, a producer, a monitored item,
\* a reverse connection or a node stays while a callback or the native server can
\* reach it and is freed then, whatever the callbacks remove, cancel or create; an
\* accepted operation is answered exactly once, a producer answered or cancelled
\* but not both; a node's callback is dispatched with the record its slots were
\* filled from (the server callback holders).
CallbacksExact ==
  part \in {"timers", "asyncs", "producers", "events", "nodes"} => Callbacks!CallbacksExact

\* A configuration and its owner name each other and their depths are the calls in
\* progress; a callback made during construction meets the configuration of its own
\* thread's construction; a plugin moves once, from the caller to one
\* configuration, and is cleared once (sp_replace, newWithConfig, the clear
\* trampolines).
ConfigsExact == part = "configs" => Configs!ConfigsExact

\* A read that succeeds gives the value the node held when it was asked, whole and
\* within the caller's room, one that fails gives nothing; the size of a retry
\* grows and a slice ends within its array; a write reported done stored the value
\* that was given (the attribute getters and setters).  Every continuation point
\* the server holds is the caller's, about to be released, or was left by a browse
\* without a page buffer; a call that returned keeps no converted temporary; a
\* method's context lives while the server or a running invocation names it, and a
\* method answered GOOD had every input converted, ran and set every output
\* (release_continuation_point, the method trampoline).
ServicesExact ==
  /\ part = "attributes" => Attributes!AttributesExact
  /\ part \in {"browses", "methods"} => Calls!CallsExact
=============================================================================
