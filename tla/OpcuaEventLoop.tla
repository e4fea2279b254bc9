--------------------------- MODULE OpcuaEventLoop ---------------------------
(***************************************************************************)
(* Lifetimes of OPC UA event loops, event sources and servers.             *)
(*                                                                         *)
(* The facade replaces the methods of every open62541 event loop it knows  *)
(* by hooks.  A hook counts itself on the loop, on the source it works on  *)
(* and on every server of the loop, delegates to the native method, which  *)
(* runs application callbacks, and undoes the counts.  A callback may call *)
(* any operation again; the counts decide what is refused.                 *)
(*                                                                         *)
(* The operations of one loop are serialized, so the calls in progress form*)
(* one stack.  A call is two steps: the guard and the counts push a frame, *)
(* the outcome the native method chose pops it.  Everything that happens   *)
(* between the two happened in callbacks.                                  *)
(***************************************************************************)
EXTENDS Integers, FiniteSets, SequencesExt

CONSTANTS Loops, Sources, Servers, None,
          MaxNest,        \* calls in progress at once
          DeleteMayFail   \* whether UA_Server_delete may report an error

VARIABLES loop,     \* the native loop, its facade record and its counts
          source,   \* the native source, its facade record and its counts
          server,   \* the facade server, its configuration and its counts
          stack     \* the calls in progress, the innermost last

vars == <<loop, source, server, stack>>

Frame(op) == [op |-> op, loop |-> None, src |-> None, srv |-> None,
              pinned |-> {}, external |-> FALSE]

Ops == {"start", "run", "stop", "free", "register", "deregister",
        "source_free", "source_call", "shutdown", "delete", "assign",
        "server_run", "callback"}

TypeOK ==
  /\ loop \in [Loops -> [native : BOOLEAN, facade : BOOLEAN, depth : 0..MaxNest,
                         freeing : BOOLEAN, slot : Servers \cup {None}]]
  /\ source \in [Sources -> [native : BOOLEAN, facade : BOOLEAN,
                             loop : Loops \cup {None}, depth : 0..MaxNest,
                             owner : Loops \cup {None},
                             state : {"FRESH", "STOPPED", "STARTED"}]]
  /\ server \in [Servers -> [live : BOOLEAN, config : Loops \cup {None},
                             external : BOOLEAN, typed : BOOLEAN,
                             event_loop : Loops \cup {None}, deleting : BOOLEAN,
                             loop_depth : 0..MaxNest, config_depth : 0..MaxNest]]
  /\ stack \in Seq([op : Ops, loop : Loops \cup {None},
                    src : Sources \cup {None}, srv : Servers \cup {None},
                    pinned : SUBSET Servers, external : BOOLEAN])
  /\ Len(stack) <= MaxNest

(***************************************************************************)
(* A server starts with a loop of its own, which the facade does not know  *)
(* yet; every other loop was made by EventLoop_new_POSIX.                  *)
(***************************************************************************)
Init ==
  /\ \E own \in [Servers -> Loops \cup {None}] :
       /\ \A v, w \in Servers : v # w /\ own[v] # None => own[v] # own[w]
       /\ server = [v \in Servers |->
                     [live |-> TRUE, config |-> own[v], external |-> FALSE,
                      typed |-> FALSE, event_loop |-> None, deleting |-> FALSE,
                      loop_depth |-> 0, config_depth |-> 0]]
       /\ loop = [l \in Loops |->
                   [native |-> TRUE, facade |-> \A v \in Servers : own[v] # l,
                    depth |-> 0, freeing |-> FALSE, slot |-> None]]
  /\ \E nat \in [Sources -> {l \in Loops : ~loop[l].facade} \cup {None}] :
       source = [s \in Sources |->
                  [native |-> TRUE, facade |-> nat[s] = None, loop |-> None,
                   depth |-> 0, owner |-> nat[s],
                   state |-> IF nat[s] = None THEN "FRESH" ELSE "STOPPED"]]
  /\ stack = <<>>

(***************************************************************************)
(* The frame: the servers that a hook pins, the stack and the counts.      *)
(***************************************************************************)
Top == Last(stack)
Inside(op) == stack # <<>> /\ Top.op = op

Push(f) == Len(stack) < MaxNest /\ stack' = Append(stack, f)

\* An assignment runs no application code itself, only the free it calls does.
Application == ~Inside("assign")
Call(f) == Application /\ Push(f)
Pop(op) == Inside(op) /\ stack' = Front(stack)

\* Owners of the loop that no enclosing frame pins and nobody deletes.
Pinnable(l) ==
  {v \in Servers : /\ server[v].live
                   /\ server[v].typed
                   /\ server[v].event_loop = l
                   /\ ~server[v].deleting
                   /\ server[v].loop_depth = 0}

Pin(P, d) == [v \in Servers |->
               IF v \in P THEN [server[v] EXCEPT !.loop_depth = @ + d]
                          ELSE server[v]]

Known(l) == loop[l].native /\ loop[l].facade
KnownSource(s) == source[s].native /\ source[s].facade

CountLoop(l, d) == IF l = None THEN loop ELSE [loop EXCEPT ![l].depth = @ + d]

(***************************************************************************)
(* start, run and stop of a loop.                                          *)
(***************************************************************************)
EventLoop_start(l) ==
  /\ Known(l) /\ ~loop[l].freeing
  /\ Call([Frame("start") EXCEPT !.loop = l, !.pinned = Pinnable(l)])
  /\ server' = Pin(Pinnable(l), 1)
  /\ loop' = CountLoop(l, 1)
  /\ UNCHANGED source

EventLoop_run(l) ==
  /\ Known(l) /\ loop[l].depth = 0 /\ ~loop[l].freeing
  /\ Call([Frame("run") EXCEPT !.loop = l, !.pinned = Pinnable(l)])
  /\ server' = Pin(Pinnable(l), 1)
  /\ loop' = CountLoop(l, 1)
  /\ UNCHANGED source

EventLoop_stop(l) ==
  /\ Known(l) /\ ~loop[l].freeing
  /\ Call([Frame("stop") EXCEPT !.loop = l, !.pinned = Pinnable(l)])
  /\ server' = Pin(Pinnable(l), 1)
  /\ loop' = CountLoop(l, 1)
  /\ UNCHANGED source

\* The native method leaves each source of the loop started or stopped.
EndLoopCall(op) ==
  /\ Pop(op)
  /\ loop' = CountLoop(Top.loop, -1)
  /\ server' = Pin(Top.pinned, -1)
  /\ \E st \in {"STARTED", "STOPPED"} :
       source' = [s \in Sources |->
                   IF source[s].native /\ source[s].owner = Top.loop
                   THEN [source[s] EXCEPT !.state = st] ELSE source[s]]

LoopReturns == \E op \in {"start", "run", "stop"} : EndLoopCall(op)

(***************************************************************************)
(* Registration of a source.  A registration the native loop kept holds    *)
(* whatever status it reported: the source may have failed to start.       *)
(***************************************************************************)
EventLoop_registerEventSource(l, s) ==
  /\ Known(l) /\ ~loop[l].freeing
  /\ KnownSource(s) /\ source[s].loop = None
  /\ Call([Frame("register") EXCEPT !.loop = l, !.src = s])
  /\ source' = [source EXCEPT ![s].loop = l, ![s].depth = @ + 1]
  /\ loop' = CountLoop(l, 1)
  /\ UNCHANGED server

\* Mutated form: a registration that the native loop refused stays listed.
RegisterReturns_Keeps ==
  /\ Pop("register")
  /\ LET s == Top.src IN
       \/ source' = [source EXCEPT ![s].depth = @ - 1, ![s].owner = Top.loop,
                                   ![s].state = "STOPPED"]
       \/ source' = [source EXCEPT ![s].depth = @ - 1]
  /\ loop' = CountLoop(Top.loop, -1)
  /\ UNCHANGED server

RegisterReturns ==
  /\ Pop("register")
  /\ LET s == Top.src IN
       \/ \E st \in {"STOPPED", "STARTED"} :
            source' = [source EXCEPT ![s].depth = @ - 1, ![s].owner = Top.loop,
                                     ![s].state = st]
       \/ source' = [source EXCEPT ![s].depth = @ - 1, ![s].loop = None]
  /\ loop' = CountLoop(Top.loop, -1)
  /\ UNCHANGED server

EventLoop_deregisterEventSource(l, s) ==
  /\ Known(l) /\ KnownSource(s)
  /\ source[s].loop = l /\ source[s].depth = 0
  /\ Call([Frame("deregister") EXCEPT !.loop = l, !.src = s])
  /\ source' = [source EXCEPT ![s].depth = @ + 1]
  /\ loop' = CountLoop(l, 1)
  /\ UNCHANGED server

DeregisterReturns ==
  /\ Pop("deregister")
  /\ LET s == Top.src IN
       \/ source' = [source EXCEPT ![s].depth = @ - 1, ![s].loop = None,
                                   ![s].owner = None, ![s].state = "FRESH"]
       \/ source' = [source EXCEPT ![s].depth = @ - 1]
  /\ loop' = CountLoop(Top.loop, -1)
  /\ UNCHANGED server

(***************************************************************************)
(* Starting or stopping one source, and every call through a source: a     *)
(* connection or an interrupt that it dispatches.                          *)
(***************************************************************************)
EventSource_call(s) ==
  /\ KnownSource(s) /\ source[s].loop # None
  /\ Call([Frame("source_call") EXCEPT !.loop = source[s].loop, !.src = s])
  /\ source' = [source EXCEPT ![s].depth = @ + 1]
  /\ loop' = CountLoop(source[s].loop, 1)
  /\ UNCHANGED server

SourceCallReturns ==
  /\ Pop("source_call")
  /\ LET s == Top.src IN
       \E st \in (IF source[s].owner = None THEN {source[s].state}
                                            ELSE {"STARTED", "STOPPED"}) :
         source' = [source EXCEPT ![s].depth = @ - 1, ![s].state = st]
  /\ loop' = CountLoop(Top.loop, -1)
  /\ UNCHANGED server

(***************************************************************************)
(* Freeing a source: by the application when no loop has it, or by the     *)
(* native free of the loop that owns it, which resets it to FRESH first.   *)
(***************************************************************************)
EventSource_free(s) ==
  /\ KnownSource(s) /\ source[s].depth = 0
  /\ \/ source[s].loop = None
     \/ /\ Inside("free")
        /\ Top.loop = source[s].loop
        /\ source[s].owner = Top.loop
  /\ Call([Frame("source_free") EXCEPT !.loop = source[s].loop, !.src = s])
  /\ source' = [source EXCEPT ![s].depth = @ + 1, ![s].state = "FRESH"]
  /\ loop' = CountLoop(source[s].loop, 1)
  /\ UNCHANGED server

\* A loop whose source refused to be freed keeps it, stopped.
SourceFreeReturns ==
  /\ Pop("source_free")
  /\ LET s == Top.src IN
       \/ source' = [source EXCEPT ![s].native = FALSE, ![s].facade = FALSE,
                                   ![s].depth = @ - 1, ![s].loop = None,
                                   ![s].owner = None]
       \/ source' = [source EXCEPT ![s].depth = @ - 1,
                       ![s].state = IF source[s].owner = None THEN "FRESH"
                                                              ELSE "STOPPED"]
  /\ loop' = CountLoop(Top.loop, -1)
  /\ UNCHANGED server

(***************************************************************************)
(* Freeing a loop.  The application may not free the loop a configuration  *)
(* owns, and keeps an external loop while a server or a pending assignment *)
(* uses it; native code frees the loop of a deleted server or of a replaced*)
(* configuration.                                                          *)
(***************************************************************************)
Pending(l) == \E i \in DOMAIN stack : stack[i].op = "assign" /\ stack[i].loop = l

InUse(l) ==
  \/ \E v \in Servers : server[v].live /\ server[v].external /\ server[v].config = l
  \/ Pending(l)

FreedByNative(l) ==
  /\ Inside("delete") \/ Inside("assign")
  /\ server[Top.srv].config = l /\ ~server[Top.srv].external
  /\ Inside("assign") => Top.loop # l

FreedByApplication(l) == Application /\ loop[l].slot = None /\ ~InUse(l)

EventLoop_free(l) ==
  /\ Known(l) /\ loop[l].depth = 0 /\ ~loop[l].freeing
  /\ FreedByNative(l) \/ FreedByApplication(l)
  /\ Push([Frame("free") EXCEPT !.loop = l, !.pinned = Pinnable(l)])
  /\ server' = Pin(Pinnable(l), 1)
  /\ loop' = [loop EXCEPT ![l].depth = @ + 1, ![l].freeing = TRUE]
  /\ UNCHANGED source

\* The native loop is gone once all its sources are.
FreeSucceeds ==
  /\ Pop("free")
  /\ LET l == Top.loop IN
       /\ \A s \in Sources : source[s].native => source[s].owner # l
       /\ loop' = [loop EXCEPT ![l].native = FALSE, ![l].facade = FALSE,
                               ![l].depth = @ - 1, ![l].freeing = FALSE,
                               ![l].slot = None]
       /\ source' = [s \in Sources |->
                      IF source[s].loop = l
                      THEN [source[s] EXCEPT !.loop = None] ELSE source[s]]
       /\ server' = [v \in Servers |->
                      LET w == Pin(Top.pinned, -1)[v] IN
                        [w EXCEPT
                          !.config = IF loop[l].slot = v /\ @ = l THEN None ELSE @,
                          !.event_loop = IF @ = l THEN None ELSE @]]

FreeFails ==
  /\ Pop("free")
  /\ loop' = [loop EXCEPT ![Top.loop].depth = @ - 1, ![Top.loop].freeing = FALSE]
  /\ server' = Pin(Top.pinned, -1)
  /\ UNCHANGED source

(***************************************************************************)
(* The configuration of a server.                                          *)
(***************************************************************************)
\* The facade records of a loop it meets for the first time.
Adopt(l) == [s \in Sources |->
              IF source[s].native /\ source[s].owner = l
              THEN [source[s] EXCEPT !.facade = TRUE, !.loop = l] ELSE source[s]]

server_get_event_loop(v) ==
  /\ Application /\ server[v].live /\ ~server[v].deleting
  /\ server' = [server EXCEPT ![v].typed = TRUE, ![v].event_loop = server[v].config]
  /\ LET l == server[v].config IN
       IF l = None THEN UNCHANGED <<loop, source>> ELSE
         /\ loop' = [loop EXCEPT ![l].facade = TRUE,
                                 ![l].slot = IF server[v].external THEN @ ELSE v]
         /\ source' = IF loop[l].facade THEN source ELSE Adopt(l)
  /\ UNCHANGED stack

Mutable(v) == /\ server[v].live /\ ~server[v].deleting
              /\ server[v].loop_depth = 0 /\ server[v].config_depth = 0

\* The application shares a loop among servers only as an external loop, since
\* such a loop has to outlive every handle it is attached to.
SharedAsExternal(v, l, ext) ==
  /\ ~Pending(l)
  /\ \A w \in Servers \ {v} :
       server[w].live /\ server[w].config = l => (ext <=> server[w].external)

ServerConfig_setEventLoop(v, l, ext) ==
  /\ Mutable(v)
  /\ SharedAsExternal(v, l, ext)
  /\ Known(l) /\ ~loop[l].freeing /\ loop[l].depth = 0
  /\ ext \/ \A w \in Servers \ {v} : loop[l].slot = w => server[w].config # l
  /\ Call([Frame("assign") EXCEPT !.srv = v, !.loop = l, !.external = ext])
  /\ UNCHANGED <<loop, source, server>>

\* An owned loop that is replaced must be gone; a loop that becomes external
\* is no longer the configuration's.
AssignReturns ==
  /\ Pop("assign")
  /\ LET v == Top.srv
         l == Top.loop
         old == server[v].config
         replaced == old # None /\ old # l /\ ~server[v].external
         done == replaced => \/ ~loop[old].native
                             \/ ~loop[old].facade
         gone == IF replaced THEN {old} ELSE {}
     IN \/ /\ done
           /\ loop' = [k \in Loops |->
                        IF k \in gone
                        THEN [loop[k] EXCEPT !.native = FALSE]
                        ELSE IF k # l THEN loop[k]
                        ELSE IF ~Top.external THEN [loop[k] EXCEPT !.slot = v]
                        ELSE IF old = l /\ loop[k].slot = v
                             THEN [loop[k] EXCEPT !.slot = None] ELSE loop[k]]
           /\ source' = [s \in Sources |->
                          IF source[s].owner \in gone
                          THEN [source[s] EXCEPT !.native = FALSE, !.facade = FALSE,
                                                 !.loop = None, !.owner = None]
                          ELSE source[s]]
           /\ server' = [server EXCEPT
                ![v].config = l, ![v].external = Top.external,
                ![v].event_loop = IF server[v].typed THEN l ELSE None]
        \/ /\ replaced /\ loop[old].native
           /\ UNCHANGED <<loop, source, server>>

(***************************************************************************)
(* Running and deleting a server, and a facade callback of a server.       *)
(***************************************************************************)
server_run(v) ==
  /\ Mutable(v)
  /\ Call([Frame("server_run") EXCEPT !.srv = v, !.pinned = {v}])
  /\ server' = Pin({v}, 1)
  /\ UNCHANGED <<loop, source>>

ServerRunReturns ==
  /\ Pop("server_run")
  /\ server' = Pin(Top.pinned, -1)
  /\ UNCHANGED <<loop, source>>

ServerCallback(v) ==
  /\ server[v].live
  /\ Call([Frame("callback") EXCEPT !.srv = v])
  /\ server' = [server EXCEPT ![v].config_depth = @ + 1]
  /\ UNCHANGED <<loop, source>>

ServerCallbackReturns ==
  /\ Pop("callback")
  /\ server' = [server EXCEPT ![Top.srv].config_depth = @ - 1]
  /\ UNCHANGED <<loop, source>>

server_active(v) ==
  LET l == server[v].config IN
    /\ server[v].typed
    /\ l # None
    /\ Known(l)
    /\ \/ loop[l].depth > 0 \/ loop[l].freeing
       \/ \E s \in Sources : source[s].loop = l /\ source[s].depth > 0


server_delete(v) ==
  /\ Mutable(v)
  /\ ~server_active(v)
  /\ Call([Frame("shutdown") EXCEPT !.srv = v])
  /\ server' = [server EXCEPT ![v].deleting = TRUE]
  /\ UNCHANGED <<loop, source>>


DeleteRefused ==
  /\ Pop("shutdown")
  /\ server' = [server EXCEPT ![Top.srv].deleting = FALSE]
  /\ UNCHANGED <<loop, source>>

forget_config(v) ==
  [l \in Loops |-> IF server[v].config = l /\ loop[l].slot = v
                   THEN [loop[l] EXCEPT !.slot = None] ELSE loop[l]]

NativeDelete ==
  /\ Inside("shutdown")
  /\ stack' = [stack EXCEPT ![Len(stack)].op = "delete"]
  /\ loop' = forget_config(Top.srv)
  /\ UNCHANGED <<source, server>>

\* UA_Server_delete frees the loop the configuration owns, through the hook
\* when the facade knows the loop.
DeleteSucceeds ==
  /\ Pop("delete")
  /\ LET v == Top.srv
         owned == IF server[v].external THEN {} ELSE {server[v].config} \ {None}
     IN /\ \A l \in owned : ~Known(l)
        /\ loop' = [l \in Loops |-> IF l \in owned
                     THEN [loop[l] EXCEPT !.native = FALSE] ELSE loop[l]]
        /\ source' = [s \in Sources |-> IF source[s].owner \in owned
                       THEN [source[s] EXCEPT !.native = FALSE, !.owner = None]
                       ELSE source[s]]
        /\ server' = [server EXCEPT ![v].live = FALSE, ![v].deleting = FALSE,
                        ![v].typed = FALSE, ![v].config = None,
                        ![v].event_loop = None]

DeleteFails ==
  /\ Pop("delete")
  /\ DeleteMayFail
  /\ server' = [server EXCEPT ![Top.srv].deleting = FALSE]
  /\ UNCHANGED <<loop, source>>

Next ==
  \/ \E l \in Loops :
       \/ EventLoop_start(l) \/ EventLoop_run(l) \/ EventLoop_stop(l)
       \/ EventLoop_free(l)
       \/ \E s \in Sources : \/ EventLoop_registerEventSource(l, s)
                             \/ EventLoop_deregisterEventSource(l, s)
       \/ \E v \in Servers, ext \in BOOLEAN : ServerConfig_setEventLoop(v, l, ext)
  \/ \E s \in Sources : EventSource_call(s) \/ EventSource_free(s)
  \/ \E v \in Servers : \/ server_get_event_loop(v) \/ server_run(v)
                        \/ ServerCallback(v) \/ server_delete(v)
  \/ LoopReturns \/ RegisterReturns \/ DeregisterReturns
  \/ SourceCallReturns \/ SourceFreeReturns \/ FreeSucceeds \/ FreeFails
  \/ AssignReturns \/ ServerRunReturns \/ ServerCallbackReturns
  \/ DeleteRefused \/ NativeDelete \/ DeleteSucceeds \/ DeleteFails

Spec == Init /\ [][Next]_vars
(***************************************************************************)
(* Properties.                                                             *)
(***************************************************************************)
\* No call in progress works on something that is freed: while a hook, a
\* source call, a source free, an assignment or a callback is on the stack,
\* the loop, the source and the servers it will touch when it returns exist
\* (the depth, freeing and destroying guards of every free and delete).
NothingFreedInUse ==
  \A i \in DOMAIN stack :
    LET f == stack[i] IN
      /\ f.loop # None => Known(f.loop)
      /\ f.src # None => KnownSource(f.src)
      /\ \A v \in f.pinned \cup ({f.srv} \ {None}) : server[v].live

Holding(P(_)) == Cardinality({i \in DOMAIN stack : P(stack[i])})

Counted(f) == f.op \notin {"assign"}

\* Every count is the number of calls in progress that took it, so that a
\* failed start, register or free leaves nothing behind that would refuse the
\* next one: depth of a loop and of a source, typed_loop_depth and
\* typed_config_depth of a server, freeing and destroying.
CountsBalance ==
  /\ \A l \in Loops :
       /\ loop[l].depth = Holding(LAMBDA f : f.loop = l /\ Counted(f))
       /\ loop[l].freeing = (Holding(LAMBDA f : f.loop = l /\ f.op = "free") > 0)
  /\ \A s \in Sources : source[s].depth = Holding(LAMBDA f : f.src = s)
  /\ \A v \in Servers :
       /\ server[v].loop_depth = Holding(LAMBDA f : v \in f.pinned)
       /\ server[v].config_depth = Holding(LAMBDA f : f.srv = v /\ f.op = "callback")
       /\ server[v].deleting
            = (Holding(LAMBDA f : f.srv = v /\ f.op \in {"shutdown", "delete"}) > 0)

\* Between calls the facade and the native loop agree on which loop a source
\* belongs to, also after registrations, deregistrations and frees that
\* failed half way (cpkt_loop_hook_register, cpkt_loop_hook_source_free).
OwnershipAgrees ==
  stack = <<>> =>
    \A s \in Sources :
      KnownSource(s) => /\ source[s].loop = source[s].owner
                        /\ source[s].loop # None => Known(source[s].loop)

\* A configuration never points to a freed loop once the calls that freed it
\* returned, and no two configurations own one loop: the last one to be
\* deleted would free it again.
ConfigurationSound ==
  stack = <<>> =>
    \A v \in Servers :
      server[v].live /\ server[v].config # None =>
        /\ loop[server[v].config].native
        /\ \A w \in Servers \ {v} :
             server[w].live /\ ~server[v].external /\ ~server[w].external
               => server[w].config # server[v].config

\* The loop that the configuration of a live server owns is marked as owned
\* whenever the application may hold its handle, so that EventLoop_free
\* refuses it (opcua_eventloop_impl.h:306).
OwnedLoopRefused ==
  stack = <<>> =>
    \A v \in Servers :
      server[v].live /\ server[v].typed /\ ~server[v].external
        /\ server[v].config # None /\ Known(server[v].config)
        => loop[server[v].config].slot # None
=============================================================================
