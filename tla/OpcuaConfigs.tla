---------------------------- MODULE OpcuaConfigs ----------------------------
(***************************************************************************)
(* Typed configurations of OPC UA clients and servers and the plugins they *)
(* own (opcua_config_impl.h, opcua_config_plugins_impl.h,                  *)
(* opcua_logger_impl.h).                                                   *)
(*                                                                         *)
(* A configuration is an application object until a client or server is    *)
(* made from it; then its native record moves into the new native object   *)
(* and the configuration belongs to that owner.  Plugin callbacks run      *)
(* inside setters, constructors, clear and deletion, and may call any      *)
(* function again: depth counts the frames of a configuration and of its   *)
(* owner.  A native constructor calls back before it has returned the      *)
(* handle; the configuration under construction is then found through a    *)
(* scope kept per thread.                                                  *)
(*                                                                         *)
(* stack[t] holds the frames of thread t.  By the library's contract one   *)
(* configuration is used by one thread at a time.                          *)
(***************************************************************************)
EXTENDS Integers, Sequences, SequencesExt, FiniteSets

CONSTANTS ClientConfigs, ServerConfigs, Owners, Plugins, Threads, None,
          MaxNest    \* bound on the frames of a thread

VARIABLES config, owner, plugin, views, stack

vars == <<config, owner, plugin, views, stack>>

Configs == ClientConfigs \cup ServerConfigs

NoConfig == [alive |-> FALSE, owner |-> None, pending |-> None, depth |-> 0,
             native |-> None, slot |-> None]
NoOwner == [state |-> "free", depth |-> 0, config |-> None]

Storage == "storage"    \* the native record inside the configuration object

-----------------------------------------------------------------------------
\* The application runs outside every call and in the callbacks of the calls.
\* Setters, clear and deletion run the clear callback of the plugin they drop.
Uses(t, c) ==
  \A u \in Threads \ {t} : \A i \in DOMAIN stack[u] : stack[u][i].config # c

Push(t, f) == Len(stack[t]) < MaxNest /\ stack' = [stack EXCEPT ![t] = Append(@, f)]
Pop(t) == stack' = [stack EXCEPT ![t] = Front(@)]
Top(t, op) == stack[t] # <<>> /\ Last(stack[t]).op = op
Constructing(t) == Top(t, "construct")
Application(t) == ~Constructing(t)

\* cpkt_cfg_creation_key: the innermost construction of the thread.
Scope(t) ==
  LET open == {i \in DOMAIN stack[t] : stack[t][i].op = "construct"}
  IN IF open = {} THEN None ELSE stack[t][CHOOSE i \in open : \A j \in open : j <= i].config

\* cpkt_cfg_server_enter, cpkt_cfg_client_enter and the leaves.
Entered(c, by) ==
  /\ config' = [config EXCEPT ![c].depth = @ + by]
  /\ owner' = IF config[c].owner = None THEN owner
              ELSE [owner EXCEPT ![config[c].owner].depth = @ + by]

Mutable(c) ==
  /\ config[c].depth = 0
  /\ config[c].owner # None => owner[config[c].owner].state = "live" /\ owner[config[c].owner].depth = 0

ServerConfig_new(c) ==
  /\ ~config[c].alive
  /\ config' = [config EXCEPT ![c] = [NoConfig EXCEPT !.alive = TRUE, !.native = Storage]]
  /\ UNCHANGED <<owner, plugin, views, stack>>

-----------------------------------------------------------------------------
(* Setters.  A plugin is the application's, a configuration's, or gone;    *)
(* clears counts the calls of its clear callback.                          *)

\* The owner object a plugin record points at, allocated before the server is.
server_owner(c, o) ==
  IF config[c].owner # None \/ config[c].pending # None
  THEN Entered(c, 1)
  ELSE /\ owner[o].state = "free"
       /\ owner' = [owner EXCEPT ![o] = [state |-> "pending", depth |-> 0, config |-> c]]
       /\ config' = [config EXCEPT ![c].depth = @ + 1, ![c].pending = o]

\* The record is the application's, and in no other call.
Offered(p) ==
  /\ plugin[p].at = "app"
  /\ \A t \in Threads : \A i \in DOMAIN stack[t] : stack[t][i].op = "set" => stack[t][i].plugin # p

Set(t, c, p, o) ==
  /\ Application(t) /\ Uses(t, c)
  /\ config[c].alive /\ Mutable(c)
  /\ Offered(p)
  /\ IF o = None THEN Entered(c, 1) ELSE server_owner(c, o)
  /\ Push(t, [op |-> "set", config |-> c, plugin |-> p])
  /\ UNCHANGED <<plugin, views>>

setCertificateGroup(t, c, p) == Set(t, c, p, None)
setLoggerPlugin(t, c, p) == Set(t, c, p, None)
addSecurityPolicy_Filestore(t, c, p) == c \in ServerConfigs /\ Set(t, c, p, None)
setAccessControl(t, c, p, o) == c \in ServerConfigs /\ Set(t, c, p, o)
setHistoryDatabase(t, c, p, o) == c \in ServerConfigs /\ Set(t, c, p, o)
setPubSubConfiguration(t, c, p, o) == c \in ServerConfigs /\ Set(t, c, p, o)

\* The plugin table after configuration c lets go of the plugin it holds.
Dropped(c) ==
  [p \in Plugins |->
     IF config[c].slot = p THEN [at |-> "gone", clears |-> plugin[p].clears + 1] ELSE plugin[p]]


\* The new records are staged, then the old ones cleared; a failure clears
\* staged holders emptied of the application's records.
sp_replace(c, p, good) ==
  IF good THEN [Dropped(c) EXCEPT ![p].at = "config"] ELSE plugin

psp_replace(c, p, good) == sp_replace(c, p, good)
log_install(c, p, good) == sp_replace(c, p, good)

SetReturns(t, good) ==
  /\ Top(t, "set")
  /\ LET f == Last(stack[t])
         c == f.config
     IN /\ plugin' = IF c \in ServerConfigs THEN psp_replace(c, f.plugin, good)
                                            ELSE log_install(c, f.plugin, good)
        /\ config' = [config EXCEPT ![c].depth = @ - 1, ![c].slot = IF good THEN f.plugin ELSE @]
        /\ owner' = IF config[c].owner = None THEN owner
                    ELSE [owner EXCEPT ![config[c].owner].depth = @ - 1]
  /\ Pop(t)
  /\ UNCHANGED views

-----------------------------------------------------------------------------
(* Construction.                                                           *)


newWithConfig(t, c, o) ==
  /\ Application(t) /\ Uses(t, c)
  /\ config[c].alive /\ config[c].owner = None /\ config[c].depth = 0
  /\ IF config[c].pending # None THEN o = config[c].pending ELSE owner[o].state = "free"
  /\ config' = [config EXCEPT ![c].owner = o, ![c].pending = None, ![c].depth = @ + 1]
  /\ owner' = [owner EXCEPT ![o] = [state |-> "building", depth |-> 1, config |-> c]]
  /\ Push(t, [op |-> "construct", config |-> c, plugin |-> None])
  /\ UNCHANGED <<plugin, views>>

\* cpkt_cfg_creation_begin fails: a new client is freed; the owner of a new
\* server stays with its configuration, for the next attempt or for clear.
creation_begin_fails(t, c, o) ==
  /\ Application(t) /\ Uses(t, c)
  /\ c \in ServerConfigs /\ config[c].alive /\ config[c].owner = None /\ config[c].depth = 0
  /\ config[c].pending = None /\ owner[o].state = "free"
  /\ owner' = [owner EXCEPT ![o] = [state |-> "pending", depth |-> 0, config |-> c]]
  /\ config' = [config EXCEPT ![c].pending = o]
  /\ UNCHANGED <<plugin, views, stack>>

client_newWithConfig(t, c, o) == c \in ClientConfigs /\ newWithConfig(t, c, o)
server_newWithConfig(t, c, o) == c \in ServerConfigs /\ newWithConfig(t, c, o)

\* Mutated form: the scope is the construction begun last in the process.
server_find_Global(t, n) ==
  LET bound == {c \in Configs : config[c].alive /\ config[c].native = n}
      others == {u \in Threads : Scope(u) # None}
  IN IF bound # {} THEN CHOOSE c \in bound : TRUE ELSE Scope(CHOOSE u \in others : TRUE)

\* client_find and server_find: by the native record, else by the scope.
server_find(t, n) ==
  LET bound == {c \in Configs : config[c].alive /\ config[c].native = n}
  IN IF bound # {} THEN CHOOSE c \in bound : TRUE ELSE Scope(t)

\* The native constructor calls back for the native record it builds, which
\* finds and binds the configuration; the callback is application code.
bind_server_owner(t) ==
  /\ Constructing(t)
  /\ LET f == Last(stack[t])
         found == server_find(t, config[f.config].owner)
     IN /\ config' = [config EXCEPT ![found].native = config[f.config].owner]
        /\ Push(t, [op |-> "callback", config |-> found, plugin |-> f.config])
  /\ UNCHANGED <<owner, plugin, views>>

CallbackReturns(t) ==
  /\ Top(t, "callback")
  /\ Pop(t)
  /\ UNCHANGED <<config, owner, plugin, views>>

\* A failed server constructor has consumed the native record and its plugins;
\* a failed client constructor has not.
ConstructReturns(t, good) ==
  /\ Constructing(t)
  /\ LET c == Last(stack[t]).config
         o == config[c].owner
         left == [config[c] EXCEPT !.depth = @ - 1]
     IN CASE good ->
               /\ config' = [config EXCEPT ![c] = [left EXCEPT !.native = o]]
               /\ owner' = [owner EXCEPT ![o].state = "live", ![o].depth = @ - 1]
               /\ UNCHANGED <<plugin, views>>
          [] ~good /\ c \in ClientConfigs ->
               /\ config' = [config EXCEPT ![c] = [left EXCEPT !.owner = None, !.native = Storage]]
               /\ owner' = [owner EXCEPT ![o] = NoOwner]
               /\ UNCHANGED <<plugin, views>>
          [] OTHER ->
               /\ config' = [config EXCEPT ![c] = [left EXCEPT !.owner = None, !.native = Storage, !.slot = None]]
               /\ owner' = [owner EXCEPT ![o] = NoOwner]
               /\ plugin' = Dropped(c)
               /\ views' = [views EXCEPT ![c] = <<>>]
  /\ Pop(t)

\* The configuration of an owner that was made without one.
Attach(c, o) ==
  /\ ~config[c].alive
  /\ config' = [config EXCEPT ![c] = [NoConfig EXCEPT !.alive = TRUE, !.owner = o, !.native = o]]
  /\ owner' = [owner EXCEPT ![o] = [state |-> "live", depth |-> @.depth, config |-> c]]
  /\ UNCHANGED <<plugin, views, stack>>

server_new(o) ==
  /\ owner[o].state = "free"
  /\ owner' = [owner EXCEPT ![o].state = "live"]
  /\ UNCHANGED <<config, plugin, views, stack>>

get_config(c, o) == owner[o].state = "live" /\ owner[o].config = None /\ Attach(c, o)
server_newFromFile(c, o) == c \in ServerConfigs /\ owner[o].state = "free" /\ Attach(c, o)

-----------------------------------------------------------------------------
(* Clear and deletion; the plugin's clear callback runs in the frame.      *)

ServerConfig_clear(t, c, op) ==
  /\ Application(t) /\ Uses(t, c)
  /\ config[c].alive /\ config[c].owner = None /\ config[c].depth = 0
  /\ config' = [config EXCEPT ![c].depth = 1]
  /\ Push(t, [op |-> op, config |-> c, plugin |-> None])
  /\ UNCHANGED <<owner, plugin, views>>


\* pending_clear and, for a deletion, server_cleanup follow the native clear.
ClearReturns(t, op) ==
  /\ Top(t, op)
  /\ LET c == Last(stack[t]).config
     IN /\ plugin' = Dropped(c)
        /\ views' = [views EXCEPT ![c] = <<>>]
        /\ owner' = IF config[c].pending = None THEN owner
                    ELSE [owner EXCEPT ![config[c].pending] = NoOwner]
        /\ config' = [config EXCEPT ![c] =
             IF op = "delete" THEN NoConfig ELSE [NoConfig EXCEPT !.alive = TRUE, !.native = Storage]]
  /\ Pop(t)

server_delete(t, o) ==
  /\ Application(t)
  /\ owner[o].state = "live" /\ owner[o].depth = 0
  /\ owner[o].config # None => Uses(t, owner[o].config) /\ config[owner[o].config].depth = 0
  /\ owner' = [owner EXCEPT ![o].state = "destroying"]
  /\ Push(t, [op |-> "destroy", config |-> owner[o].config, plugin |-> o])
  /\ UNCHANGED <<config, plugin, views>>

\* server_cleanup frees the configuration with its owner.
server_cleanup(t) ==
  /\ Top(t, "destroy")
  /\ LET c == Last(stack[t]).config
     IN /\ owner' = [owner EXCEPT ![Last(stack[t]).plugin] = NoOwner]
        /\ IF c = None THEN UNCHANGED <<config, plugin, views>>
           ELSE /\ plugin' = Dropped(c)
                /\ config' = [config EXCEPT ![c] = NoConfig]
                /\ views' = [views EXCEPT ![c] = <<>>]
  /\ Pop(t)

-----------------------------------------------------------------------------
(* Views of native plugin records, one per kind, handed to the application. *)

\* view_get: a view that is new joins the list once it has been refreshed.
view_get(list, kind, good) == IF Contains(list, kind) \/ ~good THEN list ELSE Cons(kind, list)

\* view_refresh of a PubSub configuration gets the view of each policy first.
getPubSubConfiguration(c, good) ==
  /\ c \in ServerConfigs /\ config[c].alive /\ config[c].slot # None
  /\ views' = [views EXCEPT ![c] = view_get(view_get(@, "psp", TRUE), "psconfig", good)]
  /\ UNCHANGED <<config, owner, plugin, stack>>

getCertificateGroup(c, good) ==
  /\ config[c].alive
  /\ views' = [views EXCEPT ![c] = view_get(@, "cg", good)]
  /\ UNCHANGED <<config, owner, plugin, stack>>

\* The clear function of a view clears the native plugin behind it.
view_clear_backend(t, c) ==
  /\ Application(t) /\ Uses(t, c)
  /\ config[c].alive /\ Contains(views[c], "cg") /\ Mutable(c)
  /\ plugin' = Dropped(c)
  /\ config' = [config EXCEPT ![c].slot = None]
  /\ UNCHANGED <<owner, views, stack>>

-----------------------------------------------------------------------------
Init ==
  /\ config = [c \in Configs |-> NoConfig]
  /\ owner = [o \in Owners |-> NoOwner]
  /\ plugin = [p \in Plugins |-> [at |-> "app", clears |-> 0]]
  /\ views = [c \in Configs |-> <<>>]
  /\ stack = [t \in Threads |-> <<>>]

Next ==
  \/ \E c \in Configs : ServerConfig_new(c)
  \/ \E c \in Configs, good \in BOOLEAN : getPubSubConfiguration(c, good) \/ getCertificateGroup(c, good)
  \/ \E o \in Owners : server_new(o)
  \/ \E c \in Configs, o \in Owners : get_config(c, o) \/ server_newFromFile(c, o)
  \/ \E t \in Threads :
       \/ bind_server_owner(t) \/ CallbackReturns(t) \/ server_cleanup(t)
       \/ \E good \in BOOLEAN : SetReturns(t, good) \/ ConstructReturns(t, good)
       \/ \E op \in {"clear", "delete"} : ClearReturns(t, op) \/ \E c \in Configs : ServerConfig_clear(t, c, op)
       \/ \E c \in Configs : view_clear_backend(t, c)
       \/ \E o \in Owners : server_delete(t, o)
       \/ \E c \in Configs, o \in Owners : \/ client_newWithConfig(t, c, o) \/ server_newWithConfig(t, c, o)
                                          \/ creation_begin_fails(t, c, o)
       \/ \E c \in Configs, p \in Plugins :
            \/ setCertificateGroup(t, c, p) \/ setLoggerPlugin(t, c, p) \/ addSecurityPolicy_Filestore(t, c, p)
            \/ \E o \in Owners : \/ setAccessControl(t, c, p, o) \/ setHistoryDatabase(t, c, p, o)
                                 \/ setPubSubConfiguration(t, c, p, o)

-----------------------------------------------------------------------------
Calls(c) ==
  {f \in Threads \X (1..MaxNest) :
     /\ f[2] \in DOMAIN stack[f[1]]
     /\ stack[f[1]][f[2]].config = c
     /\ stack[f[1]][f[2]].op \in {"set", "construct", "clear", "delete"}}

\* Configurations and owners name each other, an owner object is held by
\* exactly one configuration or is a live handle, and the depths that guard
\* clear, deletion and construction count the calls in progress exactly.
OwnersExact ==
  /\ \A c \in Configs :
       /\ config[c].depth = Cardinality(Calls(c))
       /\ config[c].owner # None => owner[config[c].owner].config = c
       /\ config[c].pending # None => /\ owner[config[c].pending] = [state |-> "pending", depth |-> 0, config |-> c]
                                      /\ config[c].owner = None
       /\ Calls(c) # {} \/ views[c] # <<>> => config[c].alive
  /\ \A o \in Owners :
       /\ owner[o].config # None => o \in {config[owner[o].config].owner, config[owner[o].config].pending}
       /\ owner[o].state = "live" /\ owner[o].config # None =>
            owner[o].depth = Cardinality(Calls(owner[o].config))

\* A callback of a native constructor meets the configuration that
\* constructor was given, whatever other threads or callbacks construct.
ScopesExact ==
  \A t \in Threads : \A i \in DOMAIN stack[t] :
    stack[t][i].op = "callback" => stack[t][i].config = stack[t][i].plugin

\* A plugin is the application's until a setter succeeds, then belongs to one
\* configuration, and is cleared when and only when that lets go of it.
PluginsMoved ==
  \A p \in Plugins :
    /\ Cardinality({c \in Configs : config[c].slot = p}) = (IF plugin[p].at = "config" THEN 1 ELSE 0)
    /\ plugin[p].clears = (IF plugin[p].at = "gone" THEN 1 ELSE 0)

ConfigsExact == OwnersExact /\ ScopesExact /\ PluginsMoved
=============================================================================
