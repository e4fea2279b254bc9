-------------------------------- MODULE Sasl --------------------------------
(***************************************************************************)
(* SASL plugins written against the facade (src/sasl_plugin_client.c,      *)
(* sasl_plugin_server.c, sasl_plugin_aux.c, sasl_plugin_canon.c, with the  *)
(* role counters of src/sasl.c), SASL connections (src/sasl.c) and the     *)
(* utility records of src/sasl_plugin_utils.c.                             *)
(*                                                                         *)
(* Plugins: an initializer hands an array of plugins over; the facade      *)
(* builds a registration around it, the native library adopts the native   *)
(* records one by one and may stop half way, and every plugin's            *)
(* free_context runs exactly once: by the facade for what was not adopted, *)
(* by the library's mech_free for what was.  Connections of a mechanism    *)
(* carry an application context that is disposed once.  External: the      *)
(* library adopts a prefix of the records and reports success only when it *)
(* adopted all; the last finish of a role calls the free callback of every *)
(* record it adopted; all of its references come through the facade.  The  *)
(* application registers a plugin while a role that keeps its kind is      *)
(* initialized (add_plugin does not test it: a client or server plugin     *)
(* needs the library's table of its role, and no finish but the server's   *)
(* would release an auxiliary one), and finishes a role when none of its   *)
(* registrations and connections is in progress.                           *)
(*                                                                         *)
(* Connections: threads use different ones at the same time; the list of   *)
(* receivers and the list of utility records are each protected by a lock, *)
(* and a close takes them one after the other: the native connection is    *)
(* disposed, its utility records are forgotten by its address, its         *)
(* receiver is unlisted.  External: a disposed native connection's address *)
(* may be handed out again at once.  A plugin keeps the utility record of  *)
(* its connection until the native dispose calls it back.                  *)
(***************************************************************************)
EXTENDS Integers, FiniteSets

CONSTANTS
  Registrations,   \* registrations
  Mechanisms,      \* connections of a mechanism
  MaxPlugins,      \* plugins of one registration
  MaxReferences    \* initializations of a role

Kinds == {"client", "server", "auxiliary", "canonicalizer"}
Roles == {"client", "server"}

\* The roles that keep a kind of plugin in use.
RolesOf(kind) ==
  CASE kind = "client"        -> {"client"}
    [] kind = "canonicalizer" -> Roles
    [] OTHER                  -> {"server"}

VARIABLES
  references,      \* per role, its initializations
  reg,             \* per registration: where it is, its plugins, the adopted and the released ones
  balance,         \* plugins handed to the facade and not released
  mech,            \* per connection of a mechanism: its registration, plugin, application context, prompts
  contexts,        \* application contexts made and not disposed
  faults           \* uses of something gone, second releases (never any)

pluginVars == <<references, reg, balance, mech, contexts, faults>>

NoReg == [at |-> "none", kind |-> "client", count |-> 0, adopted |-> {}, released |-> {}]
NoMech == [at |-> "none"]

PluginInit ==
  /\ references = [role \in Roles |-> 0]
  /\ reg = [r \in Registrations |-> NoReg]
  /\ balance = 0
  /\ mech = [c \in Mechanisms |-> NoMech]
  /\ contexts = 0
  /\ faults = {}

Active(kind) == \E role \in RolesOf(kind) : references[role] > 0

-----------------------------------------------------------------------------
\* Registration.  The thread's pending record makes the native initializer
\* find the application's; a plugin array that cannot be registered (version,
\* memory, a missing function, a number too large) is released as a whole.

\* External: a registration is begun while a role of its kind is initialized.
Offered(r, kind, count) ==
  /\ reg[r].at = "none" /\ Active(kind)
  /\ kind \in {"auxiliary", "canonicalizer"} => count = 1

\* release_public: what was offered goes back as a whole, nothing stays.
release_public == UNCHANGED balance

init_native(r, kind, count, fits) ==
  /\ Offered(r, kind, count)
  /\ IF fits THEN /\ reg' = [reg EXCEPT ![r] =
                       [NoReg EXCEPT !.at = "pending", !.kind = kind, !.count = count]]
                  /\ balance' = balance + count
             ELSE release_public /\ UNCHANGED reg
  /\ UNCHANGED <<references, mech, contexts, faults>>

client_init_native(r, count, fits) == init_native(r, "client", count, fits)
server_init_native(r, count, fits) == init_native(r, "server", count, fits)
aux_init_native(r, fits)   == init_native(r, "auxiliary", 1, fits)
canon_init_native(r, fits) == init_native(r, "canonicalizer", 1, fits)

\* External: the library takes the next record.
Adopt(r) ==
  /\ reg[r].at = "pending" /\ Cardinality(reg[r].adopted) < reg[r].count
  /\ reg' = [reg EXCEPT ![r].adopted = @ \cup {Cardinality(@) + 1}]
  /\ UNCHANGED <<references, balance, mech, contexts, faults>>

\* release_record and the free callbacks: once per record.
release_record(r, plugins) ==
  LET now == plugins \ reg[r].released IN
  /\ balance' = balance - Cardinality(now)
  /\ reg' = [reg EXCEPT ![r].released = @ \cup now, ![r].at = "listed"]

\* Mutated form: a failed registration releases every record it made.
add_plugin_All(r) ==
  /\ reg[r].at = "pending"
  /\ IF Cardinality(reg[r].adopted) < reg[r].count
       THEN release_record(r, 1 .. reg[r].count)
       ELSE release_record(r, {})
  /\ UNCHANGED <<references, mech, contexts, faults>>

\* The provider returns.  If it failed, the records it did not adopt, as the
\* library's own listing shows them, are released; the registration is listed
\* in any case.
add_plugin(r) ==
  /\ reg[r].at = "pending"
  /\ IF Cardinality(reg[r].adopted) < reg[r].count
       THEN release_record(r, (1 .. reg[r].count) \ reg[r].adopted)
       ELSE release_record(r, {})
  /\ UNCHANGED <<references, mech, contexts, faults>>

client_add_plugin(r) == reg[r].kind = "client" /\ add_plugin(r)
server_add_plugin(r) == reg[r].kind = "server" /\ add_plugin(r)
auxiliary_add_plugin(r) == reg[r].kind = "auxiliary" /\ add_plugin(r)
canonicalizer_add_plugin(r) == reg[r].kind = "canonicalizer" /\ add_plugin(r)

-----------------------------------------------------------------------------
\* Roles.

Initialize(role) ==
  /\ references[role] < MaxReferences
  /\ references' = [references EXCEPT ![role] = @ + 1]
  /\ UNCHANGED <<reg, balance, mech, contexts, faults>>

client_initialize == Initialize("client")
server_initialize == Initialize("server")

Quiet(role) ==
  /\ \A r \in Registrations : reg[r].at = "pending" => role \notin RolesOf(reg[r].kind)
  /\ \A c \in Mechanisms : mech[c].at # "none" => role # reg[mech[c].reg].kind

\* The kinds whose last role has been finished.
Ending(after) ==
  {kind \in Kinds : \A role \in RolesOf(kind) : after[role] = 0}

\* The library frees what it adopted, then the cleanup frees the lists.
Cleanup(after) ==
  LET ending == {r \in Registrations : reg[r].at = "listed" /\ reg[r].kind \in Ending(after)}
      freed(r) == reg[r].adopted \ reg[r].released
  IN /\ balance' = balance
                   - Cardinality({<<r, i>> \in ending \X (1 .. MaxPlugins) : i \in freed(r)})
     /\ reg' = [r \in Registrations |-> IF r \in ending THEN NoReg ELSE reg[r]]
     /\ faults' = faults \cup
          {<<"still in use", r>> : r \in {r \in ending : \E role \in RolesOf(reg[r].kind) : after[role] > 0}}

client_finish ==
  /\ references["client"] > 0 /\ (references["client"] = 1 => Quiet("client"))
  /\ references' = [references EXCEPT !["client"] = @ - 1]
  /\ Cleanup(references')
  /\ UNCHANGED <<mech, contexts>>

server_finish ==
  /\ references["server"] > 0 /\ (references["server"] = 1 => Quiet("server"))
  /\ references' = [references EXCEPT !["server"] = @ - 1]
  /\ Cleanup(references')
  /\ UNCHANGED <<mech, contexts>>

\* Both roles at once, each by one reference if it has one.
finish_all ==
  /\ \A role \in Roles : references[role] <= 1 => Quiet(role)
  /\ \E role \in Roles : references[role] > 0
  /\ references' = [role \in Roles |-> IF references[role] = 0 THEN 0 ELSE references[role] - 1]
  /\ Cleanup(references')
  /\ UNCHANGED <<mech, contexts>>

-----------------------------------------------------------------------------
\* Mechanisms of a mechanism.

Mechanism(r, i) == /\ reg[r].kind \in Roles /\ i \in reg[r].adopted
                   /\ references[reg[r].kind] > 0

\* A context the application made, also with a status that is not OK, is kept by
\* an open connection or disposed.
Made(c, r, i, ok, context) ==
  /\ mech' = IF ok THEN [mech EXCEPT ![c] = [at |-> "open", reg |-> r, context |-> context, prompts |-> 0]]
                   ELSE mech
  /\ LET made == IF context THEN 1 ELSE 0
         disposed == IF ok THEN 0 ELSE made
     IN  contexts' = contexts + made - disposed

NewConnection(c, r, i, ok, context) ==
  /\ mech[c].at = "none" /\ Mechanism(r, i)
  /\ Made(c, r, i, ok, context)
  /\ UNCHANGED <<references, reg, balance, faults>>

client_new_native(c, r, i, ok, context) ==
  reg[r].kind = "client" /\ NewConnection(c, r, i, ok, context)
server_new_native(c, r, i, ok, context) ==
  reg[r].kind = "server" /\ NewConnection(c, r, i, ok, context)

\* mech_avail: without a context there is no connection yet, and without
\* memory for the connection the context is disposed at once.
server_avail_native(c, r, i, ok, context, memory) ==
  /\ reg[r].kind = "server"
  /\ NewConnection(c, r, i, ok /\ context /\ memory, context)

\* A client step's prompts replace the converted list of the last step.
client_step_native(c, interact) ==
  /\ mech[c].at = "open" /\ reg[mech[c].reg].kind = "client"
  /\ mech' = [mech EXCEPT ![c].prompts = IF interact THEN 1 ELSE @]
  /\ faults' = faults \cup (IF reg[mech[c].reg].at = "none" THEN {<<"record gone", c>>} ELSE {})
  /\ UNCHANGED <<references, reg, balance, contexts>>

server_step_native(c) ==
  /\ mech[c].at = "open" /\ reg[mech[c].reg].kind = "server"
  /\ faults' = faults \cup (IF reg[mech[c].reg].at = "none" THEN {<<"record gone", c>>} ELSE {})
  /\ UNCHANGED <<references, reg, balance, mech, contexts>>

Dispose(c) ==
  /\ mech[c].at = "open"
  /\ contexts' = contexts - (IF mech[c].context THEN 1 ELSE 0)
  /\ mech' = [mech EXCEPT ![c] = NoMech]
  /\ UNCHANGED <<references, reg, balance, faults>>

client_dispose_native(c) == mech[c].at = "open" /\ reg[mech[c].reg].kind = "client" /\ Dispose(c)
server_dispose_native(c) == mech[c].at = "open" /\ reg[mech[c].reg].kind = "server" /\ Dispose(c)

-----------------------------------------------------------------------------
PluginNext ==
  \/ client_initialize \/ server_initialize \/ client_finish \/ server_finish \/ finish_all
  \/ \E r \in Registrations :
       \/ \E count \in 1 .. MaxPlugins, fits \in BOOLEAN :
            client_init_native(r, count, fits) \/ server_init_native(r, count, fits)
       \/ \E fits \in BOOLEAN : aux_init_native(r, fits) \/ canon_init_native(r, fits)
       \/ Adopt(r)
       \/ client_add_plugin(r) \/ server_add_plugin(r)
       \/ auxiliary_add_plugin(r) \/ canonicalizer_add_plugin(r)
  \/ \E c \in Mechanisms, ok, context \in BOOLEAN :
       \E r \in Registrations : \E i \in reg[r].adopted :
         \/ client_new_native(c, r, i, ok, context) \/ server_new_native(c, r, i, ok, context)
         \/ \E memory \in BOOLEAN : server_avail_native(c, r, i, ok, context, memory)
  \/ \E c \in Mechanisms :
       \/ \E interact \in BOOLEAN : client_step_native(c, interact)
       \/ server_step_native(c) \/ client_dispose_native(c) \/ server_dispose_native(c)

-----------------------------------------------------------------------------
\* Every plugin an initializer handed over is released exactly once, however
\* far the library got in adopting its registration: what is not released yet
\* is in a registration, adopted or still to be looked at, and a kind of
\* plugin whose roles are all finished has nothing left.
PluginsReleasedOnce ==
  /\ balance = Cardinality({<<r, i>> \in Registrations \X (1 .. MaxPlugins) :
                             reg[r].at # "none" /\ i \in (1 .. reg[r].count) \ reg[r].released})
  /\ \A r \in Registrations :
       /\ reg[r].at = "listed" => reg[r].adopted \cap reg[r].released = {}
       /\ reg[r].at # "none" => Active(reg[r].kind)

\* An adopted record stays as long as the library may call it.
AdoptedLive ==
  /\ faults = {}
  /\ \A c \in Mechanisms : mech[c].at = "open" => reg[mech[c].reg].at # "none"

\* Every application context belongs to an open connection, so that it is
\* disposed exactly once, also when mech_new or mech_avail fails.
ContextsExact ==
  contexts = Cardinality({c \in Mechanisms : mech[c].at = "open" /\ mech[c].context})

PluginsExact == PluginsReleasedOnce /\ AdoptedLive /\ ContextsExact

-----------------------------------------------------------------------------
(* Connections                                                             *)

CONSTANTS
  Connections,     \* connection objects, each used by one thread at a time
  Natives,         \* addresses of native connections
  Lists,           \* prompt lists the library may hand out
  None,
  AddressReuse     \* may a disposed address come back before it is forgotten?

VARIABLES
  conn,            \* the connection objects
  receivers,       \* connections on the receiver list
  entries,         \* addresses that have a utility record
  secrets,         \* secret copies allocated and not erased
  cell, taken,     \* delegated credentials: in the library's cell, handed out
  reached          \* the prompt lists steps gave to the library, with what it awaited

connectionVars == <<conn, receivers, entries, secrets, cell, taken, reached>>

NoConn == [at |-> "none", native |-> None, closing |-> None, uses |-> FALSE, pending |-> None,
           awaits |-> None, secret |-> FALSE]

ConnectionInit ==
  /\ conn = [c \in Connections |-> NoConn]
  /\ receivers = {}
  /\ entries = {}
  /\ secrets = 0
  /\ cell = {} /\ taken = {}
  /\ reached = {}

Used(n) == \E c \in Connections : conn[c].at \in {"new", "open"} /\ conn[c].native = n

Awaited(n) == \E c \in Connections : conn[c].at = "disposed" /\ conn[c].closing = n

-----------------------------------------------------------------------------
\* Construction: callbacks may run before the receiver is listed.

Construct(c, n) ==
  /\ conn[c].at = "none" /\ ~Used(n)
  /\ AddressReuse \/ ~Awaited(n)
  /\ conn' = [conn EXCEPT ![c] = [NoConn EXCEPT !.at = "new", !.native = n]]
  /\ UNCHANGED <<receivers, entries, secrets, cell, taken, reached>>

\* clear_native_secret
Erased(c) == secrets - (IF conn[c].secret THEN 1 ELSE 0)

register_receiver(c) ==
  /\ conn[c].at = "new"
  /\ conn' = [conn EXCEPT ![c].at = "open"]
  /\ receivers' = receivers \cup {c}
  /\ UNCHANGED <<entries, secrets, cell, taken, reached>>

\* The native constructor fails: what its callbacks left is erased.
NewFails(c) ==
  /\ conn[c].at = "new" /\ ~conn[c].uses
  /\ secrets' = Erased(c)
  /\ conn' = [conn EXCEPT ![c] = NoConn]
  /\ UNCHANGED <<receivers, entries, cell, taken, reached>>

-----------------------------------------------------------------------------
\* utils_for_native: the utility record of the connection's native table is
\* found by its address, or made.
utils_for_native(c) ==
  /\ conn[c].at = "open" /\ ~conn[c].uses
  /\ entries' = entries \cup {conn[c].native}
  /\ conn' = [conn EXCEPT ![c].uses = TRUE]
  /\ UNCHANGED <<receivers, secrets, cell, taken, reached>>

\* public_for_native: the receiver list is searched by native address.
public_for_native(n) ==
  {c \in receivers : conn[c].native = n}

\* secret_native: a new copy replaces the last one, which is erased even if
\* the callback or the allocation fails.
secret_native(c, ok) ==
  /\ conn[c].at \in {"new", "open"}
  /\ conn' = [conn EXCEPT ![c].secret = ok]
  /\ secrets' = Erased(c) + (IF ok THEN 1 ELSE 0)
  /\ UNCHANGED <<receivers, entries, cell, taken, reached>>

-----------------------------------------------------------------------------
\* Prompts.

\* prepare_pending_interactions: the caller returns the list it was given.
prepare_pending_interactions(c, given) ==
  IF conn[c].pending = None THEN given = None ELSE given = conn[c].pending

\* start and step: the answers go to the list the library awaits; a new list
\* replaces it, and a failure to copy it leaves none pending.
Step(c, given, next, memory) ==
  /\ conn[c].at = "open"
  /\ IF ~prepare_pending_interactions(c, given)
       THEN UNCHANGED <<conn, reached>>
       ELSE LET kept == IF memory THEN next ELSE None IN
            /\ reached' = reached \cup (IF given = None THEN {} ELSE {<<conn[c].awaits, given>>})
            /\ conn' = [conn EXCEPT ![c].pending = kept, ![c].awaits = next]
  /\ UNCHANGED <<receivers, entries, secrets, cell, taken>>

start(c, next, memory) == conn[c].pending = None /\ Step(c, None, next, memory)

step(c, given, next, memory) == Step(c, given, next, memory)

-----------------------------------------------------------------------------
\* Delegated credentials.

Delegate(c) ==
  /\ conn[c].at = "open" /\ c \notin cell /\ c \notin taken
  /\ cell' = cell \cup {c}
  /\ UNCHANGED <<conn, receivers, entries, secrets, taken, reached>>

\* The credential moves out of the library's cell.
get_delegated_credentials(c) ==
  /\ conn[c].at = "open" /\ c \in cell
  /\ taken' = taken \cup {c}
  /\ cell' = cell \ {c}
  /\ UNCHANGED <<conn, receivers, entries, secrets, reached>>

AppReleases(c) ==
  /\ c \in taken
  /\ taken' = taken \ {c}
  /\ UNCHANGED <<conn, receivers, entries, secrets, cell, reached>>

-----------------------------------------------------------------------------
\* Close, one lock after the other.  The native connection is disposed, which
\* clears the receiver's pointer; close keeps the address.

close(c) ==
  /\ conn[c].at = "open"
  /\ conn' = [conn EXCEPT ![c].at = "disposed", ![c].pending = None, ![c].uses = FALSE,
                          ![c].native = None, ![c].closing = conn[c].native]
  /\ cell' = cell \ {c}
  /\ UNCHANGED <<receivers, entries, secrets, taken, reached>>

forget_connection(c) ==
  /\ conn[c].at = "disposed"
  /\ entries' = entries \ {conn[c].closing}
  /\ conn' = [conn EXCEPT ![c].at = "forgotten", ![c].closing = None]
  /\ UNCHANGED <<receivers, secrets, cell, taken, reached>>

unregister_receiver(c) ==
  /\ conn[c].at = "forgotten"
  /\ receivers' = receivers \ {c}
  /\ secrets' = Erased(c)
  /\ conn' = [conn EXCEPT ![c] = NoConn]
  /\ UNCHANGED <<entries, cell, taken, reached>>

-----------------------------------------------------------------------------
ConnectionNext ==
  \E c \in Connections :
    \/ \E n \in Natives : Construct(c, n)
    \/ register_receiver(c) \/ NewFails(c) \/ utils_for_native(c)
    \/ \E ok \in BOOLEAN : secret_native(c, ok)
    \/ \E list \in Lists \cup {None}, memory \in BOOLEAN :
         start(c, list, memory) \/ \E given \in Lists \cup {None} : step(c, given, list, memory)
    \/ Delegate(c) \/ get_delegated_credentials(c) \/ AppReleases(c)
    \/ close(c) \/ forget_connection(c) \/ unregister_receiver(c)

-----------------------------------------------------------------------------
\* The utility record a plugin of an open connection uses is on the list: no
\* close of another connection drops it.
UtilsLive == \A c \in Connections : conn[c].uses => conn[c].native \in entries

\* Utility records outlive their connection only until its close forgets them.
EntriesForgotten == \A n \in entries : Used(n) \/ Awaited(n)

\* A native address names at most one receiver, an open one: a callback of the
\* library never reaches the application's object of another connection.
ReceiversExact ==
  /\ \A n \in Natives : /\ Cardinality(public_for_native(n)) <= 1
                         /\ \A c \in public_for_native(n) : conn[c].at = "open"
  /\ \A c \in Connections : conn[c].at = "open" => c \in receivers
  /\ \A c \in receivers : conn[c].at # "none"

\* Answers only ever reach the prompt list the library handed out last.
AnswersReachTheirList == \A pair \in reached : pair[1] = pair[2]

\* Every copy of a secret belongs to a connection that will erase it.
SecretsErased == secrets = Cardinality({c \in Connections : conn[c].secret})

\* A delegated credential has one owner.
CredentialsOwnedOnce == cell \cap taken = {}

ConnectionsExact ==
  /\ UtilsLive /\ EntriesForgotten /\ ReceiversExact
  /\ AnswersReachTheirList /\ SecretsErased /\ CredentialsOwnedOnce

-----------------------------------------------------------------------------
\* The two together: neither touches the records of the other.
vars == <<pluginVars, connectionVars>>
Init == PluginInit /\ ConnectionInit
Next ==
  \/ PluginNext /\ UNCHANGED connectionVars
  \/ ConnectionNext /\ UNCHANGED pluginVars
Spec == Init /\ [][Next]_vars

\* The connections alone.
ConnectionSpec == Init /\ [][ConnectionNext /\ UNCHANGED pluginVars]_vars
=============================================================================
