----------------------------- MODULE OpcuaPubSub -----------------------------
(***************************************************************************)
(* The dispatch records of the PubSub components of one server.            *)
(*                                                                         *)
(* A component (writer group, reader group, ...) of the native server may  *)
(* use a security policy and a state machine of the application.  The      *)
(* facade keeps an entry for it: staged before the native call that makes  *)
(* or updates the component, committed after it, and freed once the        *)
(* component is gone or a newer entry serves it.  Native code may still be *)
(* running on the entry's policy then, so every call that can reach a      *)
(* policy holds a lease, counted by depth, and entries are pruned only when*)
(* no lease is held.  The owner of all this is made on first use, possibly *)
(* inside a callback of a call that began without it.                      *)
(***************************************************************************)
EXTENDS Integers, FiniteSets, SequencesExt

CONSTANTS Entries, Ids, None,
          MaxNest,        \* calls in progress at once
          UIntRange,      \* the number of values of depth, an unsigned int
          LateOwner,      \* the calls in whose callbacks the owner may be made
          DeleteInPolicy  \* whether a policy callback may delete the server

VARIABLES live,         \* the server exists
          owner,        \* the PubSub owner exists
          depth,        \* leases, modulo UIntRange
          held,         \* typed_loop_pubsub_held
          loop_depth,   \* typed_loop_depth
          config_depth, \* typed_config_depth
          entries,      \* the list of entries, the newest first
          ent,          \* their contents
          components,   \* the native components
          issued,       \* the ids given out so far; the native server reuses none
          policy,       \* the entry whose policy a component uses
          stack         \* the calls in progress, the innermost last

vars == <<live, owner, depth, held, loop_depth, config_depth, entries, ent,
          components, issued, policy, stack>>

Ops == {"loop", "iterate", "run", "delete", "op", "callback", "facade", "policy"}

Frame(op) == [op |-> op, pinned |-> FALSE, lease |-> FALSE, entry |-> None,
              applied |-> FALSE]
Unused == [id |-> None, scoped |-> FALSE, committed |-> FALSE, updating |-> FALSE]

TypeOK ==
  /\ {live, owner, held} \subseteq BOOLEAN
  /\ depth \in 0..UIntRange - 1
  /\ loop_depth \in 0..MaxNest /\ config_depth \in 0..MaxNest
  /\ entries \in Seq(Entries) /\ IsInjective(entries)
  /\ ent \in [Entries -> [id : Ids \cup {None}, scoped : BOOLEAN,
                          committed : BOOLEAN, updating : BOOLEAN]]
  /\ components \subseteq issued /\ issued \subseteq Ids
  /\ policy \in [Ids -> Entries \cup {None}]
  /\ stack \in Seq([op : Ops, pinned : BOOLEAN, lease : BOOLEAN,
                    entry : Entries \cup {None}, applied : BOOLEAN])
  /\ Len(stack) <= MaxNest

Init ==
  /\ live = TRUE /\ owner = FALSE /\ held = FALSE
  /\ depth = 0 /\ loop_depth = 0 /\ config_depth = 0
  /\ entries = <<>> /\ ent = [e \in Entries |-> Unused]
  /\ components = {} /\ issued = {} /\ policy = [i \in Ids |-> None]
  /\ stack = <<>>

componentVars == <<components, issued, policy>>
serverVars == <<live, loop_depth, config_depth>>

(***************************************************************************)
(* Native code runs callbacks; application code, in them or on its own,    *)
(* makes calls.                                                            *)
(***************************************************************************)
Top == Last(stack)
In(ops) == stack # <<>> /\ Top.op \in ops
Native == /\ In({"loop", "iterate", "run", "delete", "op"})
          /\ Top.entry # None => Top.applied
Application == live /\ (stack = <<>> \/ In({"callback", "facade", "policy", "loop"}))

Push(f) == Len(stack) < MaxNest /\ stack' = Append(stack, f)
Pop(op) == In({op}) /\ stack' = Front(stack)

Unsigned(n) == n % UIntRange

(***************************************************************************)
(* Pruning: with no lease held, drop the committed entries whose component *)
(* is gone or served by a newer committed entry.                           *)
(***************************************************************************)
Settled(x, e) == x[e].committed /\ ~x[e].scoped


Obsolete(list, x, i) ==
  LET e == list[i] IN
    /\ Settled(x, e)
    /\ \/ x[e].id \notin components'
       \/ \E j \in 1..i - 1 : Settled(x, list[j]) /\ x[list[j]].id = x[e].id

Pruned(list, x, d) ==
  IF d # 0 THEN list
  ELSE LET kept == {list[i] : i \in {k \in DOMAIN list : ~Obsolete(list, x, k)}}
       IN SelectSeq(list, LAMBDA e : e \in kept)

\* Leases: prepare takes one after pruning, finish prunes after giving it back.
Prepare(list, x, d) ==
  /\ entries' = Pruned(list, x, d)
  /\ ent' = x
  /\ depth' = Unsigned(d + 1)

\* Mutated form: it prunes before the lease is given back.
Finish_PrunesFirst(list, x) ==
  /\ depth' = Unsigned(depth - 1)
  /\ entries' = Pruned(list, x, depth)
  /\ ent' = x

Finish(list, x) ==
  /\ depth' = Unsigned(depth - 1)
  /\ entries' = Pruned(list, x, depth')
  /\ ent' = x

NoLease == UNCHANGED <<depth, entries, ent>>

(***************************************************************************)
(* The owner, made on first use: inside a loop call it borrows a lease for *)
(* that call, which the end of the call gives back.                        *)
(***************************************************************************)
Borrowed == loop_depth > 0 /\ ~held
FirstDepth == IF owner THEN depth ELSE IF Borrowed THEN 1 ELSE 0

owner_at ==
  /\ owner' = TRUE
  /\ held' = IF owner THEN held ELSE held \/ Borrowed

OwnerInTime ==
  owner \/ \A i \in DOMAIN stack :
             stack[i].op \in {"iterate", "run", "delete"} => stack[i].op \in LateOwner

(***************************************************************************)
(* A hook of the event loop: start and run prepare, stop and free retain.  *)
(* A nested hook pins nothing.                                             *)
(***************************************************************************)
LoopFrame ==
  /\ Application \/ Native
  /\ UNCHANGED <<live, owner, config_depth, componentVars>>
  /\ LET pinned == loop_depth = 0 /\ \A i \in DOMAIN stack : stack[i].op # "delete"
     IN /\ Push([Frame("loop") EXCEPT !.pinned = pinned])
        /\ loop_depth' = loop_depth + (IF pinned THEN 1 ELSE 0)
        /\ IF ~pinned THEN NoLease /\ UNCHANGED held
           ELSE IF ~owner THEN NoLease /\ held' = FALSE
           ELSE /\ held' = TRUE
                /\ \/ Prepare(entries, ent, depth)
                   \/ depth' = Unsigned(depth + 1) /\ UNCHANGED <<entries, ent>>

LoopFrameEnds ==
  /\ Pop("loop")
  /\ UNCHANGED <<live, owner, config_depth, componentVars>>
  /\ IF Top.pinned
     THEN /\ loop_depth' = loop_depth - 1
          /\ held' = FALSE
          /\ IF held THEN Finish(entries, ent) ELSE NoLease
     ELSE UNCHANGED <<loop_depth, held>> /\ NoLease

(***************************************************************************)
(* Startup and iterate prepare when there is an owner, and finish when     *)
(* there is one at the end.                                                *)
(***************************************************************************)
server_iterate ==
  /\ Application
  /\ UNCHANGED <<owner, held, serverVars, componentVars>>
  /\ Push([Frame("iterate") EXCEPT !.lease = owner])
  /\ IF owner THEN Prepare(entries, ent, depth) ELSE NoLease

IterateEnds ==
  /\ Pop("iterate")
  /\ UNCHANGED <<owner, held, serverVars, componentVars>>
  /\ IF owner THEN Finish(entries, ent) ELSE NoLease

server_run ==
  /\ Application /\ loop_depth = 0 /\ config_depth = 0
  /\ UNCHANGED <<live, owner, held, config_depth, componentVars>>
  /\ Push([Frame("run") EXCEPT !.lease = owner])
  /\ loop_depth' = loop_depth + 1
  /\ IF owner THEN Prepare(entries, ent, depth) ELSE NoLease

RunEnds ==
  /\ Pop("run")
  /\ UNCHANGED <<live, owner, held, config_depth, componentVars>>
  /\ loop_depth' = loop_depth - 1
  /\ IF Top.lease THEN Finish(entries, ent) ELSE NoLease

(***************************************************************************)
(* Deletion retains the records through shutdown and native deletion.      *)
(***************************************************************************)
server_delete ==
  /\ Application /\ loop_depth = 0 /\ config_depth = 0
  /\ \A i \in DOMAIN stack : stack[i].op \notin {"delete", "loop"}
  /\ DeleteInPolicy \/ ~In({"policy"})
  /\ UNCHANGED <<owner, held, serverVars, componentVars, entries, ent>>
  /\ Push([Frame("delete") EXCEPT !.lease = owner])
  /\ depth' = IF owner THEN Unsigned(depth + 1) ELSE depth

DeleteFails ==
  /\ Pop("delete")
  /\ UNCHANGED <<owner, held, serverVars, componentVars>>
  /\ IF owner THEN Finish(entries, ent) ELSE NoLease

DeleteSucceeds ==
  /\ Pop("delete")
  /\ live' = FALSE /\ owner' = FALSE
  /\ entries' = <<>> /\ ent' = [e \in Entries |-> Unused]
  /\ components' = {} /\ policy' = [i \in Ids |-> None]
  /\ depth' = 0
  /\ UNCHANGED <<issued, held, loop_depth, config_depth>>

(***************************************************************************)
(* A PubSub operation: stage an entry (add or update), prepare, the native *)
(* call, finish the entry, finish.                                         *)
(***************************************************************************)
Free == Entries \ Range(entries)

Stage(e, id) ==
  [ent EXCEPT ![e] = [id |-> id, scoped |-> TRUE, committed |-> FALSE,
                      updating |-> id # None]]

StagedOperation(id) ==
  /\ Application /\ OwnerInTime
  /\ owner_at
  /\ UNCHANGED <<serverVars, componentVars>>
  /\ \E e \in Free :
       /\ Push([Frame("op") EXCEPT !.lease = TRUE, !.entry = e])
       /\ Prepare(<<e>> \o entries, Stage(e, id), FirstDepth)

addComponent == StagedOperation(None)
updateComponent(id) == id \in components /\ StagedOperation(id)

\* The policies could not be synchronized: the staged entry goes again.
StageFails ==
  /\ Application /\ OwnerInTime
  /\ owner_at
  /\ UNCHANGED <<serverVars, componentVars, stack>>
  /\ entries' = Pruned(entries, ent, FirstDepth)
  /\ ent' = ent
  /\ depth' = FirstDepth

\* Operations without an entry: removing a component, enabling it, ...
otherOperation ==
  /\ Application
  /\ UNCHANGED <<owner, held, serverVars, componentVars>>
  /\ Push([Frame("op") EXCEPT !.lease = owner])
  /\ IF owner THEN Prepare(entries, ent, depth) ELSE NoLease

\* The native call makes the component and tells its id to the lifecycle
\* callback, or puts the new policy into it, before it runs other callbacks;
\* or it removes a component.
Applied == stack' = [stack EXCEPT ![Len(stack)].applied = TRUE]

NativeAdds(id) ==
  /\ In({"op"}) /\ Top.entry # None /\ ent[Top.entry].id = None
  /\ id \notin issued
  /\ Applied
  /\ components' = components \cup {id} /\ issued' = issued \cup {id}
  /\ policy' = [policy EXCEPT ![id] = Top.entry]
  /\ ent' = [ent EXCEPT ![Top.entry].id = id]
  /\ UNCHANGED <<owner, held, serverVars, depth, entries>>

NativeUpdates ==
  /\ In({"op"}) /\ Top.entry # None /\ ent[Top.entry].updating /\ ~Top.applied
  /\ Applied
  /\ policy' = [policy EXCEPT ![ent[Top.entry].id] = Top.entry]
  /\ UNCHANGED <<owner, held, serverVars, depth, entries, ent, components, issued>>

NativeRemoves(id) ==
  /\ In({"op"}) /\ Top.entry = None
  /\ id \in components
  /\ components' = components \ {id}
  /\ policy' = [policy EXCEPT ![id] = None]
  /\ UNCHANGED <<issued, owner, held, serverVars, depth, entries, ent, stack>>

\* What the native call reports: success only if it had its effect, failure
\* of an update only if it had none.  A failed add may keep the component or
\* remove it again.
Reports(e, ok) == IF ok THEN Top.applied ELSE ~(Top.applied /\ ent[e].updating)

Keeps(e, ok) ==
  \/ ok
  \/ ~ent[e].updating /\ ent[e].id # None /\ ent[e].id \in components'

FinishEntry(e, ok) ==
  IF Keeps(e, ok)
  THEN Finish(entries, [ent EXCEPT ![e].scoped = FALSE, ![e].committed = TRUE])
  ELSE Finish(Remove(entries, e), [ent EXCEPT ![e] = Unused])

OperationEnds ==
  /\ Pop("op")
  /\ UNCHANGED <<owner, held, serverVars>>
  /\ IF Top.entry = None
     THEN /\ UNCHANGED componentVars
          /\ IF Top.lease THEN Finish(entries, ent) ELSE NoLease
     ELSE \E ok \in BOOLEAN, undo \in BOOLEAN :
            LET e == Top.entry
                gone == IF ~ok /\ undo /\ ~ent[e].updating THEN {ent[e].id} ELSE {}
            IN /\ Reports(e, ok)
               /\ UNCHANGED issued
               /\ components' = components \ gone
               /\ policy' = [i \in Ids |-> IF i \in gone THEN None ELSE policy[i]]
               /\ FinishEntry(e, ok)

(***************************************************************************)
(* Callbacks: of the PubSub lifecycle and state machines, of any other kind*)
(* of the facade, and of a component's security policy.                    *)
(***************************************************************************)
PubSubCallback ==
  /\ Native /\ owner
  /\ Push(Frame("callback"))
  /\ depth' = Unsigned(depth + 1) /\ config_depth' = config_depth + 1
  /\ UNCHANGED <<live, owner, held, loop_depth, entries, ent, componentVars>>

PubSubCallbackEnds ==
  /\ Pop("callback")
  /\ depth' = Unsigned(depth - 1) /\ config_depth' = config_depth - 1
  /\ UNCHANGED <<live, owner, held, loop_depth, entries, ent, componentVars>>

FacadeCallback ==
  /\ Native
  /\ Push(Frame("facade"))
  /\ config_depth' = config_depth + 1
  /\ UNCHANGED <<live, owner, depth, held, loop_depth, entries, ent, componentVars>>

FacadeCallbackEnds ==
  /\ Pop("facade")
  /\ config_depth' = config_depth - 1
  /\ UNCHANGED <<live, owner, depth, held, loop_depth, entries, ent, componentVars>>

PolicyCallback(id) ==
  /\ Native /\ policy[id] # None
  /\ Push([Frame("policy") EXCEPT !.entry = policy[id]])
  /\ depth' = Unsigned(depth + 1)
  /\ UNCHANGED <<owner, held, serverVars, entries, ent, componentVars>>

PolicyCallbackEnds ==
  /\ Pop("policy")
  /\ depth' = Unsigned(depth - 1)
  /\ UNCHANGED <<owner, held, serverVars, entries, ent, componentVars>>

Next ==
  \/ LoopFrame \/ LoopFrameEnds
  \/ server_iterate \/ IterateEnds \/ server_run \/ RunEnds
  \/ server_delete \/ DeleteFails \/ DeleteSucceeds
  \/ addComponent \/ StageFails \/ otherOperation \/ OperationEnds
  \/ \E id \in Ids : \/ updateComponent(id) \/ NativeAdds(id) \/ NativeRemoves(id)
                     \/ PolicyCallback(id)
  \/ NativeUpdates
  \/ PubSubCallback \/ PubSubCallbackEnds \/ FacadeCallback \/ FacadeCallbackEnds
  \/ PolicyCallbackEnds

Spec == Init /\ [][Next]_vars

(***************************************************************************)
(* Properties.                                                             *)
(***************************************************************************)
\* A policy that a callback is running on, and the entry that an operation
\* staged, are not freed before it returns, whatever the callback removes,
\* updates or iterates (cpkt_pubsub_prune, cpkt_pubsub_finish).
EntryOutlivesUse ==
  \A i \in DOMAIN stack :
    live /\ stack[i].entry # None => stack[i].entry \in Range(entries)

\* Every native component that uses an application policy finds its entry:
\* pruning and the end of an operation free no entry a component still uses.
ComponentKeepsEntry ==
  \A id \in components : policy[id] # None => policy[id] \in Range(entries)

Leases == Cardinality({i \in DOMAIN stack :
                         \/ stack[i].op \in {"callback", "policy"}
                         \/ stack[i].lease})
          + (IF held THEN 1 ELSE 0)

\* The count of leases is exact: every prepare, retain and borrowed lease is
\* given back once, by the call that took it.
LeasesExact == live /\ owner => depth = Leases

\* While a call that reaches policies is in progress, some lease is counted,
\* so no entry is pruned under it.
LeaseHeld ==
  live /\ owner /\ (\E i \in DOMAIN stack : stack[i].lease) => depth # 0

\* Nothing obsolete survives: when the outermost call that held a lease
\* returns, every entry left serves a component (cpkt_pubsub_finish_server).
Finished ==
  stack # <<>> /\ stack' = <<>> /\ Top.lease /\ live'
    => \A e \in Range(entries') : policy'[ent'[e].id] = e
NothingObsolete == [][Finished]_vars

\* The server outlives every facade callback: a callback cannot delete it.
ServerOutlivesCallbacks ==
  \A i \in DOMAIN stack : stack[i].op \in {"callback", "facade", "policy"} => live
==============================================================================
