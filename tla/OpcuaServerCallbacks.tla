------------------------ MODULE OpcuaServerCallbacks ------------------------
(***************************************************************************)
(* What the typed OPC UA server keeps alive around callbacks of the native *)
(* server: timers and asynchronous local operations                        *)
(* (opcua_callbacks_impl.h), asynchronous producers                        *)
(* (opcua_producers_impl.h), local monitored items and reverse connections *)
(* (opcua_events_impl.h) and the dispatch records of nodes                 *)
(* (opcua_nodes_impl.h, opcua_nodes_install_impl.h,                        *)
(* opcua_creation_impl.h).                                                 *)
(*                                                                         *)
(* Every one of them is a heap record the native server points at, and a   *)
(* callback may remove the record it was called with.  stack holds the     *)
(* call frames in progress, innermost last.  The five parts share nothing  *)
(* but the stack, and each has a next-state relation of its own.           *)
(*                                                                         *)
(* A record that is not allocated has refs = 0.  The native server         *)
(* (open62541) is external: it is modelled by what it holds of a record    *)
(* (native, slots) and by when it calls back.                              *)
(***************************************************************************)
EXTENDS Integers, Sequences, SequencesExt, FiniteSets

CONSTANTS Timers, Operations, Producers, Monitors, Reverses, Nodes, Records,
          Contexts,  \* user contexts of asynchronous operations
          None,
          MaxNest    \* bound on nested call frames

VARIABLES stack, timer, operation, typed_asyncs, producer, monitor, reverse,
          slots, entries, refs

node_vars == <<stack, slots, entries, refs>>
vars == <<stack, timer, operation, typed_asyncs, producer, monitor, reverse,
          slots, entries, refs>>

Frames(kind, id) == {i \in DOMAIN stack : stack[i].kind = kind /\ stack[i].id = id}
Push(f) == Len(stack) < MaxNest /\ stack' = Append(stack, f)
Pop == stack' = Front(stack)
Top(kind) == stack # <<>> /\ Last(stack).kind = kind

\* The application runs outside every call, and inside its callbacks.
Application ==
  stack # <<>> => Last(stack).kind \in
                    {"timer", "completed", "submit", "produce", "notify", "monitor", "state", "dispatch"}

\* The native loop calls back on its own, or from a native call in progress.
Native(frame) == stack = <<>> \/ frame

-----------------------------------------------------------------------------
(* Timers.  native: how the native loop still holds the timer.             *)

NoTimer == [refs |-> 0, repeated |-> FALSE, removed |-> FALSE, native |-> "none"]

server_timer_unref(t) ==
  IF t.refs = 1 THEN [NoTimer EXCEPT !.native = t.native] ELSE [t EXCEPT !.refs = @ - 1]

timer_add(t, repeated) ==
  /\ Application
  /\ timer[t] = NoTimer
  /\ timer' = [timer EXCEPT ![t] =
       [refs |-> 1, repeated |-> repeated, removed |-> FALSE,
        native |-> IF repeated THEN "repeated" ELSE "once"]]
  /\ UNCHANGED stack

addTimedCallback(t) == timer_add(t, FALSE)
addRepeatedCallback(t) == timer_add(t, TRUE)

\* The native loop forgets a one-shot timer before it calls it, and never runs
\* itself from one of its callbacks.
server_timer_invoke(t) ==
  /\ stack = <<>>
  /\ timer[t].native # "none"
  /\ Push([kind |-> "timer", id |-> t])
  /\ timer' = [timer EXCEPT ![t].refs = @ + 1,
                            ![t].native = IF @ = "once" THEN "none" ELSE @]

TimerReturns ==
  /\ Top("timer")
  /\ LET t == Last(stack).id
         fired == ~timer[t].repeated /\ ~timer[t].removed
     IN timer' = [timer EXCEPT ![t] =
          IF fired THEN server_timer_unref(server_timer_unref([@ EXCEPT !.removed = TRUE]))
                   ELSE server_timer_unref(@)]
  /\ Pop

changeRepeatedCallbackInterval(t) ==
  /\ Application
  /\ timer[t].native # "none"
  /\ timer' = [timer EXCEPT ![t].native = "repeated",
                            ![t].repeated = @ \/ ~timer[t].removed]
  /\ UNCHANGED stack


removeCallback(t) ==
  /\ Application
  /\ timer[t].refs > 0
  /\ timer' = [timer EXCEPT ![t] =
       IF @.removed THEN [@ EXCEPT !.native = "none"]
       ELSE server_timer_unref([@ EXCEPT !.removed = TRUE, !.native = "none"])]
  /\ UNCHANGED stack

\* Only cpkt_server_delete calls it, and it refuses inside a callback.
server_callbacks_clear ==
  /\ stack = <<>>
  /\ timer' = [t \in Timers |-> NoTimer]
  /\ UNCHANGED stack

TimerNext ==
  \/ TimerReturns
  \/ server_callbacks_clear
  \/ \E t \in Timers : \/ addTimedCallback(t) \/ addRepeatedCallback(t)
                       \/ server_timer_invoke(t) \/ changeRepeatedCallbackInterval(t)
                       \/ removeCallback(t)

\* The native loop never holds a freed or removed timer holder, a running
\* callback's holder stays allocated whatever the callback removes, and a
\* holder no callback and no native timer refers to is freed.
TimersExact ==
  \A t \in Timers :
    /\ timer[t].native # "none" => timer[t].refs > 0 /\ ~timer[t].removed
    /\ timer[t].refs = Cardinality(Frames("timer", t))
                         + (IF timer[t].native # "none" THEN 1
                            ELSE IF Frames("timer", t) # {} /\ ~timer[t].removed THEN 1 ELSE 0)

-----------------------------------------------------------------------------
(* Asynchronous local operations.  native: the native server will call the *)
(* completion; told: the application's callbacks made for it.              *)

NoOperation == [refs |-> 0, completed |-> FALSE, context |-> None, native |-> FALSE,
                told |-> 0, refused |-> FALSE]

\* The place of a in the list, 0 when it is not linked.
Place(a) == SelectInSeq(typed_asyncs, LAMBDA x : x = a)

\* The list after the operations S are unlinked.
Unlinked(list, S) == SelectSeq(list, LAMBDA a : a \notin S)

\* Releases count references of a, unlinking it with the last one.
server_async_unref(ops, a, count) ==
  /\ operation' = [ops EXCEPT ![a].refs = @ - count]
  /\ typed_asyncs' = IF ops[a].refs = count THEN Unlinked(typed_asyncs, {a}) ELSE typed_asyncs

server_async_new(a, c) ==
  /\ Application
  /\ operation[a].refs = 0
  /\ operation' = [operation EXCEPT ![a] =
       [NoOperation EXCEPT !.refs = 2, !.context = c, !.native = TRUE]]
  /\ Push([kind |-> "submit", id |-> a])
  /\ UNCHANGED typed_asyncs

read_async(a, c) == server_async_new(a, c)
write_async(a, c) == server_async_new(a, c)
call_async(a, c) == server_async_new(a, c)

\* The native call of a submission returns.
server_async_submitted(good) ==
  /\ Top("submit")
  /\ Pop
  /\ LET a == Last(stack).id
         r == operation[a]
     IN CASE r.completed -> server_async_unref(operation, a, 1)
          [] ~r.completed /\ ~good ->
               server_async_unref([operation EXCEPT ![a].native = FALSE, ![a].refused = TRUE], a, 2)
          [] OTHER -> /\ typed_asyncs' = Append(typed_asyncs, a)
                      /\ operation' = [operation EXCEPT ![a].refs = @ - 1]

\* The completion of a, called by the loop or within the submission of a.
Completes(a) ==
  /\ operation[a].native
  /\ operation' = [operation EXCEPT ![a].native = FALSE, ![a].completed = TRUE, ![a].told = @ + 1]
  /\ UNCHANGED typed_asyncs

read_completed(a) ==
  /\ Native(Top("submit") /\ Last(stack).id = a)
  /\ Completes(a)
  /\ Push([kind |-> "completed", id |-> a])

CompletedReturns ==
  /\ Top("completed")
  /\ server_async_unref(operation, Last(stack).id, 1)
  /\ Pop

\* Mutated form: the operations met are not pinned.
cancelAsync_Unpinned(c) ==
  /\ Application
  /\ typed_asyncs # <<>>
  /\ Push([kind |-> "cancel", id |-> Head(typed_asyncs), last |-> Last(typed_asyncs),
           context |-> c, next |-> None])
  /\ UNCHANGED <<operation, typed_asyncs>>

cancelAsync(c) ==
  /\ Application
  /\ typed_asyncs # <<>>
  /\ operation' = [a \in Operations |->
       IF Contains(typed_asyncs, a) THEN [operation[a] EXCEPT !.refs = @ + 1] ELSE operation[a]]
  /\ Push([kind |-> "cancel", id |-> Head(typed_asyncs), last |-> Last(typed_asyncs),
           context |-> c, next |-> None])
  /\ UNCHANGED typed_asyncs

\* One entry of the walk: next is read before the native call, which may
\* complete the operation at once (now) or later from the loop.
CancelVisits(now) ==
  /\ Top("cancel") /\ Last(stack).next = None
  /\ LET f == Last(stack)
         i == Place(f.id)
         next == IF i > 0 /\ i < Len(typed_asyncs) THEN typed_asyncs[i + 1] ELSE f.id
         visited == Append(Front(stack), [f EXCEPT !.next = next])
     IN IF now
        THEN /\ ~operation[f.id].completed /\ operation[f.id].context = f.context
             /\ Completes(f.id)
             /\ Len(stack) < MaxNest
             /\ stack' = Append(visited, [kind |-> "completed", id |-> f.id])
        ELSE stack' = visited /\ UNCHANGED <<operation, typed_asyncs>>

CancelLeaves ==
  /\ Top("cancel") /\ Last(stack).next # None
  /\ LET f == Last(stack)
     IN /\ server_async_unref(operation, f.id, 1)
        /\ stack' = IF f.id = f.last THEN Front(stack)
                    ELSE Append(Front(stack), [f EXCEPT !.id = f.next, !.next = None])

AsyncNext ==
  \/ CompletedReturns \/ CancelLeaves
  \/ \E b \in BOOLEAN : server_async_submitted(b) \/ CancelVisits(b)
  \/ \E a \in Operations : read_completed(a)
  \/ \E a \in Operations, c \in Contexts : read_async(a, c) \/ write_async(a, c) \/ call_async(a, c)
  \/ \E c \in Contexts : cancelAsync(c)

\* The cancellation passes that still hold a pin on a.
Pins(a) ==
  {i \in DOMAIN stack :
     /\ stack[i].kind = "cancel"
     /\ Place(a) > 0 /\ Place(stack[i].id) <= Place(a) /\ Place(a) <= Place(stack[i].last)}

\* Every reference of an operation has a holder and the reverse, so neither a
\* completion nor a cancellation pass meets a freed operation, however
\* completions, submissions and cancellations nest; an accepted operation is
\* answered exactly once, a refused one never.
AsyncsExact ==
  /\ \A a \in Operations :
       LET r == operation[a]
       IN /\ r.refs = Cardinality(Frames("submit", a)) + Cardinality(Frames("completed", a))
                        + (IF r.native THEN 1 ELSE 0) + Cardinality(Pins(a))
          /\ r.told <= 1
          /\ r.context # None /\ r.refs = 0 => r.told + (IF r.refused THEN 1 ELSE 0) = 1
  /\ \A i \in DOMAIN stack :
       stack[i].kind \in {"submit", "completed", "cancel"} => operation[stack[i].id].refs > 0
  /\ \A i, j \in DOMAIN typed_asyncs : typed_asyncs[i] = typed_asyncs[j] => i = j
  /\ stack = <<>> => {a \in Operations : operation[a].native} = Range(typed_asyncs)

-----------------------------------------------------------------------------
(* Producers.  native: the native server waits for the output; outcomes:   *)
(* the answers and cancellations an accepted operation has had.            *)

NoProducer == [refs |-> 0, listed |-> FALSE, active |-> FALSE, native |-> FALSE, outcomes |-> 0]

producer_free(p) == [NoProducer EXCEPT !.outcomes = p.outcomes]

producer_new(p) ==
  /\ Application
  /\ producer[p].refs = 0
  /\ producer' = [producer EXCEPT ![p] = [NoProducer EXCEPT !.refs = 1, !.listed = TRUE, !.active = TRUE]]
  /\ Push([kind |-> "produce", id |-> p])

producer_native_read(p) == producer_new(p)
producer_native_write(p) == producer_new(p)
producer_native_method(p) == producer_new(p)

\* The application's callback returns: it finished ("sync"), it will answer
\* later ("async"), or it will but its outputs could not be staged ("unstaged").
ProducerReturns(result) ==
  /\ Top("produce")
  /\ LET p == Last(stack).id
     IN CASE result = "sync" -> Pop /\ producer' = [producer EXCEPT ![p] = producer_free(@)]
          [] result = "async" -> Pop /\ producer' = [producer EXCEPT ![p].active = FALSE, ![p].native = TRUE]
          [] result = "unstaged" ->
               /\ stack' = Append(Front(stack), [kind |-> "notify", id |-> p])
               /\ producer' = [producer EXCEPT ![p].listed = FALSE, ![p].outcomes = @ + 1]

producer_find(p) == producer[p].listed /\ ~producer[p].active

setAsyncResult(p, accepted) ==
  /\ Application
  /\ producer_find(p)
  /\ accepted => producer[p].native
  /\ producer' = [producer EXCEPT ![p] =
       IF accepted THEN producer_free([@ EXCEPT !.outcomes = @ + 1]) ELSE @]
  /\ UNCHANGED stack

setAsyncReadResult(p, accepted) == setAsyncResult(p, accepted)
setAsyncWriteResult(p, accepted) == setAsyncResult(p, accepted)
setAsyncCallMethodResult(p, accepted) == setAsyncResult(p, accepted)


\* The native server gives up on an output it waits for.
producer_cancel(p) ==
  /\ stack = <<>>
  /\ producer[p].native
  /\ producer' = [producer EXCEPT ![p].native = FALSE, ![p].listed = FALSE, ![p].outcomes = @ + 1]
  /\ Push([kind |-> "notify", id |-> p])

NotifyReturns ==
  /\ Top("notify")
  /\ producer' = [producer EXCEPT ![Last(stack).id] = producer_free(@)]
  /\ Pop

\* Native deletion has cancelled every output it waited for.
producer_cleanup ==
  /\ stack = <<>>
  /\ \A p \in Producers : ~producer[p].native
  /\ producer' = [p \in Producers |-> NoProducer]
  /\ UNCHANGED stack

ProducerNext ==
  \/ NotifyReturns \/ producer_cleanup
  \/ \E result \in {"sync", "async", "unstaged"} : ProducerReturns(result)
  \/ \E p \in Producers : \/ producer_native_read(p) \/ producer_native_write(p)
                          \/ producer_native_method(p) \/ producer_cancel(p)
  \/ \E p \in Producers, b \in BOOLEAN :
       setAsyncReadResult(p, b) \/ setAsyncWriteResult(p, b) \/ setAsyncCallMethodResult(p, b)

\* An operation is answered or cancelled at most once and never both; the
\* application finds it exactly while the native server waits for it; its
\* record outlives every callback that was given its address and is freed then.
ProducersExact ==
  \A p \in Producers :
    /\ producer[p].outcomes <= 1
    /\ producer[p].native <=> producer_find(p)
    /\ producer[p].listed => producer[p].outcomes = 0
    /\ producer[p].refs > 0 <=> producer[p].listed \/ Frames("notify", p) # {}
    /\ Frames("produce", p) # {} => producer[p].active

-----------------------------------------------------------------------------
(* Local monitored items and reverse connections.                          *)

NoMonitor == [refs |-> 0, listed |-> FALSE, native |-> FALSE]

local_monitor_release(m) == IF m.refs = 1 THEN [NoMonitor EXCEPT !.native = m.native] ELSE [m EXCEPT !.refs = @ - 1]

\* The native item was made; an unconverted result takes it back.
local_monitor_finish(m, converted) ==
  /\ Application
  /\ monitor[m].refs = 0
  /\ monitor' = [monitor EXCEPT ![m] =
       IF converted THEN [refs |-> 1, listed |-> TRUE, native |-> TRUE]
       ELSE local_monitor_release([refs |-> 1, listed |-> FALSE, native |-> FALSE])]
  /\ UNCHANGED <<stack, reverse>>

createDataChangeMonitoredItem(m, converted) == local_monitor_finish(m, converted)
createEventMonitoredItem(m, converted) == local_monitor_finish(m, converted)

Notify(m) ==
  /\ Native(FALSE)
  /\ monitor[m].native
  /\ monitor' = [monitor EXCEPT ![m].refs = @ + 1]
  /\ Push([kind |-> "monitor", id |-> m])
  /\ UNCHANGED reverse

local_data_change(m) == Notify(m)
local_event(m) == Notify(m)

NotifyEnds ==
  /\ Top("monitor")
  /\ monitor' = [monitor EXCEPT ![Last(stack).id] = local_monitor_release(@)]
  /\ Pop
  /\ UNCHANGED reverse

local_monitor_remove(m) ==
  /\ Application
  /\ monitor[m].native
  /\ monitor' = [monitor EXCEPT ![m] = local_monitor_release([@ EXCEPT !.listed = FALSE, !.native = FALSE])]
  /\ UNCHANGED <<stack, reverse>>

NoReverse == [refs |-> 0, detached |-> FALSE, state |-> "closed", native |-> FALSE]

reverse_release(r) == IF r.refs = 1 THEN [NoReverse EXCEPT !.native = r.native] ELSE [r EXCEPT !.refs = @ - 1]

reverse_detach(r) == IF r.detached THEN r ELSE reverse_release([r EXCEPT !.detached = TRUE])

addReverseConnect(r) ==
  /\ Application
  /\ reverse[r].refs = 0
  /\ reverse' = [reverse EXCEPT ![r] = [NoReverse EXCEPT !.refs = 2, !.native = TRUE]]
  /\ Push([kind |-> "register", id |-> r])
  /\ UNCHANGED monitor

\* The native call returns, with a handle or without one.
ReverseAdded(handle) ==
  /\ Top("register")
  /\ LET r == Last(stack).id
         kept == IF handle THEN reverse[r] ELSE reverse_detach([reverse[r] EXCEPT !.native = FALSE])
     IN reverse' = [reverse EXCEPT ![r] = reverse_release(kept)]
  /\ Pop
  /\ UNCHANGED monitor

\* A state change; "closed" is the last one of a connection.
reverse_state(r, state) ==
  /\ Native(Top("register") /\ Last(stack).id = r)
  /\ reverse[r].native
  /\ state = "closed" => reverse[r].state # "closed"
  /\ reverse' = [reverse EXCEPT ![r].refs = @ + 1, ![r].state = state, ![r].native = state # "closed"]
  /\ Push([kind |-> "state", id |-> r, state |-> state])
  /\ UNCHANGED monitor

StateReturns ==
  /\ Top("state")
  /\ LET f == Last(stack)
         r == reverse[f.id]
     IN reverse' = [reverse EXCEPT ![f.id] =
          reverse_release(IF f.state = "closed" THEN reverse_detach(r) ELSE r)]
  /\ Pop
  /\ UNCHANGED monitor


\* The native removal of a connection never opened says nothing more; of
\* another one it ends with "closed".
reverse_removed(r) ==
  /\ Application
  /\ reverse[r].native
  /\ Frames("register", r) = {}
  /\ reverse' = [reverse EXCEPT ![r] =
       IF @.state = "closed" THEN reverse_detach([@ EXCEPT !.native = FALSE]) ELSE @]
  /\ UNCHANGED <<stack, monitor>>

EventNext ==
  \/ NotifyEnds \/ StateReturns
  \/ \E b \in BOOLEAN : ReverseAdded(b)
  \/ \E m \in Monitors, b \in BOOLEAN : createDataChangeMonitoredItem(m, b) \/ createEventMonitoredItem(m, b)
  \/ \E m \in Monitors : local_data_change(m) \/ local_event(m) \/ local_monitor_remove(m)
  \/ \E r \in Reverses : addReverseConnect(r) \/ reverse_removed(r)
  \/ \E r \in Reverses, state \in {"open", "closed"} : reverse_state(r, state)

\* A holder is referenced by its list and by each call frame using it, so a
\* callback that removes its own item or connection does not free what it
\* runs on; the native server never holds a freed one, and none is left over.
HoldersExact ==
  /\ \A m \in Monitors :
       /\ monitor[m].refs = Cardinality(Frames("monitor", m)) + (IF monitor[m].listed THEN 1 ELSE 0)
       /\ monitor[m].native <=> monitor[m].listed
  /\ \A r \in Reverses :
       /\ reverse[r].native => reverse[r].refs > 0 /\ ~reverse[r].detached
       /\ reverse[r].refs = Cardinality(Frames("register", r)) + Cardinality(Frames("state", r))
                              + (IF reverse[r].refs > 0 /\ ~reverse[r].detached THEN 1 ELSE 0)
       /\ stack = <<>> /\ reverse[r].refs > 0 => reverse[r].native

-----------------------------------------------------------------------------
(* Dispatch records of nodes.  slots[n]: the record the native node's      *)
(* callback slots were filled from, "absent" without a native node, None   *)
(* for a node without slots.  The creations in progress are the "create"   *)
(* frames of the stack.                                                    *)

nodes_release(count, e) == [count EXCEPT ![e] = @ - 1]

\* The creation, innermost first, or the entry a dispatch for n meets.
nodes_acquire(n) ==
  LET open == {i \in DOMAIN stack : /\ stack[i].kind = "create" /\ stack[i].node = n
                                    /\ stack[i].made /\ ~stack[i].superseded}
  IN IF open # {} THEN stack[CHOOSE i \in open : \A j \in open : j <= i].id ELSE entries[n]

Superseded(frames, n) ==
  [i \in DOMAIN frames |->
     IF frames[i].kind = "create" /\ frames[i].node = n THEN [frames[i] EXCEPT !.superseded = TRUE]
     ELSE frames[i]]


nodes_commit(frames, count, n, e) ==
  /\ stack' = Superseded(frames, n)
  /\ entries' = [entries EXCEPT ![n] = e]
  /\ refs' = IF entries[n] = None THEN count ELSE nodes_release(count, entries[n])

\* nodes_stage, the native installation and the commit or release.
Install(n, e, good) ==
  /\ Application
  /\ slots[n] # "absent" /\ refs[e] = 0
  /\ IF good
     THEN /\ slots' = [slots EXCEPT ![n] = e]
          /\ nodes_commit(stack, [refs EXCEPT ![e] = 1], n, e)
     ELSE UNCHANGED node_vars

setVariableNode_callbackValueSource(n, e, good) == Install(n, e, good)
setVariableNode_externalValueSource(n, e, good) == Install(n, e, good)
setVariableNode_internalValueSource(n, e, good) == Install(n, e, good)
setMethodNodeCallback(n, e, good) == Install(n, e, good)
setNodeTypeLifecycle(n, e, good) == Install(n, e, good)

creation_begin(n, e) ==
  /\ Application
  /\ refs[e] = 0
  /\ refs' = [refs EXCEPT ![e] = 1]
  /\ Push([kind |-> "create", id |-> e, node |-> n, made |-> FALSE, superseded |-> FALSE])
  /\ UNCHANGED <<slots, entries>>

\* The native node appears, before its constructors run.
NativeCreates ==
  /\ Top("create") /\ ~Last(stack).made
  /\ LET f == Last(stack)
     IN /\ slots[f.node] = "absent"
        /\ slots' = [slots EXCEPT ![f.node] = f.id]
        /\ stack' = Append(Front(stack), [f EXCEPT !.made = TRUE])
  /\ UNCHANGED <<entries, refs>>

\* Native deletion by the application, by creation_rollback, or by a failing
\* native creation.
DeleteNode(n) ==
  /\ Application \/ (Top("create") /\ Last(stack).node = n /\ Last(stack).made)
  /\ slots[n] # "absent"
  /\ slots' = [slots EXCEPT ![n] = "absent"]
  /\ UNCHANGED <<stack, entries, refs>>

creation_end ==
  /\ Top("create")
  /\ LET f == Last(stack)
     IN IF ~f.superseded /\ f.made /\ slots[f.node] # "absent"
        THEN nodes_commit(Front(stack), refs, f.node, f.id)
        ELSE Pop /\ refs' = nodes_release(refs, f.id) /\ UNCHANGED entries
  /\ UNCHANGED slots

\* A native callback on n, from the loop or a constructor.
Dispatch(n) ==
  /\ Native(Top("create") /\ Last(stack).made /\ Last(stack).node = n)
  /\ slots[n] \in Records
  /\ LET e == nodes_acquire(n)
     IN /\ e # None
        /\ refs' = [refs EXCEPT ![e] = @ + 1]
        /\ Push([kind |-> "dispatch", id |-> e, slots |-> slots[n]])
  /\ UNCHANGED <<slots, entries>>

DispatchReturns ==
  /\ Top("dispatch")
  /\ refs' = nodes_release(refs, Last(stack).id)
  /\ Pop
  /\ UNCHANGED <<slots, entries>>

NodeNext ==
  \/ NativeCreates \/ creation_end \/ DispatchReturns
  \/ \E n \in Nodes : Dispatch(n) \/ DeleteNode(n)
  \/ \E n \in Nodes, e \in Records :
       \/ creation_begin(n, e)
       \/ \E good \in BOOLEAN :
            \/ setVariableNode_callbackValueSource(n, e, good)
            \/ setVariableNode_externalValueSource(n, e, good)
            \/ setVariableNode_internalValueSource(n, e, good)
            \/ setMethodNodeCallback(n, e, good) \/ setNodeTypeLifecycle(n, e, good)

\* A callback is dispatched with the very record its native slots were filled
\* from, also while the node is being created, replaced or deleted from its
\* own constructor; every reference of a record has a holder.
RecordsExact ==
  /\ \A i \in DOMAIN stack : stack[i].kind = "dispatch" => stack[i].id = stack[i].slots
  /\ \A n \in Nodes : slots[n] \in Records => nodes_acquire(n) = slots[n]
  /\ \A e \in Records :
       refs[e] = Cardinality(Frames("create", e)) + Cardinality(Frames("dispatch", e))
                   + Cardinality({n \in Nodes : entries[n] = e})

-----------------------------------------------------------------------------
Init ==
  /\ stack = <<>>
  /\ timer = [t \in Timers |-> NoTimer]
  /\ operation = [a \in Operations |-> NoOperation]
  /\ typed_asyncs = <<>>
  /\ producer = [p \in Producers |-> NoProducer]
  /\ monitor = [m \in Monitors |-> NoMonitor]
  /\ reverse = [r \in Reverses |-> NoReverse]
  /\ slots = [n \in Nodes |-> "absent"]
  /\ entries = [n \in Nodes |-> None]
  /\ refs = [e \in Records |-> 0]

\* The records of the five kinds are independent: each kind moves on its own.
TimersMove == TimerNext
  /\ UNCHANGED <<operation, typed_asyncs, producer, monitor, reverse, slots, entries, refs>>
AsyncsMove == AsyncNext /\ UNCHANGED <<timer, producer, monitor, reverse, slots, entries, refs>>
ProducersMove == ProducerNext
  /\ UNCHANGED <<timer, operation, typed_asyncs, monitor, reverse, slots, entries, refs>>
EventsMove == EventNext
  /\ UNCHANGED <<timer, operation, typed_asyncs, producer, slots, entries, refs>>
NodesMove == NodeNext /\ UNCHANGED <<timer, operation, typed_asyncs, producer, monitor, reverse>>

CallbacksExact == TimersExact /\ AsyncsExact /\ ProducersExact /\ HoldersExact /\ RecordsExact
=============================================================================
