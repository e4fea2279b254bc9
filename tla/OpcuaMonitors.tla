---------------------------- MODULE OpcuaMonitors ----------------------------
(***************************************************************************)
(* The bridge records of subscriptions and monitored items of a client.    *)
(* The native client keeps a record as the context of the item and returns *)
(* it with every notification and, at last, with the deletion callback.    *)
(* The creating call keeps a reference of its own until it has the answer. *)
(*                                                                         *)
(* A "subscription" or "monitor" record is counted; the "plain" record of  *)
(* cpkt_opcua_client_monitor_value and its siblings is not.                *)
(*                                                                         *)
(* The native client answers a creation inside the creating call or, for   *)
(* an asynchronous one, in a later iteration.  It may call the deletion    *)
(* callback of an item it refuses (the constant EarlyDelete says for which *)
(* kinds of record that is explored).                                      *)
(***************************************************************************)
EXTENDS Integers, Sequences, SequencesExt, FiniteSets

CONSTANTS Items, None,
          MaxNest,       \* bound on nested calls and callbacks
          EarlyDelete    \* kinds of record explored with that callback

Kinds == {"subscription", "monitor", "plain"}
Frames == [call : {"create", "answered", "async_answered", "completion", "notify", "deleted"},
           item : Items]
          \cup [call : {"iterate", "free", "finished"}, item : {None}]

VARIABLES record,   \* kind, references and deleted flag of each record
          frees,    \* how often each record was freed
          native,   \* the item in the native client
          pending,  \* items whose asynchronous creation is not answered
          listed,   \* client->monitors, for plain records
          alive,    \* whether the client exists
          stack     \* the calls and callbacks in progress, innermost first

vars == <<record, frees, native, pending, listed, alive, stack>>

Unused == [kind |-> "monitor", references |-> 0, deleted |-> FALSE]

TypeOK ==
  /\ record \in [Items -> [kind : Kinds, references : 0..4, deleted : BOOLEAN]]
  /\ frees \in [Items -> 0..2]
  /\ native \in [Items -> {"none", "asked", "live", "refused", "gone"}]
  /\ pending \subseteq Items /\ listed \subseteq Items
  /\ alive \in BOOLEAN
  /\ stack \in Seq(Frames) /\ Len(stack) <= MaxNest

Init ==
  /\ record = [i \in Items |-> Unused] /\ frees = [i \in Items |-> 0]
  /\ native = [i \in Items |-> "none"]
  /\ pending = {} /\ listed = {} /\ alive = TRUE /\ stack = <<>>

Frame(call, i) == [call |-> call, item |-> i]
Top == IF stack = <<>> THEN Frame("idle", None) ELSE Head(stack)
Push(call, i) == Len(stack) < MaxNest /\ stack' = <<Frame(call, i)>> \o stack
Pop == stack' = Tail(stack)

Counted(i) == record[i].kind # "plain"
Allocated(i) == native[i] # "none" /\ frees[i] = 0

\* The application runs between calls and in the callbacks it was given.
Application ==
  alive /\ Top.call \in {"idle", "completion", "finished", "notify", "deleted"}

\* The native loop runs in an iteration, in a synchronous call that waits for
\* its answer and while the client is deleted.
LoopRuns == Top.call \in {"iterate", "create", "free"}

\* A synchronous call cannot run the loop again.
Outermost == alive /\ stack = <<>>

(***************************************************************************)
(* References.                                                             *)
(***************************************************************************)
\* n references of i are dropped; the last one frees the record.
unref(i, n, rec) ==
  /\ record' = [rec EXCEPT ![i].references = @ - n]
  /\ frees' = [frees EXCEPT ![i] = @ + (IF rec[i].references = n THEN 1 ELSE 0)]

context_free(i) ==
  /\ frees' = [frees EXCEPT ![i] = @ + 1]
  /\ UNCHANGED record

(***************************************************************************)
(* Creation.                                                               *)
(***************************************************************************)
\* Two references: the native lifetime and the pending creator.
NewRecord(i, kind) ==
  /\ native[i] = "none"
  /\ record' = [record EXCEPT ![i] =
       [kind |-> kind, deleted |-> FALSE,
        references |-> IF kind = "plain" THEN 0 ELSE 2]]
  /\ native' = [native EXCEPT ![i] = "asked"]

create(i, kind) ==
  /\ Outermost
  /\ NewRecord(i, kind)
  /\ Push("create", i)
  /\ UNCHANGED <<frees, pending, listed, alive>>

create_async(i, kind) ==
  /\ Application /\ kind # "plain"
  /\ NewRecord(i, kind)
  /\ pending' = pending \cup {i}
  /\ UNCHANGED <<frees, listed, alive, stack>>

\* The native client refused to send the request: both references go.
create_async_fails(i, kind) ==
  /\ Application /\ kind # "plain" /\ native[i] = "none"
  /\ native' = [native EXCEPT ![i] = "refused"]
  /\ unref(i, 2, [record EXCEPT ![i] = [kind |-> kind, deleted |-> TRUE, references |-> 2]])
  /\ UNCHANGED <<pending, listed, alive, stack>>

\* What the creator does once it has the answer: it drops the reference of an
\* item that does not exist, unless the deletion callback did, and its own.
finish(i) ==
  IF native[i] = "refused" /\ ~record[i].deleted
  THEN unref(i, 2, [record EXCEPT ![i].deleted = TRUE])
  ELSE unref(i, 1, record)

finish_plain(i) ==
  IF native[i] = "refused"
  THEN context_free(i) /\ UNCHANGED listed
  ELSE listed' = listed \cup {i} /\ UNCHANGED <<record, frees>>

\* The native client's answer to the creation of item i: it creates the item,
\* or refuses it, with or without a call of the deletion callback.  The frames
\* in "then" go on.
Accept(i, then) ==
  /\ native' = [native EXCEPT ![i] = "live"]
  /\ stack' = then
  /\ UNCHANGED <<record, frees>>

Refuse(i, then) ==
  /\ native' = [native EXCEPT ![i] = "refused"]
  /\ stack' = then
  /\ UNCHANGED <<record, frees>>

RefuseDeleting(i, then) ==
  /\ record[i].kind \in EarlyDelete
  /\ native' = [native EXCEPT ![i] = "refused"]
  /\ \/ /\ Counted(i) /\ Len(then) < MaxNest
        /\ record' = [record EXCEPT ![i].deleted = TRUE]
        /\ stack' = <<Frame("deleted", i)>> \o then
        /\ UNCHANGED frees
     \/ /\ ~Counted(i)
        /\ context_free(i)
        /\ stack' = then

CreateAnswered ==
  /\ Top.call = "create"
  /\ LET i == Top.item
         then == [stack EXCEPT ![1].call = "answered"]
     IN Accept(i, then) \/ Refuse(i, then) \/ RefuseDeleting(i, then)
  /\ UNCHANGED <<pending, listed, alive>>

CreateReturns ==
  /\ Top.call = "answered"
  /\ LET i == Top.item IN
       IF Counted(i) THEN finish(i) /\ UNCHANGED listed ELSE finish_plain(i)
  /\ Pop
  /\ UNCHANGED <<native, pending, alive>>

\* The answer of an asynchronous creation.  The creator of a monitored item
\* finishes before the application's completion runs, that of a subscription
\* after it, for the completion may delete the subscription.  The destruction
\* of the client refuses what is pending.
AsyncAnswered(i) ==
  /\ LoopRuns /\ i \in pending /\ Len(stack) < MaxNest
  /\ pending' = pending \ {i}
  /\ LET call == IF record[i].kind = "subscription" THEN "completion" ELSE "async_answered"
         then == <<Frame(call, i)>> \o stack
     IN \/ Top.call # "free" /\ Accept(i, then)
        \/ Refuse(i, then)
        \/ RefuseDeleting(i, then)
  /\ UNCHANGED <<listed, alive>>

MonitorAnswered ==
  /\ Top.call = "async_answered"
  /\ finish(Top.item)
  /\ stack' = <<Frame("finished", None)>> \o Tail(stack)
  /\ UNCHANGED <<native, pending, listed, alive>>

SubscriptionCompleted ==
  /\ Top.call = "completion"
  /\ finish(Top.item)
  /\ Pop
  /\ UNCHANGED <<native, pending, listed, alive>>

MonitorCompleted ==
  /\ Top.call = "finished"
  /\ Pop
  /\ UNCHANGED <<record, frees, native, pending, listed, alive>>

(***************************************************************************)
(* Notifications and deletion.                                             *)
(***************************************************************************)
\* notify with a fault: the callback runs on a borrowed record.
notify_Borrows(i) ==
  /\ LoopRuns /\ native[i] = "live"
  /\ Push("notify", i)
  /\ UNCHANGED <<record, frees, native, pending, listed, alive>>

notify(i) ==
  /\ LoopRuns /\ native[i] = "live"
  /\ record' = IF Counted(i) THEN [record EXCEPT ![i].references = @ + 1] ELSE record
  /\ Push("notify", i)
  /\ UNCHANGED <<frees, native, pending, listed, alive>>

NotifyReturns ==
  /\ Top.call = "notify"
  /\ IF Counted(Top.item) THEN unref(Top.item, 1, record) ELSE UNCHANGED <<record, frees>>
  /\ Pop
  /\ UNCHANGED <<native, pending, listed, alive>>

\* The native client deletes an item: at the application's request, with its
\* subscription or with the client.
deleted(i) ==
  /\ Counted(i) /\ native[i] = "live"
  /\ LoopRuns \/ Application
  /\ native' = [native EXCEPT ![i] = "gone"]
  /\ record' = [record EXCEPT ![i].deleted = TRUE]
  /\ Push("deleted", i)
  /\ UNCHANGED <<frees, pending, listed, alive>>

DeletedReturns ==
  /\ Top.call = "deleted"
  /\ unref(Top.item, 1, record)
  /\ Pop
  /\ UNCHANGED <<native, pending, listed, alive>>

\* The plain record goes at once; a plain item is not deleted while its own
\* notification runs, for synchronous calls are refused there.
delete_monitored_item_callback(i) ==
  /\ ~Counted(i) /\ native[i] = "live"
  /\ LoopRuns \/ Outermost
  /\ native' = [native EXCEPT ![i] = "gone"]
  /\ listed' = listed \ {i}
  /\ context_free(i)
  /\ UNCHANGED <<pending, alive, stack>>

(***************************************************************************)
(* Iteration and destruction.                                              *)
(***************************************************************************)
run_iterate ==
  /\ Outermost
  /\ Push("iterate", None)
  /\ UNCHANGED <<record, frees, native, pending, listed, alive>>

IterateReturns ==
  /\ Top.call = "iterate"
  /\ Pop
  /\ UNCHANGED <<record, frees, native, pending, listed, alive>>

client_free ==
  /\ Outermost
  /\ Push("free", None)
  /\ UNCHANGED <<record, frees, native, pending, listed, alive>>

\* UA_Client_delete has deleted all items; what is still listed is freed.
FreeReturns ==
  /\ Top.call = "free"
  /\ pending = {} /\ \A i \in Items : native[i] # "live"
  /\ alive' = FALSE
  /\ frees' = [i \in Items |-> frees[i] + (IF i \in listed THEN 1 ELSE 0)]
  /\ listed' = {}
  /\ Pop
  /\ UNCHANGED <<record, native, pending>>

Next ==
  \/ \E i \in Items, kind \in Kinds :
       create(i, kind) \/ create_async(i, kind) \/ create_async_fails(i, kind)
  \/ \E i \in Items : \/ AsyncAnswered(i) \/ notify(i) \/ deleted(i)
                      \/ delete_monitored_item_callback(i)
  \/ CreateAnswered \/ CreateReturns
  \/ MonitorAnswered \/ SubscriptionCompleted \/ MonitorCompleted
  \/ NotifyReturns \/ DeletedReturns
  \/ run_iterate \/ IterateReturns \/ client_free \/ FreeReturns

Spec == Init /\ [][Next]_vars

(***************************************************************************)
(* Properties.                                                             *)
(***************************************************************************)
\* The native client and every running callback and creating call hold a record
\* that is allocated, whatever the callbacks inside them deleted.
RecordOutlivesUse ==
  /\ \A i \in Items : native[i] \in {"asked", "live"} => Allocated(i)
  /\ \A n \in DOMAIN stack : stack[n].item # None => Allocated(stack[n].item)

\* No record is freed twice: by the creator of a refused item and the deletion
\* callback, or by a callback and the destruction of the client.
FreedOnce == \A i \in Items : frees[i] <= 1

\* References are counted for the native item, the pending creator and each
\* running callback, and for nothing else.
ReferencesExact ==
  \A i \in Items : Counted(i) /\ native[i] # "none" =>
    record[i].references =
      (IF native[i] \in {"asked", "live", "refused"} /\ ~record[i].deleted THEN 1 ELSE 0)
      + (IF i \in pending THEN 1 ELSE 0)
      + Cardinality({n \in DOMAIN stack : stack[n].item = i})

\* A client that is gone has left no record behind, although it frees only the
\* plain ones that are still listed: native deletion returns all others.
NothingLeft ==
  ~alive => \A i \in Items : native[i] # "none" => frees[i] = 1
==============================================================================
