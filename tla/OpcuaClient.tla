----------------------------- MODULE OpcuaClient -----------------------------
(***************************************************************************)
(* The bridge records of an OPC UA client: one per timer and one per       *)
(* asynchronous request.  The native client owns the schedule and the      *)
(* requests and hands the record back as userdata of each callback.        *)
(*                                                                         *)
(* Callbacks run while the client iterates and while it is destroyed.  They*)
(* may add, change and remove timers, their own included, and submit       *)
(* requests; they may not destroy the client or iterate it again.          *)
(***************************************************************************)
EXTENDS Integers, FiniteSets

CONSTANTS Timers, Requests, None,
          External   \* whether the event loop outlives the client

ASSUME ClientAssumption ==
  /\ Timers \cap Requests = {} /\ None \notin Timers \cup Requests
  /\ External \in BOOLEAN

VARIABLES phase,      \* idle, iterating, deleting, clearing, gone
          running,    \* the timer or request whose callback runs
          timer,      \* the bridge record of each timer
          scheduled,  \* the timers the native loop holds
          listed,     \* client->typed_timers
          request,    \* what the native client did with each request
          context,    \* the requests whose bridge record is allocated
          asyncs      \* client->asyncs

vars == <<phase, running, timer, scheduled, listed, request, context, asyncs>>

timerVars == <<timer, scheduled, listed>>
requestVars == <<request, context, asyncs>>

NoTimer == [references |-> 0, repeated |-> FALSE, removed |-> FALSE]

TypeOK ==
  /\ phase \in {"idle", "iterating", "deleting", "clearing", "gone"}
  /\ running \in Timers \cup Requests \cup {None}
  /\ timer \in [Timers -> [references : 0..2, repeated : BOOLEAN, removed : BOOLEAN]]
  /\ scheduled \subseteq Timers /\ listed \subseteq Timers
  /\ request \in [Requests -> {"none", "submitting", "accepted", "completed", "refused"}]
  /\ context \subseteq Requests /\ asyncs \subseteq Requests

Init ==
  /\ phase = "idle" /\ running = None
  /\ timer = [t \in Timers |-> NoTimer] /\ scheduled = {} /\ listed = {}
  /\ request = [r \in Requests |-> "none"] /\ context = {} /\ asyncs = {}

\* A timer's record is allocated while it has references.
Allocated(t) == timer[t].references > 0

\* A submitting call has not returned.
Submitting == \E r \in Requests : request[r] = "submitting"

\* The application runs between calls and inside callbacks, while the client
\* has its native client, and makes one call at a time.
Application ==
  /\ phase = "idle" \/ (running # None /\ phase \in {"iterating", "deleting"})
  /\ ~Submitting

\* The loop runs while the client iterates or is deleted; others may run an
\* external loop at any time between the client's own calls.
LoopRuns ==
  /\ phase \in {"iterating", "deleting"} \cup (IF External THEN {"idle", "gone"} ELSE {})
  /\ running = None
  /\ ~Submitting

(***************************************************************************)
(* Timers.                                                                 *)
(***************************************************************************)
\* A timer the native loop refuses, or whose record cannot be allocated, leaves
\* no trace.  A record is not reused while its callback runs.
timer_add(t, repeated) ==
  /\ Application /\ ~Allocated(t)
  /\ timer' = [timer EXCEPT ![t] = [references |-> 1, repeated |-> repeated,
                                    removed |-> FALSE]]
  /\ scheduled' = scheduled \cup {t} /\ listed' = listed \cup {t}
  /\ UNCHANGED <<phase, running, requestVars>>

\* The native loop still has the timer; a one-shot becomes repeated.
changeRepeatedCallbackInterval(t) ==
  /\ Application /\ t \in scheduled
  /\ timer' = IF t \in listed /\ ~timer[t].removed
              THEN [timer EXCEPT ![t].repeated = TRUE] ELSE timer
  /\ UNCHANGED <<phase, running, scheduled, listed, requestVars>>

\* Drop one reference of t in f, and the record with the last one.
timer_unref(t, f) ==
  LET left == f[t].references - 1 IN
    /\ timer' = [f EXCEPT ![t] = IF left = 0 THEN NoTimer ELSE [@ EXCEPT !.references = left]]
    /\ listed' = IF left = 0 THEN listed \ {t} ELSE listed

\* removeCallback with a fault: it leaves the native timer for later.
removeCallback_Deferred(t) ==
  /\ Application
  /\ t \in listed /\ ~timer[t].removed
  /\ timer' = [timer EXCEPT ![t].removed = TRUE]
  /\ UNCHANGED <<phase, running, scheduled, listed, requestVars>>

removeCallback(t) ==
  /\ Application
  /\ t \in listed /\ ~timer[t].removed
  /\ scheduled' = scheduled \ {t}
  /\ timer_unref(t, [timer EXCEPT ![t].removed = TRUE])
  /\ UNCHANGED <<phase, running, requestVars>>

\* The native loop drops a one-shot timer before or after its callback.
timer_invoke(t) ==
  /\ LoopRuns /\ t \in scheduled
  /\ running' = t
  /\ \/ scheduled' = scheduled
     \/ ~timer[t].repeated /\ scheduled' = scheduled \ {t}
  /\ timer' = [timer EXCEPT ![t].references = @ + 1]
  /\ UNCHANGED <<phase, listed, requestVars>>

\* Mutated form: whether or not it was removed.
AfterOnce_Twice(t) ==
  IF ~timer[t].repeated
  THEN [timer EXCEPT ![t].removed = TRUE, ![t].references = @ - 1]
  ELSE timer

\* A one-shot that nobody removed also gives up the reference of the schedule.
AfterOnce(t) ==
  IF ~timer[t].repeated /\ ~timer[t].removed
  THEN [timer EXCEPT ![t].removed = TRUE, ![t].references = @ - 1]
  ELSE timer

TimerReturns ==
  /\ running \in Timers /\ ~Submitting
  /\ timer_unref(running, AfterOnce(running))
  /\ scheduled' = IF timer[running].repeated THEN scheduled ELSE scheduled \ {running}
  /\ running' = None
  /\ UNCHANGED <<phase, requestVars>>

(***************************************************************************)
(* Asynchronous requests.  The record is linked before the native client   *)
(* takes or refuses the request; a refused request never calls back.       *)
(***************************************************************************)
async_link(r) ==
  /\ context' = context \cup {r}
  /\ asyncs' = asyncs \cup {r}

async_finish(r) ==
  /\ asyncs' = asyncs \ {r}
  /\ context' = context \ {r}

submit_async(r) ==
  /\ Application /\ request[r] = "none"
  /\ request' = [request EXCEPT ![r] = "submitting"]
  /\ async_link(r)
  /\ UNCHANGED <<phase, running, timerVars>>

SubmitAccepted(r) ==
  /\ request[r] = "submitting"
  /\ request' = [request EXCEPT ![r] = "accepted"]
  /\ UNCHANGED <<phase, running, context, asyncs, timerVars>>

SubmitRefused(r) ==
  /\ request[r] = "submitting"
  /\ request' = [request EXCEPT ![r] = "refused"]
  /\ async_finish(r)
  /\ UNCHANGED <<phase, running, timerVars>>

\* The native client completes a request: an answer, a timeout, a lost
\* connection or the end of the client.
async_callback(r) ==
  /\ phase \in {"iterating", "deleting"} /\ LoopRuns
  /\ request[r] = "accepted"
  /\ request' = [request EXCEPT ![r] = "completed"]
  /\ running' = r
  /\ UNCHANGED <<phase, context, asyncs, timerVars>>

AsyncReturns ==
  /\ running \in Requests /\ ~Submitting
  /\ async_finish(running)
  /\ running' = None
  /\ UNCHANGED <<phase, request, timerVars>>

(***************************************************************************)
(* Iteration and destruction.                                              *)
(***************************************************************************)
run_iterate ==
  /\ Application /\ phase = "idle" /\ running = None
  /\ phase' = "iterating"
  /\ UNCHANGED <<running, timerVars, requestVars>>

IterateReturns ==
  /\ phase = "iterating" /\ running = None
  /\ phase' = "idle"
  /\ UNCHANGED <<running, timerVars, requestVars>>

client_free ==
  /\ Application /\ phase = "idle" /\ running = None
  /\ phase' = "deleting"
  /\ UNCHANGED <<running, timerVars, requestVars>>

\* UA_Client_delete has completed the requests and drops the loop it owns.
NativeDeleted ==
  /\ phase = "deleting" /\ running = None
  /\ \A r \in Requests : request[r] # "accepted"
  /\ phase' = "clearing"
  /\ scheduled' = IF External THEN scheduled ELSE {}
  /\ UNCHANGED <<running, timer, listed, requestVars>>

client_callbacks_clear ==
  /\ scheduled' = scheduled \ listed
  /\ timer' = [t \in Timers |-> IF t \in listed THEN NoTimer ELSE timer[t]]
  /\ listed' = {}

FreeRest ==
  /\ phase = "clearing"
  /\ phase' = "gone"
  /\ client_callbacks_clear
  /\ context' = context \ asyncs /\ asyncs' = {}
  /\ UNCHANGED <<running, request>>

Next ==
  \/ \E t \in Timers, repeated \in BOOLEAN : timer_add(t, repeated)
  \/ \E t \in Timers : \/ changeRepeatedCallbackInterval(t)
                       \/ removeCallback(t)
                       \/ timer_invoke(t)
  \/ TimerReturns
  \/ \E r \in Requests : \/ submit_async(r) \/ SubmitAccepted(r)
                         \/ SubmitRefused(r) \/ async_callback(r)
  \/ AsyncReturns
  \/ run_iterate \/ IterateReturns
  \/ client_free \/ NativeDeleted \/ FreeRest

Spec == Init /\ [][Next]_vars

(***************************************************************************)
(* Properties.                                                             *)
(***************************************************************************)
\* The record of every timer the native loop may still fire, and of the timer
\* whose callback runs, is allocated: whatever the callback removed, and after
\* the client is gone while an external loop runs on (cpkt_client_timer_invoke
\* dereferences its userdata before and after the application's callback).
TimerRecordLives ==
  /\ \A t \in scheduled : Allocated(t)
  /\ running \in Timers => Allocated(running)

\* Between calls the client keeps exactly the records of the timers that are
\* scheduled: a one-shot that fired, one that its own callback removed and one
\* that was made repeated in time all end with the right record freed or kept.
TimerRecordExact ==
  phase \in {"idle", "gone"} /\ running = None =>
    /\ {t \in Timers : Allocated(t)} = scheduled
    /\ listed = scheduled

\* The client's list has every allocated request record and no freed one (what
\* is left on it is freed with the client), and a request keeps its record from
\* submission until its one callback has returned or it was refused.
AsyncRecordLives ==
  /\ asyncs = context
  /\ context = {r \in Requests : request[r] \in {"submitting", "accepted"}
                                   \/ running = r}

\* The records behind a client's callbacks: a timer the native loop may fire, or
\* whose callback runs, has its record, also after the client is gone, and between
\* calls there are no other records; a request keeps its record until its one
\* callback returned (cpkt_client_timer_invoke, cpkt_client_async_finish).
ClientRecordsExact == TypeOK /\ TimerRecordLives /\ TimerRecordExact /\ AsyncRecordLives

\* The callback of a timer starts only while the timer is scheduled and not
\* removed, and never once the client is gone.
TimerInTime ==
  running' \in Timers /\ running' # running => phase # "gone" /\ ~timer[running'].removed
NoLateTimer == [][TimerInTime]_vars
==============================================================================
