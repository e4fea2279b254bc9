-------------------------- MODULE OpcuaClientProofs --------------------------
(***************************************************************************)
(* The bridge records of an OPC UA client, for any number of timers and    *)
(* requests, on a loop of its own and on one that outlives it.             *)
(***************************************************************************)
EXTENDS OpcuaClient, TLAPS

\* The record of a timer whose callback does not run has the one reference of the
\* schedule; the callback holds a second one, and a removal gives the first back.
TimerInv(t) ==
  /\ t \in listed <=> Allocated(t)
  /\ ~Allocated(t) => timer[t] = NoTimer /\ t \notin scheduled
  /\ t # running /\ Allocated(t) =>
       /\ timer[t].references = 1 /\ ~timer[t].removed
       /\ phase # "clearing" => t \in scheduled
  /\ t = running =>
       /\ timer[t].references = IF timer[t].removed THEN 1 ELSE 2
       /\ t \in scheduled => ~timer[t].removed
       /\ timer[t].repeated /\ ~timer[t].removed => t \in scheduled

\* The record of a request exists from submission to the end of its callback.
RequestInv(r) ==
  /\ r \in context <=> request[r] \in {"submitting", "accepted"} \/ running = r
  /\ running = r => request[r] = "completed"
  /\ request[r] = "submitting" => phase = "idle" \/ running # None
  /\ phase \in {"clearing", "gone"} => request[r] \notin {"submitting", "accepted"}

\* The inductive invariant.
IInv ==
  /\ TypeOK
  /\ asyncs = context
  /\ phase \in {"clearing", "gone"} => running = None
  /\ running \in Requests => phase \in {"iterating", "deleting"}
  /\ phase = "gone" => listed = {}
  /\ \A t \in Timers : TimerInv(t)
  /\ \A r \in Requests : RequestInv(r)

\* A fresh client has no records.
LEMMA Initially == Init => IInv
BY ClientAssumption DEF Init, IInv, TypeOK, NoTimer, TimerInv, RequestInv, Allocated

\* A timer that a step does not touch keeps its invariant.
LEMMA TimerKept ==
  ASSUME NEW u \in Timers, TimerInv(u),
         timer'[u] = timer[u], u \in scheduled' <=> u \in scheduled,
         u \in listed' <=> u \in listed, running' = u <=> running = u,
         phase' = phase \/ "clearing" \notin {phase, phase'}
  PROVE  TimerInv(u)'
BY DEF TimerInv, Allocated

\* So does a request.
LEMMA RequestKept ==
  ASSUME NEW r \in Requests, RequestInv(r), UNCHANGED <<request, context, phase>>,
         running' = r <=> running = r,
         running = None => request[r] # "submitting" \/ phase = "idle",
         running' = None => request[r] # "submitting" \/ phase = "idle"
  PROVE  RequestInv(r)'
BY DEF RequestInv

\* A new timer has the reference of the schedule.
LEMMA timer_addStep == ASSUME IInv, NEW t \in Timers, NEW repeated \in BOOLEAN, timer_add(t, repeated) PROVE IInv'
<1> USE DEF IInv
<1>1. TypeOK'
  BY DEF timer_add, Application, TypeOK, NoTimer, TimerInv, Allocated, requestVars
<1>2. ASSUME NEW u \in Timers, u # t PROVE TimerInv(u)'
  BY <1>2, TimerKept, ClientAssumption DEF timer_add, Application, TypeOK
<1>3. TimerInv(t)'
  BY ClientAssumption DEF timer_add, Application, TypeOK, NoTimer, TimerInv, Allocated
<1>4. ASSUME NEW r \in Requests PROVE RequestInv(r)'
  BY RequestKept, ClientAssumption DEF timer_add, Application, requestVars, Submitting, RequestInv
<1> QED BY <1>1, <1>2, <1>3, <1>4, ClientAssumption DEF timer_add, Application, requestVars, TimerInv, Allocated, TypeOK

\* A change needs a timer the loop has.
LEMMA changeRepeatedCallbackIntervalStep == ASSUME IInv, NEW t \in Timers, changeRepeatedCallbackInterval(t) PROVE IInv'
<1> USE DEF IInv
<1>1. TypeOK'
  BY ZenonT(60) DEF changeRepeatedCallbackInterval, Application, TypeOK, NoTimer, TimerInv, Allocated, requestVars
<1>2. ASSUME NEW u \in Timers, u # t PROVE TimerInv(u)'
  BY <1>2, TimerKept, ClientAssumption DEF changeRepeatedCallbackInterval, Application, TypeOK
<1>3. TimerInv(t)'
  BY ClientAssumption DEF changeRepeatedCallbackInterval, Application, TypeOK, NoTimer, TimerInv, Allocated
<1>4. ASSUME NEW r \in Requests PROVE RequestInv(r)'
  BY RequestKept, ClientAssumption DEF changeRepeatedCallbackInterval, Application, requestVars, Submitting, RequestInv
<1> QED BY <1>1, <1>2, <1>3, <1>4, ClientAssumption DEF changeRepeatedCallbackInterval, Application, requestVars, TimerInv, Allocated, TypeOK

\* A removal takes the timer from the loop with its reference.
LEMMA removeCallbackStep == ASSUME IInv, NEW t \in Timers, removeCallback(t) PROVE IInv'
<1> USE DEF IInv
<1>1. TypeOK'
  BY DEF removeCallback, Application, timer_unref, TypeOK, NoTimer, TimerInv, Allocated, requestVars
<1>2. ASSUME NEW u \in Timers, u # t PROVE TimerInv(u)'
  BY <1>2, TimerKept, ClientAssumption DEF removeCallback, Application, timer_unref, TypeOK
<1>3. TimerInv(t)'
  BY ClientAssumption DEF removeCallback, Application, timer_unref, TypeOK, NoTimer, TimerInv, Allocated
<1>4. ASSUME NEW r \in Requests PROVE RequestInv(r)'
  BY RequestKept, ClientAssumption DEF removeCallback, Application, timer_unref, requestVars, Submitting, RequestInv
<1> QED BY <1>1, <1>2, <1>3, <1>4, ClientAssumption DEF removeCallback, Application, timer_unref, requestVars, TimerInv, Allocated, TypeOK

\* A callback takes a reference of its own.
LEMMA timer_invokeStep == ASSUME IInv, NEW t \in Timers, timer_invoke(t) PROVE IInv'
<1> USE DEF IInv
<1>1. TypeOK'
  BY ClientAssumption DEF timer_invoke, LoopRuns, TypeOK, NoTimer, TimerInv, Allocated, requestVars
<1>2. ASSUME NEW u \in Timers, u # t PROVE TimerInv(u)'
  BY <1>2, TimerKept, ClientAssumption DEF timer_invoke, LoopRuns, TypeOK
<1>3. TimerInv(t)'
  BY ClientAssumption DEF timer_invoke, LoopRuns, TypeOK, NoTimer, TimerInv, Allocated
<1>4. ASSUME NEW r \in Requests PROVE RequestInv(r)'
  BY RequestKept, ClientAssumption DEF timer_invoke, LoopRuns, requestVars, Submitting, RequestInv
<1> QED BY <1>1, <1>2, <1>3, <1>4, ClientAssumption DEF timer_invoke, LoopRuns, requestVars, TimerInv, Allocated, TypeOK

\* A callback that returns drops its reference, and a one-shot the schedule's too.
LEMMA TimerReturnsStep == ASSUME IInv, TimerReturns PROVE IInv'
<1> USE DEF IInv
<1>0. PICK t \in Timers : t = running
  BY DEF TimerReturns
<1>1. TypeOK'
  BY <1>0 DEF TimerReturns, timer_unref, AfterOnce, TypeOK, NoTimer, TimerInv, Allocated, requestVars
<1>2. ASSUME NEW u \in Timers, u # t PROVE TimerInv(u)'
  BY <1>0, <1>2, TimerKept, ClientAssumption DEF TimerReturns, timer_unref, AfterOnce, TypeOK
<1>3. TimerInv(t)'
  BY <1>0, ClientAssumption DEF TimerReturns, timer_unref, AfterOnce, TypeOK, NoTimer, TimerInv, Allocated
<1>4. ASSUME NEW r \in Requests PROVE RequestInv(r)'
  BY <1>0, RequestKept, ClientAssumption DEF TimerReturns, requestVars, Submitting, RequestInv
<1> QED BY <1>0, <1>1, <1>2, <1>3, <1>4, ClientAssumption DEF TimerReturns, requestVars, TypeOK

\* A record is linked before the native client sees the request.
LEMMA submit_asyncStep == ASSUME IInv, NEW r \in Requests, submit_async(r) PROVE IInv'
<1> USE DEF IInv
<1>1. TypeOK'
  BY DEF submit_async, Application, async_link, TypeOK, timerVars
<1>2. ASSUME NEW u \in Timers PROVE TimerInv(u)'
  BY <1>2, TimerKept, ClientAssumption DEF submit_async, Application, async_link, TypeOK, timerVars
<1>3. ASSUME NEW q \in Requests PROVE RequestInv(q)'
  BY <1>3, ClientAssumption DEF submit_async, Application, async_link, TypeOK, RequestInv, Submitting
<1> QED BY <1>1, <1>2, <1>3, ClientAssumption DEF submit_async, Application, async_link, timerVars, TypeOK, RequestInv

\* An accepted request keeps it.
LEMMA SubmitAcceptedStep == ASSUME IInv, NEW r \in Requests, SubmitAccepted(r) PROVE IInv'
<1> USE DEF IInv
<1>1. TypeOK'
  BY DEF SubmitAccepted, TypeOK, timerVars
<1>2. ASSUME NEW u \in Timers PROVE TimerInv(u)'
  BY <1>2, TimerKept, ClientAssumption DEF SubmitAccepted, TypeOK, timerVars
<1>3. ASSUME NEW q \in Requests PROVE RequestInv(q)'
  BY <1>3, ClientAssumption DEF SubmitAccepted, TypeOK, RequestInv, Submitting
<1> QED BY <1>1, <1>2, <1>3, ClientAssumption DEF SubmitAccepted, timerVars, TypeOK, RequestInv

\* A refused request gives it up.
LEMMA SubmitRefusedStep == ASSUME IInv, NEW r \in Requests, SubmitRefused(r) PROVE IInv'
<1> USE DEF IInv
<1>1. TypeOK'
  BY DEF SubmitRefused, async_finish, TypeOK, timerVars
<1>2. ASSUME NEW u \in Timers PROVE TimerInv(u)'
  BY <1>2, TimerKept, ClientAssumption DEF SubmitRefused, async_finish, TypeOK, timerVars
<1>3. ASSUME NEW q \in Requests PROVE RequestInv(q)'
  BY <1>3, ClientAssumption DEF SubmitRefused, async_finish, TypeOK, RequestInv, Submitting
<1> QED BY <1>1, <1>2, <1>3, ClientAssumption DEF SubmitRefused, async_finish, timerVars, TypeOK, RequestInv

\* A completed request keeps it while its callback runs.
LEMMA async_callbackStep == ASSUME IInv, NEW r \in Requests, async_callback(r) PROVE IInv'
<1> USE DEF IInv
<1>1. TypeOK'
  BY DEF async_callback, LoopRuns, TypeOK, timerVars
<1>2. ASSUME NEW u \in Timers PROVE TimerInv(u)'
  BY <1>2, TimerKept, ClientAssumption DEF async_callback, LoopRuns, TypeOK, timerVars
<1>3. ASSUME NEW q \in Requests PROVE RequestInv(q)'
  BY <1>3, ClientAssumption DEF async_callback, LoopRuns, TypeOK, RequestInv, Submitting
<1> QED BY <1>1, <1>2, <1>3, ClientAssumption DEF async_callback, LoopRuns, timerVars, TypeOK, RequestInv

\* It ends with the callback.
LEMMA AsyncReturnsStep == ASSUME IInv, AsyncReturns PROVE IInv'
<1> USE DEF IInv
<1>1. TypeOK'
  BY DEF AsyncReturns, async_finish, TypeOK, timerVars, requestVars, NoTimer
<1>2. ASSUME NEW u \in Timers PROVE TimerInv(u)'
  BY <1>2, ClientAssumption DEF AsyncReturns, async_finish, TypeOK, timerVars, TimerInv, Allocated, NoTimer
<1>3. ASSUME NEW q \in Requests PROVE RequestInv(q)'
  BY <1>3, ClientAssumption DEF AsyncReturns, async_finish, TypeOK, RequestInv, Submitting, requestVars
<1> QED BY <1>1, <1>2, <1>3, ClientAssumption DEF AsyncReturns, async_finish, timerVars, requestVars, TypeOK, RequestInv, TimerInv

\* An iteration starts between calls.
LEMMA run_iterateStep == ASSUME IInv, run_iterate PROVE IInv'
<1> USE DEF IInv
<1>1. TypeOK'
  BY DEF run_iterate, Application, TypeOK, timerVars, requestVars, NoTimer
<1>2. ASSUME NEW u \in Timers PROVE TimerInv(u)'
  BY <1>2, ClientAssumption DEF run_iterate, Application, TypeOK, timerVars, TimerInv, Allocated, NoTimer
<1>3. ASSUME NEW q \in Requests PROVE RequestInv(q)'
  BY <1>3, ClientAssumption DEF run_iterate, Application, TypeOK, RequestInv, Submitting, requestVars
<1> QED BY <1>1, <1>2, <1>3, ClientAssumption DEF run_iterate, Application, timerVars, requestVars, TypeOK, RequestInv, TimerInv

\* It ends outside callbacks.
LEMMA IterateReturnsStep == ASSUME IInv, IterateReturns PROVE IInv'
<1> USE DEF IInv
<1>1. TypeOK'
  BY DEF IterateReturns, TypeOK, timerVars, requestVars, NoTimer
<1>2. ASSUME NEW u \in Timers PROVE TimerInv(u)'
  BY <1>2, ClientAssumption DEF IterateReturns, TypeOK, timerVars, TimerInv, Allocated, NoTimer
<1>3. ASSUME NEW q \in Requests PROVE RequestInv(q)'
  BY <1>3, ClientAssumption DEF IterateReturns, TypeOK, RequestInv, Submitting, requestVars
<1> QED BY <1>1, <1>2, <1>3, ClientAssumption DEF IterateReturns, timerVars, requestVars, TypeOK, RequestInv, TimerInv

\* So does the destruction of the client start.
LEMMA client_freeStep == ASSUME IInv, client_free PROVE IInv'
<1> USE DEF IInv
<1>1. TypeOK'
  BY DEF client_free, Application, TypeOK, timerVars, requestVars, NoTimer
<1>2. ASSUME NEW u \in Timers PROVE TimerInv(u)'
  BY <1>2, ClientAssumption DEF client_free, Application, TypeOK, timerVars, TimerInv, Allocated, NoTimer
<1>3. ASSUME NEW q \in Requests PROVE RequestInv(q)'
  BY <1>3, ClientAssumption DEF client_free, Application, TypeOK, RequestInv, Submitting, requestVars
<1> QED BY <1>1, <1>2, <1>3, ClientAssumption DEF client_free, Application, timerVars, requestVars, TypeOK, RequestInv, TimerInv

\* No request is left when the native client is gone.
LEMMA NativeDeletedStep == ASSUME IInv, NativeDeleted PROVE IInv'
<1> USE DEF IInv
<1>1. TypeOK'
  BY DEF NativeDeleted, TypeOK, timerVars, requestVars, NoTimer
<1>2. ASSUME NEW u \in Timers PROVE TimerInv(u)'
  BY <1>2, ClientAssumption DEF NativeDeleted, TypeOK, timerVars, TimerInv, Allocated, NoTimer
<1>3. ASSUME NEW q \in Requests PROVE RequestInv(q)'
  BY <1>3, ClientAssumption DEF NativeDeleted, TypeOK, RequestInv, Submitting, requestVars
<1> QED BY <1>1, <1>2, <1>3, ClientAssumption DEF NativeDeleted, timerVars, requestVars, TypeOK, RequestInv, TimerInv

\* What is listed is freed last, and taken from a loop that goes on.
LEMMA FreeRestStep == ASSUME IInv, FreeRest PROVE IInv'
<1> USE DEF IInv
<1>1. TypeOK'
  BY DEF FreeRest, client_callbacks_clear, TypeOK, timerVars, requestVars, NoTimer
<1>2. ASSUME NEW u \in Timers PROVE TimerInv(u)'
  BY <1>2, ClientAssumption DEF FreeRest, client_callbacks_clear, TypeOK, timerVars, TimerInv, Allocated, NoTimer
<1>3. ASSUME NEW q \in Requests PROVE RequestInv(q)'
  BY <1>3, ClientAssumption DEF FreeRest, client_callbacks_clear, TypeOK, RequestInv, Submitting, requestVars
<1> QED BY <1>1, <1>2, <1>3, ClientAssumption DEF FreeRest, client_callbacks_clear, timerVars, requestVars, TypeOK, RequestInv, TimerInv

\* Every step keeps the invariant.
LEMMA Invariance == IInv /\ [Next]_vars => IInv'
<1> SUFFICES ASSUME IInv, [Next]_vars PROVE IInv'
  OBVIOUS
<1>1. CASE UNCHANGED vars
  BY <1>1 DEF vars, IInv, TypeOK, TimerInv, RequestInv, Allocated
<1>2. ASSUME NEW t \in Timers,
             \/ \E repeated \in BOOLEAN : timer_add(t, repeated)
             \/ changeRepeatedCallbackInterval(t) \/ removeCallback(t) \/ timer_invoke(t)
      PROVE  IInv'
  BY <1>2, timer_addStep, changeRepeatedCallbackIntervalStep, removeCallbackStep,
     timer_invokeStep
<1>3. ASSUME NEW r \in Requests,
             submit_async(r) \/ SubmitAccepted(r) \/ SubmitRefused(r) \/ async_callback(r)
      PROVE  IInv'
  BY <1>3, submit_asyncStep, SubmitAcceptedStep, SubmitRefusedStep, async_callbackStep
<1>4. CASE TimerReturns \/ AsyncReturns \/ run_iterate \/ IterateReturns
             \/ client_free \/ NativeDeleted \/ FreeRest
  BY <1>4, TimerReturnsStep, AsyncReturnsStep, run_iterateStep, IterateReturnsStep,
     client_freeStep, NativeDeletedStep, FreeRestStep
<1> QED BY <1>1, <1>2, <1>3, <1>4 DEF Next

\* The invariant holds throughout.
LEMMA Always == Spec => []IInv
BY Initially, Invariance, PTL DEF Spec

\* Every timer the native loop may fire, or whose callback runs, has its record,
\* between calls there is no other timer record, and a request has its record
\* from submission until its callback returned or it was refused: whatever the
\* callbacks add, change, remove and submit, and also after the client is gone
\* from a loop that runs on.
THEOREM ClientRecordsAreExact == Spec => []ClientRecordsExact
<1>1. IInv => ClientRecordsExact
  <2> SUFFICES ASSUME IInv PROVE ClientRecordsExact
    OBVIOUS
  <2>1. TimerRecordLives
    BY DEF IInv, TypeOK, TimerInv, TimerRecordLives, Allocated
  <2>2. TimerRecordExact
    BY ClientAssumption DEF IInv, TypeOK, TimerInv, TimerRecordExact
  <2>3. AsyncRecordLives
    BY DEF IInv, TypeOK, RequestInv, AsyncRecordLives
  <2> QED BY <2>1, <2>2, <2>3 DEF ClientRecordsExact, IInv
<1> QED BY <1>1, Always, PTL

\* No callback of a timer starts once the timer is removed or the client is gone
\* (cpkt_client_timer_invoke after cpkt_client_removeCallback).
THEOREM TimersAreInTime == Spec => NoLateTimer
<1>1. IInv /\ [Next]_vars => [TimerInTime]_vars
  <2> SUFFICES ASSUME IInv, Next PROVE TimerInTime
    OBVIOUS
  <2>1. ASSUME NEW t \in Timers, timer_invoke(t) PROVE TimerInTime
    BY <2>1, ClientAssumption DEF timer_invoke, LoopRuns, IInv, TypeOK, TimerInv, TimerInTime
  <2>2. ASSUME NEW r \in Requests, async_callback(r) PROVE TimerInTime
    BY <2>2, ClientAssumption DEF async_callback, TimerInTime
  <2>3. ASSUME ~\E t \in Timers : timer_invoke(t), ~\E r \in Requests : async_callback(r)
        PROVE  running' = running \/ running' = None
    BY <2>3, Zenon DEF Next, timer_add, changeRepeatedCallbackInterval, removeCallback, TimerReturns,
         submit_async, SubmitAccepted, SubmitRefused, AsyncReturns, run_iterate,
         IterateReturns, client_free, NativeDeleted, FreeRest
  <2> QED BY <2>1, <2>2, <2>3, ClientAssumption DEF TimerInTime
<1>2. Spec => [][TimerInTime]_vars
  BY <1>1, Always, PTL DEF Spec
<1> QED BY <1>2 DEF NoLateTimer
==============================================================================
