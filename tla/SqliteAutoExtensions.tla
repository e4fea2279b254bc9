------------------------ MODULE SqliteAutoExtensions ------------------------
(***************************************************************************)
(* Process-wide automatic extensions of the SQLite facade (src/sqlite.c).  *)
(* SQLite knows one entry point, the trampoline; the facade keeps a list   *)
(* of bindings and calls each registered one when a connection is opened.  *)
(*                                                                         *)
(* Two mutexes are involved.  A step of this module is one section under   *)
(* the bookkeeping mutex, one native call or one return of a callback;     *)
(* `transition' is the holder of the transition mutex, which register,     *)
(* cancel and reset keep across several steps.  Callbacks run under        *)
(* neither, and may call the facade again: a thread is a stack of frames.  *)
(***************************************************************************)
EXTENDS Naturals, Sequences, FiniteSets, SequencesExt, FiniteSetsExt

CONSTANTS Threads, Extensions, None,
          MaxCalls,     \* bound on the calls the application makes
          MaxNest       \* bound on the depth of calls inside callbacks

BoundsAssumption == /\ MaxCalls \in Nat \ {0}
                           /\ MaxNest \in Nat \ {0}
                           /\ None \notin Threads

VARIABLES
  ext,                    \* the bindings, by extension
  trampoline_registered,  \* what the facade believes of SQLite's registry
  native,                 \* whether the trampoline is in SQLite's registry
  transition,             \* holder of the transition mutex
  stack,                  \* the calls each thread is in, innermost last
  calls                   \* calls made so far

vars == <<ext, trampoline_registered, native, transition, stack, calls>>

Binding == [state : {"unused", "live", "freed"}, listed : BOOLEAN,
            registered : BOOLEAN, active_callbacks : Nat,
            close_requested : BOOLEAN, given_up : BOOLEAN]

\* given_up: the application has called close and no longer uses the handle.
NoBinding == [state |-> "unused", listed |-> FALSE, registered |-> FALSE,
              active_callbacks |-> 0, close_requested |-> FALSE,
              given_up |-> FALSE]

Init == /\ ext = [e \in Extensions |-> NoBinding]
        /\ trampoline_registered = FALSE
        /\ native = FALSE
        /\ transition = None
        /\ stack = [t \in Threads |-> <<>>]
        /\ calls = 0

-----------------------------------------------------------------------------
(* Frames.  snap is the snapshot a trampoline took, todo what it has yet   *)
(* to call, e the extension of the call or of the running callback.        *)

Frame(pc, e) == [pc |-> pc, e |-> e, snap |-> {}, todo |-> {}]
Top(t) == Last(stack[t])
At(t, pc) == stack[t] # <<>> /\ Top(t).pc = pc
Goto(t, pc) == stack' = [stack EXCEPT ![t][Len(stack[t])].pc = pc]
Return(t) == stack' = [stack EXCEPT ![t] = Front(@)]

\* The application calls from outside, or from a callback of an extension.
Calls(t, frame) == /\ calls < MaxCalls
                   /\ Len(stack[t]) < MaxNest
                   /\ stack[t] = <<>> \/ At(t, "callback")
                   /\ calls' = calls + 1
                   /\ stack' = [stack EXCEPT ![t] = Append(@, frame)]

\* A handle may be used from several threads until one of them closes it.
Usable(e) == ext[e].state = "live" /\ ~ext[e].given_up
InCall(e) == \E t \in Threads : \E i \in DOMAIN stack[t] :
               stack[t][i].e = e /\ stack[t][i].pc \notin {"callback"}

Freed(x) == [x EXCEPT !.state = "freed"]

\* cpkt_sqlite_auto_extension_new
New(e) == /\ ext[e].state = "unused"
          /\ ext' = [ext EXCEPT ![e].state = "live", ![e].listed = TRUE]
          /\ UNCHANGED <<trampoline_registered, native, transition, stack, calls>>

-----------------------------------------------------------------------------
(* Opening a connection: SQLite reads its registry under its own mutex and *)
(* calls the trampoline after releasing it.                                *)

Open(t) == /\ Calls(t, Frame(IF native THEN "trampoline" ELSE "opened", None))
           /\ UNCHANGED <<ext, trampoline_registered, native, transition>>

Opened(t) == /\ At(t, "opened")
             /\ Return(t)
             /\ UNCHANGED <<ext, trampoline_registered, native, transition, calls>>

Registered == {e \in Extensions : ext[e].listed /\ ext[e].registered}

\* The allocation of the wrapper or of the snapshot may fail.
TrampolineFails(t) ==
  /\ At(t, "trampoline")
  /\ Return(t)
  /\ UNCHANGED <<ext, trampoline_registered, native, transition, calls>>

Trampoline(t) ==
  /\ At(t, "trampoline")
  /\ ext' = [e \in Extensions |->
               IF e \in Registered
               THEN [ext[e] EXCEPT !.active_callbacks = @ + 1] ELSE ext[e]]
  /\ stack' = [stack EXCEPT ![t][Len(stack[t])] =
                 [pc |-> "calling", e |-> None,
                  snap |-> Registered, todo |-> Registered]]
  /\ UNCHANGED <<trampoline_registered, native, transition, calls>>

Callback(t) ==
  /\ At(t, "calling")
  /\ \E e \in Top(t).todo :
       stack' = [stack EXCEPT ![t][Len(stack[t])] =
                   [@ EXCEPT !.pc = "callback", !.e = e, !.todo = @ \ {e}]]
  /\ UNCHANGED <<ext, trampoline_registered, native, transition, calls>>

\* The first status other than SQLITE_OK ends the loop.
CallbackReturns(t) ==
  /\ At(t, "callback")
  /\ \E left \in {Top(t).todo, {}} :
       stack' = [stack EXCEPT ![t][Len(stack[t])] =
                   [@ EXCEPT !.pc = "calling", !.e = None, !.todo = left]]
  /\ UNCHANGED <<ext, trampoline_registered, native, transition, calls>>

AfterCallback(x) ==
  LET y == [x EXCEPT !.active_callbacks = IF @ > 0 THEN @ - 1 ELSE @]
  IN  IF y.close_requested /\ y.active_callbacks = 0 THEN Freed(y) ELSE y

TrampolineEnds(t) ==
  /\ At(t, "calling")
  /\ Top(t).todo = {}
  /\ ext' = [e \in Extensions |->
               IF e \in Top(t).snap THEN AfterCallback(ext[e]) ELSE ext[e]]
  /\ Return(t)
  /\ UNCHANGED <<trampoline_registered, native, transition, calls>>

-----------------------------------------------------------------------------
(* register_extension *)

Register(t, e) == /\ Usable(e)
                  /\ Calls(t, Frame("register", e))
                  /\ UNCHANGED <<ext, trampoline_registered, native, transition>>

RegisterBegin(t) ==
  /\ At(t, "register")
  /\ transition = None
  /\ LET x == ext[Top(t).e] IN
     IF x.close_requested \/ x.registered
     THEN Return(t) /\ UNCHANGED transition
     ELSE /\ transition' = t
          /\ Goto(t, IF trampoline_registered THEN "register_end"
                                              ELSE "register_native")
  /\ UNCHANGED <<ext, trampoline_registered, native, calls>>

\* sqlite3_auto_extension
RegisterNative(t) ==
  /\ At(t, "register_native")
  /\ native' = TRUE
  /\ Goto(t, "register_added")
  /\ UNCHANGED <<ext, trampoline_registered, transition, calls>>


RegisterNativeFails(t) ==
  /\ At(t, "register_native")
  /\ transition' = None
  /\ Return(t)
  /\ UNCHANGED <<ext, trampoline_registered, native, calls>>

RegisterEnd(t) ==
  /\ stack[t] # <<>> /\ Top(t).pc \in {"register_added", "register_end"}
  /\ trampoline_registered' = (At(t, "register_added") \/ trampoline_registered)
  /\ ext' = [ext EXCEPT ![Top(t).e].registered = TRUE]
  /\ transition' = None
  /\ Return(t)
  /\ UNCHANGED <<native, calls>>

-----------------------------------------------------------------------------
(* cancel, and close, which cancels first *)

Cancel(t, e) == /\ Usable(e)
                /\ Calls(t, Frame("cancel", e))
                /\ UNCHANGED <<ext, trampoline_registered, native, transition>>

Close(t, e) == /\ Usable(e)
               /\ ~InCall(e)
               /\ Calls(t, Frame("close", e))
               /\ ext' = [ext EXCEPT ![e].given_up = TRUE]
               /\ UNCHANGED <<trampoline_registered, native, transition>>

\* What follows cancel: its return, or the rest of close.
Cancelled(t, close) == IF close THEN Goto(t, "close_end") ELSE Return(t)

CancelBegin(t) ==
  /\ stack[t] # <<>> /\ Top(t).pc \in {"cancel", "close"}
  /\ transition = None
  /\ LET e == Top(t).e
         close == At(t, "close")
     IN  IF ~ext[e].registered
         THEN Cancelled(t, close) /\ UNCHANGED <<ext, transition>>
         ELSE /\ ext' = [ext EXCEPT ![e].registered = FALSE]
              /\ IF Registered \ {e} = {} /\ trampoline_registered
                 THEN /\ transition' = t
                      /\ Goto(t, IF close THEN "close_native"
                                          ELSE "cancel_native")
                 ELSE /\ Cancelled(t, close)
                      /\ UNCHANGED transition
  /\ UNCHANGED <<trampoline_registered, native, calls>>

\* sqlite3_cancel_auto_extension
CancelNative(t) ==
  /\ stack[t] # <<>> /\ Top(t).pc \in {"cancel_native", "close_native"}
  /\ native' = FALSE
  /\ Goto(t, IF At(t, "close_native") THEN "close_removed" ELSE "cancel_removed")
  /\ UNCHANGED <<ext, trampoline_registered, transition, calls>>

\* Mutated form: the flag is left for the next registration to set.
CancelEnd_KeepsFlag(t) ==
  /\ stack[t] # <<>> /\ Top(t).pc \in {"cancel_removed", "close_removed"}
  /\ transition' = None
  /\ Cancelled(t, At(t, "close_removed"))
  /\ UNCHANGED <<ext, trampoline_registered, native, calls>>

CancelEnd(t) ==
  /\ stack[t] # <<>> /\ Top(t).pc \in {"cancel_removed", "close_removed"}
  /\ trampoline_registered' = FALSE
  /\ transition' = None
  /\ Cancelled(t, At(t, "close_removed"))
  /\ UNCHANGED <<ext, native, calls>>


CloseEnd(t) ==
  /\ At(t, "close_end")
  /\ LET e == Top(t).e
         x == [ext[e] EXCEPT !.listed = FALSE, !.close_requested = TRUE]
     IN  ext' = [ext EXCEPT ![e] =
                   IF x.active_callbacks = 0 THEN Freed(x) ELSE x]
  /\ Return(t)
  /\ UNCHANGED <<trampoline_registered, native, transition, calls>>

-----------------------------------------------------------------------------
(* cpkt_sqlite_auto_extension_reset, and the same in cpkt_sqlite_shutdown, *)
(* which requires exclusive access                                         *)

RegistrationClear ==
  /\ trampoline_registered' = FALSE
  /\ ext' = [e \in Extensions |-> IF ext[e].listed
                                  THEN [ext[e] EXCEPT !.registered = FALSE]
                                  ELSE ext[e]]

Reset(t) == /\ Calls(t, Frame("reset", None))
            /\ UNCHANGED <<ext, trampoline_registered, native, transition>>

\* sqlite3_reset_auto_extension
ResetNative(t) == /\ At(t, "reset")
                  /\ transition = None
                  /\ transition' = t
                  /\ native' = FALSE
                  /\ Goto(t, "reset_end")
                  /\ UNCHANGED <<ext, trampoline_registered, calls>>

ResetEnd(t) == /\ At(t, "reset_end")
               /\ RegistrationClear
               /\ transition' = None
               /\ Return(t)
               /\ UNCHANGED <<native, calls>>

Shutdown == /\ \A t \in Threads : stack[t] = <<>>
            /\ calls < MaxCalls
            /\ calls' = calls + 1
            /\ native' = FALSE
            /\ RegistrationClear
            /\ UNCHANGED <<transition, stack>>

-----------------------------------------------------------------------------
Step(t) == \/ Opened(t) \/ Trampoline(t) \/ Callback(t) \/ CallbackReturns(t)
           \/ TrampolineEnds(t)
           \/ RegisterBegin(t) \/ RegisterNative(t) \/ RegisterEnd(t)
           \/ CancelBegin(t) \/ CancelNative(t) \/ CancelEnd(t) \/ CloseEnd(t)
           \/ ResetNative(t) \/ ResetEnd(t)

Application(t) == \/ Open(t) \/ Reset(t)
                  \/ \E e \in Extensions : Register(t, e) \/ Cancel(t, e) \/ Close(t, e)

Fault(t) == TrampolineFails(t) \/ RegisterNativeFails(t)

Next == \/ \E e \in Extensions : New(e)
        \/ Shutdown
        \/ \E t \in Threads : Step(t) \/ Application(t) \/ Fault(t)

\* A thread inside the facade or SQLite runs on, and callbacks return.
Fairness == \A t \in Threads : WF_vars(Step(t))

Spec == Init /\ [][Next]_vars
FairSpec == Spec /\ Fairness

-----------------------------------------------------------------------------
Frames == {<<t, i>> \in Threads \X (1 .. MaxNest) : i \in DOMAIN stack[t]}
FrameOf(f) == stack[f[1]][f[2]]
Holders(e) == {f \in Frames : e \in FrameOf(f).snap}

\* Every variable has its type.
TypeOK ==
  /\ ext \in [Extensions -> Binding]
  /\ trampoline_registered \in BOOLEAN /\ native \in BOOLEAN
  /\ transition \in Threads \cup {None}
  /\ \A t \in Threads :
       /\ Len(stack[t]) <= MaxNest
       /\ \A i \in DOMAIN stack[t] :
            /\ stack[t][i].e \in Extensions \cup {None}
            /\ stack[t][i].todo \subseteq stack[t][i].snap
            /\ stack[t][i].snap \subseteq Extensions
  /\ calls \in 0 .. MaxCalls

\* A binding that a trampoline has in its snapshot, or that a call of the
\* facade still works on, is not freed, whoever closes it meanwhile
\* (active_callbacks and close_requested).
BindingOutlivesUse ==
  \A f \in Frames :
    /\ \A e \in FrameOf(f).snap : ext[e].state = "live"
    /\ FrameOf(f).e # None => ext[FrameOf(f).e].state = "live"

\* active_callbacks is the number of trampolines that hold the binding, so
\* the last of them, and only that one, frees a closed binding: once a closed
\* binding is in no snapshot it is gone.
ClosedIsFreed ==
  \A e \in Extensions :
    /\ ext[e].active_callbacks = Cardinality(Holders(e))
    /\ ext[e].close_requested /\ Holders(e) = {} => ext[e].state = "freed"

\* When no thread is between two steps of a registration, the facade's flag
\* says what SQLite's registry holds, and SQLite calls the trampoline whenever
\* some extension is registered: a register or cancel that fails or overlaps
\* another never silences an extension.
RegistryAgrees ==
  transition = None => /\ trampoline_registered = native
                       /\ Registered # {} => native

\* Every call returns: the transition mutex is always released, and nothing
\* waits for it while holding it, calls from inside callbacks included.
CallsReturn == \A t \in Threads : stack[t] # <<>> ~> stack[t] = <<>>
=============================================================================
