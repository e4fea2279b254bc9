--------------------------- MODULE Notifications ---------------------------
(***************************************************************************)
(* What the SQLite facade promises of unlock notifications, without the    *)
(* bindings, mutexes and steps by which it keeps the promise: a            *)
(* registration that was accepted waits until it is replaced or withdrawn  *)
(* or until what blocks its connection ends.  From then on nobody can take *)
(* it back: all that are due are heard, together and once, and meanwhile   *)
(* nothing else is accepted or becomes due.                                *)
(***************************************************************************)
CONSTANTS Connections, Bindings, None

VARIABLES
  used,     \* registrations that have been made
  asked,    \* what a connection asks for and has no answer to
  waiting,  \* what a connection has registered
  due,
  heard

vars == <<used, asked, waiting, due, heard>>

Init == /\ used = {} /\ due = {} /\ heard = {}
        /\ asked = [c \in Connections |-> None]
        /\ waiting = [c \in Connections |-> None]

Ask(c, b) ==
  /\ asked[c] = None /\ b \notin used
  /\ asked' = [asked EXCEPT ![c] = b]
  /\ used' = used \cup {b}
  /\ UNCHANGED <<waiting, due, heard>>

\* The three answers: registered in the place of the earlier one, due at
\* once because nothing blocks (an earlier one that is for another connection
\* goes on waiting), or refused.
Accept(c) ==
  /\ asked[c] # None /\ due = {}
  /\ waiting' = [waiting EXCEPT ![c] = asked[c]]
  /\ asked' = [asked EXCEPT ![c] = None]
  /\ UNCHANGED <<used, due, heard>>
DueNow(c) ==
  /\ asked[c] # None /\ due = {}
  /\ due' = {asked[c]}
  /\ asked' = [asked EXCEPT ![c] = None]
  /\ UNCHANGED <<used, waiting, heard>>
Refuse(c) ==
  /\ asked[c] # None
  /\ asked' = [asked EXCEPT ![c] = None]
  /\ UNCHANGED <<used, waiting, due, heard>>

\* The connection cancels or is closed.
Withdraw(c) ==
  /\ asked[c] = None /\ due = {}
  /\ waiting' = [waiting EXCEPT ![c] = None]
  /\ UNCHANGED <<used, asked, due, heard>>

\* The transaction that blocks these connections ends.
Unlock(C) ==
  /\ due = {}
  /\ due' = {waiting[c] : c \in C} \ {None}
  /\ waiting' = [c \in Connections |-> IF c \in C THEN None ELSE waiting[c]]
  /\ UNCHANGED <<used, asked, heard>>

Hear ==
  /\ due # {}
  /\ heard' = heard \cup due
  /\ due' = {}
  /\ UNCHANGED <<used, asked, waiting>>

Next ==
  \/ \E c \in Connections : \/ Accept(c) \/ DueNow(c) \/ Refuse(c) \/ Withdraw(c)
                            \/ \E b \in Bindings : Ask(c, b)
  \/ \E C \in SUBSET Connections : Unlock(C)
  \/ Hear

Spec == Init /\ [][Next]_vars
=============================================================================
