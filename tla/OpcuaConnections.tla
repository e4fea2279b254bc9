-------------------------- MODULE OpcuaConnections --------------------------
(***************************************************************************)
(* Connections, interrupts and network buffers of an event source          *)
(* (src/opcua_eventloop_impl.h).  Opening a connection makes a             *)
(* registration, which native code keeps as the application pointer of     *)
(* every connection that results: the opened one and, for a listener, each *)
(* accepted child.  A connection has a slot for its own context; when no   *)
(* memory is left for one, the connection is marked with the               *)
(* registration's failure tag and closed.  Registrations and slots count   *)
(* their references, because callbacks close, open and deregister while a  *)
(* delivery is on the stack.                                               *)
(*                                                                         *)
(* external: a manager announces a connection inside open or as the child  *)
(* of an open connection that was not rejected, delivers CLOSING once per  *)
(* connection, gives an identifier out again only after that, and has      *)
(* delivered CLOSING to the rejected ones before it is freed; it calls an  *)
(* interrupt from within its registration only if it accepts it.           *)
(*                                                                         *)
(* The interrupts share no state with the connections: ConnNext and        *)
(* IrqNext are two systems.                                                *)
(***************************************************************************)
EXTENDS Integers, FiniteSets, SequencesExt

CONSTANTS Regs, Slots, Ids, Irqs, Handles, None,
          MaxNest    \* calls and deliveries in progress at once

VARIABLES reg,       \* per registration
          slot,      \* per connection slot
          conn,      \* per native identifier: the native connection
          stack,     \* calls and deliveries in progress, the innermost last
          buffer,    \* who holds the network buffer; buffers the manager counts out
          irq,       \* per interrupt registration
          interrupts,\* the manager's list, newest first
          irq_stack  \* registrations and deliveries of interrupts in progress

conn_vars == <<reg, slot, conn, stack, buffer>>
irq_vars == <<irq, interrupts, irq_stack>>
vars == <<reg, slot, conn, stack, buffer, irq, interrupts, irq_stack>>

NoReg == [live |-> FALSE, refs |-> 0, reserved |-> FALSE, custom |-> FALSE]
NoSlot == [live |-> FALSE, reg |-> None, id |-> None, refs |-> 0, listed |-> FALSE]
NoConn == [at |-> "none", reg |-> None, ctx |-> None]
NoIrq == [live |-> FALSE, refs |-> 0, handle |-> None, native |-> FALSE]

Init ==
  /\ reg = [r \in Regs |-> NoReg] /\ slot = [s \in Slots |-> NoSlot]
  /\ conn = [i \in Ids |-> NoConn] /\ stack = <<>>
  /\ buffer = [held |-> FALSE, out |-> 0]
  /\ irq = [e \in Irqs |-> NoIrq] /\ interrupts = <<>> /\ irq_stack = <<>>

-----------------------------------------------------------------------------
\* The counts.  The last reference frees the object; a slot's last reference
\* also gives back the registration's.
registration_release(R, r) ==
  IF R[r].refs = 1 THEN [R EXCEPT ![r] = NoReg] ELSE [R EXCEPT ![r].refs = @ - 1]

\* Mutated form: a freed slot keeps its registration.
slot_release_Keeps(G, s) ==
  IF G.slot[s].refs = 1 THEN [G EXCEPT !.slot[s] = NoSlot] ELSE [G EXCEPT !.slot[s].refs = @ - 1]

slot_release(G, s) ==
  IF G.slot[s].refs = 1
  THEN [slot |-> [G.slot EXCEPT ![s] = NoSlot], reg |-> registration_release(G.reg, G.slot[s].reg)]
  ELSE [G EXCEPT !.slot[s].refs = @ - 1]

\* The list's reference goes once, when the entry is still in the list.
slot_remove(G, s) ==
  IF G.slot[s].listed
  THEN slot_release([G EXCEPT !.slot[s].listed = FALSE], s)
  ELSE G

-----------------------------------------------------------------------------
\* openConnection of a native manager (custom: of an application's manager,
\* called by native code).  The first slot is reserved before the native call.
open(r, custom) ==
  /\ Len(stack) < MaxNest /\ ~reg[r].live
  /\ reg' = [reg EXCEPT ![r] = [live |-> TRUE, refs |-> 1, reserved |-> TRUE, custom |-> custom]]
  /\ stack' = Append(stack, [op |-> "open", reg |-> r, id |-> None, slot |-> None,
                             closing |-> FALSE, rejected |-> FALSE])
  /\ UNCHANGED <<slot, conn, buffer>>
openConnection(r) == open(r, FALSE)
custom_cm_open(r) == open(r, TRUE)

OpenReturns ==
  /\ stack # <<>> /\ Last(stack).op = "open"
  /\ reg' = registration_release(reg, Last(stack).reg)
  /\ stack' = Front(stack)
  /\ UNCHANGED <<slot, conn, buffer>>

-----------------------------------------------------------------------------
\* The registrations that may see a new connection now.
Announcers ==
  {r \in Regs : \/ stack # <<>> /\ Last(stack).op = "open" /\ Last(stack).reg = r
                \/ \E p \in Ids : conn[p].at = "open" /\ conn[p].reg = r /\ conn[p].ctx # "tag"}

Deliver(r, i, s, closing, rejected) ==
  stack' = Append(stack, [op |-> "deliver", reg |-> r, id |-> i, slot |-> s,
                          closing |-> closing, rejected |-> rejected])

\* dispatch, first callback of a connection: the reserved slot or a new one.  A
\* connection that fails at once is only ever heard of as closing.
First(closing) == IF closing THEN "closing" ELSE "open"
dispatch_new(r, i, s, closing) ==
  /\ Len(stack) < MaxNest /\ r \in Announcers /\ conn[i].at = "none" /\ ~slot[s].live
  /\ slot' = [slot EXCEPT ![s] = [live |-> TRUE, reg |-> r, id |-> i, refs |-> 2, listed |-> TRUE]]
  /\ reg' = [reg EXCEPT ![r].refs = @ + 2, ![r].reserved = FALSE]
  /\ conn' = [conn EXCEPT ![i] = [at |-> First(closing), reg |-> r, ctx |-> s]]
  /\ Deliver(r, i, s, closing, FALSE)
  /\ UNCHANGED buffer

\* ... and none left: the failure tag, retained until the final close, if that
\* is still to come.
dispatch_rejects(r, i, closing) ==
  /\ Len(stack) < MaxNest /\ r \in Announcers /\ conn[i].at = "none" /\ ~reg[r].reserved
  /\ reg' = [reg EXCEPT ![r].refs = @ + (IF closing THEN 1 ELSE 2)]
  /\ conn' = [conn EXCEPT ![i] = [at |-> First(closing), reg |-> r,
                                  ctx |-> IF closing THEN None ELSE "tag"]]
  /\ Deliver(r, i, None, closing, FALSE)
  /\ UNCHANGED <<slot, buffer>>

\* A later callback finds the slot by identifier and registration.
Found(i) == {s \in Slots : slot[s].listed /\ slot[s].id = i /\ slot[s].reg = conn[i].reg}
dispatch(i, closing) ==
  /\ Len(stack) < MaxNest /\ conn[i].at = "open"
  /\ LET rejected == conn[i].ctx = "tag" IN
     \E s \in IF rejected THEN {None} ELSE Found(i) :
       /\ slot' = IF rejected THEN slot ELSE [slot EXCEPT ![s].refs = @ + 1]
       /\ Deliver(conn[i].reg, i, s, closing, rejected)
  /\ reg' = [reg EXCEPT ![conn[i].reg].refs = @ + 1]
  /\ conn' = [conn EXCEPT ![i].at = IF closing THEN "closing" ELSE @]
  /\ UNCHANGED buffer

\* The callback has returned: the list's reference on the final callback, the
\* delivery's, and for a rejected connection the one the tag retained.
DeliverReturns ==
  /\ stack # <<>> /\ Last(stack).op = "deliver"
  /\ LET f == Last(stack)
         G == [slot |-> slot, reg |-> reg]
         removed == IF f.slot # None /\ f.closing THEN slot_remove(G, f.slot) ELSE G
         H == IF f.slot # None THEN slot_release(removed, f.slot)
              ELSE IF f.rejected /\ f.closing
                   THEN [G EXCEPT !.reg = registration_release(@, f.reg)] ELSE G
     IN /\ slot' = H.slot
        /\ reg' = registration_release(H.reg, f.reg)
        /\ conn' = IF f.closing THEN [conn EXCEPT ![f.id] = NoConn] ELSE conn
  /\ stack' = Front(stack)
  /\ UNCHANGED buffer

\* source_metadata_clear: the manager is gone, its listed slots are released.
source_metadata_clear ==
  /\ stack = <<>> /\ ~ \E i \in Ids : conn[i].ctx = "tag"
  /\ LET H == FoldSet(LAMBDA s, G : slot_release([G EXCEPT !.slot[s].listed = FALSE], s),
                      [slot |-> slot, reg |-> reg], {s \in Slots : slot[s].listed})
     IN slot' = H.slot /\ reg' = H.reg
  /\ conn' = [i \in Ids |-> NoConn]
  /\ UNCHANGED <<stack, buffer>>

-----------------------------------------------------------------------------
\* Network buffers.  A failed conversion leaves the caller of a native
\* manager's send its buffer, and consumes that of an application's manager.
allocNetworkBuffer ==
  ~buffer.held /\ buffer' = [held |-> TRUE, out |-> buffer.out + 1]
freeNetworkBuffer ==
  buffer.held /\ buffer' = [held |-> FALSE, out |-> buffer.out - 1]
sendWithConnection(converted) ==
  buffer.held /\ buffer' = IF converted THEN [held |-> FALSE, out |-> buffer.out - 1] ELSE buffer
custom_cm_send(converted) ==
  /\ buffer.held
  /\ IF converted THEN sendWithConnection(TRUE) ELSE freeNetworkBuffer

Buffers ==
  /\ \/ allocNetworkBuffer \/ freeNetworkBuffer
     \/ \E c \in BOOLEAN : sendWithConnection(c) \/ custom_cm_send(c)
  /\ UNCHANGED <<reg, slot, conn, stack>>

ConnNext ==
  \/ \E r \in Regs : openConnection(r) \/ custom_cm_open(r)
  \/ OpenReturns
  \/ \E r \in Regs, i \in Ids, closing \in BOOLEAN :
       dispatch_rejects(r, i, closing) \/ \E s \in Slots : dispatch_new(r, i, s, closing)
  \/ \E i \in Ids, closing \in BOOLEAN : dispatch(i, closing)
  \/ DeliverReturns \/ source_metadata_clear \/ Buffers

-----------------------------------------------------------------------------
\* Interrupts.
interrupt_release(I, e) ==
  IF I[e].refs = 1 THEN [I EXCEPT ![e] = NoIrq] ELSE [I EXCEPT ![e].refs = @ - 1]
Without(e) == SelectSeq(interrupts, LAMBDA x : x # e)
Registered(h) == {e \in Irqs : irq[e].native /\ irq[e].handle = h}

\* The application runs outside of all calls and inside its callbacks.
Application == irq_stack # <<>> => Last(irq_stack).op = "invoke"
Callable(e) == irq[e].native /\ (~Application => Last(irq_stack).irq = e)

\* The entry is listed before the native call, which may already use it.
RegisterInterrupt(e, h, ok) ==
  /\ Application /\ Len(irq_stack) < MaxNest /\ ~irq[e].live /\ (ok => Registered(h) = {})
  /\ irq' = [irq EXCEPT ![e] = [live |-> TRUE, refs |-> 2, handle |-> h, native |-> ok]]
  /\ interrupts' = <<e>> \o interrupts
  /\ irq_stack' = Append(irq_stack, [op |-> "register", irq |-> e, ok |-> ok])
registerInterrupt(e, h, ok) == RegisterInterrupt(e, h, ok)
custom_im_register(e, h, ok) == RegisterInterrupt(e, h, ok)

interrupt_remove(e) ==
  IF e \in Range(interrupts) THEN [list |-> Without(e), irq |-> interrupt_release(irq, e)]
                             ELSE [list |-> interrupts, irq |-> irq]
RegisterReturns ==
  /\ irq_stack # <<>> /\ Last(irq_stack).op = "register"
  /\ LET e == Last(irq_stack).irq
         G == IF Last(irq_stack).ok THEN [list |-> interrupts, irq |-> irq] ELSE interrupt_remove(e)
     IN interrupts' = G.list /\ irq' = interrupt_release(G.irq, e)
  /\ irq_stack' = Front(irq_stack)


interrupt_invoke(e) ==
  /\ Len(irq_stack) < MaxNest /\ Callable(e)
  /\ irq' = [irq EXCEPT ![e].refs = @ + 1]
  /\ irq_stack' = Append(irq_stack, [op |-> "invoke", irq |-> e, ok |-> TRUE])
  /\ UNCHANGED interrupts
InvokeReturns ==
  /\ irq_stack # <<>> /\ Last(irq_stack).op = "invoke"
  /\ irq' = interrupt_release(irq, Last(irq_stack).irq)
  /\ irq_stack' = Front(irq_stack)
  /\ UNCHANGED interrupts

\* Native first, then the newest listed entry of that handle.
deregisterInterrupt(h) ==
  LET forgotten == [e \in Irqs |-> IF e \in Registered(h) THEN [irq[e] EXCEPT !.native = FALSE]
                                                        ELSE irq[e]]
      listed == SelectSeq(interrupts, LAMBDA e : irq[e].handle = h)
  IN /\ Application
     /\ IF listed = <<>> THEN irq' = forgotten /\ UNCHANGED interrupts
        ELSE irq' = interrupt_release(forgotten, Head(listed)) /\ interrupts' = Without(Head(listed))
     /\ UNCHANGED irq_stack

IrqNext ==
  \/ \E e \in Irqs, h \in Handles, ok \in BOOLEAN :
       registerInterrupt(e, h, ok) \/ custom_im_register(e, h, ok)
  \/ RegisterReturns \/ InvokeReturns
  \/ \E e \in Irqs : interrupt_invoke(e)
  \/ \E h \in Handles : deregisterInterrupt(h)

\* The two managers share nothing: each moves on its own.
ConnectionsMove == ConnNext /\ UNCHANGED irq_vars
InterruptsMove == IrqNext /\ UNCHANGED conn_vars

Next == ConnectionsMove \/ InterruptsMove
Spec == Init /\ [][Next]_vars

-----------------------------------------------------------------------------
Frames(r) == Cardinality({k \in 1..Len(stack) : stack[k].reg = r})

\* A registration is referenced by its calls, deliveries, slots and rejected
\* connections and by nothing else; at zero it does not exist.
RegsExact ==
  \A r \in Regs :
    /\ reg[r].refs = Frames(r) + Cardinality({s \in Slots : slot[s].live /\ slot[s].reg = r})
                     + Cardinality({i \in Ids : conn[i].reg = r /\ conn[i].ctx = "tag"})
    /\ reg[r].live = (reg[r].refs > 0)

\* A slot lives for its list and the deliveries that use it, and every
\* connection that native code still reports on has its slot in the list.
SlotsExact ==
  /\ \A s \in Slots :
       /\ slot[s].refs = Cardinality({k \in 1..Len(stack) : stack[k].slot = s})
                         + (IF slot[s].listed THEN 1 ELSE 0)
       /\ slot[s].live = (slot[s].refs > 0)
  /\ \A i \in Ids : conn[i].at = "open" /\ conn[i].ctx # "tag" =>
       Found(i) = {conn[i].ctx}

\* The manager's buffers that are out are the ones somebody holds.
BuffersExact == buffer.out = IF buffer.held THEN 1 ELSE 0

\* An interrupt entry lives for its list and the calls that use it; what
\* native code may call is listed, and nothing else once all calls are over.
InterruptsExact ==
  \A e \in Irqs :
    /\ irq[e].refs = Cardinality({k \in 1..Len(irq_stack) : irq_stack[k].irq = e})
                     + (IF e \in Range(interrupts) THEN 1 ELSE 0)
    /\ irq[e].live = (irq[e].refs > 0)
    /\ irq[e].native => e \in Range(interrupts)
    /\ irq_stack = <<>> /\ e \in Range(interrupts) => irq[e].native

SourcesExact == RegsExact /\ SlotsExact /\ BuffersExact /\ InterruptsExact
=============================================================================
