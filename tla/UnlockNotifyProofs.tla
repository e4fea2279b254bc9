------------------------- MODULE UnlockNotifyProofs -------------------------
(***************************************************************************)
(* NotifyExact of SqliteUnlockNotify and its refinement of Notifications,  *)
(* for any number of connections and registrations, where no connection    *)
(* registers again over a registration for another blocker (Overlapping).  *)
(* SQLite then refuses no replacement of a registration it holds, because  *)
(* the registered connections never wait in a cycle (WaitInv).             *)
(***************************************************************************)
EXTENDS SqliteUnlockNotify, TLAPS

Outside == {"idle", "cancelled"}
Accepting == {"registered", "delivering"}

Records == [memory : {"unused", "live", "freed"}, conn : Connections \cup {None},
            delivered : BOOLEAN, release : BOOLEAN, heard : Nat]
Calls == [pc : Outside \cup Accepting \cup {"published", "refused", "restored"},
          new : Bindings \cup {None}, old : Bindings \cup {None}]

TypeOK ==
  /\ current \in [Connections -> Bindings \cup {None}]
  /\ native \in [Connections -> Bindings \cup {None}]
  /\ unlocker \in [Connections -> Connections \cup {None}]
  /\ blocker \in [Connections -> Connections \cup {None}]
  /\ binding \in [Bindings -> Records]
  /\ caller \in [Connections -> Calls]
  /\ delivery \in [pc : {"none", "mark", "call", "free"}, args : SUBSET Bindings,
                   by : Connections \cup {None}]
  /\ closed \in [Connections -> BOOLEAN]

\* What a call has in its hands at each of its steps.
CallInv(c) ==
  LET k == caller[c]
  IN  /\ k.pc \in Outside => k.new = None /\ k.old = None
      /\ k.pc \notin Outside => k.new # None /\ k.new # k.old
      /\ k.pc \in {"published", "refused"} =>
           current[c] = k.new /\ k.new \notin delivery.args /\ native[c] # k.new
      /\ k.pc = "published" =>
           /\ native[c] \in {None, k.old}
           /\ unlocker[c] \in {None, blocker[c]}
      /\ k.pc \in {"refused", "restored"} => native[c] = None
      /\ k.pc = "restored" => current[c] = None /\ k.new \notin delivery.args
      /\ k.pc = "cancelled" => native[c] = None /\ current[c] \notin delivery.args
      /\ k.pc \in Accepting =>
           /\ current[c] \in {None, k.new}
           /\ k.old \notin delivery.args
      /\ k.pc \in Accepting \cup {"idle"} =>
           native[c] = IF current[c] \in delivery.args THEN None ELSE current[c]
      /\ k.pc = "delivering" => delivery.by = c /\ delivery.args = {k.new}

\* What the connection, SQLite and a call refer to is theirs.
RefsInv(c) ==
  /\ current[c] # None =>
       /\ binding[current[c]].memory = "live" /\ binding[current[c]].conn = c
       /\ ~binding[current[c]].delivered
  /\ native[c] # None =>
       /\ binding[native[c]].memory = "live" /\ binding[native[c]].conn = c
       /\ ~binding[native[c]].delivered
       /\ native[c] \notin delivery.args
  /\ native[c] = None <=> unlocker[c] = None
  /\ caller[c].old # None =>
       /\ binding[caller[c].old].memory = "live" /\ binding[caller[c].old].conn = c
       /\ caller[c].old # current[c]
  /\ caller[c].new # None =>
       binding[caller[c].new].memory # "unused" /\ binding[caller[c].new].conn = c

\* The binding that a call replaces has been delivered, or SQLite or a
\* delivery holds it.
OldInv(c) ==
  LET k == caller[c]
  IN  /\ k.pc = "published" /\ k.old # None /\ native[c] = None =>
           k.old \in delivery.args \/ binding[k.old].delivered
      /\ k.pc \in {"refused", "restored"} /\ k.old # None =>
           k.old \notin delivery.args /\ binding[k.old].delivered
      /\ k.pc = "restored" => binding[k.new].memory = "live"

\* A delivery frees the bindings that no call still holds.
DeliveryInv ==
  /\ delivery.pc = "none" <=> delivery.args = {}
  /\ delivery.pc = "none" => delivery.by = None
  /\ delivery.by # None => caller[delivery.by].pc = "delivering"
  /\ \A b \in delivery.args :
       LET c == binding[b].conn
       IN  /\ binding[b].memory = "live" /\ c \in Connections
           /\ binding[b].heard = IF delivery.pc = "free" THEN 1 ELSE 0
           /\ binding[b].delivered <=> delivery.pc # "mark"
           /\ delivery.pc = "mark" => current[c] = b \/ caller[c].old = b
           /\ delivery.pc # "mark" => (binding[b].release <=> caller[c].old # b)

\* Every binding that is not freed is somebody's; none is heard twice.
LiveInv(b) ==
  /\ binding[b].memory = "live" =>
       /\ binding[b].conn \in Connections
       /\ \/ b = current[binding[b].conn]
          \/ b = caller[binding[b].conn].old
          \/ b = caller[binding[b].conn].new /\ caller[binding[b].conn].pc = "restored"
          \/ b \in delivery.args
  /\ binding[b].heard \in {0, 1}
  /\ ~binding[b].delivered \/ binding[b].memory = "unused" => binding[b].heard = 0

\* Nobody waits for itself along the registrations.
WaitInv == \A c \in Connections : unlocker[c] # None => ~Waits(unlocker[c], c)

IInv ==
  /\ TypeOK
  /\ \A c \in Connections : CallInv(c) /\ RefsInv(c) /\ OldInv(c)
  /\ DeliveryInv
  /\ WaitInv
  /\ \A b \in Bindings : LiveInv(b)

-----------------------------------------------------------------------------
\* Freeing bindings keeps them records.
LEMMA FreedType ==
  ASSUME NEW bs \in [Bindings -> Records], NEW B
  PROVE  Freed(bs, B) \in [Bindings -> Records]
BY DEF Records, Freed

\* Freeing bindings changes nothing else of them.
LEMMA FreedFacts ==
  ASSUME NEW bs \in [Bindings -> Records], NEW B, NEW x \in Bindings
  PROVE  /\ Freed(bs, B)[x].conn = bs[x].conn /\ Freed(bs, B)[x].heard = bs[x].heard
         /\ Freed(bs, B)[x].delivered <=> bs[x].delivered
         /\ Freed(bs, B)[x].release <=> bs[x].release
         /\ x \in B => Freed(bs, B)[x].memory = "freed"
         /\ x \notin B => Freed(bs, B)[x] = bs[x]
BY Zenon DEF Records, Freed

\* What a call of one connection replaces is not what the calls of another
\* one free.
LEMMA OldKept ==
  ASSUME NotifyAssumption, IInv, NEW c \in Connections, NEW e \in Connections \ {c},
         NEW B, \A x \in B : x = None \/ (x \in Bindings /\ binding[x].conn = c),
         binding' = Freed(binding, B), caller'[e] = caller[e],
         native'[e] = native[e], delivery' = delivery
  PROVE  OldInv(e)'
<1>1. /\ OldInv(e) /\ RefsInv(e) /\ binding \in [Bindings -> Records]
      /\ caller[e].old \in Bindings \cup {None} /\ caller[e].new \in Bindings \cup {None}
  BY DEF IInv, TypeOK, Calls
<1>2. \A x \in Bindings : /\ binding'[x].delivered <=> binding[x].delivered
                          /\ binding[x].conn = e => binding'[x] = binding[x]
  BY <1>1, FreedFacts DEF NotifyAssumption
<1>3. caller[e].pc = "restored" => caller[e].new # None
  BY DEF IInv, CallInv, Outside
<1>. QED  BY <1>1, <1>2, <1>3 DEF NotifyAssumption, OldInv, RefsInv

\* Where SQLite forgets registrations, or changes none, nobody comes to wait
\* for itself.
LEMMA FewerWaits ==
  ASSUME NotifyAssumption, TypeOK, WaitInv, \A e \in Connections : unlocker'[e] \in {None, unlocker[e]}
  PROVE  WaitInv'
<1>. SUFFICES ASSUME NEW e \in Connections, unlocker'[e] # None, Waits(unlocker[e], e)'
              PROVE  FALSE
  BY DEF WaitInv, Waits
<1>1. unlocker'[e] = unlocker[e] /\ ~Waits(unlocker[e], e)
  BY DEF WaitInv
<1>2. PICK S \in SUBSET Connections :
        /\ unlocker[e] \in S /\ e \notin S
        /\ \A x \in S : unlocker[x] \in S \cup {None}
  BY <1>1 DEF Waits
<1>3. \A x \in S : unlocker'[x] \in S \cup {None}
  BY <1>2
<1>. QED  BY <1>1, <1>2, <1>3 DEF Waits

\* A registration that SQLite accepts completes no cycle: the chain from d
\* does not reach c.
LEMMA OneMoreWaits ==
  ASSUME NotifyAssumption, TypeOK, WaitInv, NEW c \in Connections, NEW d \in Connections,
         ~Waits(d, c), unlocker' = [unlocker EXCEPT ![c] = d]
  PROVE  WaitInv'
<1>1. PICK R \in SUBSET Connections :
        d \in R /\ c \notin R /\ \A x \in R : unlocker[x] \in R \cup {None}
  BY DEF Waits
<1>2. unlocker'[c] = d /\ \A x \in Connections \ {c} : unlocker'[x] = unlocker[x]
  BY DEF TypeOK
<1>3. \A x \in R : unlocker'[x] \in R \cup {None}
  BY <1>1, <1>2
<1>4. ASSUME NEW e \in Connections, unlocker'[e] # None
      PROVE  \E S \in SUBSET Connections : /\ unlocker'[e] \in S /\ e \notin S
                                            /\ \A x \in S : unlocker'[x] \in S \cup {None}
  <2>1. CASE e = c
    BY <1>1, <1>2, <1>3, <2>1
  <2>2. CASE e # c
    <3>1. unlocker'[e] = unlocker[e] /\ ~Waits(unlocker[e], e)
      BY <1>2, <1>4, <2>2 DEF WaitInv
    <3>2. PICK S \in SUBSET Connections :
            /\ unlocker[e] \in S /\ e \notin S
            /\ \A x \in S : unlocker[x] \in S \cup {None}
      BY <3>1 DEF Waits
    <3>3. CASE e \in R
      <4>1. /\ unlocker[e] \in S \cap R /\ e \notin S \cap R /\ S \cap R \in SUBSET Connections
            /\ \A x \in S \cap R : unlocker'[x] \in (S \cap R) \cup {None}
        BY <1>1, <1>2, <1>4, <3>1, <3>2, <3>3
      <4>. QED  BY <3>1, <4>1, Zenon
    <3>4. CASE e \notin R
      <4>1. /\ unlocker[e] \in S \cup R /\ e \notin S \cup R /\ S \cup R \in SUBSET Connections
            /\ \A x \in S \cup R : unlocker'[x] \in (S \cup R) \cup {None}
        BY <1>1, <1>2, <1>3, <3>2, <3>4
      <4>. QED  BY <3>1, <4>1, Zenon
    <3>. QED  BY <3>3, <3>4
  <2>. QED  BY <2>1, <2>2
<1>. QED  BY <1>4 DEF WaitInv, Waits

\* A statement that is blocked (SQLITE_LOCKED) keeps the invariant.
LEMMA BlockStep ==
  ASSUME NotifyAssumption, ~Overlapping, IInv, NEW c \in Connections, NEW d \in Connections, Block(c, d)
  PROVE  IInv'
<1>1. TypeOK'
  BY DEF IInv, TypeOK, Block
<1>2. \A e \in Connections : CallInv(e)'
  BY DEF IInv, CallInv, Block
<1>3. \A e \in Connections : RefsInv(e)'
  BY DEF IInv, RefsInv, Block
<1>4. DeliveryInv'
  BY DEF IInv, DeliveryInv, Block
<1>5. \A x \in Bindings : LiveInv(x)'
  BY DEF IInv, LiveInv, Block
<1>6. WaitInv'
  BY FewerWaits DEF IInv, TypeOK, Block
<1>7. ASSUME NEW e \in Connections
      PROVE  OldInv(e)'
  BY SMTT(60) DEF NotifyAssumption, IInv, TypeOK, Records, Calls, CallInv, RefsInv, OldInv, Block
<1>. QED  BY <1>1, <1>2, <1>3, <1>4, <1>5, <1>6, <1>7 DEF IInv

\* Publishing a new binding in cpkt_sqlite_unlock_notify keeps the
\* invariant.
LEMMA PublishStep ==
  ASSUME NotifyAssumption, ~Overlapping, IInv, NEW c \in Connections, NEW b \in Bindings,
         Publish(c, b)
  PROVE  IInv'
<1>1. TypeOK'
  BY Zenon DEF NotifyAssumption, IInv, TypeOK, Records, Calls, Publish, Unused, Main, Outside, Accepting
<1>2. \A e \in Connections : CallInv(e)'
  BY DEF NotifyAssumption, IInv, TypeOK, CallInv, RefsInv, DeliveryInv, Publish, Outside, Accepting
<1>3. \A e \in Connections : RefsInv(e)'
  BY DEF IInv, TypeOK, RefsInv, Publish, Unused
<1>4. DeliveryInv'
  BY DEF NotifyAssumption, IInv, TypeOK, CallInv, RefsInv, DeliveryInv, Publish, Outside
<1>5. \A x \in Bindings : LiveInv(x)'
  BY DEF NotifyAssumption, IInv, TypeOK, CallInv, LiveInv, Publish, Unused, Outside
<1>6. WaitInv'
  BY FewerWaits DEF IInv, TypeOK, Publish
<1>7. ASSUME NEW e \in Connections
      PROVE  OldInv(e)'
  BY SMTT(60) DEF NotifyAssumption, IInv, TypeOK, Records, Calls, CallInv, RefsInv, OldInv, Publish, Unused
<1>. QED  BY <1>1, <1>2, <1>3, <1>4, <1>5, <1>6, <1>7 DEF IInv

\* A registration that sqlite3_unlock_notify accepts keeps the invariant.
LEMMA AcceptedStep ==
  ASSUME NotifyAssumption, ~Overlapping, IInv, NEW c \in Connections, Accepted(c)
  PROVE  IInv'
<1>1. TypeOK'
  BY SMTT(60) DEF IInv, TypeOK, Calls, Accepted, Accepting
<1>2. \A e \in Connections : CallInv(e)'
  BY DEF IInv, TypeOK, CallInv, DeliveryInv, Accepted, Main, Outside
<1>3. \A e \in Connections : RefsInv(e)'
  BY DEF NotifyAssumption, IInv, TypeOK, Calls, CallInv, RefsInv, Accepted, Outside
<1>4. DeliveryInv'
  BY DEF IInv, DeliveryInv, Accepted
<1>5. \A x \in Bindings : LiveInv(x)'
  BY DEF IInv, LiveInv, Accepted
<1>6. WaitInv'
  BY OneMoreWaits, Zenon DEF IInv, TypeOK, Accepted
<1>7. ASSUME NEW e \in Connections
      PROVE  OldInv(e)'
  BY SMTT(60) DEF NotifyAssumption, IInv, TypeOK, Records, Calls, CallInv, RefsInv, OldInv, Accepted
<1>. QED  BY <1>1, <1>2, <1>3, <1>4, <1>5, <1>6, <1>7 DEF IInv

\* A registration that is delivered inside the native call keeps the
\* invariant.
LEMMA AtOnceStep ==
  ASSUME NotifyAssumption, ~Overlapping, IInv, NEW c \in Connections, AtOnce(c)
  PROVE  IInv'
<1>1. TypeOK'
  <2>1. caller' \in [Connections -> Calls]
    BY SMTT(60) DEF IInv, TypeOK, Calls, AtOnce, Outside, Accepting
  <2>2. delivery' \in [pc : {"none", "mark", "call", "free"}, args : SUBSET Bindings,
                     by : Connections \cup {None}]
    BY DEF IInv, TypeOK, CallInv, AtOnce
  <2>. QED  BY <2>1, <2>2 DEF IInv, TypeOK, AtOnce
<1>2. \A e \in Connections : CallInv(e)'
  BY DEF NotifyAssumption, IInv, TypeOK, CallInv, RefsInv, DeliveryInv, AtOnce, Main, Outside
<1>3. \A e \in Connections : RefsInv(e)'
  BY DEF NotifyAssumption, IInv, TypeOK, Calls, CallInv, RefsInv, AtOnce, Outside
<1>4. DeliveryInv'
  <2>1. /\ caller[c].new \in Bindings /\ current[c] = caller[c].new
        /\ binding[caller[c].new] \in Records
    BY DEF IInv, TypeOK, CallInv, AtOnce
  <2>2. /\ binding[caller[c].new].memory = "live" /\ binding[caller[c].new].conn = c
        /\ ~binding[caller[c].new].delivered /\ binding[caller[c].new].heard = 0
    BY <2>1 DEF NotifyAssumption, IInv, RefsInv, LiveInv
  <2>3. /\ delivery'.pc = "mark" /\ delivery'.args = {caller[c].new} /\ delivery'.by = c
        /\ caller'[c].pc = "delivering" /\ UNCHANGED <<current, binding>>
    BY DEF IInv, TypeOK, AtOnce
  <2>. QED  BY <2>1, <2>2, <2>3 DEF DeliveryInv
<1>5. \A x \in Bindings : LiveInv(x)'
  BY DEF IInv, DeliveryInv, LiveInv, AtOnce, Main
<1>6. WaitInv'
  BY FewerWaits DEF IInv, TypeOK, AtOnce
<1>7. ASSUME NEW e \in Connections
      PROVE  OldInv(e)'
  <2>1. CASE e = c
    BY <2>1, SMTT(60) DEF IInv, TypeOK, OldInv, AtOnce
  <2>2. CASE e # c
    <3>1. /\ OldInv(e) /\ RefsInv(e) /\ caller'[e] = caller[e] /\ UNCHANGED <<native, binding>>
          /\ delivery.args = {} /\ delivery'.args = {caller[c].new}
      BY <2>2 DEF IInv, TypeOK, DeliveryInv, AtOnce, Main
    <3>2. caller[c].new # None /\ binding[caller[c].new].conn = c
      BY DEF IInv, CallInv, RefsInv, AtOnce, Outside
    <3>. QED  BY <2>2, <3>1, <3>2 DEF OldInv, RefsInv
  <2>. QED  BY <2>1, <2>2
<1>. QED  BY <1>1, <1>2, <1>3, <1>4, <1>5, <1>6, <1>7 DEF IInv

\* A registration that SQLite refuses keeps the invariant: SQLite holds no
\* earlier one, which would be for the same connection and so complete the
\* cycle already.
LEMMA RefusedStep ==
  ASSUME NotifyAssumption, ~Overlapping, IInv, NEW c \in Connections, Refused(c)
  PROVE  IInv'
<1>1. TypeOK'
  <2>1. caller' \in [Connections -> Calls]
    BY SMTT(60) DEF IInv, TypeOK, Calls, Refused
  <2>. QED  BY <2>1 DEF IInv, TypeOK, Refused
<1>a. native[c] = None
  <2>1. /\ caller[c].pc = "published" /\ blocker[c] # None /\ Waits(blocker[c], c)
        /\ CallInv(c) /\ RefsInv(c) /\ WaitInv
    BY DEF IInv, Refused
  <2>2. unlocker[c] \in {None, blocker[c]}
    BY <2>1 DEF CallInv
  <2>3. unlocker[c] = None
    BY <2>1, <2>2 DEF WaitInv
  <2>. QED  BY <2>1, <2>3 DEF RefsInv
<1>b. /\ caller[c].pc = "published" /\ delivery.args = {}
      /\ caller' = [caller EXCEPT ![c].pc = "refused"]
      /\ UNCHANGED <<current, native, unlocker, blocker, binding, delivery, closed>>
  BY DEF IInv, DeliveryInv, Refused, Main
<1>2. ASSUME NEW e \in Connections
      PROVE  CallInv(e)'
  <2>1. CallInv(e) /\ caller \in [Connections -> Calls]
    BY DEF IInv, TypeOK
  <2>2. CASE e # c
    BY <1>b, <2>1, <2>2 DEF CallInv
  <2>3. CASE e = c
    BY <1>a, <1>b, <2>1, <2>3, SMTT(60) DEF CallInv, Calls, Outside, Accepting
  <2>. QED  BY <2>2, <2>3
<1>3. \A e \in Connections : RefsInv(e)'
  BY DEF IInv, RefsInv, Refused
<1>4. DeliveryInv'
  BY DEF IInv, DeliveryInv, Refused
<1>5. \A x \in Bindings : LiveInv(x)'
  BY DEF IInv, TypeOK, LiveInv, Refused
<1>6. WaitInv'
  BY FewerWaits DEF IInv, TypeOK, Refused
<1>7. ASSUME NEW e \in Connections
      PROVE  OldInv(e)'
  <2>1. OldInv(e) /\ caller \in [Connections -> Calls]
    BY DEF IInv, TypeOK
  <2>2. CASE e # c
    BY <1>b, <2>1, <2>2 DEF OldInv
  <2>3. CASE e = c
    BY <1>a, <1>b, <2>1, <2>3 DEF OldInv, Calls
  <2>. QED  BY <2>2, <2>3
<1>. QED  BY <1>1, <1>2, <1>3, <1>4, <1>5, <1>6, <1>7 DEF IInv

\* The end of a setter that succeeded keeps the invariant.
LEMMA RegisteredStep ==
  ASSUME NotifyAssumption, ~Overlapping, IInv, NEW c \in Connections, Registered(c)
  PROVE  IInv'
<1>1. TypeOK'
  <2>1. binding' \in [Bindings -> Records]
    BY FreedType DEF IInv, TypeOK, Registered
  <2>2. caller' \in [Connections -> Calls]
    BY DEF IInv, TypeOK, Calls, Registered, Idle, Outside
  <2>. QED  BY <2>1, <2>2, Zenon DEF IInv, TypeOK, Registered
<1>2. \A e \in Connections : CallInv(e)'
  BY DEF IInv, CallInv, Registered, Idle, Outside, Accepting
<1>3. \A e \in Connections : RefsInv(e)'
  BY DEF IInv, TypeOK, Calls, CallInv, RefsInv, Registered, Freed, Idle
<1>4. DeliveryInv'
  BY DEF NotifyAssumption, IInv, TypeOK, CallInv, DeliveryInv, Registered, Freed, Idle, Accepting
<1>5. \A x \in Bindings : LiveInv(x)'
  BY DEF IInv, LiveInv, Registered, Freed
<1>6. WaitInv'
  BY FewerWaits DEF IInv, TypeOK, Registered
<1>7. ASSUME NEW e \in Connections
      PROVE  OldInv(e)'
  <2>1. CASE e = c
    BY <2>1, SMTT(60) DEF IInv, TypeOK, OldInv, Registered, Idle
  <2>2. CASE e # c
    <3>1. \A x \in {caller[c].old} : x = None \/ (x \in Bindings /\ binding[x].conn = c)
      BY DEF NotifyAssumption, IInv, TypeOK, Calls, RefsInv
    <3>. QED  BY <2>2, <3>1, OldKept DEF IInv, TypeOK, Registered
  <2>. QED  BY <2>1, <2>2
<1>. QED  BY <1>1, <1>2, <1>3, <1>4, <1>5, <1>6, <1>7 DEF IInv

\* What a refused setter finds under the global mutex: the old binding, if
\* there is one, has been delivered.
LEMMA RestoreStep ==
  ASSUME NotifyAssumption, ~Overlapping, IInv, NEW c \in Connections, Restore(c)
  PROVE  IInv'
<1>a. /\ caller[c].pc = "refused" /\ caller[c].new \in Bindings /\ caller[c].new = current[c]
      /\ caller[c].new \notin delivery.args
      /\ Delivered(caller[c].old) \/ caller[c].old = None
  BY DEF IInv, TypeOK, CallInv, OldInv, Restore, Delivered, Calls, Outside
<1>b. /\ current' = [current EXCEPT ![c] = None]
      /\ caller' = [caller EXCEPT ![c].pc = "restored"]
      /\ UNCHANGED <<native, unlocker, blocker, binding, delivery, closed>>
  BY <1>a, Zenon DEF Restore
<1>c. binding[caller[c].new].memory = "live" /\ binding[caller[c].new].conn = c
  BY <1>a DEF NotifyAssumption, IInv, RefsInv
<1>1. TypeOK'
  <2>1. caller' \in [Connections -> Calls]
    BY <1>b, SMTT(60) DEF IInv, TypeOK, Calls
  <2>2. current' \in [Connections -> Bindings \cup {None}]
    BY <1>b DEF IInv, TypeOK
  <2>. QED  BY <1>b, <2>1, <2>2 DEF IInv, TypeOK
<1>2. ASSUME NEW e \in Connections
      PROVE  CallInv(e)'
  <2>1. CallInv(e) /\ caller \in [Connections -> Calls] /\ current \in [Connections -> Bindings \cup {None}]
    BY DEF IInv, TypeOK
  <2>2. CASE e # c
    BY <1>b, <2>1, <2>2 DEF CallInv
  <2>3. CASE e = c
    BY <1>a, <1>b, <1>c, <2>1, <2>3, SMTT(60) DEF CallInv, Calls, Outside, Accepting
  <2>. QED  BY <2>2, <2>3
<1>3. \A e \in Connections : RefsInv(e)'
  BY <1>a, <1>b DEF NotifyAssumption, IInv, TypeOK, RefsInv
<1>4. DeliveryInv'
  BY <1>a, <1>b, <1>c DEF IInv, TypeOK, CallInv, DeliveryInv
<1>5. \A x \in Bindings : LiveInv(x)'
  BY <1>a, <1>b, <1>c DEF IInv, TypeOK, LiveInv
<1>6. WaitInv'
  BY <1>b, FewerWaits DEF IInv, TypeOK
<1>7. ASSUME NEW e \in Connections
      PROVE  OldInv(e)'
  BY SMTT(60) DEF NotifyAssumption, IInv, TypeOK, Records, Calls, CallInv, RefsInv, OldInv, Restore
<1>. QED  BY <1>1, <1>2, <1>3, <1>4, <1>5, <1>6, <1>7 DEF IInv

\* The end of a setter that was refused keeps the invariant: it frees its own
\* binding, and the old one that a delivery has left to it.
LEMMA RestoredStep ==
  ASSUME NotifyAssumption, ~Overlapping, IInv, NEW c \in Connections, Restored(c)
  PROVE  IInv'
<1>a. /\ caller[c].pc = "restored" /\ caller[c].new \in Bindings /\ current[c] = None
      /\ caller[c].new \notin delivery.args /\ native[c] = None
      /\ caller[c].old \in Bindings => caller[c].old \notin delivery.args
      /\ Delivered(caller[c].old) \/ caller[c].old = None
      /\ caller[c].old \in Bindings \cup {None}
  BY DEF NotifyAssumption, IInv, TypeOK, CallInv, OldInv, Restored, Delivered, Calls, Outside
<1>b. /\ binding' = Freed(binding, {caller[c].new, caller[c].old})
      /\ caller' = [caller EXCEPT ![c] = Idle]
      /\ UNCHANGED <<current, native, unlocker, blocker, delivery, closed>>
  <2>1. Freed(binding, {caller[c].new} \cup {b \in {caller[c].old} : Delivered(b)})
          = Freed(binding, {caller[c].new, caller[c].old})
    BY <1>a DEF NotifyAssumption, Freed
  <2>. QED  BY <2>1 DEF Restored
<1>c. /\ binding[caller[c].new].conn = c
      /\ caller[c].old \in Bindings => binding[caller[c].old].conn = c
  BY <1>a DEF NotifyAssumption, IInv, RefsInv
<1>d. \A x \in Bindings :
        /\ binding'[x].conn = binding[x].conn /\ binding'[x].heard = binding[x].heard
        /\ binding'[x].delivered <=> binding[x].delivered
        /\ x \in {caller[c].new, caller[c].old} => binding'[x].memory = "freed"
        /\ x \notin {caller[c].new, caller[c].old} => binding'[x] = binding[x]
  BY <1>b, FreedFacts DEF IInv, TypeOK
<1>1. TypeOK'
  <2>1. binding' \in [Bindings -> Records]
    BY <1>b, FreedType DEF IInv, TypeOK
  <2>2. caller' \in [Connections -> Calls]
    BY <1>b DEF IInv, TypeOK, Calls, Idle, Outside
  <2>. QED  BY <1>b, <2>1, <2>2, Zenon DEF IInv, TypeOK
<1>2. ASSUME NEW e \in Connections
      PROVE  CallInv(e)'
  <2>1. CallInv(e) /\ RefsInv(e) /\ caller \in [Connections -> Calls]
    BY DEF IInv, TypeOK
  <2>2. CASE e # c
    <3>1. /\ caller'[e] = caller[e] /\ caller[e] \in Calls
          /\ \A x \in Bindings : binding[x].conn = e => binding'[x] = binding[x]
      BY <1>b, <1>c, <1>d, <2>1, <2>2 DEF NotifyAssumption
    <3>. QED  BY <1>b, <2>1, <3>1, SMTT(60) DEF NotifyAssumption, CallInv, RefsInv, Calls, Outside
  <2>3. CASE e = c
    BY <1>a, <1>b, <2>1, <2>3, SMTT(60) DEF CallInv, Idle, Outside, Accepting
  <2>. QED  BY <2>2, <2>3
<1>3. ASSUME NEW e \in Connections
      PROVE  RefsInv(e)'
  <2>1. /\ RefsInv(e) /\ caller \in [Connections -> Calls]
        /\ current[e] \in Bindings \cup {None} /\ native[e] \in Bindings \cup {None}
    BY DEF IInv, TypeOK
  <2>2. CASE e # c
    <3>1. /\ caller'[e] = caller[e] /\ caller[e] \in Calls
          /\ \A x \in Bindings : binding[x].conn = e => binding'[x] = binding[x]
      BY <1>b, <1>c, <1>d, <2>1, <2>2, SMTT(60) DEF NotifyAssumption
    <3>2. caller[e].old \in Bindings \cup {None} /\ caller[e].new \in Bindings \cup {None}
      BY <3>1 DEF Calls
    <3>3. UNCHANGED <<current, native, unlocker, delivery>>
      BY <1>b
    <3>. QED  BY <2>1, <3>1, <3>2, <3>3, Zenon DEF NotifyAssumption, RefsInv
  <2>3. CASE e = c
    BY <1>a, <1>b, <2>1, <2>3, SMTT(60) DEF RefsInv, Idle
  <2>. QED  BY <2>2, <2>3
<1>4. DeliveryInv'
  <2>1. \A x \in delivery.args : /\ x \in Bindings /\ binding'[x] = binding[x]
                                /\ x \notin {caller[c].new, caller[c].old}
    BY <1>a, <1>d DEF NotifyAssumption, IInv, TypeOK
  <2>2. DeliveryInv /\ caller \in [Connections -> Calls]
    BY DEF IInv, TypeOK
  <2>3. \A e \in Connections : caller'[e] = IF e = c THEN Idle ELSE caller[e]
    BY <1>b, <2>2
  <2>4. delivery.by # c
    BY <1>a, <2>2 DEF NotifyAssumption, DeliveryInv
  <2>5. delivery.by \in Connections \cup {None}
    BY DEF IInv, TypeOK
  <2>6. \A x \in delivery.args :
          LET e == binding'[x].conn
          IN  /\ binding'[x].memory = "live" /\ e \in Connections
              /\ binding'[x].heard = IF delivery.pc = "free" THEN 1 ELSE 0
              /\ binding'[x].delivered <=> delivery.pc # "mark"
              /\ delivery.pc = "mark" => current[e] = x \/ caller'[e].old = x
              /\ delivery.pc # "mark" => (binding'[x].release <=> caller'[e].old # x)
    BY <2>1, <2>2, <2>3, SMTT(60) DEF NotifyAssumption, DeliveryInv, Idle
  <2>. QED  BY <1>b, <2>2, <2>3, <2>4, <2>5, <2>6, ZenonT(60) DEF DeliveryInv
<1>5. ASSUME NEW x \in Bindings
      PROVE  LiveInv(x)'
  <2>1. LiveInv(x) /\ caller \in [Connections -> Calls]
    BY DEF IInv, TypeOK
  <2>2. \A e \in Connections : caller'[e] = IF e = c THEN Idle ELSE caller[e]
    BY <1>b, <2>1
  <2>3. /\ binding'[x].conn = binding[x].conn /\ binding'[x].heard = binding[x].heard
        /\ binding'[x].delivered <=> binding[x].delivered
        /\ x \in {caller[c].new, caller[c].old} => binding'[x].memory = "freed"
        /\ x \notin {caller[c].new, caller[c].old} => binding'[x] = binding[x]
    BY <1>d
  <2>. QED  BY <1>b, <2>1, <2>2, <2>3 DEF LiveInv
<1>6. WaitInv'
  BY <1>b, FewerWaits, SMTT(60) DEF IInv, TypeOK
<1>7. ASSUME NEW e \in Connections
      PROVE  OldInv(e)'
  <2>1. CASE e = c
    BY <1>b, <2>1, SMTT(60) DEF IInv, TypeOK, OldInv, Idle
  <2>2. CASE e # c
    <3>1. \A x \in {caller[c].new, caller[c].old} : x = None \/ (x \in Bindings /\ binding[x].conn = c)
      BY <1>a, <1>c
    <3>. QED  BY <1>b, <2>2, <3>1, OldKept DEF IInv, TypeOK
  <2>. QED  BY <2>1, <2>2
<1>. QED  BY <1>1, <1>2, <1>3, <1>4, <1>5, <1>6, <1>7 DEF IInv

\* The cancellation in SQLite keeps the invariant.
LEMMA CancelNativeStep ==
  ASSUME NotifyAssumption, ~Overlapping, IInv, NEW c \in Connections, CancelNative(c)
  PROVE  IInv'
<1>1. TypeOK'
  BY SMTT(60) DEF IInv, TypeOK, Calls, CancelNative, Main, Outside
<1>2. \A e \in Connections : CallInv(e)'
  BY DEF IInv, TypeOK, CallInv, DeliveryInv, CancelNative, Main, Outside, Accepting
<1>3. \A e \in Connections : RefsInv(e)'
  BY DEF IInv, TypeOK, RefsInv, CancelNative
<1>4. DeliveryInv'
  BY DEF IInv, DeliveryInv, CancelNative
<1>5. \A x \in Bindings : LiveInv(x)'
  BY DEF IInv, LiveInv, CancelNative
<1>6. WaitInv'
  BY FewerWaits DEF IInv, TypeOK, CancelNative
<1>7. ASSUME NEW e \in Connections
      PROVE  OldInv(e)'
  BY SMTT(60) DEF NotifyAssumption, IInv, TypeOK, Records, Calls, CallInv, RefsInv, OldInv, CancelNative
<1>. QED  BY <1>1, <1>2, <1>3, <1>4, <1>5, <1>6, <1>7 DEF IInv

\* The cancellation in the facade keeps the invariant.
LEMMA CancelStep ==
  ASSUME NotifyAssumption, ~Overlapping, IInv, NEW c \in Connections, Cancel(c)
  PROVE  IInv'
<1>1. TypeOK'
  <2>1. binding' \in [Bindings -> Records]
    BY FreedType DEF IInv, TypeOK, Cancel
  <2>2. caller' \in [Connections -> Calls]
    BY DEF IInv, TypeOK, Calls, Cancel, Idle, Outside
  <2>3. current' \in [Connections -> Bindings \cup {None}]
    BY DEF IInv, TypeOK, Cancel
  <2>. QED  BY <2>1, <2>2, <2>3, Zenon DEF IInv, TypeOK, Cancel
<1>2. \A e \in Connections : CallInv(e)'
  BY DEF IInv, TypeOK, CallInv, Cancel, Idle, Outside, Accepting
<1>3. \A e \in Connections : RefsInv(e)'
  BY SMTT(60) DEF IInv, TypeOK, Calls, CallInv, RefsInv, Cancel, Freed, Idle
<1>4. DeliveryInv'
  BY DEF IInv, TypeOK, CallInv, DeliveryInv, Cancel, Freed, Idle, Outside
<1>5. \A x \in Bindings : LiveInv(x)'
  BY DEF IInv, CallInv, LiveInv, Cancel, Freed, Idle, Outside
<1>6. WaitInv'
  BY FewerWaits DEF IInv, TypeOK, Cancel
<1>7. ASSUME NEW e \in Connections
      PROVE  OldInv(e)'
  <2>1. CASE e = c
    BY <2>1, SMTT(60) DEF IInv, TypeOK, OldInv, Cancel, Idle
  <2>2. CASE e # c
    <3>1. \A x \in {current[c]} : x = None \/ (x \in Bindings /\ binding[x].conn = c)
      BY DEF NotifyAssumption, IInv, TypeOK, Calls, RefsInv
    <3>. QED  BY <2>2, <3>1, OldKept DEF IInv, TypeOK, Cancel
  <2>. QED  BY <2>1, <2>2
<1>. QED  BY <1>1, <1>2, <1>3, <1>4, <1>5, <1>6, <1>7 DEF IInv

\* Closing the connection keeps the invariant.
LEMMA CloseStep ==
  ASSUME NotifyAssumption, ~Overlapping, IInv, NEW c \in Connections, Close(c)
  PROVE  IInv'
<1>1. TypeOK'
  <2>1. binding' \in [Bindings -> Records]
    BY FreedType DEF IInv, TypeOK, Close
  <2>2. /\ current' \in [Connections -> Bindings \cup {None}]
        /\ native' \in [Connections -> Bindings \cup {None}]
    BY DEF IInv, TypeOK, Close
  <2>3. /\ unlocker' \in [Connections -> Connections \cup {None}]
        /\ blocker' \in [Connections -> Connections \cup {None}]
        /\ closed' \in [Connections -> BOOLEAN]
    BY SMTT(60) DEF IInv, TypeOK, Close
  <2>. QED  BY <2>1, <2>2, <2>3, Zenon DEF IInv, TypeOK, Close
<1>2. \A e \in Connections : CallInv(e)'
  BY DEF IInv, TypeOK, CallInv, Close
<1>3. \A e \in Connections : RefsInv(e)'
  BY SMTT(60) DEF IInv, TypeOK, Calls, RefsInv, Close, Freed
<1>4. DeliveryInv'
  BY DEF IInv, DeliveryInv, Close, Main
<1>5. \A x \in Bindings : LiveInv(x)'
  BY DEF IInv, LiveInv, Close, Freed
<1>6. WaitInv'
  BY FewerWaits DEF IInv, TypeOK, Close
<1>7. ASSUME NEW e \in Connections
      PROVE  OldInv(e)'
  <2>1. CASE e = c
    BY <2>1, SMTT(60) DEF IInv, TypeOK, OldInv, Close, Idle
  <2>2. CASE e # c
    <3>1. \A x \in {current[c]} : x = None \/ (x \in Bindings /\ binding[x].conn = c)
      BY DEF NotifyAssumption, IInv, TypeOK, Calls, RefsInv
    <3>. QED  BY <2>2, <3>1, OldKept DEF IInv, TypeOK, Close
  <2>. QED  BY <2>1, <2>2
<1>. QED  BY <1>1, <1>2, <1>3, <1>4, <1>5, <1>6, <1>7 DEF IInv

\* The end of the blocking transaction keeps the invariant.
LEMMA ConcludeStep ==
  ASSUME NotifyAssumption, ~Overlapping, IInv, NEW d \in Connections, Conclude(d)
  PROVE  IInv'
<1>0. \A e \in For(d) : e \in Connections /\ native[e] \in Bindings
  BY DEF NotifyAssumption, IInv, TypeOK, RefsInv, For
<1>1. TypeOK'
  <2>1. delivery' \in [pc : {"none", "mark", "call", "free"}, args : SUBSET Bindings,
                     by : Connections \cup {None}]
    BY <1>0 DEF Conclude, NoDelivery
  <2>2. /\ native' \in [Connections -> Bindings \cup {None}]
        /\ unlocker' \in [Connections -> Connections \cup {None}]
        /\ blocker' \in [Connections -> Connections \cup {None}]
    BY SMTT(60) DEF IInv, TypeOK, Conclude
  <2>. QED  BY <2>1, <2>2 DEF IInv, TypeOK, Conclude
<1>a. /\ delivery.args = {} /\ delivery.by = None
      /\ delivery'.args = {native[e] : e \in For(d)}
      /\ delivery'.pc = IF delivery'.args = {} THEN "none" ELSE "mark"
      /\ delivery'.by = None
  BY ZenonT(60) DEF IInv, DeliveryInv, Conclude, NoDelivery, Main
<1>b. /\ \A e \in Connections : native'[e] = IF e \in For(d) THEN None ELSE native[e]
      /\ \A e \in Connections : unlocker'[e] = IF e \in For(d) THEN None ELSE unlocker[e]
      /\ \A e \in Connections : blocker'[e] = IF blocker[e] = d THEN None ELSE blocker[e]
      /\ UNCHANGED <<current, binding, caller, closed>>
  BY DEF Conclude
<1>c. ASSUME NEW x \in delivery'.args
      PROVE  /\ x \in Bindings /\ binding[x].conn \in For(d) /\ x = native[binding[x].conn]
             /\ binding[x].memory = "live" /\ ~binding[x].delivered /\ binding[x].heard = 0
  <2>1. PICK e \in For(d) : x = native[e]
    BY <1>a
  <2>. QED  BY <1>0, <2>1 DEF NotifyAssumption, IInv, TypeOK, RefsInv, LiveInv
<1>2. ASSUME NEW e \in Connections
      PROVE  CallInv(e)'
  <2>1. CallInv(e) /\ RefsInv(e) /\ caller[e].pc # "delivering" /\ caller[e] \in Calls
    BY <1>a, SMTT(60) DEF NotifyAssumption, IInv, CallInv, TypeOK
  <2>2. current[e] \in delivery'.args => e \in For(d) /\ current[e] = native[e]
    BY <1>c, <2>1 DEF NotifyAssumption, IInv, RefsInv
  <2>3. caller[e].old \in delivery'.args => e \in For(d) /\ caller[e].old = native[e]
    BY <1>c, <2>1 DEF NotifyAssumption, IInv, RefsInv
  <2>4. e \in For(d) /\ native[e] # None => native[e] \in delivery'.args
    BY <1>a, SMTT(60)
  <2>5. caller[e].new \in delivery'.args => e \in For(d) /\ caller[e].new = native[e]
    BY <1>c, <2>1 DEF NotifyAssumption, IInv, RefsInv
  <2>6. unlocker[e] \in {None, blocker[e]} => unlocker'[e] \in {None, blocker'[e]}
    BY <1>b DEF For
  <2>7. e \in For(d) => native[e] # None
    BY <1>0, SMTT(60) DEF NotifyAssumption
  <2>. QED  BY <1>a, <1>b, <2>1, <2>2, <2>3, <2>4, <2>5, <2>6, <2>7, SMTT(60)
            DEF NotifyAssumption, CallInv, Calls, Outside, Accepting
<1>3. ASSUME NEW e \in Connections
      PROVE  RefsInv(e)'
  BY <1>a, <1>b, <1>c, SMTT(60) DEF IInv, TypeOK, RefsInv
<1>4. DeliveryInv'
  <2>1. ASSUME NEW x \in delivery'.args
        PROVE  current[binding[x].conn] = x \/ caller[binding[x].conn].old = x
    <3>. DEFINE e == binding[x].conn
    <3>1. /\ e \in Connections /\ native[e] = x /\ x # None
      BY <1>c DEF NotifyAssumption, For
    <3>2. CallInv(e) /\ caller[e] \in Calls
      BY <3>1, SMTT(60) DEF IInv, TypeOK
    <3>. HIDE DEF e
    <3>3. current[e] = x \/ caller[e].old = x
      BY <1>a, <3>1, <3>2 DEF CallInv, Calls, Outside, Accepting
    <3>. QED  BY <3>3 DEF e
  <2>2. For(d) \subseteq Connections
    BY SMTT(60) DEF For
  <2>. QED  BY <1>a, <1>b, <1>c, <2>1, <2>2, Zenon DEF DeliveryInv
<1>5. ASSUME NEW x \in Bindings
      PROVE  LiveInv(x)'
  BY <1>a, <1>b DEF IInv, LiveInv
<1>6. WaitInv'
  BY FewerWaits, SMTT(60) DEF IInv, TypeOK, Conclude
<1>7. ASSUME NEW e \in Connections
      PROVE  OldInv(e)'
  <2>1. CallInv(e) /\ OldInv(e)
    BY DEF IInv
  <2>2. e \in For(d) => native[e] \in delivery'.args
    BY <1>a
  <2>. QED  BY <1>a, <1>b, <1>c, <2>1, <2>2, SMTT(60) DEF CallInv, OldInv
<1>. QED  BY <1>1, <1>2, <1>3, <1>4, <1>5, <1>6, <1>7 DEF IInv

\* Under the global mutex the trampoline marks the bindings it delivers.
LEMMA Marked ==
  ASSUME IInv, Mark
  PROVE  /\ binding' = [x \in Bindings |-> binding'[x]]
         /\ \A x \in Bindings :
              /\ binding'[x] \in Records
              /\ binding'[x].memory = binding[x].memory /\ binding'[x].conn = binding[x].conn
              /\ binding'[x].heard = binding[x].heard
              /\ x \in delivery.args =>
                   binding'[x].delivered /\ (binding'[x].release <=> current[binding[x].conn] = x)
              /\ x \notin delivery.args => binding'[x] = binding[x]
<1>1. ASSUME NEW x \in Bindings
      PROVE  binding'[x] = IF x \in delivery.args
                           THEN [binding[x] EXCEPT !.delivered = TRUE,
                           !.release = current[binding[x].conn] = x]
                           ELSE binding[x]
  BY Zenon DEF Mark
<1>2. binding' = [x \in Bindings |-> binding'[x]]
  BY Zenon DEF Mark
<1>3. ASSUME NEW x \in Bindings, x \in delivery.args, current[binding[x].conn] = x
      PROVE  binding'[x] = [binding[x] EXCEPT !.delivered = TRUE, !.release = TRUE]
  <2>1. (current[binding[x].conn] = x) = TRUE
    BY <1>3
  <2>. QED  BY <1>1, <1>3, <2>1, Zenon
<1>4. ASSUME NEW x \in Bindings, x \in delivery.args, current[binding[x].conn] # x
      PROVE  binding'[x] = [binding[x] EXCEPT !.delivered = TRUE, !.release = FALSE]
  <2>1. (current[binding[x].conn] = x) = FALSE
    BY <1>4, SMTT(60)
  <2>. QED  BY <1>1, <1>4, <2>1, Zenon
<1>5. ASSUME NEW x \in Bindings
      PROVE  /\ binding'[x] \in Records
             /\ binding'[x].memory = binding[x].memory /\ binding'[x].conn = binding[x].conn
             /\ binding'[x].heard = binding[x].heard
             /\ x \in delivery.args =>
                  binding'[x].delivered /\ (binding'[x].release <=> current[binding[x].conn] = x)
             /\ x \notin delivery.args => binding'[x] = binding[x]
  <2>1. x \notin delivery.args => binding'[x] = binding[x]
    BY <1>1, Zenon
  <2>2. CASE x \in delivery.args /\ current[binding[x].conn] = x
    <3>. DEFINE r == [binding[x] EXCEPT !.delivered = TRUE]
    <3>1. /\ r \in Records /\ r.memory = binding[x].memory /\ r.conn = binding[x].conn
          /\ r.heard = binding[x].heard /\ r.delivered
      BY ZenonT(60) DEF IInv, TypeOK, Records
    <3>2. binding'[x] = [r EXCEPT !.release = TRUE]
      BY <1>3, <2>2, Zenon
    <3>. HIDE DEF r
    <3>. QED  BY <2>2, <3>1, <3>2, ZenonT(60) DEF Records
  <2>3. CASE x \in delivery.args /\ current[binding[x].conn] # x
    <3>. DEFINE r == [binding[x] EXCEPT !.delivered = TRUE]
    <3>1. /\ r \in Records /\ r.memory = binding[x].memory /\ r.conn = binding[x].conn
          /\ r.heard = binding[x].heard /\ r.delivered
      BY ZenonT(60) DEF IInv, TypeOK, Records
    <3>2. binding'[x] = [r EXCEPT !.release = FALSE]
      BY <1>4, <2>3, Zenon
    <3>. HIDE DEF r
    <3>. QED  BY <2>3, <3>1, <3>2, Zenon DEF Records
  <2>. QED  BY <2>1, <2>2, <2>3 DEF IInv, TypeOK
<1>. QED  BY <1>2, <1>5, Zenon

\* The first section of the trampoline keeps the invariant.
LEMMA MarkStep ==
  ASSUME NotifyAssumption, ~Overlapping, IInv, Mark
  PROVE  IInv'
<1>a. /\ delivery.pc = "mark" /\ delivery' = [delivery EXCEPT !.pc = "call"]
      /\ UNCHANGED <<native, unlocker, blocker, caller, closed>>
  BY Zenon DEF Mark
<1>b. current' = [e \in Connections |-> IF current[e] \in delivery.args THEN None ELSE current[e]]
  BY Zenon DEF Mark
<1>1. TypeOK'
  <2>1. binding' \in [Bindings -> Records]
    BY Marked
  <2>. QED  BY <1>a, <1>b, <2>1 DEF IInv, TypeOK
<1>2. ASSUME NEW e \in Connections
      PROVE  CallInv(e)'
  BY <1>a, <1>b DEF IInv, CallInv
<1>3. ASSUME NEW e \in Connections
      PROVE  RefsInv(e)'
  <2>1. \A x \in Bindings :
          /\ binding'[x].memory = binding[x].memory /\ binding'[x].conn = binding[x].conn
          /\ x \notin delivery.args => binding'[x] = binding[x]
    BY Marked
  <2>. QED  BY <1>a, <1>b, <2>1, SMTT(60) DEF NotifyAssumption, IInv, TypeOK, Calls, RefsInv
<1>4. DeliveryInv'
  BY <1>a, <1>b, Marked, SMTT(60) DEF NotifyAssumption, IInv, TypeOK, RefsInv, DeliveryInv
<1>5. ASSUME NEW x \in Bindings
      PROVE  LiveInv(x)'
  BY <1>a, <1>b, Marked DEF IInv, LiveInv
<1>6. WaitInv'
  BY FewerWaits, Zenon DEF IInv, TypeOK, Mark
<1>7. ASSUME NEW e \in Connections
      PROVE  OldInv(e)'
  <2>1. \A x \in Bindings : /\ binding'[x].memory = binding[x].memory
                            /\ binding[x].delivered => binding'[x].delivered
    BY Marked, SMTT(60)
  <2>2. caller[e].old \in Bindings \cup {None} /\ caller[e].new \in Bindings \cup {None}
    BY DEF IInv, TypeOK, Calls
  <2>3. caller[e].pc = "restored" => caller[e].new # None
    BY DEF IInv, CallInv, Outside
  <2>4. UNCHANGED <<caller, native>> /\ delivery'.args = delivery.args /\ OldInv(e)
    BY <1>a DEF IInv, TypeOK
  <2>. QED  BY <2>1, <2>2, <2>3, <2>4 DEF OldInv
<1>. QED  BY <1>1, <1>2, <1>3, <1>4, <1>5, <1>6, <1>7 DEF IInv

\* The callbacks keep the invariant.
LEMMA CallBackStep ==
  ASSUME NotifyAssumption, ~Overlapping, IInv, CallBack
  PROVE  IInv'
<1>1. TypeOK'
  <2>1. binding' \in [Bindings -> Records]
    BY SMTT(60) DEF IInv, TypeOK, Records, CallBack
  <2>2. delivery' \in [pc : {"none", "mark", "call", "free"}, args : SUBSET Bindings,
                     by : Connections \cup {None}]
    BY DEF IInv, TypeOK, CallBack
  <2>. QED  BY <2>1, <2>2 DEF IInv, TypeOK, CallBack
<1>2. \A e \in Connections : CallInv(e)'
  BY DEF IInv, CallInv, CallBack
<1>3. \A e \in Connections : RefsInv(e)'
  BY SMTT(60) DEF IInv, TypeOK, Calls, RefsInv, CallBack
<1>4. DeliveryInv'
  BY DEF IInv, TypeOK, DeliveryInv, CallBack
<1>5. \A x \in Bindings : LiveInv(x)'
  BY DEF IInv, DeliveryInv, LiveInv, CallBack
<1>6. WaitInv'
  BY FewerWaits DEF IInv, TypeOK, CallBack
<1>7. ASSUME NEW e \in Connections
      PROVE  OldInv(e)'
  <2>1. \A x \in Bindings : /\ binding'[x].memory = binding[x].memory
                            /\ binding'[x].delivered = binding[x].delivered
    BY DEF IInv, TypeOK, Records, CallBack
  <2>2. caller[e].old \in Bindings \cup {None} /\ caller[e].new \in Bindings \cup {None}
    BY DEF IInv, TypeOK, Calls
  <2>3. caller[e].pc = "restored" => caller[e].new # None
    BY DEF IInv, CallInv, Outside
  <2>4. UNCHANGED <<caller, native>> /\ delivery'.args = delivery.args /\ OldInv(e)
    BY DEF IInv, TypeOK, CallBack
  <2>. QED  BY <2>1, <2>2, <2>3, <2>4 DEF OldInv
<1>. QED  BY <1>1, <1>2, <1>3, <1>4, <1>5, <1>6, <1>7 DEF IInv

\* The last section of the trampoline keeps the invariant.
LEMMA ReleaseStep ==
  ASSUME NotifyAssumption, ~Overlapping, IInv, Release
  PROVE  IInv'
<1>1. TypeOK'
  <2>1. binding' \in [Bindings -> Records]
    BY FreedType DEF IInv, TypeOK, Release
  <2>2. caller' \in [Connections -> Calls]
    <3>1. CASE delivery.by = None
      BY <3>1 DEF IInv, TypeOK, Release
    <3>2. CASE delivery.by # None
      <4>1. PICK c \in Connections : c = delivery.by
        BY <3>2 DEF IInv, TypeOK
      <4>2. caller' = [caller EXCEPT ![c].pc = "registered"]
        BY <3>2, <4>1 DEF Release
      <4>3. caller[c] \in Calls
        BY DEF IInv, TypeOK
      <4>4. [caller[c] EXCEPT !.pc = "registered"] \in Calls
        BY <4>3 DEF Calls, Accepting
      <4> QED BY <4>2, <4>4 DEF IInv, TypeOK
    <3> QED BY <3>1, <3>2
  <2>3. delivery' \in [pc : {"none", "mark", "call", "free"}, args : SUBSET Bindings,
                     by : Connections \cup {None}]
    BY DEF IInv, Release, NoDelivery
  <2>. QED  BY <2>1, <2>2, <2>3, Zenon DEF IInv, TypeOK, Release
<1>2. \A e \in Connections : CallInv(e)'
  BY DEF NotifyAssumption, IInv, TypeOK, CallInv, RefsInv, DeliveryInv, Release, NoDelivery,
     Outside, Accepting
<1>3. \A e \in Connections : RefsInv(e)'
  BY SMTT(60) DEF IInv, TypeOK, Calls, RefsInv, DeliveryInv, Release, Freed, NoDelivery
<1>4. DeliveryInv'
  BY DEF IInv, DeliveryInv, Release, NoDelivery
<1>5. \A x \in Bindings : LiveInv(x)'
  BY SMTT(60) DEF IInv, DeliveryInv, LiveInv, Release, Freed
<1>6. WaitInv'
  BY FewerWaits DEF IInv, TypeOK, Release
<1>7. ASSUME NEW e \in Connections
      PROVE  OldInv(e)'
  <2>1. /\ CallInv(e) /\ OldInv(e) /\ DeliveryInv /\ binding \in [Bindings -> Records]
        /\ caller[e].old \in Bindings \cup {None} /\ caller[e].new \in Bindings \cup {None}
    BY DEF IInv, TypeOK, Calls
  <2>2. /\ binding' = Freed(binding, {b \in delivery.args : binding[b].release})
        /\ delivery.pc = "free" /\ delivery'.args = {} /\ UNCHANGED native
    BY DEF Release, NoDelivery
  <2>3. \A x \in Bindings : /\ binding'[x].delivered <=> binding[x].delivered
                            /\ x \notin delivery.args => binding'[x] = binding[x]
    BY <2>1, <2>2, FreedFacts
  <2>4. caller'[e].pc = "registered" \/ caller'[e] = caller[e]
    BY DEF IInv, TypeOK, Calls, Release
  <2>5. \A x \in delivery.args : binding[x].delivered
    BY <2>2 DEF IInv, DeliveryInv
  <2>6. caller[e].pc = "restored" => caller[e].new # None /\ caller[e].new \notin delivery.args
    BY <2>1, SMTT(60) DEF CallInv, Outside
  <2>. QED  BY <2>1, <2>2, <2>3, <2>4, <2>5, <2>6 DEF OldInv
<1>. QED  BY <1>1, <1>2, <1>3, <1>4, <1>5, <1>6, <1>7 DEF IInv

\* The invariant holds before any call.
LEMMA InitStep == NotifyAssumption /\ Init => IInv
BY SMTT(60) DEF NotifyAssumption, Init, Unused, Idle, NoDelivery, IInv, TypeOK, Records, Calls, CallInv,
   RefsInv, OldInv, DeliveryInv, LiveInv, WaitInv, Outside, Accepting

\* The invariant says who holds each binding, and so NotifyExact.
LEMMA Implied == NotifyAssumption /\ IInv => NotifyExact
BY DEF NotifyAssumption, IInv, TypeOK, Records, Calls, CallInv, RefsInv, DeliveryInv, LiveInv,
   Outside, Accepting, NotifyExact, DeliveryKeepsBindings, RegistrationsExact, InCall

\* Every step of the setter, the trampoline and SQLite keeps the invariant.
LEMMA Invariance ==
  ASSUME NotifyAssumption, ~Overlapping
  PROVE  Spec => []IInv
<1>1. Init => IInv
  BY InitStep
<1>2. IInv /\ [Next]_vars => IInv'
  <2>. SUFFICES ASSUME IInv, [Next]_vars PROVE IInv'
    OBVIOUS
  <2>1. ASSUME NEW c \in Connections,
               \/ Accepted(c) \/ AtOnce(c) \/ Refused(c) \/ Registered(c) \/ Restore(c) \/ Restored(c)
               \/ CancelNative(c) \/ Cancel(c) \/ Close(c) \/ Conclude(c)
        PROVE  IInv'
    BY <2>1, ConcludeStep, RestoredStep, AcceptedStep, AtOnceStep, RefusedStep, RegisteredStep, RestoreStep,
       CancelNativeStep, CancelStep, CloseStep
  <2>2. ASSUME NEW c \in Connections, NEW b \in Bindings, Publish(c, b)
        PROVE  IInv'
    BY <2>2, PublishStep
  <2>3. ASSUME NEW c \in Connections, NEW d \in Connections, Block(c, d)
        PROVE  IInv'
    BY <2>3, BlockStep
  <2>4. CASE Mark \/ CallBack \/ Release
    BY <2>4, MarkStep, CallBackStep, ReleaseStep, SMTT(60)
  <2>5. CASE UNCHANGED vars
    <3>1. UNCHANGED <<current, native, unlocker, blocker, binding, caller, delivery, closed>>
      BY <2>5 DEF vars
    <3>2. TypeOK' /\ DeliveryInv'
      BY <3>1 DEF IInv, TypeOK, DeliveryInv
    <3>3. \A c \in Connections : CallInv(c)' /\ RefsInv(c)'
      BY <3>1 DEF IInv, CallInv, RefsInv
    <3>4. \A c \in Connections : OldInv(c)'
      BY <3>1 DEF IInv, OldInv
    <3>5. \A b \in Bindings : LiveInv(b)'
      BY <3>1 DEF IInv, LiveInv
    <3>6. WaitInv'
      BY <3>1 DEF IInv, WaitInv, Waits
    <3> QED BY <3>2, <3>3, <3>4, <3>5, <3>6 DEF IInv
  <2>. QED  BY <2>1, <2>2, <2>3, <2>4, <2>5 DEF Next
<1>. QED  BY <1>1, <1>2, PTL DEF Spec

\* Every binding of cpkt_sqlite_unlock_notify has exactly the holders that
\* will free it, SQLite keeps an accepted registration that was not
\* replaced, a delivery works on live bindings only and each is heard at
\* most once: for any connections and registrations, refusals and deliveries
\* at once included, where no connection registers again over a registration
\* for another blocker.
THEOREM UnlockNotifyExact ==
  ASSUME NotifyAssumption, ~Overlapping
  PROVE  Spec => []NotifyExact
<1>1. IInv => NotifyExact
  BY Implied
<1>2. Spec => []IInv
  BY Invariance
<1>. QED  BY <1>1, <1>2, PTL

-----------------------------------------------------------------------------
(* The service: every action is one of its steps or leaves it alone.       *)

\* A statement that is blocked (SQLITE_LOCKED) leaves the service alone.
LEMMA BlockKept ==
  ASSUME NotifyAssumption, IInv, NEW c \in Connections, NEW d \in Connections, Block(c, d)
  PROVE  Service!Next \/ UNCHANGED Service!vars
<1>1. Used' = Used
  BY DEF IInv, Used, Block
<1>2. Asked' = Asked
  BY DEF IInv, Asked, Block
<1>3. Due' = Due
  BY DEF IInv, Due, Block
<1>4. Heard' = Heard
  BY DEF IInv, Heard, Block
<1>. QED  BY <1>1, <1>2, <1>3, <1>4 DEF Block, Service!vars

\* Publishing a new binding in cpkt_sqlite_unlock_notify is Ask.
LEMMA PublishKept ==
  ASSUME NotifyAssumption, IInv, NEW c \in Connections, NEW b \in Bindings, Publish(c, b)
  PROVE  Service!Next \/ UNCHANGED Service!vars
<1>1. Used' = Used \cup {b}
  BY DEF IInv, TypeOK, Used, Publish
<1>2. Asked' = [Asked EXCEPT ![c] = b]
  BY Zenon DEF IInv, TypeOK, Calls, Asked, Publish
<1>3. Due' = Due
  BY DEF IInv, Due, Publish
<1>4. Heard' = Heard
  BY DEF IInv, LiveInv, Unused, Heard, Publish
<1>5. Service!Ask(c, b)
  BY <1>1, <1>2, <1>3, <1>4 DEF IInv, Used, Asked, Publish, Service!Ask
<1>. QED  BY <1>5 DEF Service!Next

\* A registration that sqlite3_unlock_notify accepts is Accept.
LEMMA AcceptedKept ==
  ASSUME NotifyAssumption, IInv, NEW c \in Connections, Accepted(c)
  PROVE  Service!Next \/ UNCHANGED Service!vars
<1>1. Used' = Used
  BY DEF IInv, Used, Accepted
<1>2. Asked' = [Asked EXCEPT ![c] = None]
  BY ZenonT(60) DEF IInv, TypeOK, Calls, Accepted, Asked
<1>3. Due' = Due
  BY DEF IInv, Due, Accepted
<1>4. Heard' = Heard
  BY DEF IInv, Heard, Accepted
<1>5. Service!Accept(c)
  BY <1>1, <1>2, <1>3, <1>4, Zenon DEF NotifyAssumption, IInv, CallInv, Outside, Main, Asked, Due,
     Accepted, Service!Accept
<1>. QED  BY <1>5 DEF Service!Next

\* A registration that is delivered inside the native call is DueNow.
LEMMA AtOnceKept ==
  ASSUME NotifyAssumption, IInv, NEW c \in Connections, AtOnce(c)
  PROVE  Service!Next \/ UNCHANGED Service!vars
<1>1. Used' = Used
  BY DEF IInv, Used, AtOnce
<1>2. Asked' = [Asked EXCEPT ![c] = None]
  BY ZenonT(60) DEF IInv, TypeOK, Calls, AtOnce, Asked
<1>3. Due' = {Asked[c]}
  BY DEF Asked, Due, AtOnce
<1>4. Heard' = Heard
  BY DEF IInv, Heard, AtOnce
<1>5. Service!DueNow(c)
  BY <1>1, <1>2, <1>3, <1>4, SMTT(60) DEF IInv, CallInv, RefsInv, Main, Due, AtOnce, Service!DueNow
<1>. QED  BY <1>5 DEF Service!Next

\* A registration that SQLite refuses leaves the service alone.
LEMMA RefusedKept ==
  ASSUME NotifyAssumption, IInv, NEW c \in Connections, Refused(c)
  PROVE  Service!Next \/ UNCHANGED Service!vars
<1>1. Used' = Used
  BY DEF IInv, Used, Refused
<1>2. Asked' = Asked
  BY DEF IInv, Asked, Refused
<1>3. Due' = Due
  BY DEF IInv, Due, Refused
<1>4. Heard' = Heard
  BY DEF IInv, Heard, Refused
<1>. QED  BY <1>1, <1>2, <1>3, <1>4 DEF Refused, Service!vars

\* The end of a setter that succeeded leaves the service alone.
LEMMA RegisteredKept ==
  ASSUME NotifyAssumption, IInv, NEW c \in Connections, Registered(c)
  PROVE  Service!Next \/ UNCHANGED Service!vars
<1>1. Used' = Used
  BY DEF NotifyAssumption, IInv, RefsInv, Freed, Used, Registered
<1>2. Asked' = Asked
  BY DEF IInv, Idle, Asked, Registered
<1>3. Due' = Due
  BY DEF IInv, Due, Registered
<1>4. Heard' = Heard
  BY DEF IInv, Freed, Heard, Registered
<1>. QED  BY <1>1, <1>2, <1>3, <1>4 DEF Registered, Service!vars

\* What a refused setter does under the global mutex leaves the service alone.
LEMMA RestoreKept ==
  ASSUME NotifyAssumption, IInv, NEW c \in Connections, Restore(c)
  PROVE  Service!Next \/ UNCHANGED Service!vars
<1>1. Used' = Used
  BY DEF Used, Restore
<1>2. Asked' = Asked
  BY DEF IInv, TypeOK, Calls, Asked, Restore
<1>3. Due' = Due
  BY DEF Due, Restore
<1>4. Heard' = Heard
  BY DEF Heard, Restore
<1>. QED  BY <1>1, <1>2, <1>3, <1>4 DEF Restore, Service!vars

\* The end of a setter that was refused is Refuse.
LEMMA RestoredKept ==
  ASSUME NotifyAssumption, IInv, NEW c \in Connections, Restored(c)
  PROVE  Service!Next \/ UNCHANGED Service!vars
<1>1. Used' = Used
  <2>1. /\ caller[c].new # None => binding[caller[c].new].memory # "unused"
        /\ caller[c].old # None => binding[caller[c].old].memory # "unused"
    BY DEF IInv, RefsInv
  <2>2. \A x \in Bindings : binding'[x].memory # "unused" <=> binding[x].memory # "unused"
    BY <2>1, SMTT(60) DEF NotifyAssumption, IInv, TypeOK, Records, Freed, Restored
  <2>. QED  BY <2>2 DEF Used
<1>2. Asked' = [Asked EXCEPT ![c] = None]
  BY Zenon DEF IInv, TypeOK, Calls, Restored, Asked, Idle
<1>3. Due' = Due
  BY DEF Due, Restored
<1>4. Heard' = Heard
  BY SMTT(60) DEF IInv, TypeOK, Records, Freed, Heard, Restored
<1>5. Asked[c] # None
  BY SMTT(60) DEF IInv, CallInv, Asked, Restored, Outside
<1>6. Service!Refuse(c)
  BY <1>1, <1>2, <1>3, <1>4, <1>5 DEF Restored, Service!Refuse
<1>. QED  BY <1>6 DEF Service!Next

\* The cancellation in SQLite is Withdraw.
LEMMA CancelNativeKept ==
  ASSUME NotifyAssumption, IInv, NEW c \in Connections, CancelNative(c)
  PROVE  Service!Next \/ UNCHANGED Service!vars
<1>1. Used' = Used
  BY DEF IInv, Used, CancelNative
<1>2. Asked' = Asked
  BY DEF IInv, Asked, CancelNative
<1>3. Due' = Due
  BY DEF IInv, Due, CancelNative
<1>4. Heard' = Heard
  BY DEF IInv, Heard, CancelNative
<1>5. Service!Withdraw(c)
  BY <1>1, <1>2, <1>3, <1>4 DEF IInv, Main, Asked, Due, CancelNative, Service!Withdraw
<1>. QED  BY <1>5 DEF Service!Next

\* The cancellation in the facade leaves the service alone.
LEMMA CancelKept ==
  ASSUME NotifyAssumption, IInv, NEW c \in Connections, Cancel(c)
  PROVE  Service!Next \/ UNCHANGED Service!vars
<1>1. Used' = Used
  BY DEF NotifyAssumption, IInv, RefsInv, Freed, Used, Cancel
<1>2. Asked' = Asked
  BY DEF IInv, Idle, Asked, Cancel
<1>3. Due' = Due
  BY DEF IInv, Due, Cancel
<1>4. Heard' = Heard
  BY DEF IInv, Freed, Heard, Cancel
<1>. QED  BY <1>1, <1>2, <1>3, <1>4 DEF Cancel, Service!vars

\* Closing the connection is Withdraw.
LEMMA CloseKept ==
  ASSUME NotifyAssumption, IInv, NEW c \in Connections, Close(c)
  PROVE  Service!Next \/ UNCHANGED Service!vars
<1>1. Used' = Used
  BY DEF NotifyAssumption, IInv, RefsInv, Freed, Used, Close
<1>2. Asked' = Asked
  BY DEF IInv, Asked, Close
<1>3. Due' = Due
  BY DEF IInv, Due, Close
<1>4. Heard' = Heard
  BY DEF IInv, Freed, Heard, Close
<1>5. Service!Withdraw(c)
  BY <1>1, <1>2, <1>3, <1>4 DEF NotifyAssumption, IInv, RefsInv, Freed, Main, Asked, Due, Close,
     Service!Withdraw
<1>. QED  BY <1>5 DEF Service!Next

\* The end of the blocking transaction is Unlock.
LEMMA ConcludeKept ==
  ASSUME NotifyAssumption, IInv, NEW d \in Connections, Conclude(d)
  PROVE  Service!Next \/ UNCHANGED Service!vars
<1>1. Used' = Used
  BY DEF IInv, Used, Conclude
<1>2. Asked' = Asked
  BY DEF IInv, Asked, Conclude
<1>3. Due' = {native[c] : c \in For(d)}
  BY DEF Due, NoDelivery, Main, Conclude
<1>4. Heard' = Heard
  BY SMTT(60) DEF IInv, Heard, Conclude
<1>5. For(d) \in SUBSET Connections /\ {native[c] : c \in For(d)} = {native[c] : c \in For(d)} \ {None}
  BY SMTT(60) DEF NotifyAssumption, IInv, TypeOK, RefsInv, For
<1>6. Due = {} /\ native' = [c \in Connections |-> IF c \in For(d) THEN None ELSE native[c]]
  BY DEF Main, Due, Conclude
<1>7. Service!Unlock(For(d))
  BY <1>1, <1>2, <1>3, <1>4, <1>5, <1>6, Zenon DEF Service!Unlock
<1>. QED  BY <1>5, <1>7 DEF Service!Next

\* The first section of the trampoline leaves the service alone.
LEMMA MarkKept ==
  ASSUME NotifyAssumption, IInv, Mark
  PROVE  Service!Next \/ UNCHANGED Service!vars
<1>1. Used' = Used
  BY Marked DEF Used, Heard
<1>2. Asked' = Asked
  BY Zenon DEF Asked, Mark
<1>3. Due' = Due
  <2>1. delivery.pc = "mark" /\ delivery' = [delivery EXCEPT !.pc = "call"]
    BY Zenon DEF Mark
  <2>. QED  BY <2>1, SMTT(60) DEF IInv, TypeOK, Due
<1>4. Heard' = Heard
  BY Marked DEF Used, Heard
<1>. QED  BY <1>1, <1>2, <1>3, <1>4, Zenon DEF Mark, Service!vars

\* The callbacks are Hear.
LEMMA CallBackKept ==
  ASSUME NotifyAssumption, IInv, CallBack
  PROVE  Service!Next \/ UNCHANGED Service!vars
<1>1. Used' = Used
  BY DEF IInv, Used, CallBack
<1>2. Asked' = Asked
  BY DEF IInv, Asked, CallBack
<1>3. Due' = {}
  BY DEF IInv, Due, CallBack
<1>4. Heard' = Heard \cup Due
  BY DEF IInv, TypeOK, Records, DeliveryInv, Due, Heard, CallBack
<1>5. Service!Hear
  BY <1>1, <1>2, <1>3, <1>4 DEF IInv, DeliveryInv, Due, CallBack, Service!Hear
<1>. QED  BY <1>5 DEF Service!Next

\* The last section of the trampoline leaves the service alone.
LEMMA ReleaseKept ==
  ASSUME NotifyAssumption, IInv, Release
  PROVE  Service!Next \/ UNCHANGED Service!vars
<1>1. Used' = Used
  BY DEF IInv, DeliveryInv, Freed, Used, Release
<1>2. Asked' = Asked
  BY DEF IInv, DeliveryInv, Asked, Release
<1>3. Due' = Due
  BY DEF IInv, NoDelivery, Due, Release
<1>4. Heard' = Heard
  BY DEF IInv, Freed, Heard, Release
<1>. QED  BY <1>1, <1>2, <1>3, <1>4 DEF Release, Service!vars


\* The bindings of cpkt_sqlite_unlock_notify, the native call and the
\* trampoline keep the promise of Notifications: an accepted registration
\* waits until it is replaced, withdrawn or due, and what is due is heard
\* once, together, whatever the calls on its connection do meanwhile.
THEOREM NotificationsImplemented ==
  ASSUME NotifyAssumption, ~Overlapping
  PROVE  Spec => NotificationsKept
<1>1. Init => Service!Init
  BY DEF Init, Unused, Idle, NoDelivery, Used, Asked, Due, Heard, Service!Init
<1>2. IInv /\ [Next]_vars => [Service!Next]_Service!vars
  <2>. SUFFICES ASSUME IInv, [Next]_vars
                PROVE  Service!Next \/ UNCHANGED Service!vars
    OBVIOUS
  <2>1. CASE UNCHANGED vars
    BY <2>1 DEF vars, Used, Asked, Due, Heard, Service!vars
  <2>2. CASE Next
    BY <2>2, BlockKept, PublishKept, AcceptedKept, AtOnceKept, RefusedKept, RegisteredKept,
       RestoreKept, RestoredKept, CancelNativeKept, CancelKept, CloseKept, ConcludeKept, MarkKept,
       CallBackKept, ReleaseKept, Zenon DEF Next
  <2>. QED  BY <2>1, <2>2
<1>3. Spec => []IInv
  BY Invariance
<1>. QED  BY <1>1, <1>2, <1>3, PTL DEF Spec, Service!Spec, NotificationsKept
=============================================================================
