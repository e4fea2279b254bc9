---------------------------- MODULE SqliteObjects ----------------------------
(***************************************************************************)
(* The small objects of src/sqlite.c: a public shell, allocated by the     *)
(* library, around a handle that SQLite made (blob, snapshot, iterator,    *)
(* rebaser, changegroup, string, file name, result table, value) or around *)
(* memory SQLite returned (a changeset).  Making one takes two allocations *)
(* that can each fail, in an order that differs from class to class, and   *)
(* the loser has to be taken back.  Values and iterators also exist in a   *)
(* borrowed form, lent to a callback or read out of another object, whose  *)
(* native part must survive every close the application makes of them.     *)
(*                                                                         *)
(* Handles SQLite returns are external: a member of Natives that is not    *)
(* live.  The application uses an object until it closes it, once, and     *)
(* uses a borrowed value only while its lender is open.                    *)
(***************************************************************************)
EXTENDS Naturals, FiniteSets

CONSTANTS Objects,    \* public shells
          Natives,    \* handles and buffers of SQLite
          None

VARIABLES shell,      \* shell[o]: what the application holds as o
          live,       \* natives SQLite has not released
          lent,       \* natives that SQLite itself releases
          children,   \* state->child_count: blobs that keep the connection
          reached,    \* the native the last call went to
          out,        \* what the last call left in *out
          faults      \* releases of a native that was not the library's

vars == <<shell, live, lent, children, reached, out, faults>>

Gone == [kind |-> "gone", native |-> None, owned |-> FALSE, shell_owned |-> FALSE]

Shell(k, n, owned, shell_owned) ==
    [kind |-> k, native |-> n, owned |-> owned, shell_owned |-> shell_owned]

Held(k) == {o \in Objects : shell[o].kind = k}

Init ==
    /\ shell = [o \in Objects |-> Gone]
    /\ live = {} /\ lent = {}
    /\ children = 0 /\ reached = None /\ out = None /\ faults = 0

\* SQLite releases the natives in ns: a fault unless they are live and not lent.
Release(ns) ==
    /\ live' = live \ ns
    /\ faults' = faults + Cardinality(ns \ (live \ lent))

Returns(o) == out' = o /\ reached' = None

(***************************************************************************)
(* Native first: the native call fails, or the shell's calloc fails and    *)
(* the native is released again, or both are there.                        *)
(***************************************************************************)

Wrap(k, o, n, ok, memory) ==
    /\ shell[o] = Gone /\ n \notin live
    /\ \/ ~ok /\ Returns(None) /\ UNCHANGED <<shell, live>>
       \/ ok /\ ~memory /\ Returns(None) /\ live' = (live \cup {n}) \ {n} /\ UNCHANGED shell
       \/ /\ ok /\ memory
          /\ shell' = [shell EXCEPT ![o] = Shell(k, n, TRUE, TRUE)]
          /\ live' = live \cup {n}
          /\ Returns(o)
    /\ UNCHANGED <<lent, faults>>

SnapshotGet(o, n, ok, memory) == Wrap("snapshot", o, n, ok, memory) /\ UNCHANGED children

ChangesetStart(o, n, ok, memory) == Wrap("iterator", o, n, ok, memory) /\ UNCHANGED children

RebaserNew(o, n, ok, memory) == Wrap("rebaser", o, n, ok, memory) /\ UNCHANGED children

ChangegroupNew(o, n, ok, memory) == Wrap("changegroup", o, n, ok, memory) /\ UNCHANGED children

StringNew(o, n, ok, memory) == Wrap("string", o, n, ok, memory) /\ UNCHANGED children

FilenameNew(o, n, ok, memory) == Wrap("filename", o, n, ok, memory) /\ UNCHANGED children

GetTable(o, n, ok, memory) == Wrap("table", o, n, ok, memory) /\ UNCHANGED children

ValueDuplicate(o, n, ok, memory) == Wrap("value", o, n, ok, memory) /\ UNCHANGED children

\* A blob also keeps its connection from being destroyed.
OpenBlob(o, n, ok, memory) ==
    /\ Wrap("blob", o, n, ok, memory)
    /\ children' = IF ok /\ memory THEN children + 1 ELSE children

\* Shell first, for the native iterator reads its input through the shell: a
\* native that cannot be made takes the shell with it.
ChangesetStartStrm(o, n, ok, memory) ==
    /\ shell[o] = Gone /\ n \notin live
    /\ LET made == memory /\ ok IN
       /\ shell' = IF made THEN [shell EXCEPT ![o] = Shell("iterator", n, TRUE, TRUE)] ELSE shell
       /\ live' = IF made THEN live \cup {n} ELSE live
       /\ Returns(IF made THEN o ELSE None)
    /\ UNCHANGED <<lent, children, faults>>

(***************************************************************************)
(* Changesets wrap memory that SQLite returned; an empty one may have none. *)
(***************************************************************************)
ChangesetNewOwned(o, data, memory) ==
    LET bytes == {data} \ {None} IN
    /\ shell[o] = Gone /\ data \notin live
    /\ \/ memory /\ shell' = [shell EXCEPT ![o] = Shell("changeset", data, TRUE, TRUE)]
                 /\ live' = live \cup bytes /\ Returns(o)
       \/ ~memory /\ live' = (live \cup bytes) \ bytes /\ Returns(None) /\ UNCHANGED shell
    /\ UNCHANGED <<lent, children, faults>>

\* Session changeset and patchset, invert, concat, rebase, changegroup output.
SessionChangeset(o, data, memory) == ChangesetNewOwned(o, data, memory)

ChangesetInvert(s, o, data, memory) ==
    shell[s].kind = "changeset" /\ ChangesetNewOwned(o, data, memory)

RebaserRebase(s, o, data, memory) ==
    shell[s].kind = "rebaser" /\ ChangesetNewOwned(o, data, memory)

ChangegroupOutput(s, o, data, memory) ==
    shell[s].kind = "changegroup" /\ ChangesetNewOwned(o, data, memory)

\* What an apply that succeeded does with the rebase data: nothing was asked
\* for, nothing was returned, or it becomes a changeset.
RebaseResult(wanted, o, data, memory) ==
    IF wanted /\ data # None
    THEN ChangesetNewOwned(o, data, memory)
    ELSE /\ shell[o] = Gone
         /\ data \notin live
         /\ live' = (live \cup ({data} \ {None})) \ {data}
         /\ Returns(None)
         /\ UNCHANGED <<shell, lent, children, faults>>

\* Mutated form: the rebase data of a failed apply stays with nobody.
ChangesetApplyEx_Leaks(s, wanted, o, data, ok, memory) ==
    /\ shell[s].kind = "changeset"
    /\ data # None => wanted
    /\ IF ok THEN RebaseResult(wanted, o, data, memory)
       ELSE /\ data \notin live
            /\ live' = live \cup ({data} \ {None})
            /\ Returns(None)
            /\ UNCHANGED <<shell, lent, children, faults>>

\* apply_ex and apply_v3, from memory and streamed: SQLite may have built
\* rebase data before it failed.
ChangesetApplyEx(s, wanted, o, data, ok, memory) ==
    /\ shell[s].kind = "changeset"
    /\ data # None => wanted
    /\ IF ok THEN RebaseResult(wanted, o, data, memory)
       ELSE /\ data \notin live
            /\ live' = (live \cup ({data} \ {None})) \ {data}
            /\ Returns(None)
            /\ UNCHANGED <<shell, lent, children, faults>>

(***************************************************************************)
(* Borrowed objects.                                                       *)
(***************************************************************************)
\* A shell of the application's around a value of an iterator, of a row or of
\* the row being changed: the value stays its lender's.
BorrowValue(o, n, memory) ==
    /\ shell[o] = Gone /\ n \notin live
    /\ live' = live \cup {n}
    /\ lent' = lent \cup {n}
    /\ shell' = IF memory THEN [shell EXCEPT ![o] = Shell("value", n, FALSE, TRUE)] ELSE shell
    /\ Returns(IF memory THEN o ELSE None)
    /\ UNCHANGED <<children, faults>>

IteratorValue(i, o, n, memory) == shell[i].kind = "iterator" /\ BorrowValue(o, n, memory)

ColumnValue(o, n, memory) == BorrowValue(o, n, memory)

PreupdateValue(o, n, memory) == BorrowValue(o, n, memory)

\* Arguments of a function, parameters of an R-tree query, the iterator of a
\* conflict or filter callback: shells of the library's, for one callback.
Lend(k, o, n) ==
    /\ shell[o] = Gone /\ n \notin live
    /\ live' = live \cup {n}
    /\ lent' = lent \cup {n}
    /\ shell' = [shell EXCEPT ![o] = Shell(k, n, FALSE, FALSE)]
    /\ Returns(None)
    /\ UNCHANGED <<children, faults>>

FunctionCall(o, n, memory) ==
    IF memory THEN Lend("value", o, n)
    ELSE shell[o] = Gone /\ n \notin live /\ Returns(None)
         /\ UNCHANGED <<shell, live, lent, children, faults>>

RtreeQuery(o, n, memory) == FunctionCall(o, n, memory)

ConflictTrampoline(o, n) == Lend("iterator", o, n)

\* The lender moves on: its native is gone, and so are the shells the library
\* had around it.  A shell of the application's stays until it is freed.
LenderMovesOn(n) ==
    /\ n \in lent
    /\ live' = live \ {n}
    /\ lent' = lent \ {n}
    /\ shell' = [o \in Objects |-> IF shell[o].native = n /\ ~shell[o].shell_owned
                                   THEN Gone ELSE shell[o]]
    /\ Returns(None)
    /\ UNCHANGED <<children, faults>>

(***************************************************************************)
(* Calls and closes.                                                       *)
(***************************************************************************)
\* A method forwards to the native; without one it answers MISUSE, 0 or NULL.
Forward(k, o) ==
    /\ shell[o].kind = k
    /\ shell[o].native \in live \cup {None}
    /\ reached' = shell[o].native
    /\ out' = None
    /\ UNCHANGED <<shell, live, lent, children, faults>>

BlobCall(o) == Forward("blob", o)

SnapshotCall(o) == Forward("snapshot", o)

IteratorCall(o) == Forward("iterator", o)

RebaserCall(o) == Forward("rebaser", o)

ChangegroupCall(o) == Forward("changegroup", o)

StringCall(o) == Forward("string", o)

FilenameCall(o) == Forward("filename", o)

TableCall(o) == Forward("table", o)

ValueCall(o) == Forward("value", o)

\* The native goes first, then the shell.
CloseShell(k, o) ==
    /\ shell[o].kind = k /\ shell[o].shell_owned
    /\ Release({shell[o].native} \ {None})
    /\ shell' = [shell EXCEPT ![o] = Gone]
    /\ Returns(None)
    /\ UNCHANGED lent

SnapshotFree(o) == CloseShell("snapshot", o) /\ UNCHANGED children

IteratorClose(o) == CloseShell("iterator", o) /\ UNCHANGED children

RebaserClose(o) == CloseShell("rebaser", o) /\ UNCHANGED children

ChangegroupClose(o) == CloseShell("changegroup", o) /\ UNCHANGED children

StringClose(o) == CloseShell("string", o) /\ UNCHANGED children

FilenameClose(o) == CloseShell("filename", o) /\ UNCHANGED children

TableClose(o) == CloseShell("table", o) /\ UNCHANGED children

ChangesetFree(o) == CloseShell("changeset", o) /\ UNCHANGED children

BlobClose(o) == CloseShell("blob", o) /\ children' = children - 1

\* The text passes to the application, the string object is gone.
StringFinish(o) ==
    /\ shell[o].kind = "string" /\ shell[o].native # None
    /\ live' = live \ {shell[o].native}
    /\ shell' = [shell EXCEPT ![o] = Gone]
    /\ Returns(None)
    /\ UNCHANGED <<lent, children, faults>>

\* The iterator lent to a callback refuses to be closed.
IteratorBorrowedClose(o) ==
    /\ shell[o].kind = "iterator" /\ ~shell[o].shell_owned
    /\ Returns(None)
    /\ UNCHANGED <<shell, live, lent, children, faults>>


\* Nothing for a shell of the library's, the shell alone for a borrowed value,
\* both for a duplicate.
ValueFree(o) ==
    /\ shell[o].kind = "value"
    /\ IF ~shell[o].shell_owned
       THEN UNCHANGED <<shell, live, faults>>
       ELSE /\ Release(IF shell[o].owned THEN {shell[o].native} ELSE {})
            /\ shell' = [shell EXCEPT ![o] = Gone]
    /\ Returns(None)
    /\ UNCHANGED <<lent, children>>

Makes(o, n, ok, memory) ==
    \/ OpenBlob(o, n, ok, memory) \/ SnapshotGet(o, n, ok, memory)
    \/ ChangesetStart(o, n, ok, memory) \/ ChangesetStartStrm(o, n, ok, memory)
    \/ RebaserNew(o, n, ok, memory) \/ ChangegroupNew(o, n, ok, memory)
    \/ StringNew(o, n, ok, memory) \/ FilenameNew(o, n, ok, memory)
    \/ GetTable(o, n, ok, memory) \/ ValueDuplicate(o, n, ok, memory)

Collects(s, o, data, ok, memory) ==
    \/ SessionChangeset(o, data, memory) \/ ChangesetInvert(s, o, data, memory)
    \/ RebaserRebase(s, o, data, memory) \/ ChangegroupOutput(s, o, data, memory)
    \/ \E wanted \in BOOLEAN : ChangesetApplyEx(s, wanted, o, data, ok, memory)

Borrows(i, o, n, memory) ==
    \/ IteratorValue(i, o, n, memory) \/ ColumnValue(o, n, memory)
    \/ PreupdateValue(o, n, memory) \/ FunctionCall(o, n, memory)
    \/ RtreeQuery(o, n, memory) \/ ConflictTrampoline(o, n)

Calls(o) ==
    \/ BlobCall(o) \/ SnapshotCall(o) \/ IteratorCall(o) \/ RebaserCall(o)
    \/ ChangegroupCall(o) \/ StringCall(o) \/ FilenameCall(o) \/ TableCall(o) \/ ValueCall(o)

Closes(o) ==
    \/ BlobClose(o) \/ SnapshotFree(o) \/ IteratorClose(o) \/ RebaserClose(o)
    \/ ChangegroupClose(o) \/ StringClose(o) \/ StringFinish(o) \/ FilenameClose(o)
    \/ TableClose(o) \/ ChangesetFree(o) \/ ValueFree(o) \/ IteratorBorrowedClose(o)

Next ==
    \/ \E o \in Objects, n \in Natives, ok, memory \in BOOLEAN : Makes(o, n, ok, memory)
    \/ \E s, o \in Objects, d \in Natives \cup {None}, ok, memory \in BOOLEAN :
          Collects(s, o, d, ok, memory)
    \/ \E i, o \in Objects, n \in Natives, memory \in BOOLEAN : Borrows(i, o, n, memory)
    \/ \E n \in Natives : LenderMovesOn(n)
    \/ \E o \in Objects : Calls(o) \/ Closes(o)

Spec == Init /\ [][Next]_vars

(***************************************************************************)
(* Properties.                                                             *)
(***************************************************************************)
\* Whatever allocation failed and in whatever order objects are closed, every
\* native that is the library's belongs to exactly one shell that will release
\* it (the error paths of open_blob, snapshot_get, changeset_new_owned,
\* apply_ex ...), and nothing was released twice or out of a lender's hands.
NativesOwnedOnce ==
    /\ faults = 0
    /\ \A n \in live \ lent :
          Cardinality({o \in Objects : shell[o].native = n /\ shell[o].owned}) = 1
    /\ \A o \in Objects : shell[o].owned => shell[o].native \in (live \ lent) \cup {None}

\* What a call leaves in *out is an object the application can use, a method
\* only ever reaches a native that is there, and open blobs are what keeps the
\* connection from being destroyed (retain_child and release_child).
ResultsUsable ==
    /\ out # None => shell[out].shell_owned
    /\ reached \in live \cup {None}
    /\ children = Cardinality(Held("blob"))

ObjectsExact == NativesOwnedOnce /\ ResultsUsable
=============================================================================
