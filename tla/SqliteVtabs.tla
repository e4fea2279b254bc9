---------------------------- MODULE SqliteVtabs -----------------------------
(***************************************************************************)
(* Virtual tables of the SQLite facade (src/sqlite.c): the modules of the  *)
(* application, and FTS5, which SQLite brings along.                       *)
(*                                                                         *)
(* Modules: the binding of a module, the native table and cursor beside    *)
(* the application's table and cursor, the function bindings of a table,   *)
(* and the trampolines SQLite calls.  SQLite's part is external: a module  *)
(* is kept by its registration and by each connected table, its destructor *)
(* runs when both are gone, xClose comes before xDisconnect, and a table   *)
(* whose xDestroy fails stays connected.  One module name is modelled.     *)
(* The application returns from its connect and open callbacks only        *)
(* objects that it has just made.                                          *)
(*                                                                         *)
(* FTS5: tokenizer and auxiliary function bindings, tokenizers made for    *)
(* FTS5 or through a found tokenizer, and auxiliary functions running on   *)
(* several threads.  A running auxiliary function is found by the address  *)
(* of its SQL context in one list of scopes for the whole process.         *)
(* Contexts live on stacks, so an address comes back for another call:     *)
(* the address is the depth on the thread's stack.  FTS5 is external: a    *)
(* binding is destroyed when the connection closes, after the tokenizers   *)
(* of its tables; registering a name again adds a binding.  Found          *)
(* tokenizers and instances are closed before that.                        *)
(***************************************************************************)
EXTENDS Integers, Sequences, FiniteSets
LOCAL INSTANCE FiniteSetsExt

CONSTANTS Modules, Tables, Cursors, None,
          MaxFunctions    \* bindings of one table's list

VARIABLES
  module,     \* cpkt_sqlite_module_binding
  registry,   \* the binding SQLite has under the name, or None
  table,      \* native tables
  cursor,     \* native cursors
  heap,       \* the application's tables and cursors, and the function bindings,
              \* that were made and not freed
  answer      \* what the last trampoline returned, and whether it wrote

tableVars == <<module, registry, table, cursor, heap, answer>>

NoModule == [state |-> "unused", refs |-> 0, methods |-> {}, destroyed |-> 0]
NoTable == [native |-> FALSE, module |-> None, functions |-> 0]
NoCursor == [native |-> FALSE, table |-> None]
Quiet == [status |-> "none", wrote |-> FALSE]

TableInit == /\ module = [m \in Modules |-> NoModule]
        /\ registry = None
        /\ table = [t \in Tables |-> NoTable]
        /\ cursor = [c \in Cursors |-> NoCursor]
        /\ heap = [tables |-> 0, cursors |-> 0, functions |-> 0]
        /\ answer = Quiet

\* cpkt_sqlite_module_destroy_binding
DestroyBinding(b) == [b EXCEPT !.state = "freed", !.destroyed = @ + 1]
\* SQLite lets go of a module.
Unref(mods, m) ==
  IF m = None THEN mods
  ELSE LET b == [mods[m] EXCEPT !.refs = @ - 1]
       IN  [mods EXCEPT ![m] = IF b.refs = 0 THEN DestroyBinding(b) ELSE b]

-----------------------------------------------------------------------------
(* Modules                                                                 *)

\* cpkt_sqlite_create_module past its argument checks, which need the eight
\* required methods and one of create and connect; no memory for the binding
\* leaves everything as it was.  Whatever SQLite answers, the binding is
\* SQLite's to destroy.
CreateModule(m, methods, ok) ==
  /\ module[m].state = "unused"
  /\ LET new == [state |-> "live", refs |-> 1, methods |-> methods, destroyed |-> 0]
     IN  module' = IF ok THEN Unref([module EXCEPT ![m] = new], registry)
                   ELSE [module EXCEPT ![m] = DestroyBinding(new)]
  /\ registry' = IF ok THEN m ELSE registry
  /\ UNCHANGED <<table, cursor, heap, answer>>

\* cpkt_sqlite_drop_modules where the name is not kept; also the close of
\* the connection.
DropModules ==
  /\ registry # None
  /\ module' = Unref(module, registry)
  /\ registry' = None
  /\ UNCHANGED <<table, cursor, heap, answer>>

-----------------------------------------------------------------------------
(* Tables                                                                  *)

Made(yes) == IF yes THEN 1 ELSE 0

\* cpkt_sqlite_module_connect, by either trampoline: xConnect is the create
\* trampoline when the two callbacks are the same.  The native table is
\* allocated first, so a table the callback made can always be attached.  A
\* callback that fails keeps nothing: a table it left is freed.
Connect(t, is_create, result, memory) ==
  /\ registry # None /\ table[t] = NoTable
  /\ (IF is_create THEN "create" ELSE "connect") \in module[registry].methods
  /\ IF memory /\ result = "table"
     THEN /\ table' = [table EXCEPT ![t] = [native |-> TRUE, module |-> registry,
                                            functions |-> 0]]
          /\ module' = [module EXCEPT ![registry].refs = @ + 1]
     ELSE UNCHANGED <<table, module>>
  /\ LET made == Made(memory /\ result \in {"table", "left"})
         freed == Made(memory /\ result = "left")
     IN  heap' = [heap EXCEPT !.tables = @ + made - freed]
  /\ answer' = [status |-> IF ~memory THEN "nomem"
                           ELSE IF result = "table" THEN "ok"
                           ELSE IF result = "null" THEN "misuse" ELSE "error", wrote |-> FALSE]
  /\ UNCHANGED <<registry, cursor>>

Quiescent(t) == \A c \in Cursors : cursor[c].table # t

\* cpkt_sqlite_module_table_trampoline.  A refused xDestroy keeps the table;
\* xDisconnect lets go of it whatever the callback says.
TableTrampoline(t, destroy, status) ==
  /\ table[t].native /\ Quiescent(t)
  /\ LET callback == IF destroy THEN "destroy_table" ELSE "disconnect"
         methods == module[table[t].module].methods
     IN  /\ callback \notin methods => status = "ok"
         /\ IF destroy /\ status # "ok"
            THEN UNCHANGED <<table, module, heap>>
            ELSE /\ table' = [table EXCEPT ![t] = NoTable]
                 /\ module' = Unref(module, table[t].module)
                 /\ heap' = [heap EXCEPT !.tables = @ - 1, !.functions = @ - table[t].functions]
  /\ answer' = [status |-> status, wrote |-> FALSE]
  /\ UNCHANGED <<registry, cursor>>

\* cpkt_sqlite_module_find_function_trampoline: one more binding, freed with
\* the table.
FindFunction(t, found, memory) ==
  /\ table[t].native
  /\ LET bound == "find_function" \in module[table[t].module].methods /\ found /\ memory
     IN  /\ bound => table[t].functions < MaxFunctions
         /\ table' = IF bound THEN [table EXCEPT ![t].functions = @ + 1] ELSE table
         /\ heap' = [heap EXCEPT !.functions = @ + Made(bound)]
         /\ answer' = [status |-> IF bound THEN "found" ELSE "zero", wrote |-> bound]
  /\ UNCHANGED <<module, registry, cursor>>

-----------------------------------------------------------------------------
(* Cursors                                                                 *)

\* cpkt_sqlite_module_open_trampoline.  A cursor the callback made for
\* another table is closed by its callback and freed.
Open(c, t, result, memory) ==
  /\ table[t].native /\ cursor[c] = NoCursor
  /\ cursor' = IF memory /\ result = "cursor"
               THEN [cursor EXCEPT ![c] = [native |-> TRUE, table |-> t]]
               ELSE cursor
  /\ LET made == Made(memory /\ result \in {"cursor", "foreign", "left"})
         freed == Made(memory /\ result \in {"foreign", "left"})
     IN  heap' = [heap EXCEPT !.cursors = @ + made - freed]
  /\ answer' = [status |-> IF ~memory THEN "nomem" ELSE IF result = "cursor" THEN "ok"
                           ELSE IF result \in {"failed", "left"} THEN "error" ELSE "misuse", wrote |-> FALSE]
  /\ UNCHANGED <<module, registry, table>>

\* cpkt_sqlite_module_close_trampoline lets go whatever the callback says.
Close(c, status) ==
  /\ cursor[c].native
  /\ cursor' = [cursor EXCEPT ![c] = NoCursor]
  /\ heap' = [heap EXCEPT !.cursors = @ - 1]
  /\ answer' = [status |-> status, wrote |-> FALSE]
  /\ UNCHANGED <<module, registry, table>>

-----------------------------------------------------------------------------
(* Calls on tables and cursors                                             *)

CursorMethods == {"filter", "next", "eof", "column", "rowid"}
Optional == {"update", "begin", "savepoint", "rename", "integrity"}
\* What the trampolines answer without a method of the application.
Missing == [m \in Optional |-> IF m = "update" THEN "misuse" ELSE "ok"]

\* cpkt_sqlite_module_best_index_trampoline: constraints, usages and orders
\* are copied in; the plan is copied out only when the callback succeeds, and
\* the copy of its string may still fail.
BestIndex(t, memory, status, copied) ==
  /\ table[t].native
  /\ answer' = IF ~memory THEN [status |-> "nomem", wrote |-> FALSE]
               ELSE [status |-> IF status = "ok" /\ ~copied THEN "nomem" ELSE status,
                     wrote |-> status = "ok"]
  /\ UNCHANGED <<module, registry, table, cursor, heap>>

\* filter allocates the shells of its values; rowid writes on success only.
CursorCall(c, m, memory, status) ==
  /\ cursor[c].native
  /\ answer' = IF m = "filter" /\ ~memory THEN [status |-> "nomem", wrote |-> FALSE]
               ELSE [status |-> status, wrote |-> m = "rowid" /\ status = "ok"]
  /\ UNCHANGED <<module, registry, table, cursor, heap>>

\* update, the seven transaction operations, rename and integrity.
TableCall(t, m, memory, status) ==
  /\ table[t].native
  /\ answer' = IF m \notin module[table[t].module].methods
               THEN [status |-> Missing[m], wrote |-> FALSE]
               ELSE IF m = "update" /\ ~memory THEN [status |-> "nomem", wrote |-> FALSE]
               ELSE [status |-> status, wrote |-> m = "update" /\ status = "ok"]
  /\ UNCHANGED <<module, registry, table, cursor, heap>>

\* cpkt_sqlite_virtual_table_set_error, on a table that is attached.
SetError(t, memory) ==
  /\ table[t].native
  /\ answer' = [status |-> IF memory THEN "ok" ELSE "nomem", wrote |-> FALSE]
  /\ UNCHANGED <<module, registry, table, cursor, heap>>

MethodSets == {{"create", "connect", "disconnect", "destroy_table", "update", "find_function"},
               {"connect", "disconnect", "savepoint"}}
Statuses == {"ok", "error"}

TableNext ==
  \/ \E m \in Modules, ms \in MethodSets, ok \in BOOLEAN : CreateModule(m, ms, ok)
  \/ DropModules
  \/ \E t \in Tables, d \in BOOLEAN, r \in {"table", "null", "failed", "left"}, memory \in BOOLEAN :
       Connect(t, d, r, memory)
  \/ \E t \in Tables, d \in BOOLEAN, s \in Statuses : TableTrampoline(t, d, s)
  \/ \E t \in Tables, f, memory \in BOOLEAN : FindFunction(t, f, memory)
  \/ \E c \in Cursors, t \in Tables, r \in {"cursor", "null", "foreign", "failed", "left"}, memory \in BOOLEAN :
       Open(c, t, r, memory)
  \/ \E c \in Cursors, s \in Statuses : Close(c, s)
  \/ \E t \in Tables, s \in Statuses, memory, copied \in BOOLEAN : BestIndex(t, memory, s, copied)
  \/ \E c \in Cursors, m \in CursorMethods, s \in Statuses, memory \in BOOLEAN : CursorCall(c, m, memory, s)
  \/ \E t \in Tables, m \in Optional, s \in Statuses, memory \in BOOLEAN : TableCall(t, m, memory, s)
  \/ \E t \in Tables, memory \in BOOLEAN : SetError(t, memory)

-----------------------------------------------------------------------------
\* A module's context is destroyed exactly once, when it is neither
\* registered nor behind a connected table, also when it was replaced or
\* dropped while its tables were in use, or when registering it failed.
ModulesExact ==
  /\ \A m \in Modules : /\ module[m].state = "live" <=> module[m].refs > 0 /\ module[m].destroyed = 0
                        /\ module[m].destroyed <= 1
                        /\ module[m].state = "freed" => module[m].destroyed = 1
  /\ registry # None => module[registry].state = "live"
  /\ \A t \in Tables : table[t].native => module[table[t].module].state = "live"

\* Every table and cursor that a callback of the application made, and every
\* function binding of a table, belongs to a native object or has been freed,
\* once, on every path (a refused destroy, a callback that fails but leaves an
\* object, a cursor of another table, no memory); an open cursor's table is
\* still there.
HandoversExact ==
  /\ heap.tables = Cardinality({t \in Tables : table[t].native})
  /\ heap.cursors = Cardinality({c \in Cursors : cursor[c].native})
  /\ heap.functions = FoldSet(LAMBDA t, n : table[t].functions + n, 0, Tables)
  /\ \A c \in Cursors : cursor[c].native => table[cursor[c].table].native

\* A plan, a row id or a function reaches SQLite only from a callback that
\* succeeded.
OutputsOnlyOnSuccess == answer.wrote => answer.status \in {"ok", "found", "nomem"}

VtabsExact == ModulesExact /\ HandoversExact /\ OutputsOnlyOnSuccess

-----------------------------------------------------------------------------
(* FTS5                                                                    *)

CONSTANTS Bindings, Tokenizers, Founds, Threads,
          Depth        \* nested calls of one thread

VARIABLES
  open,       \* the connection is open
  binding,    \* tokenizer and auxiliary bindings
  tokenizer,  \* cpkt_sqlite_fts5_tokenizer
  found,      \* cpkt_sqlite_fts5_found_tokenizer: the binding it copies
  scopes,     \* cpkt_sqlite_fts5_sql_context_head
  stack,      \* per thread, its running functions; the address is the depth
  read        \* what the last context_user_data returned, and to whom

fts5Vars == <<open, binding, tokenizer, found, scopes, stack, read>>

NoBinding == [state |-> "unused", kind |-> None, destroyed |-> 0]
NoTokenizer == [owner |-> None, facade |-> None]
NoRead == [want |-> None, got |-> None]

Fts5Init == /\ open = TRUE
        /\ binding = [b \in Bindings |-> NoBinding]
        /\ tokenizer = [k \in Tokenizers |-> NoTokenizer]
        /\ found = [f \in Founds |-> None]
        /\ scopes = <<>>
        /\ stack = [t \in Threads |-> <<>>]
        /\ read = NoRead

-----------------------------------------------------------------------------
(* Bindings                                                                *)

\* cpkt_sqlite_fts5_tokenizer_binding_destroy and
\* cpkt_sqlite_fts5_auxiliary_destroy
Destroyed(b) == [b EXCEPT !.state = "freed", !.destroyed = @ + 1]

\* With memory for the binding.  FTS5 does not destroy what it failed to register: the
\* facade does.
Register(b, kind, ok) ==
  /\ open /\ binding[b].state = "unused"
  /\ LET new == [state |-> "live", kind |-> kind, destroyed |-> 0]
     IN  binding' = [binding EXCEPT ![b] = IF ok THEN new ELSE Destroyed(new)]
  /\ UNCHANGED <<open, tokenizer, found, scopes, stack, read>>

CreateTokenizer(b, ok) == Register(b, "tokenizer", ok)
CreateAuxiliary(b, ok) == Register(b, "auxiliary", ok)

\* The close of the connection: FTS5's tokenizers go first (Delete).
CloseConnection ==
  /\ open
  /\ \A k \in Tokenizers : tokenizer[k] = NoTokenizer
  /\ \A f \in Founds : found[f] = None
  /\ \A t \in Threads : \A n \in DOMAIN stack[t] : stack[t][n].kind # "auxiliary"
  /\ open' = FALSE
  /\ binding' = [b \in Bindings |-> IF binding[b].state = "live" THEN Destroyed(binding[b])
                                    ELSE binding[b]]
  /\ UNCHANGED <<tokenizer, found, scopes, stack, read>>

-----------------------------------------------------------------------------
(* Tokenizers                                                              *)

\* cpkt_sqlite_fts5_tokenizer_create_trampoline for FTS5 itself or for
\* found->create.  A callback may fail, return none, or return one that is
\* attached already: then nothing is taken over.
Create(k, b, owner) ==
  /\ binding[b].state = "live" /\ binding[b].kind = "tokenizer"
  /\ tokenizer' = IF tokenizer[k].facade # None THEN tokenizer
                  ELSE [tokenizer EXCEPT ![k] = [owner |-> owner, facade |-> b]]
  /\ UNCHANGED <<open, binding, found, scopes, stack, read>>

\* cpkt_sqlite_fts5_api_find_tokenizer copies the methods and the context.
FindTokenizer(f, b) ==
  /\ open /\ found[f] = None
  /\ binding[b].state = "live" /\ binding[b].kind = "tokenizer"
  /\ found' = [found EXCEPT ![f] = b]
  /\ UNCHANGED <<open, binding, tokenizer, scopes, stack, read>>
\* cpkt_sqlite_fts5_found_close
FoundClose(f) ==
  /\ found[f] # None
  /\ found' = [found EXCEPT ![f] = None]
  /\ UNCHANGED <<open, binding, tokenizer, scopes, stack, read>>
\* cpkt_sqlite_fts5_found_create: no memory or a failed callback frees the
\* instance.  The instance outlives the found tokenizer.
FoundCreate(f, k) == found[f] # None /\ Create(k, found[f], "instance")

\* cpkt_sqlite_fts5_tokenizer_delete_trampoline, for FTS5,
Delete(k, owner) ==
  /\ tokenizer[k].facade # None /\ tokenizer[k].owner = owner
  /\ tokenizer' = [tokenizer EXCEPT ![k] = NoTokenizer]
  /\ UNCHANGED <<open, binding, found, scopes, stack, read>>
\* and from cpkt_sqlite_fts5_instance_close.
InstanceClose(k) == Delete(k, "instance")

-----------------------------------------------------------------------------
(* Functions.  Every call has a context at the next address of its thread. *)

Address(t) == <<t, Len(stack[t]) + 1>>
Call(kind, b) == [kind |-> kind, data |-> b]
Push(t, call) == stack' = [stack EXCEPT ![t] = Append(@, call)]

\* cpkt_sqlite_fts5_auxiliary_trampoline up to its callback; with no memory
\* for the values nothing happens.
Auxiliary(t, b) ==
  /\ Len(stack[t]) < Depth
  /\ binding[b].state = "live" /\ binding[b].kind = "auxiliary"
  /\ Push(t, Call("auxiliary", b))
  /\ scopes' = <<[context |-> Address(t), data |-> b]>> \o scopes
  /\ UNCHANGED <<open, binding, tokenizer, found, read>>

\* A function of cpkt_sqlite_create_function, found without the list.
Scalar(t) ==
  /\ Len(stack[t]) < Depth
  /\ Push(t, Call("scalar", "scalar"))
  /\ UNCHANGED <<open, binding, tokenizer, found, scopes, read>>

\* cpkt_sqlite_fts5_query_phrase_trampoline runs on the stack of the
\* auxiliary function, with a context and user data of its own.
Phrase(t) ==
  /\ stack[t] # <<>> /\ stack[t][Len(stack[t])].kind = "auxiliary"
  /\ Len(stack[t]) < Depth
  /\ Push(t, Call("phrase", "phrase"))
  /\ UNCHANGED <<open, binding, tokenizer, found, scopes, read>>

\* Return from the callback: the scope is unlinked wherever it now is.
\* Mutated form: the head is unlinked.
Return_Head(t) ==
  /\ stack[t] # <<>>
  /\ stack' = [stack EXCEPT ![t] = SubSeq(@, 1, Len(@) - 1)]
  /\ scopes' = IF stack[t][Len(stack[t])].kind = "auxiliary" THEN Tail(scopes) ELSE scopes
  /\ UNCHANGED <<open, binding, tokenizer, found, read>>
Return(t) ==
  /\ stack[t] # <<>>
  /\ stack' = [stack EXCEPT ![t] = SubSeq(@, 1, Len(@) - 1)]
  /\ scopes' = IF stack[t][Len(stack[t])].kind = "auxiliary"
               THEN SelectSeq(scopes, LAMBDA s : s.context # <<t, Len(stack[t])>>)
               ELSE scopes
  /\ UNCHANGED <<open, binding, tokenizer, found, read>>

\* cpkt_sqlite_context_user_data: the first scope with the context, else the
\* binding of the native function; the context of a phrase answers itself.
Lookup(address, own) ==
  LET hits == SelectSeq(scopes, LAMBDA s : s.context = address)
  IN  IF hits # <<>> THEN hits[1].data ELSE own
UserData(t) ==
  /\ stack[t] # <<>>
  /\ LET top == stack[t][Len(stack[t])]
     IN  read' = [want |-> top.data,
                  got |-> IF top.kind = "phrase" THEN top.data
                          ELSE Lookup(<<t, Len(stack[t])>>,
                                      IF top.kind = "scalar" THEN top.data ELSE None)]
  /\ UNCHANGED <<open, binding, tokenizer, found, scopes, stack>>

Fts5Next ==
  \/ \E b \in Bindings, ok \in BOOLEAN : CreateTokenizer(b, ok) \/ CreateAuxiliary(b, ok)
  \/ CloseConnection
  \/ \E k \in Tokenizers : Delete(k, "fts5") \/ InstanceClose(k) \/ \E b \in Bindings : Create(k, b, "fts5")
  \/ \E f \in Founds : \/ FoundClose(f)
                       \/ \E b \in Bindings : FindTokenizer(f, b)
                       \/ \E k \in Tokenizers : FoundCreate(f, k)
  \/ \E t \in Threads : \/ Scalar(t) \/ Phrase(t) \/ Return(t) \/ UserData(t)
                        \/ \E b \in Bindings : Auxiliary(t, b)

-----------------------------------------------------------------------------
\* A binding's context is destroyed exactly once: at the close of the
\* connection or when it could not be registered; until then no tokenizer,
\* found tokenizer or running function is without its binding.
BindingsLive ==
  /\ \A b \in Bindings : /\ binding[b].destroyed = (IF binding[b].state = "freed" THEN 1 ELSE 0)
                         /\ binding[b].state = "live" => open
  /\ \A k \in Tokenizers : tokenizer[k].facade # None => binding[tokenizer[k].facade].state = "live"
  /\ \A f \in Founds : found[f] # None => binding[found[f]].state = "live"
  /\ \A n \in DOMAIN scopes : binding[scopes[n].data].state = "live"

\* The list has one scope for each running auxiliary function and no other,
\* though calls of several threads end in any order; so user data is the
\* call's own even when its context is where an earlier one was.
ScopesExact ==
  /\ {scopes[n].context : n \in DOMAIN scopes}
       = {a \in Threads \X (1..Depth) :
            a[2] \in DOMAIN stack[a[1]] /\ stack[a[1]][a[2]].kind = "auxiliary"}
  /\ \A n, k \in DOMAIN scopes : scopes[n].context = scopes[k].context => n = k
  /\ read.got = read.want

Fts5Exact == BindingsLive /\ ScopesExact

-----------------------------------------------------------------------------
\* The two together: neither touches the records of the other.
vars == <<tableVars, fts5Vars>>
Init == TableInit /\ Fts5Init
Next ==
  \/ TableNext /\ UNCHANGED fts5Vars
  \/ Fts5Next /\ UNCHANGED tableVars
Spec == Init /\ [][Next]_vars
=============================================================================
