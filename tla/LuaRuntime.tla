----------------------------- MODULE LuaRuntime -----------------------------
(***************************************************************************)
(* The Lua runtime facade, src/lua_runtime.c: the capped allocator that    *)
(* Lua and the facade share, the protected calls with their status and     *)
(* last error, the preloaded Lua chunks, and the instruction limit on the  *)
(* main state and on coroutines.                                           *)
(*                                                                         *)
(* Lua itself is external: inside a protected call it resizes blocks       *)
(* through lua_alloc, runs coroutines and count hooks, and ends the call   *)
(* with a result or an error message of its own choice.  The embedder does *)
(* not call the facade from inside a callback of the same runtime,         *)
(* package.preload is a plain table, and scripts have no debug.sethook,    *)
(* which open_libs replaces in the call after the one that opens debug.    *)
(***************************************************************************)
EXTENDS Integers, FiniteSets, Functions

CONSTANTS
  MaxBytes,                              \* config.max_bytes; 0 is no cap
  RuntimeBytes, ChunkBytes, TextBytes,   \* sizeof, and the length of a text
  NoMemoryBytes,                         \* "out of memory"
  Requests,                              \* block sizes Lua asks for
  Blocks, Chunks, Modules, Coroutines, Limits, None

LuaRuntimeAssumption ==
  /\ {MaxBytes, RuntimeBytes, ChunkBytes, TextBytes, NoMemoryBytes} \subseteq Nat
  /\ Requests \subseteq Nat /\ Limits \subseteq Nat \ {0}
  /\ None \notin Chunks

LuaThreads == Coroutines \cup {"main"}
Libs == {"package", "coroutine", "debug"}

VARIABLES
  used, failed,       \* struct cpkt_lua_runtime_allocator
  runtime,            \* is there a runtime
  lua,                \* lua[b]: bytes of Lua's block b, 0 when free
  chunks, preload,    \* runtime->chunks, and package.preload by module
  last_error,         \* bytes of the stored message, 0 without one
  limit, hit,         \* instruction_limit, instruction_limit_hit
  hook,               \* hook[t]: the count hook of thread t, -1 before it exists
  current,            \* the thread that runs
  libs, wrapped,      \* opened libraries, coroutine_wrapped
  call,               \* the protected call in progress
  status,             \* what the last call of the facade returned
  struck,             \* did the limit interrupt this call
  stray               \* writes into a block that was given back

memory == <<used, failed, lua, chunks, last_error>>
limits == <<limit, hit, hook, current, struck>>
opened == <<libs, wrapped>>
vars == <<memory, limits, opened, runtime, preload, call, status, stray>>

Idle == [what |-> "idle", chunk |-> None, module |-> None, lib |-> None]

Init ==
  /\ used = 0 /\ failed = FALSE /\ runtime = FALSE
  /\ lua = [b \in Blocks |-> 0] /\ chunks = {} /\ preload = [m \in Modules |-> None]
  /\ last_error = 0 /\ limit = 0 /\ hit = FALSE
  /\ hook = [t \in LuaThreads |-> -1] /\ current = "main"
  /\ libs = {} /\ wrapped = FALSE
  /\ call = Idle /\ status = "none" /\ struck = FALSE /\ stray = 0

-----------------------------------------------------------------------------
(* The allocator.                                                          *)


can_grow(u, old, new) ==
  LET adjusted == IF u >= old THEN u - old ELSE 0 IN
  MaxBytes = 0 \/ new <= old \/ (adjusted < MaxBytes /\ new <= MaxBytes - adjusted)

account(u, old, new) == (IF u >= old THEN u - old ELSE 0) + new

\* One allocation of size bytes: heap is what alloc_fn can do.
allocator_alloc(a, size, heap) ==
  LET bytes == IF size = 0 THEN 1 ELSE size
      ok == can_grow(a.used, 0, bytes) /\ heap IN
  [ok |-> ok,
   used |-> IF ok THEN account(a.used, 0, bytes) ELSE a.used,
   failed |-> IF ok THEN a.failed ELSE TRUE]

allocator_free(a, size) == [a EXCEPT !.used = account(a.used, size, 0)]

Allocator == [ok |-> TRUE, used |-> used, failed |-> failed]

\* The stored message is replaced; a message that does not fit is replaced by
\* "out of memory", if that fits, and the status with it.
set_error(a, st, bytes, heap) ==
  LET freed == allocator_free(a, last_error)
      copy == allocator_alloc(freed, bytes, heap)
      short == allocator_alloc([freed EXCEPT !.failed = TRUE], NoMemoryBytes, heap)
  IN CASE bytes = 0 -> [used |-> freed.used, failed |-> a.failed, last_error |-> 0, status |-> st]
       [] bytes > 0 /\ copy.ok ->
            [used |-> copy.used, failed |-> copy.failed, last_error |-> bytes, status |-> st]
       [] OTHER ->
            [used |-> short.used, failed |-> TRUE,
             last_error |-> IF short.ok THEN NoMemoryBytes ELSE 0, status |-> "alloc"]

Settle(r) ==
  /\ used' = r.used /\ failed' = r.failed /\ last_error' = r.last_error
  /\ status' = r.status

\* clear_error and OK.
clear_error(a) ==
  [used |-> allocator_free(a, last_error).used, failed |-> a.failed, last_error |-> 0,
   status |-> "ok"]

\* Lua resizes block b, or makes it (0 before) or frees it (0 after): lua_alloc.
lua_alloc(b, new, heap) ==
  LET old == lua[b]
      ok == new = 0 \/ (heap /\ can_grow(used, old, new)) IN
  /\ call # Idle
  /\ new # old
  /\ lua' = IF ok THEN [lua EXCEPT ![b] = new] ELSE lua
  /\ used' = IF ok THEN account(used, old, new) ELSE used
  /\ failed' = (failed \/ ~ok)
  /\ UNCHANGED <<limits, opened, runtime, preload, chunks, last_error, call, status, stray>>

-----------------------------------------------------------------------------
(* Making and freeing a runtime.                                           *)

\* lua_newstate needs bytes of memory for block b; then the runtime is stored in
\* the registry.  The two failures give the runtime back to the allocator that
\* is part of it, and account for that in the block just given back.
New(b, bytes, heap, state, stored) ==
  LET first == allocator_alloc([ok |-> TRUE, used |-> 0, failed |-> FALSE], RuntimeBytes, heap)
      second == allocator_alloc(first, bytes, state) IN
  /\ ~runtime
  /\ IF first.ok /\ second.ok /\ stored
     THEN /\ runtime' = TRUE
          /\ used' = second.used /\ failed' = FALSE
          /\ lua' = [lua EXCEPT ![b] = bytes]
          /\ hook' = [hook EXCEPT !["main"] = 0]
          /\ status' = "ok"
          /\ UNCHANGED stray
     ELSE /\ status' = IF first.ok /\ second.ok THEN "runtime" ELSE "alloc"
          /\ stray' = IF first.ok /\ stray = 0 THEN 1 ELSE stray
          /\ UNCHANGED <<runtime, used, failed, lua, hook>>
  /\ UNCHANGED <<chunks, last_error, limit, hit, current, struck, opened, preload, call>>

\* lua_close first, for finalizers may still load chunks; then the chunks, the
\* message and, through a copy of the allocator, the runtime.
Free ==
  /\ runtime /\ call = Idle
  /\ runtime' = FALSE
  /\ lua' = [b \in Blocks |-> 0]
  /\ chunks' = {} /\ preload' = [m \in Modules |-> None]
  /\ used' = used - SumFunction(lua) - last_error - RuntimeBytes
             - Cardinality(chunks) * (ChunkBytes + 3 * TextBytes)
  /\ last_error' = 0 /\ failed' = FALSE
  /\ limit' = 0 /\ hit' = FALSE /\ hook' = [t \in LuaThreads |-> -1]
  /\ libs' = {} /\ wrapped' = FALSE /\ struck' = FALSE
  /\ status' = "none"
  /\ UNCHANGED <<current, call, stray>>

-----------------------------------------------------------------------------
(* Protected calls.                                                        *)


\* call_with_status up to lua_pcall.
Enter(c) ==
  /\ call' = c
  /\ hit' = FALSE /\ failed' = FALSE
  /\ current' = "main" /\ struck' = FALSE

Begin(what) ==
  /\ runtime /\ call = Idle
  /\ Enter([Idle EXCEPT !.what = what])
  /\ UNCHANGED <<used, lua, chunks, last_error, limit, hook, opened, runtime, preload, status, stray>>

SetPackageField == Begin("set")

SetGlobal == Begin("set")

RegisterCModule == Begin("set")

Require == Begin("require")

LoadScript == Begin("load")

\* Libraries are opened one by one; the first failure ends open_libs.
OpenLib(lib) ==
  /\ runtime /\ call = Idle
  /\ Enter([Idle EXCEPT !.what = "open", !.lib = lib])
  /\ UNCHANGED <<used, lua, chunks, last_error, limit, hook, opened, runtime, preload, status, stray>>

\* A chunk, its two names and its source; what could be had is given back when
\* one of them cannot.
RegisterLuaModule(c, m, heap) ==
  LET shell == allocator_alloc(Allocator, ChunkBytes, heap[1])
      name == allocator_alloc(shell, TextBytes, heap[2])
      chunk_name == allocator_alloc(name, TextBytes, heap[3])
      source == allocator_alloc(chunk_name, TextBytes, heap[4])
      all == shell.ok /\ name.ok /\ chunk_name.ok /\ source.ok
  IN
  /\ runtime /\ call = Idle
  /\ c \notin chunks
  /\ IF all
     THEN /\ Enter([Idle EXCEPT !.what = "register", !.chunk = c, !.module = m])
          /\ used' = source.used
          /\ UNCHANGED <<last_error, status>>
     ELSE /\ Settle(set_error([Allocator EXCEPT !.failed = TRUE], "alloc", NoMemoryBytes, heap[1]))
          /\ struck' = FALSE
          /\ UNCHANGED <<hit, current, call>>
  /\ UNCHANGED <<lua, chunks, limit, hook, opened, runtime, preload, stray>>

\* What one operation leaves behind when its protected call succeeded.
Effect(st) ==
  LET is(what) == call.what = what /\ st = "ok" IN
  /\ chunks' = IF is("register") THEN chunks \cup {call.chunk} ELSE chunks
  /\ preload' = IF is("register") THEN [preload EXCEPT ![call.module] = call.chunk] ELSE preload
  /\ libs' = IF is("open") THEN libs \cup {call.lib} ELSE libs
  /\ wrapped' = (wrapped \/ is("wrap"))
  /\ call' = CASE is("load") -> [Idle EXCEPT !.what = "loaded"]
               [] is("open") /\ call.lib = "coroutine" -> [Idle EXCEPT !.what = "opened", !.lib = "wrap"]
               [] is("open") /\ call.lib = "debug" -> [Idle EXCEPT !.what = "opened", !.lib = "silence"]
               [] OTHER -> Idle


\* The bytes of a chunk that could not be registered.
Dropped(st) == IF call.what = "register" /\ st # "ok" THEN ChunkBytes + 3 * TextBytes ELSE 0

\* call_with_status after lua_pcall, and the tail of the operation.  A limit
\* that struck is reported even when the script caught the error.
Leave(ok, bytes, heap) ==
  LET failure == IF call.what = "load" THEN "load" ELSE "runtime"
      st == CASE hit -> "limit" [] ~hit /\ failed -> "alloc" [] OTHER -> failure
      r == IF ~ok THEN set_error(Allocator, st, bytes, heap)
           ELSE IF hit THEN set_error([Allocator EXCEPT !.failed = FALSE], "limit", TextBytes, heap)
           ELSE clear_error([Allocator EXCEPT !.failed = FALSE])
  IN
  /\ call.what \in {"set", "require", "load", "run", "register", "open", "wrap", "silence"}
  /\ used' = account(r.used, Dropped(r.status), 0)
  /\ failed' = r.failed /\ last_error' = r.last_error /\ status' = r.status
  /\ Effect(r.status)
  /\ current' = "main"
  /\ UNCHANGED <<lua, limit, hit, hook, struck, runtime, stray>>

\* run_file and run_buffer go on with the loaded chunk, open_libs with wrapping
\* the coroutine library or replacing debug.sethook.
Continue ==
  /\ call.what \in {"loaded", "opened"}
  /\ Enter([Idle EXCEPT !.what = IF call.what = "loaded" THEN "run" ELSE call.lib])
  /\ UNCHANGED <<used, lua, chunks, last_error, limit, hook, opened, runtime, preload, status, stray>>

-----------------------------------------------------------------------------
(* The instruction limit.                                                  *)

\* set_instruction_limit, and clear_instruction_limit with n = 0: the hook of
\* the main state follows, those of coroutines wait for their next resume.
SetLimit(n) ==
  /\ runtime /\ call = Idle
  /\ limit' = n
  /\ hit' = IF n = 0 THEN FALSE ELSE hit
  /\ hook' = [hook EXCEPT !["main"] = n]
  /\ struck' = FALSE
  /\ Settle(clear_error(Allocator))
  /\ UNCHANGED <<lua, chunks, current, opened, runtime, preload, call, stray>>

\* A new thread has its creator's hook (external); the wrapped create sets it.
CoroutineCreate(c) ==
  /\ call.what = "run" /\ "coroutine" \in libs /\ hook[c] = -1
  /\ hook' = [hook EXCEPT ![c] = IF wrapped THEN limit ELSE hook[current]]
  /\ UNCHANGED <<memory, limit, hit, current, struck, opened, runtime, preload, call, status, stray>>

\* Mutated form: only coroutine.create sets the hook.
CoroutineResume_Created(c) ==
  /\ call.what = "run" /\ hook[c] # -1 /\ current = "main"
  /\ current' = c
  /\ UNCHANGED <<memory, limit, hit, hook, struck, opened, runtime, preload, call, status, stray>>

\* coroutine.resume and a function of coroutine.wrap.
CoroutineResume(c) ==
  /\ call.what = "run" /\ hook[c] # -1 /\ current = "main"
  /\ current' = c
  /\ hook' = IF wrapped THEN [hook EXCEPT ![c] = limit] ELSE hook
  /\ UNCHANGED <<memory, limit, hit, struck, opened, runtime, preload, call, status, stray>>

Yield ==
  /\ current # "main" /\ current' = "main"
  /\ UNCHANGED <<memory, limit, hit, hook, struck, opened, runtime, preload, call, status, stray>>

\* The count hook of the running thread: it raises an error that the script may
\* catch, unless the limit was lifted meanwhile.
InstructionHook ==
  /\ call.what \in {"run", "require"} /\ hook[current] > 0
  /\ hit' = (hit \/ limit > 0)
  /\ struck' = (struck \/ limit > 0)
  /\ UNCHANGED <<memory, limit, hook, current, opened, runtime, preload, call, status, stray>>

Next ==
  \/ \E b \in Blocks, n \in Requests, h, s, t \in BOOLEAN : New(b, n, h, s, t)
  \/ Free
  \/ SetPackageField \/ SetGlobal \/ RegisterCModule \/ Require \/ LoadScript
  \/ \E lib \in Libs : OpenLib(lib)
  \/ \E c \in Chunks, m \in Modules, h \in [1..4 -> BOOLEAN] : RegisterLuaModule(c, m, h)
  \/ \E ok, heap \in BOOLEAN, bytes \in {0, TextBytes} : Leave(ok, bytes, heap)
  \/ Continue
  \/ \E b \in Blocks, n \in Requests \cup {0}, heap \in BOOLEAN : lua_alloc(b, n, heap)
  \/ \E n \in Limits \cup {0} : SetLimit(n)
  \/ \E c \in Coroutines : CoroutineCreate(c) \/ CoroutineResume(c)
  \/ Yield
  \/ InstructionHook

Spec == Init /\ [][Next]_vars

-----------------------------------------------------------------------------
(* Properties.                                                             *)

\* allocator.used is what Lua, the chunks, the message and the runtime hold, so
\* that every byte is given back in the end, and it never passes the cap,
\* through every failed allocation of register_lua_module and set_error.
AccountExact ==
  /\ used = SumFunction(lua) + last_error + (IF runtime THEN RuntimeBytes ELSE 0)
            + Cardinality(chunks) * (ChunkBytes + 3 * TextBytes)
            + (IF call.what = "register" THEN ChunkBytes + 3 * TextBytes ELSE 0)
  /\ MaxBytes # 0 => used <= MaxBytes

\* A preload entry only ever names a chunk that is kept: free_chunk never takes
\* one that package.preload can still load.
ChunksKept == \A m \in Modules : preload[m] # None => preload[m] \in chunks

\* A call the limit interrupted says so, or that even its message could not be
\* kept, and no other call does, for the flags of an earlier call never leak into
\* it; and while a script runs under the wrapped coroutine library, the thread
\* that runs has the limit in force, whenever it was created.
LimitsExact ==
  /\ call = Idle => (struck => status \in {"limit", "alloc"}) /\ (status = "limit" => struck)
  /\ call # Idle => (hit <=> struck)
  /\ call.what = "run" /\ wrapped => hook[current] = limit

RuntimeExact == AccountExact /\ ChunksKept /\ LimitsExact

\* Nothing is written into a block after it was given back to the embedder's
\* allocator ("Frees a block from a runtime allocator").
NoStrayWrite == stray = 0
=============================================================================
