# A TLA+ verification of cpkt

`c.pkt.systems` is a bundle of C libraries behind C89 facades (`src/src/*.c`,
`src/include/cpkt/*.h`): audio, speech to text, PostgreSQL, OPC UA, SQLite and
others. Most of a facade delegates to the library below it. What is written
here, and what can be wrong here, is the bookkeeping around the library: rings
and counters shared with a device thread, buffers that slide under a decoder,
children and pipes, files that several processes replace, and above all the
records that a library hands back to the facade in callbacks, which must live
exactly as long as something native can still reach them.

This directory models that bookkeeping. The modules are translated from the
source; `PROJECT.json` gives, for every definition, the lines it stands for.

- [The system](#the-system)
- [The modules](#the-modules)
- [The runs](#the-runs)
- [Fairness](#fairness)
- [The proofs](#the-proofs)
- [Where code and documentation differ](#where-code-and-documentation-differ)
- [Assumptions about what lies below](#assumptions-about-what-lies-below)
- [What is not modelled](#what-is-not-modelled)

## The system

| part | source | state | operations | what is hard |
|---|---|---|---|---|
| VOX and PTT segmenters | `audio.c` 1021-1560 | open segment in memory and in a temporary file, prebuffer ring, stream cursor, counters, sticky refusal | push, press, release, flush, close | three cut reasons on one frame, spill to disk in the middle of a segment, refusal and I/O failure at every point, a cursor that saturates |
| native devices | `audio.c` 2253-2950 | ring shared with a device thread, `pending_frames`, started, overrun and underrun | start, write, drain, read, wait_ready, stop, destroy; the data callback | two threads and no lock |
| process devices | `audio.c` 2032-2950 | child, pipe, half a sample | start, read, wait_ready, write, drain, stop, destroy | partial reads and writes, signals, a child that ends anywhere |
| URL source, URL MP3 decoder | `audio.c` 337-947 | sliding byte window, transfer state, undecoded bytes | read, seek, detect, decode; libcurl callbacks | a reader that drives the transfer it waits for, rewind inside a window that both compact |
| sus model cache | `sus.c` 477-900 | model file, temporary file, catalogue | open_cached, fetch, verify, rename, load | several processes, kills, power failure |
| PostgreSQL results, notices, events | `postgres.c`, `postgres_events.c` | event owner, frozen entries per result, notice binding | register, create, copy, clear, connection free | any order of release, on several threads, callbacks that refuse |
| OPC UA loops and servers | `opcua_eventloop*.h`, `opcua_server.c`, `opcua_config_impl.h` | counts on loops, sources, servers; ownership marks | start, run, stop, free, register, assign, server run and delete | calls nested in callbacks of one another |
| OPC UA PubSub | `opcua_pubsub_impl.h` | entries, leases | create, update, remove, iterate, delete | pruning while an outer frame uses an entry |
| OPC UA client | `opcua_client_impl.h`, `opcua_client_async.c` | timer and request records | add, change, remove, submit, iterate, free | a callback that removes its own record |
| OPC UA monitored items | `opcua_callbacks_impl.h`, `opcua_subscriptions.c` | counted and plain records | create, answer, notify, delete | creation, notification and deletion hold one record |
| OPC UA connections | `opcua_eventloop_impl.h` | registrations, slots, interrupts, buffers | open, deliver, close, send, register, deregister | a manager that keeps the registration of a connection whose slot could not be made |
| OPC UA server callbacks | `opcua_callbacks_impl.h`, `opcua_producers_impl.h`, `opcua_events_impl.h`, `opcua_nodes*.h`, `opcua_creation_impl.h` | timers, asynchronous operations, producers, local items, reverse connections, node records | add, invoke, answer, cancel, install, create, delete | a callback that removes, cancels or replaces what it was called with |
| OPC UA configurations | `opcua_config_impl.h`, `opcua_config_plugins_impl.h`, `opcua_logger_impl.h` | configuration, owner, plugins, views, scope per thread | new, newWithConfig, set, get, clear, delete | callbacks before the constructor has returned |
| OPC UA services | `opcua_*_attributes.c`, `opcua_*_values.c`, `opcua_browse.c`, `opcua_*_nodes.c`, `opcua_methods.c` and the conversions they use | the call in progress with its temporaries; continuation points; method contexts | every getter, setter, browse, node and method call | each of several allocations failing; another session between two requests of one call |
| SQLite registries | `sqlite.c` | automatic extensions, receivers with children, hooks, contexts, unlock notifications | register, cancel, reset, close, open, adopt, set, deliver | callbacks without the lock, last child against close, delivery against replacement |
| SQLite adapters | `sqlite.c`, `sqlite_native_methods.c`, `sqlite_native_views.c` | static mutexes, page index, VFSs and files, virtual tables, FTS5 scopes, object shells | allocate, fetch, rekey, open, connect, run, lend, close | adapters stacked on adapters; one of two allocations failing |
| libpq hooks | `postgres.c` | hooks, OAuth requests, trace, temporaries | set, get, token, poll, cleanup | a request that ends in any of five ways |
| Lua runtime | `lua_runtime.c` | account, cap, error, chunks, limit | new, free, calls, allocator, coroutines, count hook | a cap or limit met at any allocation or instruction |
| OpenSSL BIO | `openssl.c` | method pins, shells in ex-data, poll items | new, close, dup, callbacks, poll | three owners of one shell on several threads |
| SASL | `sasl.c`, `sasl_plugin_*.c` | role counts, registrations, receivers, utility records, prompts | initialize, add plugin, new, start, step, close, finish | a library that adopts half of an array |
| PDF, GSSAPI, tools | `pdf.c`, `gssapi*.c`, ... | none of their own | | see `components` in `PROJECT.json` |

Parts interact in several places. The MP3
decoder reads through the URL source (both are in `UrlSource`). Both
device kinds share the ring (`PcmRing`), both process backends the child
handling (`ChildProcess`), both segmenters the segment (`Segmenter`). A PubSub
owner and a server share the depths of the event loop; `OpcuaPubSub` keeps its
own copy of those it reads. `SqliteMethods` composes the two adapters an
application can stack, the facade's own around the view it gives of SQLite's
methods. `Sasl` joins the plugin tables with the role counts of `sasl.c` that
decide when they go.

`hazards` in `PROJECT.json` lists what could go wrong, at the line where it
would, with the property that would show it.

## The modules

A component module holds the state as variables, one action per operation or
per step of an operation that others can interleave with, the specification,
and the properties with a comment each. An `MC` module instantiates components
for TLC and names the properties a run checks; where one property of a run
joins several of a component, the parts keep their own names and comments in
the component module.

| module | models | how state and actions correspond |
|---|---|---|
| `Segmenter` | the segment shared by VOX and PTT | A frame is its index in the input, so content says which input frames a segment holds. A call is a sequence of steps (`pc`, `todo`), one per frame or sink call. `frames`/`spool` are the memory and the file; `IoFaults` says which of tmpfile, spill, write and seek may fail. `SizeMax` and `ULongModulus` keep the widths of `size_t` and `unsigned long`. |
| `Vox`, `Ptt` | the two handles | `Vox` adds the prebuffer ring (`Quiet`, `OpenTx`, `AppendPrebuffer`), `Ptt` the button (`Press`, `Release`). |
| `PcmRing` | `ma_pcm_rb`, external | acquire, copy, commit, seek, as the two device modules use them |
| `Playback`, `Capture` | native devices | Two threads with a program counter each (`pc`, `cb`). `pending_frames` is loaded and stored in separate steps, as the code has neither lock nor atomic. |
| `ChildProcess` | spawn, terminate, reap | a child is running, exited, failed or reaped; `leaked` records a child forgotten before it was waited for |
| `CaptureProcess`, `PlaybackProcess` | process devices | A byte is `<<child, n>>`. Each `read`, `write`, `select`, `waitpid` is a step, and any of them may be short, interrupted or fail. `wait_ready` polls until the pipe is readable, select fails or the timeout (one of its arguments; 0 is none) has run out. |
| `UrlSource` | buffer window and transfer, and MP3 decoding over it | A byte is its offset in the response. Header, write and completion callbacks are `Transfer`; it moves only while a call waits, as `url_source_progress` is the only caller of libcurl. The decoder: skip tag, skip to sync, then decode a frame (`DecodesFrame`), pass one over whose bytes give no samples (`PassesOver`), or refill (`NeedsMore`); a frame is its number. |
| `SusCache` | `cpkt_sus_open_cached` | Each process has a `pc`; every system call on the cache directory is a step. A file is a content and whether it is on stable storage. |
| `PgResults` | results, notices, events | A result is its address, which may be reused. Each section under the events mutex or the hook lock, and each callback, is a step. |
| `OpcuaEventLoop` | loops, sources, servers | Calls in progress form one stack: a call pushes a frame after its guards and counts, and pops it with the outcome the native method chose; what happens in between happens in callbacks. |
| `OpcuaPubSub` | policy entries and leases | the same stack; `depth` wraps like the `unsigned` it is |
| `OpcuaClient` | timer and request records | `phase` and `running` say where the native client is; the record's reference count is explicit |
| `OpcuaMonitors` | subscription and item records | a stack of calls and callbacks; `frees` counts how often each record was freed |
| `OpcuaConnections` | connections, interrupts, buffers of an event source | registrations and slots with explicit counts; a stack of opens and deliveries; `ConnNext` and `IrqNext` are two systems |
| `OpcuaServerCallbacks` | records behind callbacks of the native server | one record type per holder, `refs` as in the code; five next-state relations over one stack |
| `OpcuaConfigs` | configurations, owners, plugins | a stack per thread; `depth` of configuration and owner; a plugin knows who has it and how often it was cleared |
| `OpcuaAttributes` | reading and writing one attribute | `call` walks through arguments, native request, conversion, clean-up; `held` counts temporaries; other sessions write between steps. A value is a type, a size and an identity. |
| `OpcuaCalls` | browse, nodes, methods | the same `call`, with the set of temporaries; `points` are continuation points, `ctx` and `method` contexts and method nodes |
| `SqliteAutoExtensions` | the extension registry | Threads are stacks of frames. A step is one section under the bookkeeping mutex; `transition` is the second mutex. |
| `SqliteConnections` | receivers and children | a step is one section under the mutex or one native call |
| `SqliteMethods` | mutex methods and page cache, view and adapter of each | a step is a section under one of the two locks; a static mutex is looked up, allocated and linked in three; the page cache has its hash index with buckets and chains, and the padding arithmetic with `IntMax` |
| `SqliteVfs` | VFS objects, files, views, handles | a file has an owner; the optional methods answer as the code does when they are missing; a VFS is registered through its object or through a view, and only the first sets the flag that close looks at |
| `SqliteVtabs` | modules and tables; FTS5 tokenizers and auxiliary functions | `heap` counts the facade's tables, cursors and function bindings beside the native objects that own them; the list of scopes is a sequence, found by context address; addresses come back |
| `SqliteUnlockNotify` | unlock notification | the setter and the trampoline in the sections the two mutexes give; SQLite keeps, for each connection, who blocked it last (`blocker`) and whom it is registered for (`unlocker`). `Overlapping` says whether a connection may register over a registration for another blocker. |
| `Notifications` | the same | abstract: what a registration is promised, without bindings, mutexes and steps |
| `SqliteHooks`, `SqliteObjects` | hooks and contexts with destructors; shells | one action per setter, registration and class of object, with what SQLite does on failure |
| `PgHooks` | libpq hooks and temporaries | a hook is the application's callback and the adapter installed |
| `LuaRuntime` | the capped runtime | `used` beside the blocks that are live; a call has a thread that runs and a limit in force |
| `OpensslBio` | BIO methods, BIOs, poll | each section of the method's lock is a step, and so is the test of the shell's native pointer outside it; a batch operation goes through trampoline, batch callback and trampoline, with a copy of the message record each time; a duplicated BIO is refused its ex-data and calls its free callback; references, ex-data and callbacks as OpenSSL keeps them |
| `Sasl` | plugin registrations; connections | adoption record by record; close in the three steps it has |
| `VoxProofs`, `PlaybackProofs`, `SusCacheProofs`, `OpcuaClientProofs`, `UnlockNotifyProofs`, `OpensslBioProofs` | theorems | each extends the component it is about; see [The proofs](#the-proofs) |

Definitions marked as a mutated form are faulty versions of the definition that
follows them. No specification uses them. Substituting one for the definition
it precedes makes TLC report the property that `mutants` in `PROJECT.json`
pairs with it, which shows that the property depends on that code.

## The runs

A run explores several small systems *side by side*: the variable `part` picks
the system in the initial state. The `MC` module of a run extends one component
(`MCVox` `Vox`, `MCAudio` `Playback`, `MCOpcua` `OpcuaClient`,
`MCSqlite` `SqliteUnlockNotify`, `MCLibraries` `OpensslBio`), so the
definitions that the run checks of it are the ones the theorems are about. The
other systems use one set of variables `s1`, `s2`, ... in turn, each through an
`INSTANCE` that gives them its own names, and a part with fewer variables leaves
the rest at a fixed value. The variables of the extended component stay at
their initial values in the other parts. The systems of a run share no state;
they share a run because they are read together. `MCSusCache` has one system,
with two kinds of servers.

| run | checks | bounds |
|---|---|---|
| `vox` (736k states) | no input frame is lost, duplicated, reordered or mistimed between prebuffer, memory, file and delivered segment (`InputAccounted`, `SegmentsExact`); events follow the segment (`EventsTrackOpen`); lengths stay in the caps (`Budget`); a refusal is final (`RefusalIsFinal`); push-to-talk segments are the held runs (`HeldRuns`); calls return | 9 frames, batches of 2, prebuffer 2, memory 2, spool cap 5, time cap 4, all I/O faults; handles with only a spool cap. The input wraps the prebuffer twice and exceeds `SizeMax` 8, so the cursor saturates. |
| `audio` (1.72M) | frames reach the other thread in order, complete except where the code drops them, and nothing runs after destroy (`PlaybackExact`, `CaptureExact`); a drain that succeeds was heard (`DrainedIsHeard`); the samples of the first child are exact over short and interrupted I/O, while its pipe is open and no byte was lost, and children are reaped (`ProcessExact`); the URL window is the part of the response it claims and MP3 frames come in order, each decoded or passed over by the decoder (`SourceExact`); a read gives what the cursor passes (`ReportsTrue`); calls return (`CallsReturn`), but a `wait_ready` with timeout 0, which `audio.h:425` lets wait for ever, ends only if the child writes or ends | rings of 2 and 3 frames, so that a chunk meets the wrap; periods below, at and above the ring; 2 stops; 2 children (one restart), 2 signals, 1 poll of `select` without an answer, pipe of 3 bytes; responses of 6 and 16 bytes, rewind 2, so the window slides several times |
| `sus_cache` (252k) | a model is replaced only by a verified one (`ReplacedBySound`); an OK open loaded what it wants, a failed one leaves nothing, with a sound source an open suffices (`OpensSound`); every open returns | 3 processes, one offline, one opening twice; one crash or power failure; a server that brings anything or only what is wanted |
| `opcua` (1.65M) | nothing in use is freed and counts balance for loops, sources and servers (`LoopsExact`), the client's timers and requests (`ClientRecordsExact`), monitored items and PubSub policies (`SubscriptionsExact`), connections and interrupts (`SourcesExact`), server callbacks (`CallbacksExact`) and configurations (`ConfigsExact`); no timer is called late (`NoLateTimer`); no obsolete PubSub entry is left when the outermost call with a lease returns (`PoliciesFinished`); attribute, browse and method calls are complete when they say so and keep no temporary (`ServicesExact`) | two loops and servers at nesting 3, one of each at nesting 4 with a delete that fails; 3 timers, 2 requests, 3 items, 3 entries; 2 registrations, slots and identifiers; 2 or 3 of each server record, nesting 4; 2 threads; all 20 attributes, sizes to 2 in rooms to 3 |
| `sqlite` (394k) | extension registries agree and bindings are freed by the last callback out (`ExtensionsExact`); a closing connection is closed once, after its last child (`ConnectionsExact`); mutexes and pages have the owners they should on every failure path (`MethodsExact`), notifications too (`NotifyExact`), and hooks, contexts and shells (`OwnershipExact`); unlock notification implements `Notifications` (`NotificationsKept`); calls return | 2 or 3 threads; 2 extensions, 6 calls, nesting 3; 2 receivers, 2 children; 3 pages over 2 buckets; 3 registrations on 3 connections, so that one can be blocked by two others in turn; 2 objects over 3 native handles |
| `libraries` (LIBSTATES) | event owner and notice binding live until the last user and no longer, DESTROY goes exactly to who accepted (`ResultsExact`); OAuth cleanup runs once (`PgHooksExact`); the Lua account equals the live bytes and stays under the cap, the limit is in force wherever the call runs (`RuntimeExact`); a BIO method outlives its users and a callback runs only while its facade is open (`BiosExact`); SASL contexts are freed once (`SaslExact`); SQLite's files, modules, tables and tokenizers have the owners they should (`FilesExact`, `ModulesExact`) | 2 addresses reused without bound, 2 events; 2 requests; a cap of 20 bytes that every allocation can meet; 2 BIOs, 2 threads, 3 references; 2 registrations of 2 plugins, 2 connections; 2 files and views |
| `vox_partial_spill`, `playback_drain_race`, `opcua_monitors_refused`, `sqlite_unlock_notify`, `lua_construction`, `sasl_address_reuse` | *fail*: see below | |

The bounds are chosen so that each structure is passed through completely at
least once (every ring wraps, every counter reaches its limit, every list holds
a second element while the first is removed) and so that two actors can be in
the middle of an operation at the same time. Nesting 3 is the least depth at
which a callback acts on an object that an outer frame uses while the frame
between them holds another one. Deadlock checking is off where a system may
legitimately come to rest: a handle is destroyed, a client is gone, or a bound
is used up. It is on for `vox`, where a call can always be made.

## Fairness

Safety is checked without fairness. Liveness assumes weak fairness of

- the steps of a call that has begun (a thread in a call is scheduled); no
  fairness is given to the application, which need not make another call;
- the device callback while the device is started, which is what a running
  audio device does; a stopped device has none;
- the child of a playback pipe, which goes on reading or ends;
- a URL or model transfer that is waited for: the code sets
  `CURLOPT_LOW_SPEED_LIMIT` and `CURLOPT_LOW_SPEED_TIME` (`audio.c:934-935`,
  `sus.c:757-758`), so a transfer that does not move fails;
- the return of a callback of the application, in `sqlite`, where the calls
  with automatic extensions and the allocation of a static mutex are shown to
  return.

Strong fairness is nowhere assumed.

## The proofs

Six modules prove fifteen theorems for every value of the constants that the
named assumptions of the component allow. Fourteen of them state a property that
a run also checks, by the same definition: TLC shows it on a small instance, the
theorem for any number of frames, processes, records, BIOs or connections.

| module | about | obligations | theorems |
|---|---|---|---|
| `VoxProofs` | `Vox` | 1382 | `TypeCorrect`, `NothingLost`, `DeliveredSegmentsExact`, `EventsTell`, `RefusalFinal`, `WithinBudget` |
| `PlaybackProofs` | `Playback` | 740 | `PlaybackIsExact`, `DrainsAreHeard` |
| `SusCacheProofs` | `SusCache` | 322 | `OpensAreSound`, `ReplacedOnlyBySound` |
| `OpcuaClientProofs` | `OpcuaClient` | 283 | `ClientRecordsAreExact`, `TimersAreInTime` |
| `UnlockNotifyProofs` | `SqliteUnlockNotify`, `Notifications` | 1089 | `UnlockNotifyExact`, `NotificationsImplemented` |
| `OpensslBioProofs` | `OpensslBio` | 1296 | `BiosAreExact` |

All have the same plan: an inductive invariant `IInv`, a lemma `Initially`, one
lemma per action with one step per conjunct that the action can disturb, and
`Invariance` or its like to join them. What is delicate in each is described
here.

### The VOX segmenter

`VoxProofs` assumes `SegmenterAssumption` and `PrebufferAssumption`: the counts
are natural numbers, those that `cpkt_audio_vox_open` refuses as zero are
positive, and `ConfigAccepted` holds, which is what open checks.

| theorem | establishes |
|---|---|
| `TypeCorrect` | every counter stays in the range of what open allocated |
| `NothingLost` | `InputAccounted`: at every step of every call, the open segment is the interval of input frames from its start to the cursor, across memory and file (`Timeline`), and the prebuffer is the tail of the input since the last boundary (`PrebufferIsTail`) |
| `DeliveredSegmentsExact` | a delivered segment holds exactly the frames and times it claims and follows its predecessor |
| `EventsTell` | TX_ON, TX_OFF and HARD_CUT follow the open flag |
| `RefusalFinal` | after a refusal nothing is taken or delivered |
| `WithinBudget` | memory and segment length stay within the caps |

`Timeline` is not inductive. While the prebuffer is being copied the segment
ends before the cursor, so its statement depends on how far the copy has come,
and the copied frames are right only because the ring holds the tail of the
input. `IInv` therefore joins

- `ControlInv`: the steps inside a segment happen only while it is open, a
  refusal ends the call, a closed segment is empty;
- `PrebufferInv`: the copy index stays in the ring, and the ring is empty once
  copied, so that no frame is prebuffered and stored at once;
- `Timeline` and `PrebufferIsTail`;
- `DeliveryInv`: the last delivered segment ends at or before the boundary and
  the open one starts at or after it.

`IInvInit` and `IInvNext` (one lemma per action) give invariance; the arithmetic
of the ring is in `SlotOnce`, `SlotsDiffer` and `PrebufferFrameTail`, that of
the times in `FloorTickBounds` and `CeilTickBounds`. All of these hold on a
handle on which no call has failed and whose cursor has not saturated (`Sound`
and `healthy`), which is what the code can promise: after a failure it has
reported an error, and a saturated cursor no longer tells positions apart.

### Playback on a native device

The caller's thread and the device's share the ring and `pending_frames` without
a lock. `PlaybackAssumption` and `RingCapacityAssumption` only say that
capacity, period and the longest write are positive; they may be in any
relation to one another, and any number of frames and stops is allowed.
`PlaybackIsExact` says that frames are heard once and in the order written, that
the ring holds exactly those written and not heard, that the subtraction of the
callback never wraps below zero, and that no callback meets a released handle;
`DrainsAreHeard`, that a drain which returns has been heard.

`PlaybackExact` speaks of committed frames only, and of the counter only where
the callback subtracts. `IInv` adds

- `RingInv`: the frame at ring position `k` has number `k + 1`, for the frames
  copied and not yet committed too (`Filling`);
- `CallerInv`: at each step of a write, how the write position, the frames
  already written and the chunk in hand make up the call;
- `DeviceInv`: what the callback has taken (`Taken`) lies in the ring and does not
  cross the end of its storage;
- `PendingInv`: only a write raises the counter, so what either thread has loaded
  bounds what the other makes of it. This is why the unlocked test and
  subtraction of the callback are safe although they load the counter twice.

The arithmetic of the ring is in the lemmas about `RingSlot` and `AcquireRead`
(`SlotRange`, `SlotsDiffer`, `FilledSlots`, `Joined`). That the counter may stay too *high*
is not excluded; it does, see `playback_drain_race`.

### The model cache

`OpensAreSound` and `ReplacedOnlyBySound` hold for any processes, contents,
servers, opens, kills and power failures, from `CacheAssumption` (a partial
download cannot be loaded; the markers are no contents). `IInv` follows one open
of one process: `TempInv` says what its temporary file holds at each step,
`ResultInv` what it has reported and loaded, `FinalInv` what it may rely on
about the file at `model_path`, which any other process may replace between any
two of its steps. A process relies on little: that the file, whoever put it
there, is on stable storage, and, where all want the same checksum, that after a
check it still matches. `Others` states once what a step leaves to the other
processes. The part of `OpensSound` that an open succeeds with a sound source is
about opens that have ended; that every open ends is `OpenReturns`, which is
liveness.

### Timers and requests of an OPC UA client

`ClientRecordsAreExact` and `TimersAreInTime` hold for any timers and requests, on
a loop that the client owns and on one that outlives it (`ClientAssumption`: the
names are distinct). `TimerInv` gives the reference count of a record in every
state: one for the schedule, a second one while the callback runs, and one again
when the callback has removed its own timer. The count of a record is not
visible in `ClientRecordsExact`, which only says which records there are, and
without it the return of a callback could free a record that is scheduled. `RequestInv` ties the record of
a request to its submission, answer and callback.

### Unlock notification

`UnlockNotifyProofs` is about any connections and registrations. `UnlockNotifyExact` states `NotifyExact`, and
`NotificationsImplemented` that the specification implements `Notifications`
under the mapping of `Service`. Both assume
`NotifyAssumption` (the null pointer is neither) and `~Overlapping`: a
connection that is registered and has been blocked by another one since cancels
or hears its registration before it registers again. Without that they do not
hold, see `sqlite_unlock_notify`. `NotifyExact` says who holds a binding; it is
not inductive, because whether the trampoline may free a binding depends on
where a replacement of it stands. The invariant adds

- `CallInv`: at each step of the setter, what it has published, what it keeps
  and what SQLite still has registered;
- `RefsInv`: what the connection, SQLite and the setter refer to is live, theirs
  and not delivered;
- `DeliveryInv`: a delivery marks a binding for release exactly when no setter
  holds it as the old one, whatever happens between its three sections;
- `OldInv`: the binding a setter replaces is SQLite's, a running delivery's or
  delivered; in a refused call it is delivered, so the setter may free it;
- `LiveInv`: a live binding is the current one, an old one, the new one of a
  refused call or a delivered one;
- `WaitInv`: no connection waits for itself along the registrations. So SQLite,
  which refuses a registration that would close a cycle, refuses none that
  replaces a registration for the same blocker.

Each action has a lemma with one step per conjunct. The delicate ones are
`ConcludeStep`, where SQLite gathers the registrations of several connections at
once, and `MarkStep`, which hands each to the delivery or leaves it to the
setter. `FewerWaits` and `OneMoreWaits` are about the cycle test.

The mapping takes SQLite's registrations as what waits, the arguments of a
delivery as due until the callbacks have been called, and forgets who frees
what. So publishing, the answer of the native call, a cancellation, the end of a
transaction and the callbacks are steps of the service, and everything the
facade does to its bindings in between is a stutter (one lemma `...Kept` per
action). The invariant is what makes it so: a binding that is freed is not a
fresh one, nothing waits on a connection that is not blocked, and no binding is
heard before it is due.

### OpenSSL BIOs

`BiosAreExact` holds for any finite sets of BIOs and threads, any bound on
references and any width of a descriptor (`BioAssumption`). The two counters of
a method are cardinalities, of the shells that exist and of the threads inside a
callback, so the proof uses the theorems on finite sets: each action adds one
element, removes one or leaves the set as it is (`ShellsMove`, `CallbackCounted`,
`Sizes`). `IInv` adds

- `BioInv`: a BIO has at least as many references as the facade and the running
  operations hold (`Held`), so the last reference goes only when neither needs
  the shell;
- `OpInv`: an edit of a callback is in the copy of the message record, and in
  the original once it has been copied back; the free callback of a copied BIO
  is never entered;
- `RunInv`: while the generic callback runs the facade is open. The trampoline
  tests the native pointer outside the lock, so BIO_close may come before it
  enters; it then finds no callback under the lock, because BIO_close has cleared
  it there, and from entering on BIO_close is refused by the callback count;
- that whatever was polled is what the item now converts to (`RoundTrip`: the
  conversion back and forth keeps what OpenSSL reads of a descriptor).

### What is model-checked only

Liveness and `ENABLED` are out of reach of the prover, so `EveryCallReturns`,
`CallsReturn` and `OpenReturns` are TLC's alone. So is what a fold or a recursive
definition computes, for want of induction over data: the account of
`LuaRuntime` is a sum over its live blocks. The remaining safety properties have
no proof yet: capture, child processes and URL sources; the event loops and
the other counted records of OPC UA; PostgreSQL, SASL and the rest of SQLite.
`HeldRuns` of push-to-talk is checked by TLC, the segment that it shares with VOX
is what `VoxProofs` is about.

## Where code and documentation differ

Six runs state what a header, a comment or a test says, and TLC finds a
behaviour of the code that does not satisfy it:

- `playback_drain_race`: `write` commits a chunk to the ring before it adds it
  to `pending_frames`; when the callback plays the chunk in between, the count
  is never taken back and `drain` never returns (`audio.c:2854`).
- `vox_partial_spill`: after a spill that failed half-way the next push appends
  to the file while the frames are still counted in memory, and a segment is
  delivered that claims frames its reader does not give (`audio.c:1085`).
- `opcua_monitors_refused`: the plain monitored-item functions free the context
  after the deletion callback has freed it (`opcua_subscriptions.c:464`).
- `sqlite_unlock_notify`: the facade is to keep a replaced binding until SQLite
  has done with it, but a successful `sqlite3_unlock_notify` need not replace
  the old registration: registered for one connection, blocked by another that
  has since concluded, the new registration is delivered at once and the old one
  stays. The setter frees its binding (`sqlite.c:2557`), which the delivery for
  the first connection then uses. With `Overlapping` there is a second way to
  the same end: when SQLite refuses the replacement, the setter reads
  `delivered` of the old binding again, without the mutex, while a delivery of
  it may be at work (`sqlite.c:2551`).
- `lua_construction`: a construction that fails gives the runtime's block back
  through an allocator that then writes its account into it
  (`lua_runtime.c:1120`).
- `sasl_address_reuse`: the utility records are to be dropped before the native
  address can be reused, but close disposes the connection first; a connection
  made in between at the same address loses its record (`sasl.c:786`).

The following are stated in the modules but not kept as runs. Each is found in
seconds by checking the named property of the component module with the
constant shown; the passing runs use the other value, or the weaker property.

| property | module and setting | what happens |
|---|---|---|
| `SpoolCapIsHardCut` | `Vox`, `PrebufferCapacity > MaxSpool` | a prebuffer longer than the spool makes push return AT_END (`audio.c:1327`) |
| `ReleaseReported` | `Ptt` | a release right after a hard cut sends no TX_OFF (`audio.c:1456`) |
| `FlushReleases` | `Ptt` | flush of an empty pressed segment leaves it open (`audio.c:1544`) |
| `DrainQueueEnds` | `Playback`, `MaxStops = 1` | drain of a stopped device with a queue never ends (`audio.c:2886`) |
| `DeliveredInOrder` | `Capture` | an overrun during a read moves the cursor twice, and frames repeat or go missing (`audio.c:2338`) |
| `FramesAligned` | `CaptureProcess`, `MaxChildren = 2` | half a sample of the old child is joined to the first byte of the new one (`audio.c:2431`) |
| `ReadyThenRead` | `CaptureProcess` | wait_ready says ready at the end of the stream and read gives nothing (`audio.c:2492`) |
| `AtEndIsLast`, `FailureIsNotEnd` | `UrlSource` | AT_END with frames undecoded, also after bytes that gave no samples; a failed transfer reported as the end (`audio.c:832`, `:844`) |
| `SnapshotsRetained` | `PgResults`, `FireOnNotices = TRUE` | an event fired on a notice outlives the notice's binding (`postgres.c:395`) |
| `OwnedLoopRefused` | `OpcuaEventLoop`, `DeleteMayFail = TRUE` | a failed delete has already dropped the ownership mark (`opcua_server.c:242`) |
| `LeaseHeld` | `OpcuaPubSub`, `LateOwner = {"iterate"}` | iterate releases a lease it did not take (`opcua_server.c:329`) |
| `ServerOutlivesCallbacks` | `OpcuaPubSub`, `DeleteInPolicy = TRUE` | a policy callback may delete the server it runs in (`opcua_pubsub_impl.h:39`) |
| `LoadedIsWanted` without its premise `Agreement` | `SusCache`, processes that want different or unchecked contents | the model is checked and opened by name in two steps (`sus.c:820`) |
| (`left` in `CallsExact`) | `OpcuaCalls` | a browse without a page buffer that the server answers with a continuation point neither returns nor releases it (`opcua_browse.c:317`); the invariant counts such points apart |
| `CallerOwnsReceiver` | `SqliteConnections`, `Reuse = TRUE` | a new connection at a reused address finds the old receiver (`sqlite.c:3567`) |

## Assumptions about what lies below

- **miniaudio.** The ring grants contiguous chunks, refuses a commit past the
  end of its storage, and has one reader and one writer. `ma_device_stop` and
  `ma_device_uninit` return after the running callback has.
- **MP3 decoder.** It consumes a whole frame, with samples or without, or
  nothing. Tags are well formed.
- **libcurl** calls back only inside the call that drives it.
- **libpq** copies an event list when a result is made or copied, calls
  RESULT_DESTROY for events whose creation succeeded, and may reuse the address
  of a cleared result. A connection is used by one thread at a time.
- **open62541.** Calls on one loop are serialized. A callback does not make a
  synchronous call that would run the loop it is in (forbidden by
  `docs/opcua-c89-facade-spec.md:481-517`). `UA_Client_delete` completes the requests it accepted.
  A one-shot timer is dropped before or after its callback (both are explored).
  PubSub identifiers are not reused. While a loop is handed to a configuration,
  the callbacks run by freeing the old loop leave the new one alone (`Pending`);
  `SharedAsExternal` and `InUse` in `OpcuaEventLoop` state what else the
  application keeps to.
- **SQLite** reads its extension registry under its own mutex. A connection is
  closed only when no other thread is inside a call that makes a child of it;
  children may be finalised concurrently. Addresses are distinct unless `Reuse`.
  An extension handle is not used after its close, and `shutdown` runs alone.
  It calls the destructor of a context it replaces, removes or drops at close,
  and on failure where its documentation says so (`SqliteHooks`); a module is
  kept by its registration and its tables; a file whose `xOpen` set methods is
  closed even if the open failed. A VFS outlives its files, handles and views
  (`docs/sqlite-c89-facade-spec.md:126-150`). Two rules that the documentation
  does not state are left to the application in `SqliteVfs`: no VFS is closed
  while a `vfs_find` of it is under way, and one registered through a view is
  unregistered before it is closed.
- **OpenSSL** releases ex-data with the last reference to a BIO and copies the
  callback before it asks for a duplicate of the ex-data.
- **Cyrus SASL** adopts a prefix of an array of plugins, reports success only for
  the whole, and frees what it adopted when the last reference of a role ends.
  The application adds a plugin while a role that keeps its kind is initialized,
  which `add_plugin` does not test, and ends a role when none of its
  registrations and connections is in progress.
- **Lua** allocates and runs coroutines only through the functions it was given.
- **Files.** Reading through one descriptor is atomic with respect to a rename.

## What is not modelled

`components` in `PROJECT.json` lists every part with the reason. The modules
cover about a third of the lines under `src/src`. The rest is, in short:

- conversions and delegations without state of their own: PDF, GSSAPI, most of
  OpenSSL, the constructors and text forms of OPC UA identifiers, types and
  codecs, column and bind accessors of SQLite, result accessors of PostgreSQL,
  the SASL utilities;
- state of a kind that is modelled elsewhere and has not been repeated: the node
  store's depth, the backends of the history bridge, the registry of dynamic
  OPC UA types, delayed callbacks of an event loop;
- speech: inference is external, and the segmented transcription is a sink of
  the `Vox` handle modelled here;
- generated facades, tools and the build.

Inside modelled parts these are left out: `process_stop` when its second
`waitpid` is interrupted too, which leaves a child unreaped (`audio.c:2090`);
malformed ID3 tags; the frames a read has decoded when it meets the end of the
stream; the contents of samples (loud or quiet), messages, pages, files and
configuration structures.

Not shown, though the modules would allow it: that `OpcuaEventLoop` and
`OpcuaPubSub` compose (they meet in `opcua_server.c`, and each keeps the depths
it reads), and that the two segmenters implement one abstract segmenter.
