--------------------------- MODULE SqliteMethods ----------------------------
(***************************************************************************)
(* The page cache and the mutexes of SQLite below two adapters of the      *)
(* facade each: the adapter of src/sqlite.c for an application's methods,  *)
(* and, as the application's methods, the view of SQLite's own that        *)
(* page_cache_methods_get and mutex_methods_get give                       *)
(* (src/sqlite_native_methods.c), with one method changed so that it is    *)
(* not recognised as unchanged.                                            *)
(*                                                                         *)
(* Page cache: the adapter keeps a wrapper in the extra bytes of a page;   *)
(* the view keeps a hash index of the pages that are pinned.  SQLite holds *)
(* pages by their native address.  Items of the index are allocated anew   *)
(* and freed, so that a use after free is visible.                         *)
(*                                                                         *)
(* Mutexes: both levels keep one mutex for each static type, under a lock  *)
(* of their own; the receivers of cpkt_sqlite_mutex_new are on top.  A     *)
(* static mutex is never freed by sqlite3_mutex_free, only by the end of   *)
(* the methods.  A step is one section under one of the two locks.         *)
(***************************************************************************)
EXTENDS Naturals, Sequences, FiniteSets

CONSTANTS Keys,          \* page numbers
          Pages,         \* native pages; a page is recycled for another key
          Items,         \* addresses of the view's page items
          None,
          Buckets,       \* CPKT_SQLITE_CACHE_BUCKETS
          MaxBuckets,    \* the index is not grown further
          ExtraAt,       \* address of the extra bytes of a page
          ExtraSizes,    \* extra_byte_count SQLite asks for
          WrapperBytes,  \* sizeof(cpkt_sqlite_page_binding)
          IntMax

PageCacheAssumption ==
  /\ Keys \subseteq Nat /\ Buckets \in Nat \ {0} /\ MaxBuckets \in Nat
  /\ ExtraAt \in [Pages -> Nat] /\ ExtraSizes \subseteq Nat
  /\ WrapperBytes \in Nat /\ IntMax \in Nat /\ None \notin Pages \cup Items

VARIABLES
  cache,      \* the adapter's binding and the view's cache item
  resident,   \* SQLite's own cache: the page of each key
  pinned,     \* its pages that are pinned
  item,       \* the view's page items
  bucket,     \* the chains of the index
  page_count,
  wrapper,    \* the page pointer the adapter keeps in each page
  held        \* the pages SQLite has fetched and not unpinned

cacheVars == <<cache, resident, pinned, item, bucket, page_count, wrapper, held>>

Closed == [open |-> FALSE, extra |-> 0, requested |-> 0]
FreeItem == [live |-> FALSE, key |-> 0, native |-> None]
NoPages == [k \in Keys |-> None]

CacheInit == /\ cache = Closed
        /\ resident = NoPages
        /\ pinned = {}
        /\ item = [i \in Items |-> FreeItem]
        /\ bucket = [b \in 0 .. Buckets - 1 |-> <<>>]
        /\ page_count = 0
        /\ wrapper = [p \in Pages |-> None]
        /\ held = {}

-----------------------------------------------------------------------------
(* cpkt_sqlite_page_cache_create: room for the wrapper and its alignment.  *)

adapter_bytes == WrapperBytes + 7

\* The backend's cache is made first; when the adapter then has no memory
\* for its binding, the backend's cache is destroyed again.
CreateFits(extra) == adapter_bytes <= IntMax /\ extra <= IntMax - adapter_bytes

Create(extra) ==
  /\ ~cache.open
  /\ CreateFits(extra)
  /\ cache' = [open |-> TRUE, extra |-> extra, requested |-> extra + adapter_bytes]
  /\ UNCHANGED <<resident, pinned, item, bucket, page_count, wrapper, held>>

\* Where the adapter puts SQLite's extra bytes.
padding(a) == (8 - (a % 8)) % 8
native_extra(p) == ExtraAt[p] + WrapperBytes
pExtra(p) == native_extra(p) + padding(native_extra(p))

-----------------------------------------------------------------------------
(* The index of the view.                                                  *)

bucket_count(b) == Cardinality(DOMAIN b)
BucketOf(b, key) == key % bucket_count(b)

\* cpkt_sqlite_cache_page_find
PageFind(key) ==
  {bucket[BucketOf(bucket, key)][n] : n \in
     {n \in DOMAIN bucket[BucketOf(bucket, key)] :
        item[bucket[BucketOf(bucket, key)][n]].key = key}}

\* cpkt_sqlite_cache_page_link: at the front of the chain.
PageLink(b, i, key) == [b EXCEPT ![BucketOf(b, key)] = <<i>> \o @]

\* cpkt_sqlite_cache_page_unlink: wherever the item is.
PageUnlink(b, i) == [n \in DOMAIN b |-> SelectSeq(b[n], LAMBDA j : j # i)]

\* cpkt_sqlite_cache_pages_grow: every chain is relinked in its order, so a
\* chain comes out reversed.  Without memory the index stays as it is.
Regrown(b, its) ==
  LET count == 2 * bucket_count(b)
      Reversed(s) == [n \in 1 .. Len(s) |-> s[Len(s) + 1 - n]]
  IN [n \in 0 .. count - 1 |->
        Reversed(SelectSeq(b[n % bucket_count(b)], LAMBDA i : its[i].key % count = n))]

Grow(b, its, count) ==
  IF count <= bucket_count(b) * 2 \/ bucket_count(b) >= MaxBuckets
  THEN {b} ELSE {b, Regrown(b, its)}

-----------------------------------------------------------------------------
(* xFetch of SQLite's own cache: the resident page of the key, or a page   *)
(* that is not pinned, which loses the key it had.                         *)

Evicted(p) == [k \in Keys |-> IF resident[k] = p THEN None ELSE resident[k]]

NativeFetch(key) ==
  IF resident[key] # None THEN {resident[key]} ELSE Pages \ pinned

\* cpkt_sqlite_cache_view_fetch below cpkt_sqlite_page_cache_fetch.
FetchKnown(key) ==
  /\ cache.open
  /\ resident[key] # None
  /\ PageFind(key) # {}
  /\ LET p == resident[key] IN
     \E i \in PageFind(key) :
       /\ pinned' = pinned \cup {p}
       /\ wrapper' = [wrapper EXCEPT ![p] = i]
       /\ held' = held \cup {p}
  /\ UNCHANGED <<cache, resident, item, bucket, page_count>>

FetchNew(key) ==
  /\ cache.open
  /\ PageFind(key) = {}
  /\ \E p \in NativeFetch(key), i \in {i \in Items : ~item[i].live} :
       /\ resident' = [Evicted(p) EXCEPT ![key] = p]
       /\ pinned' = pinned \cup {p}
       /\ item' = [item EXCEPT ![i] = [live |-> TRUE, key |-> key, native |-> p]]
       /\ page_count' = page_count + 1
       /\ bucket' \in Grow(PageLink(bucket, i, key), item', page_count')
       /\ wrapper' = [wrapper EXCEPT ![p] = i]
       /\ held' = held \cup {p}
  /\ UNCHANGED cache

\* No memory for the item: the native page is unpinned again.
FetchFails(key) ==
  /\ cache.open
  /\ PageFind(key) = {}
  /\ \E p \in NativeFetch(key) :
       /\ resident' = [Evicted(p) EXCEPT ![key] = p]
       /\ pinned' = pinned \ {p}
  /\ UNCHANGED <<cache, item, bucket, page_count, wrapper, held>>

-----------------------------------------------------------------------------
(* cpkt_sqlite_page_cache_unpin and cpkt_sqlite_cache_view_unpin           *)

Unpin(i, discard) ==
  /\ pinned' = pinned \ {item[i].native}
  /\ resident' = IF discard THEN Evicted(item[i].native) ELSE resident
  /\ item' = [item EXCEPT ![i] = FreeItem]
  /\ bucket' = PageUnlink(bucket, i)
  /\ page_count' = page_count - 1

\* The adapter finds the view's page in the wrapper of the page it is given.
AdapterUnpin(p, discard) ==
  /\ p \in held
  /\ held' = held \ {p}
  /\ Unpin(wrapper[p], discard)
  /\ UNCHANGED <<cache, wrapper>>

\* cpkt_sqlite_page_cache_rekey and cpkt_sqlite_cache_view_rekey.  SQLite
\* rekeys a page it holds to a key it holds no page of; xRekey drops the
\* page that may still be resident under it.
Rekey(i, key) ==
  /\ resident' = [Evicted(item[i].native) EXCEPT ![key] = item[i].native]
  /\ item' = [item EXCEPT ![i].key = key]
  /\ bucket' = PageLink(PageUnlink(bucket, i), i, key)

AdapterRekey(p, key) ==
  /\ p \in held
  /\ \A q \in held : resident[key] # q
  /\ Rekey(wrapper[p], key)
  /\ UNCHANGED <<cache, pinned, page_count, wrapper, held>>

\* cpkt_sqlite_cache_view_truncate: pages from limit on are dropped, the
\* pinned ones implicitly unpinned.
Truncate(limit) ==
  /\ LET Dropped == {i \in Items : item[i].live /\ item[i].key >= limit}
         Gone == {resident[k] : k \in {k \in Keys : k >= limit}}
     IN /\ resident' = [k \in Keys |-> IF k >= limit THEN None ELSE resident[k]]
        /\ pinned' = pinned \ Gone
        /\ held' = held \ Gone
        /\ item' = [i \in Items |-> IF i \in Dropped THEN FreeItem ELSE item[i]]
        /\ bucket' = [n \in DOMAIN bucket |->
                        SelectSeq(bucket[n], LAMBDA i : i \notin Dropped)]
        /\ page_count' = page_count - Cardinality(Dropped)

AdapterTruncate(limit) == cache.open /\ Truncate(limit) /\ UNCHANGED <<cache, wrapper>>

\* cpkt_sqlite_cache_view_destroy: the native cache, the items, the index.
Destroy ==
  /\ resident' = NoPages
  /\ pinned' = {}
  /\ item' = [i \in Items |-> FreeItem]
  /\ bucket' = [b \in 0 .. Buckets - 1 |-> <<>>]
  /\ page_count' = 0
  /\ held' = {}

\* cpkt_sqlite_page_cache_destroy: the backend's cache, then the binding.
AdapterDestroy == cache.open /\ Destroy /\ cache' = Closed /\ UNCHANGED wrapper

\* xShrink, and SQLite's own cache, drop pages that are not pinned.
Shrink(p) ==
  /\ cache.open
  /\ p \notin pinned
  /\ resident' = Evicted(p)
  /\ UNCHANGED <<cache, pinned, item, bucket, page_count, wrapper, held>>

CacheNext ==
  \/ \E extra \in ExtraSizes : Create(extra)
  \/ \E key \in Keys : FetchKnown(key) \/ FetchNew(key) \/ FetchFails(key)
  \/ \E p \in Pages, discard \in BOOLEAN : AdapterUnpin(p, discard)
  \/ \E p \in Pages, key \in Keys : AdapterRekey(p, key)
  \/ \E limit \in Keys : AdapterTruncate(limit)
  \/ \E p \in Pages : Shrink(p)
  \/ AdapterDestroy

-----------------------------------------------------------------------------
\* The places of the index where an item is.
Places(i) == {<<n, m>> \in {<<n, m>> : n \in DOMAIN bucket, m \in 1 .. Cardinality(Items)} :
                m <= Len(bucket[n]) /\ bucket[n][m] = i}

\* The index holds each live item once, in the chain of its key, and no two
\* items for one key; page_count counts them (a chain that grows, a rekey
\* or a truncation must not leave an item where page_find misses it).
IndexExact ==
  /\ \A i \in Items : Cardinality(Places(i)) = IF item[i].live THEN 1 ELSE 0
  /\ \A i \in Items : \A place \in Places(i) : place[1] = BucketOf(bucket, item[i].key)
  /\ \A i, j \in Items : item[i].live /\ item[j].live /\ item[i].key = item[j].key => i = j
  /\ page_count = Cardinality({i \in Items : item[i].live})

\* The live items are the pinned pages of SQLite's own cache under their
\* keys, and what SQLite holds: a page without an item, or the reverse,
\* would stay pinned for ever or be handed out while it is recycled.
PagesExact ==
  /\ pinned = held
  /\ pinned = {item[i].native : i \in {i \in Items : item[i].live}}
  /\ \A i \in Items : item[i].live => resident[item[i].key] = item[i].native
  /\ \A p \in held : item[wrapper[p]].live /\ item[wrapper[p]].native = p

\* SQLite's extra bytes are aligned to eight and end inside what the
\* backend was asked for, whatever alignment the backend gives.
ExtraFits ==
  cache.open => \A p \in Pages :
    /\ pExtra(p) % 8 = 0
    /\ pExtra(p) + cache.extra <= ExtraAt[p] + cache.requested
    /\ cache.requested <= IntMax

CacheExact == IndexExact /\ PagesExact /\ ExtraFits

-----------------------------------------------------------------------------
(* Mutexes                                                                 *)

CONSTANTS Threads, Static, Dynamic,   \* types of mutexes
          Views,      \* addresses of method views
          Adapters,   \* addresses of cpkt_sqlite_mutex_adapter
          Entries,    \* addresses of cpkt_sqlite_native_mutex_item
          Handles     \* cpkt_sqlite_mutex receivers

Types == Static \cup Dynamic

VARIABLES
  ready,      \* sqlite3_initialize has run
  config,     \* SQLite's methods: its own, or the adapter
  current,    \* cpkt_sqlite_mutex_methods_current
  methods_are_set,
  table,      \* the methods the application holds
  views,      \* cpkt_sqlite_mutex_views
  adapter, entry, handle,
  statics,    \* cpkt_sqlite_static_mutexes
  view_statics,
  lock,       \* holder of cpkt_sqlite_static_mutex_lock
  thread, seen

cfg == <<ready, config, current, methods_are_set, table, views>>
mutexVars == <<cfg, adapter, entry, handle, statics, view_statics, lock, thread, seen>>

NoTable == [view |-> None, changed |-> FALSE]
Free == [state |-> "free", type |-> None, below |-> None]
Idle == [pc |-> "idle", type |-> None, handle |-> None, result |-> None]

MutexInit == /\ ready = FALSE /\ config = "native"
        /\ current = NoTable /\ methods_are_set = FALSE
        /\ table = NoTable /\ views = {}
        /\ adapter = [a \in Adapters |-> Free]
        /\ entry = [e \in Entries |-> Free]
        /\ handle = [h \in Handles |-> None]
        /\ statics = {} /\ view_statics = {}
        /\ lock = None
        /\ thread = [t \in Threads |-> Idle]
        /\ seen = [ty \in Static |-> {}]

Quiet == \A t \in Threads : thread[t] = Idle
mutexes == <<adapter, entry, handle, statics, view_statics, lock, thread, seen>>

-----------------------------------------------------------------------------
(* Method tables.  sqlite3_config works only while SQLite is not ready,    *)
(* and, like sqlite3_initialize and shutdown, not beside other calls.      *)

\* cpkt_sqlite_native_mutex_methods_get: a view of SQLite's own mutexes.
ViewMade(v) ==
  /\ v \notin views
  /\ table' = [view |-> v, changed |-> FALSE]
  /\ views' = views \cup {v}

\* cpkt_sqlite_global_config_mutex_methods_get: the application's own
\* methods when they are the ones SQLite uses, else a new view.
MethodsGet(v) ==
  /\ Quiet /\ ~ready /\ table = NoTable
  /\ IF methods_are_set /\ config = "adapter"
     THEN table' = current /\ UNCHANGED views
     ELSE ViewMade(v)
  /\ UNCHANGED <<ready, config, current, methods_are_set, mutexes>>

\* The application replaces one of the methods by its own.
Decorate ==
  /\ table # NoTable /\ ~table.changed
  /\ table' = [table EXCEPT !.changed = TRUE]
  /\ UNCHANGED <<ready, config, current, methods_are_set, views, mutexes>>

\* cpkt_sqlite_native_mutex_methods_unwrap
Unwraps(tb) == tb.view \in views /\ ~tb.changed

MethodsSet ==
  /\ Quiet /\ ~ready /\ table # NoTable
  /\ IF Unwraps(table)
     THEN config' = "native" /\ methods_are_set' = FALSE /\ UNCHANGED current
     ELSE config' = "adapter" /\ methods_are_set' = TRUE /\ current' = table
  /\ UNCHANGED <<ready, table, views, mutexes>>

\* cpkt_sqlite_native_mutex_methods_release, which the application calls
\* when no mutex of the view is left and SQLite does not use it.
MethodsRelease ==
  /\ Quiet /\ table # NoTable
  /\ ~(config = "adapter" /\ current.view = table.view)
  /\ views' = views \ {table.view}
  /\ table' = NoTable
  /\ UNCHANGED <<ready, config, current, methods_are_set, mutexes>>

Initialize ==
  /\ ~ready /\ Quiet
  /\ config = "adapter"
  /\ ready' = TRUE
  /\ table' = NoTable
  /\ UNCHANGED <<config, current, methods_are_set, views, mutexes>>

\* cpkt_sqlite_mutex_view_end: every entry of the view is freed.
Ended ==
  /\ entry' = [e \in Entries |-> IF e \in view_statics THEN Free ELSE entry[e]]
  /\ view_statics' = {}

\* cpkt_sqlite_custom_mutex_end: the view's mutexes end first.
Shutdown ==
  /\ ready /\ Quiet /\ \A h \in Handles : handle[h] = None
  /\ ready' = FALSE
  /\ Ended
  /\ adapter' = [a \in Adapters |-> IF a \in statics THEN Free ELSE adapter[a]]
  /\ statics' = {}
  /\ seen' = [ty \in Static |-> {}]
  /\ UNCHANGED <<config, current, methods_are_set, table, views, handle, lock, thread>>

-----------------------------------------------------------------------------
(* cpkt_sqlite_mutex_new, or SQLite itself, allocates a mutex.             *)

At(t, pc) == thread[t].pc = pc
Goto(t, pc) == thread' = [thread EXCEPT ![t].pc = pc]
Done(t, a) == thread' = [thread EXCEPT ![t] = [@ EXCEPT !.pc = "done", !.result = a]]

Alloc(t, ty, h) ==
  /\ ready /\ At(t, "idle")
  /\ h # None => handle[h] = None /\ \A u \in Threads : thread[u].handle # h
  /\ h = None => ty \in Static
  /\ thread' = [thread EXCEPT ![t] = [pc |-> "adapter", type |-> ty, handle |-> h, result |-> None]]
  /\ UNCHANGED <<cfg, adapter, entry, handle, statics, view_statics, lock, seen>>

Same(list, ty, objects) == {x \in list : objects[x].type = ty}

\* cpkt_sqlite_custom_mutex_alloc up to the allocation below it.
\* Mutated form: the lock is let go before the new adapter is linked.
AdapterLookup_Unlocks(t) ==
  /\ At(t, "adapter")
  /\ lock = None
  /\ LET found == Same(statics, thread[t].type, adapter) IN
     \/ found # {} /\ \E a \in found : Done(t, a)
     \/ found = {} /\ Goto(t, "view")
  /\ UNCHANGED <<cfg, adapter, entry, handle, statics, view_statics, lock, seen>>
AdapterLookup(t) ==
  /\ At(t, "adapter")
  /\ IF thread[t].type \in Static
     THEN /\ lock = None
          /\ LET found == Same(statics, thread[t].type, adapter) IN
             \/ found # {} /\ (\E a \in found : Done(t, a)) /\ UNCHANGED lock
             \/ found = {} /\ Goto(t, "view") /\ lock' = t
     ELSE Goto(t, "view") /\ UNCHANGED lock
  /\ UNCHANGED <<cfg, adapter, entry, handle, statics, view_statics, seen>>

\* cpkt_sqlite_mutex_view_alloc: found, made, or not made, in one section
\* under the view's own lock.
ViewAlloc(t) ==
  /\ At(t, "view")
  /\ LET ty == thread[t].type
         found == IF ty \in Static THEN Same(view_statics, ty, entry) ELSE {}
     IN \/ \E e \in found :
             /\ thread' = [thread EXCEPT ![t].pc = "link", ![t].result = e]
             /\ UNCHANGED <<entry, view_statics>>
        \/ found = {} /\ \E e \in {e \in Entries : entry[e].state = "free"} :
             /\ entry' = [entry EXCEPT ![e] = [state |-> "live", type |-> ty, below |-> None]]
             /\ view_statics' = IF ty \in Static THEN view_statics \cup {e} ELSE view_statics
             /\ thread' = [thread EXCEPT ![t].pc = "link", ![t].result = e]
        \/ found = {} /\ Goto(t, "failed") /\ UNCHANGED <<entry, view_statics>>
  /\ UNCHANGED <<cfg, adapter, handle, statics, lock, seen>>

Unlocked(t) == IF lock = t THEN None ELSE lock

\* The adapter is linked and the lock let go.
AdapterLink(t, a) ==
  /\ At(t, "link")
  /\ adapter[a].state = "free"
  /\ adapter' = [adapter EXCEPT ![a] = [state |-> "live", type |-> thread[t].type,
                                        below |-> thread[t].result]]
  /\ statics' = IF thread[t].type \in Static THEN statics \cup {a} ELSE statics
  /\ lock' = Unlocked(t)
  /\ Done(t, a)
  /\ UNCHANGED <<cfg, entry, handle, view_statics, seen>>

\* No memory, or no mutex below: NULL.
\* Mutated form: the early return forgets the lock.
AdapterFails_Locked(t) ==
  /\ At(t, "failed")
  /\ thread' = [thread EXCEPT ![t] = Idle]
  /\ UNCHANGED <<cfg, adapter, entry, handle, statics, view_statics, lock, seen>>
AdapterFails(t) ==
  /\ At(t, "failed")
  /\ lock' = Unlocked(t)
  /\ thread' = [thread EXCEPT ![t] = Idle]
  /\ UNCHANGED <<cfg, adapter, entry, handle, statics, view_statics, seen>>

\* The receiver of cpkt_sqlite_mutex_new; SQLite keeps the pointer.
NewReturns(t) ==
  /\ At(t, "done")
  /\ handle' = IF thread[t].handle = None THEN handle
               ELSE [handle EXCEPT ![thread[t].handle] = thread[t].result]
  /\ seen' = IF thread[t].type \in Static
             THEN [seen EXCEPT ![thread[t].type] = @ \cup {thread[t].result}] ELSE seen
  /\ thread' = [thread EXCEPT ![t] = Idle]
  /\ UNCHANGED <<cfg, adapter, entry, statics, view_statics, lock>>

\* cpkt_sqlite_mutex_view_free
ViewFreed(e) == entry' = [entry EXCEPT ![e] = Free]

\* sqlite3_mutex_free through both: only a dynamic mutex is freed.
Freed(a) ==
  IF adapter[a].type \in Dynamic
  THEN /\ adapter' = [adapter EXCEPT ![a] = Free]
       /\ ViewFreed(adapter[a].below)
  ELSE UNCHANGED <<adapter, entry>>

\* No memory for the receiver: a dynamic mutex is freed again.
NewFails(t) ==
  /\ At(t, "done") /\ thread[t].handle # None
  /\ Freed(thread[t].result)
  /\ thread' = [thread EXCEPT ![t] = Idle]
  /\ UNCHANGED <<cfg, handle, statics, view_statics, lock, seen>>

\* cpkt_sqlite_mutex_close
Close(t, h) ==
  /\ At(t, "idle") /\ handle[h] # None
  /\ Freed(handle[h])
  /\ handle' = [handle EXCEPT ![h] = None]
  /\ UNCHANGED <<cfg, statics, view_statics, lock, thread, seen>>

Step(t) ==
  \/ AdapterLookup(t) \/ ViewAlloc(t) \/ (\E a \in Adapters : AdapterLink(t, a))
  \/ AdapterFails(t) \/ NewReturns(t) \/ NewFails(t)

Configure == \/ (\E v \in Views : MethodsGet(v)) \/ Decorate \/ MethodsSet
             \/ MethodsRelease \/ Initialize \/ Shutdown

MutexNext ==
  \/ Configure
  \/ \E t \in Threads : Step(t) \/ \E h \in Handles : Close(t, h)
  \/ \E t \in Threads, ty \in Types, h \in Handles \cup {None} : Alloc(t, ty, h)

-----------------------------------------------------------------------------
InUse == {handle[h] : h \in Handles} \cup UNION {seen[ty] : ty \in Static}
         \cup {thread[t].result : t \in {t \in Threads : thread[t].pc = "done"}}

\* A static type has one mutex, whichever thread asks first; every mutex
\* that can still be entered is live at both levels; and what is live is in
\* use or in a list that the shutdown clears, so nothing is lost when an
\* allocation fails half-way.
MutexesExact ==
  /\ \A ty \in Static : Cardinality(seen[ty]) <= 1
                        /\ Cardinality(Same(statics, ty, adapter)) <= 1
                        /\ Cardinality(Same(view_statics, ty, entry)) <= 1
  /\ \A a \in (InUse \cup statics) \ {None} :
       adapter[a].state = "live" /\ entry[adapter[a].below].state = "live"
  /\ \A a \in Adapters : adapter[a].state = "live" => a \in InUse \cup statics
  /\ \A e \in Entries : entry[e].state = "live" =>
       \/ e \in view_statics
       \/ \E a \in Adapters : adapter[a].below = e
       \/ \E t \in Threads : thread[t].pc = "link" /\ thread[t].result = e
  /\ (ready \/ methods_are_set) => current.view \in views

\* The thread holds the lock, or is past the lookup of an allocation.
Allocating(t) == lock = t \/ thread[t].pc \in {"view", "link", "failed", "done"}
Settled(t) == lock # t /\ thread[t].pc \in {"idle", "adapter"}

\* The lock of the static mutexes, held while the view below allocates, is
\* always let go, and an allocation whose lookup has been made returns.
AllocationsReturn == \A t \in Threads : Allocating(t) ~> Settled(t)

-----------------------------------------------------------------------------
\* The two together: neither touches the records of the other.
vars == <<cacheVars, mutexVars>>
Init == CacheInit /\ MutexInit
Next ==
  \/ CacheNext /\ UNCHANGED mutexVars
  \/ MutexNext /\ UNCHANGED cacheVars
Spec == Init /\ [][Next]_vars
FairSpec == Spec /\ \A t \in Threads : WF_vars(Step(t) /\ UNCHANGED cacheVars)
=============================================================================
