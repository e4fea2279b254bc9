------------------------------ MODULE SqliteVfs ------------------------------
(***************************************************************************)
(* Virtual file systems of the SQLite facade: the application's own VFS    *)
(* objects and their files (src/sqlite.c), and the views of VFSs and files *)
(* that may be SQLite's own or the application's                           *)
(* (src/sqlite_native_views.c).                                            *)
(*                                                                         *)
(* Files opened by SQLite and files the application opens through a view   *)
(* are told apart by their owner.  The application keeps the rule of       *)
(* docs/sqlite-c89-facade-spec.md:126-150 that a provider outlives its     *)
(* files, handles and views, and two that no document states, because      *)
(* vfs_close would free a VFS that is still reached: it closes a custom    *)
(* VFS when no vfs_find of it is under way, and unregisters it before if   *)
(* it registered it through a view, which leaves the object's flag alone.  *)
(***************************************************************************)
EXTENDS Naturals, Sequences, FiniteSets

CONSTANTS Custom,     \* the application's VFS objects
          Native,     \* SQLite's own VFS
          Files, Views, None

Providers == Custom \cup {Native}

VARIABLES
  vfs,        \* cpkt_sqlite_vfs and its binding: memory, list, flag
  registry,   \* SQLite's list of VFSs, the default first
  file,       \* native files, and the application's file below a custom one
  view,       \* cpkt_sqlite_file and cpkt_sqlite_vfs views
  find,       \* the native result of a vfs_find that has not returned yet
  answer      \* what the last call of a file method came to

vars == <<vfs, registry, file, view, find, answer>>

NoVfs == [state |-> "unused", listed |-> FALSE, registered |-> FALSE]
NoFile == [state |-> "none", vfs |-> None, owner |-> None, app |-> "none", methods |-> {}]
NoView == [kind |-> "none", of |-> None]

Init == /\ vfs = [v \in Custom |-> NoVfs]
        /\ registry = <<Native>>
        /\ file = [f \in Files |-> NoFile]
        /\ view = [w \in Views |-> NoView]
        /\ find = None
        /\ answer = "none"

Registered == {registry[n] : n \in DOMAIN registry}
Live(v) == IF v = Native THEN TRUE ELSE vfs[v].state = "live"
Used(v) == \/ \E f \in Files : file[f].state # "none" /\ file[f].vfs = v
           \/ \E w \in Views : view[w].kind = "vfs" /\ view[w].of = v
Without(v) == SelectSeq(registry, LAMBDA u : u # v)

-----------------------------------------------------------------------------
(* VFS objects                                                             *)

\* cpkt_sqlite_vfs_new
VfsNew(v) ==
  /\ vfs[v].state = "unused"
  /\ vfs' = [vfs EXCEPT ![v] = [state |-> "live", listed |-> TRUE, registered |-> FALSE]]
  /\ UNCHANGED <<registry, file, view, find, answer>>

\* The VFS moves to the front of SQLite's list, or behind it.
Placed(v, make_default) ==
  IF make_default \/ Without(v) = <<>> THEN <<v>> \o Without(v)
  ELSE <<Without(v)[1], v>> \o Tail(Without(v))

\* cpkt_sqlite_vfs_register and _unregister on an object, whose flag follows,
VfsRegister(v, make_default) ==
  /\ Live(v)
  /\ registry' = Placed(v, make_default)
  /\ vfs' = [vfs EXCEPT ![v].registered = TRUE]
  /\ UNCHANGED <<file, view, find, answer>>

VfsUnregister(v) ==
  /\ Live(v)
  /\ registry' = Without(v)
  /\ vfs' = [vfs EXCEPT ![v].registered = FALSE]
  /\ UNCHANGED <<file, view, find, answer>>

\* and on a view, of SQLite's VFS or of a custom one: no flag follows.
ViewRegister(w, make_default) ==
  /\ view[w].kind = "vfs"
  /\ registry' = Placed(view[w].of, make_default)
  /\ UNCHANGED <<vfs, file, view, find, answer>>

ViewUnregister(w) ==
  /\ view[w].kind = "vfs"
  /\ registry' = Without(view[w].of)
  /\ UNCHANGED <<vfs, file, view, find, answer>>

\* cpkt_sqlite_vfs_close
VfsClose(v) ==
  /\ vfs[v].state = "live"
  /\ ~Used(v) /\ find # v /\ (v \in Registered => vfs[v].registered)
  /\ registry' = IF vfs[v].registered THEN Without(v) ELSE registry
  /\ vfs' = [vfs EXCEPT ![v] = [state |-> "freed", listed |-> FALSE, registered |-> FALSE]]
  /\ UNCHANGED <<file, view, find, answer>>

\* cpkt_sqlite_vfs_find asks SQLite first, then looks through the list.
FindNative(v) ==
  /\ find = None
  /\ v \in Registered
  /\ find' = v
  /\ UNCHANGED <<vfs, registry, file, view, answer>>

\* cpkt_sqlite_native_vfs_view
VfsViewMade(w, v) == view[w] = NoView /\ view' = [view EXCEPT ![w] = [kind |-> "vfs", of |-> v]]

\* The facade's object, or a new view of the native VFS.
FindReturns(w) ==
  /\ find # None
  /\ IF \E v \in Custom : v = find /\ vfs[v].listed
     THEN UNCHANGED view
     ELSE VfsViewMade(w, find)
  /\ find' = None
  /\ UNCHANGED <<vfs, registry, file, answer>>

-----------------------------------------------------------------------------
(* Files.  The application's open callback sets the file's methods or not, *)
(* whatever status it returns.                                             *)

IoMethods == {"close", "read", "write", "truncate", "sync", "size", "lock", "unlock",
              "check_reserved_lock", "control", "sector_size", "characteristics"}
ShmMethods == {"shm_map", "shm_lock", "shm_barrier", "shm_unmap", "fetch", "unfetch"}

\* What the trampolines answer where the application gave no method,
MissingIo ==
  [m \in IoMethods |->
     CASE m = "close" -> "ok"
       [] m = "control" -> "not_found"
       [] m \in {"sector_size", "characteristics"} -> "zero"
       [] OTHER -> "ioerr"]
\* and for the optional ones, which SQLite then does not see at all.
MissingShm == [m \in ShmMethods |-> IF m \in {"fetch", "unfetch"} THEN "ok" ELSE "ioerr"]

\* cpkt_sqlite_vfs_open_native.  Methods without which the file cannot be
\* used make a success MISUSE; with them pMethods is set even after an
\* error, and SQLite then closes the file.
AppOpens(f, v, o, ms, ok) ==
  IF ms = {} THEN NoFile
  ELSE [state |-> IF ok THEN "open" ELSE "failed", vfs |-> v, owner |-> o,
        app |-> "open", methods |-> ms]

\* Mutated form: an error leaves pMethods clear.
OpenCustom_OnlyOk(f, v, ms, ok) ==
  /\ file[f].state = "none" /\ v \in Registered
  /\ file' = [file EXCEPT ![f] = IF ok THEN AppOpens(f, v, "sqlite", ms, ok)
                                 ELSE [NoFile EXCEPT !.app = IF ms = {} THEN "none" ELSE "open"]]
  /\ UNCHANGED <<vfs, registry, view, find, answer>>
OpenCustom(f, v, ms, ok) ==
  /\ file[f].state = "none" /\ v \in Registered
  /\ file' = [file EXCEPT ![f] = AppOpens(f, v, "sqlite", ms, ok)]
  /\ UNCHANGED <<vfs, registry, view, find, answer>>

OpenNative(f) ==
  /\ file[f].state = "none" /\ Native \in Registered
  /\ file' = [file EXCEPT ![f] = [state |-> "open", vfs |-> Native, owner |-> "sqlite",
                                  app |-> "none", methods |-> IoMethods \cup ShmMethods]]
  /\ UNCHANGED <<vfs, registry, view, find, answer>>

\* A call of SQLite on a file.  xShm* and xFetch are offered only when the
\* application has them.
FileCall(f, m) ==
  /\ file[f].state = "open"
  /\ m \in IoMethods \ {"close"} \/ m \in file[f].methods
  /\ answer' = IF m \in file[f].methods THEN "forwarded"
               ELSE IF m \in IoMethods THEN MissingIo[m] ELSE MissingShm[m]
  /\ UNCHANGED <<vfs, registry, file, view, find>>

\* The VFS's own methods, and what answers for one the application left out.
VfsMethods == {"delete_file", "full_path", "dl_open", "dl_close", "sleep",
               "current_time_i64", "set_system_call"}
MissingVfs ==
  [m \in VfsMethods |->
     CASE m = "sleep" -> "zero"
       [] m \in {"dl_open", "dl_close"} -> "nothing"
       [] m = "set_system_call" -> "not_found"
       [] m = "full_path" -> "cantopen"
       [] OTHER -> "error"]

\* Method m is missing, or it is one that is there.
VfsCall(v, m) ==
  /\ Live(v)
  /\ answer' = IF m = "given" \/ v = Native THEN "forwarded" ELSE MissingVfs[m]
  /\ UNCHANGED <<vfs, registry, file, view, find>>

\* A call through a view of a file or of a VFS goes to the methods of what it
\* views, whose table it copied when it was made: a file that was closed or a
\* VFS that was freed in the meantime would be gone.
Gone == answer' = "gone" /\ UNCHANGED <<vfs, registry, file, view, find>>
ViewFileCall(w, m) ==
  /\ view[w].kind \in {"owned", "borrowed", "metadata"}
  /\ IF file[view[w].of].state = "open" THEN FileCall(view[w].of, m) ELSE Gone
\* cpkt_sqlite_file_handle_read and its kin use the same file.
HandleCall(w, m) == view[w].kind = "borrowed" /\ ViewFileCall(w, m)
ViewVfsCall(w, m) ==
  /\ view[w].kind = "vfs"
  /\ IF Live(view[w].of) THEN VfsCall(view[w].of, m) ELSE Gone

\* cpkt_sqlite_vfs_file_close; SQLite also closes what failed to open.
AppCloses(f) == [file EXCEPT ![f] = [NoFile EXCEPT
                   !.app = IF file[f].app = "open" /\ "close" \notin file[f].methods
                           THEN "kept" ELSE "none"]]
Borrowed(f) == \E w \in Views : view[w].kind \in {"borrowed", "metadata"} /\ view[w].of = f
FileClose(f) ==
  /\ file[f].state \in {"open", "failed"} /\ file[f].owner = "sqlite"
  /\ ~Borrowed(f)
  /\ file' = AppCloses(f)
  /\ UNCHANGED <<vfs, registry, view, find, answer>>

-----------------------------------------------------------------------------
(* Views.  cpkt_sqlite_file_control_vfs gives a view of the provider of an *)
(* open file, custom or not.                                               *)

ViewVfs(w, f) ==
  /\ file[f].state = "open"
  /\ VfsViewMade(w, file[f].vfs)
  /\ UNCHANGED <<vfs, registry, file, find, answer>>

\* cpkt_sqlite_native_file_view_init
ViewInit(w, f, kind) == view' = [view EXCEPT ![w] = [kind |-> kind, of |-> f]]

\* cpkt_sqlite_view_vfs_open: a file of the application's own.  A failed
\* open is closed where the provider set methods, and its memory freed; no
\* memory for the view's binding closes and frees a file that was opened.
ViewOpen(w, u, f, ms, ok, bound) ==
  /\ view[w].kind = "vfs" /\ view[u] = NoView /\ file[f].state = "none"
  /\ ms # {} \/ ~ok
  /\ IF ok /\ bound
     THEN /\ file' = [file EXCEPT ![f] = AppOpens(f, view[w].of, u, ms, ok)]
          /\ ViewInit(u, f, "owned")
     ELSE UNCHANGED <<file, view>>
  /\ UNCHANGED <<vfs, registry, find, answer>>

\* cpkt_sqlite_file_control_file, and cpkt_sqlite_vfs_database_file_object
\* for a file of SQLite's own VFS.
ViewFile(w, f, kind) ==
  /\ view[w] = NoView /\ file[f].state = "open" /\ file[f].owner = "sqlite"
  /\ kind = "metadata" => file[f].vfs = Native
  /\ ViewInit(w, f, kind)
  /\ UNCHANGED <<vfs, registry, file, find, answer>>

\* The close method of a view: an owned file is closed, a handle's view
\* refuses, metadata is only released.
ViewClose(w) ==
  /\ view[w].kind \in {"owned", "borrowed", "metadata", "vfs"}
  /\ file' = IF view[w].kind = "owned" THEN AppCloses(view[w].of) ELSE file
  /\ view' = IF view[w].kind = "borrowed" THEN view ELSE [view EXCEPT ![w] = NoView]
  /\ UNCHANGED <<vfs, registry, find, answer>>

\* cpkt_sqlite_file_handle_close releases the view it owns.
HandleClose(w) ==
  /\ view[w].kind = "borrowed"
  /\ view' = [view EXCEPT ![w] = NoView]
  /\ UNCHANGED <<vfs, registry, file, find, answer>>

MethodSets == {{}, {"read", "write", "close"}, {"write", "sync", "close", "shm_map"}}

Next ==
  \/ \E v \in Custom : VfsNew(v) \/ VfsClose(v) \/ VfsUnregister(v)
  \/ \E v \in Providers : FindNative(v)
  \/ \E d \in BOOLEAN : \/ \E v \in Custom : VfsRegister(v, d)
                       \/ \E w \in Views : ViewRegister(w, d)
  \/ \E w \in Views : FindReturns(w) \/ ViewClose(w) \/ HandleClose(w) \/ ViewUnregister(w)
  \/ \E f \in Files : OpenNative(f) \/ FileClose(f)
  \/ \E f \in Files, v \in Custom, ms \in MethodSets, ok \in BOOLEAN : OpenCustom(f, v, ms, ok)
  \/ \E f \in Files, m \in {"read", "sync", "shm_map"} : FileCall(f, m)
  \/ \E w \in Views, m \in {"read", "shm_map"} : ViewFileCall(w, m) \/ HandleCall(w, m)
  \/ \E m \in {"delete_file", "given"} :
       \/ \E v \in Registered : VfsCall(v, m)
       \/ \E w \in Views : ViewVfsCall(w, m)
  \/ \E w \in Views, f \in Files : ViewVfs(w, f) \/ \E k \in {"borrowed", "metadata"} : ViewFile(w, f, k)
  \/ \E w, u \in Views, f \in Files, ms \in MethodSets, ok, bound \in BOOLEAN :
       w # u /\ ViewOpen(w, u, f, ms, ok, bound)

Spec == Init /\ [][Next]_vars

-----------------------------------------------------------------------------
\* SQLite's registry names no VFS that has been freed, and none twice, though
\* the flag by which close decides to unregister knows nothing of views; and
\* vfs_find finds every live object of the application in the list, so that it
\* never wraps one.
RegistryExact ==
  /\ \A v \in Registered : Live(v)
  /\ \A v \in Custom : vfs[v].listed <=> vfs[v].state = "live"
  /\ Cardinality(Registered) = Len(registry)
  /\ find # None => Live(find)

\* Every file the application's open callback gave methods is closed by
\* whoever owns it: as long as it is open there is one owner, SQLite or an
\* owned view; a borrowed view never closes it, and an open that fails
\* half-way leaves nothing open.
FilesExact ==
  /\ \A f \in Files : file[f].app = "open" => file[f].state \in {"open", "failed"}
  /\ \A w \in Views : view[w].kind \in {"owned", "borrowed", "metadata"} =>
       file[view[w].of].state = "open"
  /\ \A f \in Files : file[f].state # "none" /\ file[f].owner # "sqlite" =>
       {w \in Views : view[w] = [kind |-> "owned", of |-> f]} = {file[f].owner}
  /\ \A f \in Files : file[f].state # "none" => Live(file[f].vfs)

\* A call through a view or a handle reaches an open file or a live VFS, also
\* after the VFS has been unregistered.
CallsReach == answer # "gone"

VfsExact == RegistryExact /\ FilesExact /\ CallsReach
=============================================================================
