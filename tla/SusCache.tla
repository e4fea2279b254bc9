------------------------------ MODULE SusCache -------------------------------
(***************************************************************************)
(* The model cache of the speech facade: cpkt_sus_open_cached in several   *)
(* processes that share one cache directory and ask for the same model.    *)
(*                                                                         *)
(* A file is the content it holds and whether that is on stable storage.   *)
(* Reading a file through one descriptor is atomic, for a rename replaces  *)
(* the directory entry and not the data.  Processes may be killed between  *)
(* any two system calls, and the machine may lose power: data that was not *)
(* synchronized is then lost, and so may be the last renames.              *)
(***************************************************************************)
EXTENDS Naturals, FiniteSets

CONSTANTS Processes,
          Contents,     \* contents a file can have
          Loadable,     \* those that whisper.cpp loads
          Partial,      \* an incompletely written file
          Absent,       \* no file, or nothing loaded
          Any,          \* the checksum wanted with insecure_no_checksum
          Wanted,       \* the checksum each process wants
          Offline,      \* the processes that may not download
          Sources,      \* what the downloads of one server can bring
          MaxOpens,     \* bound: opens of each process
          MaxCrashes    \* bound: kills and power failures

ASSUME CacheAssumption ==
  /\ Loadable \subseteq Contents /\ Partial \in Contents \ Loadable
  /\ Absent \notin Contents /\ Any \notin Contents
  /\ Wanted \in [Processes -> Contents \cup {Any}]
  /\ Offline \subseteq Processes /\ Sources \subseteq SUBSET Contents
  /\ MaxOpens \in [Processes -> Nat] /\ MaxCrashes \in Nat

VARIABLES pc,       \* the next step of each process
          result,   \* the result of its last open
          out,      \* the content of the model it has loaded
          retry,    \* whether a fetched file is being opened
          temp,     \* its temporary file
          final,    \* the file at model_path
          stable,   \* the file that a power failure may bring back
          faulty,   \* a call of this open failed or was aborted
          served,   \* what this server's downloads can bring
          opens, crashes

vars == <<pc, result, out, retry, temp, final, stable, faulty, served, opens, crashes>>

File == [content : Contents \cup {Absent}, synced : BOOLEAN]
NoFile == [content |-> Absent, synced |-> TRUE]
Steps == {"idle", "lookup", "validate", "load", "fetch", "download", "verify",
          "probe", "rename"}
Results == {"none", "ok", "io", "network", "checksum", "model", "callback"}

TypeOK ==
  /\ pc \in [Processes -> Steps] /\ result \in [Processes -> Results]
  /\ out \in [Processes -> Contents \cup {Absent}]
  /\ retry \in [Processes -> BOOLEAN] /\ faulty \in [Processes -> BOOLEAN]
  /\ temp \in [Processes -> File] /\ final \in File /\ stable \in File
  /\ served \in Sources
  /\ opens \in [Processes -> Nat] /\ \A p \in Processes : opens[p] <= MaxOpens[p]
  /\ crashes \in 0..MaxCrashes
  /\ \A p \in Offline : pc[p] \notin {"download", "verify", "probe", "rename"}

\* The cache may hold anything that was left there before.
Init ==
  /\ pc = [p \in Processes |-> "idle"] /\ result = [p \in Processes |-> "none"]
  /\ out = [p \in Processes |-> Absent]
  /\ retry = [p \in Processes |-> FALSE] /\ faulty = [p \in Processes |-> FALSE]
  /\ temp = [p \in Processes |-> NoFile]
  /\ \E c \in Contents \cup {Absent} :
       final = [content |-> c, synced |-> TRUE] /\ stable = final
  /\ served \in Sources
  /\ opens = [p \in Processes |-> 0] /\ crashes = 0

At(p, step) == pc[p] = step
Go(p, step) == pc' = [pc EXCEPT ![p] = step] /\ UNCHANGED result
Return(p, r) ==
  pc' = [pc EXCEPT ![p] = "idle"] /\ result' = [result EXCEPT ![p] = r]

Matches(p, c) == Wanted[p] = Any \/ c = Wanted[p]

(***************************************************************************)
(* cpkt_sus_open_cached.                                                   *)
(***************************************************************************)
open_cached(p) ==
  /\ At(p, "idle") /\ opens[p] < MaxOpens[p]
  /\ opens' = [opens EXCEPT ![p] = @ + 1]
  /\ pc' = [pc EXCEPT ![p] = "lookup"] /\ result' = [result EXCEPT ![p] = "none"]
  /\ out' = [out EXCEPT ![p] = Absent]
  /\ retry' = [retry EXCEPT ![p] = FALSE] /\ faulty' = [faulty EXCEPT ![p] = FALSE]
  /\ UNCHANGED <<temp, final, stable, served, crashes>>

file_exists(p) ==
  /\ At(p, "lookup")
  /\ Go(p, IF final.content = Absent THEN "fetch" ELSE "validate")
  /\ UNCHANGED <<out, retry, temp, final, stable, faulty, served, opens, crashes>>

\* Reject with a fault: a file that is there is never replaced.
Reject_Keeps(p, r) == Return(p, r)

\* A file that fails its checksum or does not load is fetched once, online.
Reject(p, r) ==
  IF ~retry[p] /\ p \notin Offline THEN Go(p, "fetch") ELSE Return(p, r)

\* The checksum is that of the file now.
validate_cached_file(p) ==
  /\ At(p, "validate")
  /\ IF Matches(p, final.content) THEN Go(p, "load") ELSE Reject(p, "checksum")
  /\ UNCHANGED <<out, retry, temp, final, stable, faulty, served, opens, crashes>>

\* The file is opened again by name.
open_path(p) ==
  /\ At(p, "load")
  /\ IF final.content \in Loadable
     THEN out' = [out EXCEPT ![p] = final.content] /\ Return(p, "ok")
     ELSE UNCHANGED out /\ Reject(p, "model")
  /\ UNCHANGED <<retry, temp, final, stable, faulty, served, opens, crashes>>

(***************************************************************************)
(* cpkt_sus_fetch_cached_file.                                             *)
(***************************************************************************)
temp_path_for(p) ==
  /\ At(p, "fetch") /\ p \notin Offline
  /\ temp' = [temp EXCEPT ![p] = [content |-> Partial, synced |-> FALSE]]
  /\ Go(p, "download")
  /\ UNCHANGED <<out, retry, final, stable, faulty, served, opens, crashes>>

fetch_offline(p) ==
  /\ At(p, "fetch") /\ p \in Offline
  /\ Return(p, "io")
  /\ UNCHANGED <<out, retry, temp, final, stable, faulty, served, opens, crashes>>

\* download_to_file with a fault: the data is not synchronized.
download_to_file_Unsynced(p) ==
  /\ At(p, "download")
  /\ \E c \in served : temp' = [temp EXCEPT ![p] = [content |-> c, synced |-> FALSE]]
  /\ Go(p, "verify")
  /\ UNCHANGED <<out, retry, final, stable, faulty, served, opens, crashes>>

\* A transfer that ends without an error, flushed and synchronized.
download_to_file(p) ==
  /\ At(p, "download")
  /\ \E c \in served : temp' = [temp EXCEPT ![p] = [content |-> c, synced |-> TRUE]]
  /\ Go(p, "verify")
  /\ UNCHANGED <<out, retry, final, stable, faulty, served, opens, crashes>>

remove_temp(p) == temp' = [temp EXCEPT ![p] = NoFile]

\* verify_checksum with a fault: a mismatch starts the download again.
verify_checksum_Again(p) ==
  /\ At(p, "verify")
  /\ Go(p, IF Matches(p, temp[p].content) THEN "probe" ELSE "download")
  /\ UNCHANGED <<out, retry, temp, final, stable, faulty, served, opens, crashes>>

verify_checksum(p) ==
  /\ At(p, "verify")
  /\ IF Matches(p, temp[p].content)
     THEN Go(p, "probe") /\ UNCHANGED temp
     ELSE Return(p, "checksum") /\ remove_temp(p)
  /\ UNCHANGED <<out, retry, final, stable, faulty, served, opens, crashes>>

verify_model_file(p) ==
  /\ At(p, "probe")
  /\ IF temp[p].content \in Loadable
     THEN Go(p, "rename") /\ UNCHANGED temp
     ELSE Return(p, "model") /\ remove_temp(p)
  /\ UNCHANGED <<out, retry, final, stable, faulty, served, opens, crashes>>

\* The new directory entry reaches stable storage at some later time.
rename(p) ==
  /\ At(p, "rename")
  /\ final' = temp[p] /\ remove_temp(p)
  /\ retry' = [retry EXCEPT ![p] = TRUE]
  /\ Go(p, "validate")
  /\ UNCHANGED <<out, stable, faulty, served, opens, crashes>>

(***************************************************************************)
(* Failures.                                                               *)
(***************************************************************************)
\* A status callback aborts the open, or a system call or transfer fails; a
\* temporary file is removed.  A model that fails to load for want of memory
\* counts as one that cannot be loaded.
Fails(p) ==
  /\ pc[p] # "idle"
  /\ faulty' = [faulty EXCEPT ![p] = TRUE]
  /\ \/ /\ pc[p] \in {"lookup", "download", "verify", "rename", "load"}
        /\ Return(p, "callback") /\ remove_temp(p)
     \/ pc[p] \in {"validate", "fetch", "verify", "rename"} /\ Return(p, "io") /\ remove_temp(p)
     \/ pc[p] = "download" /\ \E r \in {"network", "io"} : Return(p, r) /\ remove_temp(p)
     \/ pc[p] = "probe" /\ Return(p, "model") /\ remove_temp(p)
     \/ pc[p] = "load" /\ Reject(p, "model") /\ UNCHANGED temp
  /\ UNCHANGED <<out, retry, final, stable, served, opens, crashes>>

\* A killed process leaves its temporary file behind under a name of its own;
\* no process looks at it again, and the model forgets it.
Killed(p) ==
  /\ pc[p] # "idle" /\ crashes < MaxCrashes
  /\ crashes' = crashes + 1
  /\ Return(p, "none")
  /\ faulty' = [faulty EXCEPT ![p] = TRUE]
  /\ remove_temp(p)
  /\ UNCHANGED <<out, retry, final, stable, served, opens>>

Lost(f) == IF f.synced \/ f.content = Absent THEN f ELSE [content |-> Partial, synced |-> TRUE]

PowerFails ==
  /\ crashes < MaxCrashes
  /\ crashes' = crashes + 1
  /\ \E f \in {final, stable} : final' = Lost(f) /\ stable' = Lost(f)
  /\ pc' = [p \in Processes |-> "idle"] /\ result' = [p \in Processes |-> "none"]
  /\ out' = [p \in Processes |-> Absent] /\ faulty' = [p \in Processes |-> TRUE]
  /\ temp' = [p \in Processes |-> NoFile]
  /\ UNCHANGED <<retry, served, opens>>

\* The directory reaches stable storage.
DirectoryWritten ==
  /\ stable # final
  /\ stable' = final
  /\ UNCHANGED <<pc, result, out, retry, temp, final, faulty, served, opens, crashes>>

Step(p) ==
  \/ file_exists(p) \/ validate_cached_file(p) \/ open_path(p)
  \/ temp_path_for(p) \/ fetch_offline(p) \/ download_to_file(p)
  \/ verify_checksum(p) \/ verify_model_file(p) \/ rename(p)

Next ==
  \/ \E p \in Processes : open_cached(p) \/ Step(p) \/ Fails(p) \/ Killed(p)
  \/ PowerFails \/ DirectoryWritten

\* A process that runs goes on; a transfer ends because curl gives up on one
\* that makes no progress (CURLOPT_LOW_SPEED_LIMIT and CURLOPT_LOW_SPEED_TIME).
Spec == Init /\ [][Next]_vars /\ \A p \in Processes : WF_vars(Step(p))

(***************************************************************************)
(* Properties.                                                             *)
(***************************************************************************)
\* The file at model_path is only ever replaced by one that loads and has the
\* checksum of a process that checked it, through failures of any step, kills
\* and power failures: what was not there before is never a damaged file.
ReplacedBySound ==
  [][final' # final =>
       \/ final' = stable
       \/ final'.content \in Loadable /\ \E p \in Processes : Matches(p, final'.content)]_vars

\* Every process wants the same checksum, as with models of the catalogue.
Agreement == \A p, q \in Processes : Wanted[p] = Wanted[q]

\* An open that returns CPKT_SUS_OK has loaded a model whose checksum is the
\* one it was told to enforce, although the file is checked and loaded by name:
\* what another process puts there in between was checked for the same.
LoadedIsWanted ==
  Agreement =>
    \A p \in Processes : result[p] = "ok" => out[p] \in Loadable /\ Matches(p, out[p])

\* An open that failed has loaded nothing, and an open that returned left no
\* temporary file of its own in the cache.
FailureLeavesNothing ==
  \A p \in Processes : pc[p] = "idle" =>
    /\ temp[p] = NoFile
    /\ result[p] \notin {"none", "ok"} => out[p] = Absent

\* An online open whose calls all work, fed with what it wants, succeeds,
\* whatever the cache held before and whatever the other processes do.
SoundSourceSuffices ==
  \A p \in Processes :
    /\ p \notin Offline /\ ~faulty[p] /\ pc[p] = "idle" /\ opens[p] > 0
    /\ served \subseteq Loadable /\ \A c \in served : Matches(p, c)
    => result[p] = "ok"

\* What an open reports is so, whatever the cache held, fails or comes between
\* its steps (cpkt_sus_open_cached).
OpensSound == TypeOK /\ LoadedIsWanted /\ FailureLeavesNothing /\ SoundSourceSuffices

\* Every open returns.
OpenReturns == \A p \in Processes : pc[p] # "idle" ~> pc[p] = "idle"
==============================================================================
