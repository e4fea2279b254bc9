--------------------------- MODULE SusCacheProofs ----------------------------
(***************************************************************************)
(* Proofs about the model cache, for any processes, contents and servers,  *)
(* and any number of opens, kills and power failures.                      *)
(*                                                                         *)
(* The invariant follows one open of one process (OpenInv): where its      *)
(* temporary file may be and what it then holds, what it has loaded, and   *)
(* what it may rely on about the file at model_path, which the others      *)
(* replace between any two of its steps.                                   *)
(***************************************************************************)
EXTENDS SusCache, TLAPS

\* The server only brings what process p wants and can load.
Suits(p) == p \notin Offline /\ served \subseteq Loadable /\ \A c \in served : Matches(p, c)

\* The temporary file of p.
TempInv(p) ==
  /\ pc[p] \in {"idle", "lookup", "validate", "load", "fetch"} => temp[p] = NoFile
  /\ pc[p] \in {"verify", "probe", "rename"} => temp[p].content \in served /\ temp[p].synced
  /\ pc[p] \in {"probe", "rename"} => Matches(p, temp[p].content)
  /\ pc[p] = "rename" => temp[p].content \in Loadable

\* What p has reported and loaded.
ResultInv(p) ==
  /\ pc[p] # "idle" => result[p] = "none"
  /\ result[p] # "ok" => out[p] = Absent
  /\ result[p] = "ok" => out[p] \in Loadable
  /\ pc[p] = "idle" /\ Suits(p) /\ ~faulty[p] /\ opens[p] > 0 => result[p] = "ok"

\* What p relies on about the file at model_path.
FinalInv(p) ==
  /\ pc[p] = "lookup" => ~retry[p]
  /\ Suits(p) /\ retry[p] /\ pc[p] \in {"validate", "load"} => final.content \in served
  /\ Agreement => /\ pc[p] = "load" => Matches(p, final.content)
                  /\ result[p] = "ok" => Matches(p, out[p])

IInv ==
  /\ TypeOK
  /\ final.synced /\ stable.synced
  /\ \A p \in Processes : TempInv(p) /\ ResultInv(p) /\ FinalInv(p)

\* No file is a value of a file variable.
LEMMA NoFileIsFile == NoFile \in File
BY DEF NoFile, File

\* The initial states satisfy the invariant.
LEMMA Initially == Init => IInv
<1> SUFFICES ASSUME Init PROVE IInv
  OBVIOUS
<1>1. TypeOK
  BY CacheAssumption DEF Init, TypeOK, Steps, Results, File, NoFile
<1>2. final.synced /\ stable.synced
  BY DEF Init
<1>3. ASSUME NEW p \in Processes PROVE TempInv(p) /\ ResultInv(p) /\ FinalInv(p)
  BY DEF Init, TempInv, ResultInv, FinalInv
<1> QED BY <1>1, <1>2, <1>3 DEF IInv

\* What a step of p leaves to the other processes.
Others(p) ==
  \A q \in Processes \ {p} :
    /\ pc'[q] = pc[q] /\ result'[q] = result[q] /\ out'[q] = out[q]
    /\ retry'[q] = retry[q] /\ temp'[q] = temp[q] /\ faulty'[q] = faulty[q]
    /\ opens'[q] = opens[q]

\* A step of p that keeps the file at model_path, or replaces it by one that the
\* server brought and p checked, keeps what the others rely on.
LEMMA OthersKept ==
  ASSUME IInv, NEW p \in Processes, Others(p), UNCHANGED served,
         \/ final' = final
         \/ final'.content \in served /\ Matches(p, final'.content)
  PROVE  \A q \in Processes \ {p} : (TempInv(q) /\ ResultInv(q) /\ FinalInv(q))'
<1> SUFFICES ASSUME NEW q \in Processes, q # p
             PROVE  (TempInv(q) /\ ResultInv(q) /\ FinalInv(q))'
  OBVIOUS
<1>1. TempInv(q) /\ ResultInv(q) /\ FinalInv(q)
  BY DEF IInv
<1>2. TempInv(q)' /\ ResultInv(q)'
  BY <1>1 DEF TempInv, ResultInv, Others, Suits, Matches
<1>3. FinalInv(q)'
  BY <1>1 DEF FinalInv, Others, Suits, Matches, Agreement
<1> QED BY <1>2, <1>3

\* An open starts over with nothing loaded and no temporary file.
LEMMA open_cachedStep == ASSUME IInv, NEW p \in Processes, open_cached(p) PROVE IInv'
<1> USE DEF IInv
<1>1. TypeOK'
  <2>1. opens' \in [Processes -> Nat] /\ \A q \in Processes : opens'[q] <= MaxOpens[q]
    <3>1. opens'[p] = opens[p] + 1 /\ opens[p] < MaxOpens[p] /\ MaxOpens[p] \in Nat
      BY CacheAssumption, Zenon DEF open_cached, TypeOK
    <3>2. \A q \in Processes : q # p => opens'[q] = opens[q]
      BY DEF open_cached, TypeOK
    <3> QED BY <3>1, <3>2 DEF open_cached, TypeOK
  <2> QED BY <2>1 DEF open_cached, TypeOK, Steps, Results, File
<1>2. final'.synced /\ stable'.synced
  BY DEF open_cached, TempInv
<1>3. Others(p) /\ UNCHANGED served
  BY DEF Others, open_cached, Go, Return, At, TypeOK
<1>4. final' = final \/ (final'.content \in served /\ Matches(p, final'.content))
  BY DEF open_cached, TempInv
<1>5. (TempInv(p) /\ ResultInv(p) /\ FinalInv(p))'
  BY DEF TempInv, ResultInv, FinalInv, Suits, Agreement, open_cached, Go, Return, At, TypeOK, Steps, Results, File, NoFile
<1> QED BY <1>1, <1>2, <1>3, <1>4, <1>5, OthersKept

\* Looking for the file changes nothing but the next step.
LEMMA file_existsStep == ASSUME IInv, NEW p \in Processes, file_exists(p) PROVE IInv'
<1> USE DEF IInv
<1>1. TypeOK'
  BY CacheAssumption DEF file_exists, Go, Return, At, TypeOK, Steps, Results, File, NoFile
<1>2. final'.synced /\ stable'.synced
  BY DEF file_exists, TempInv
<1>3. Others(p) /\ UNCHANGED served
  BY DEF Others, file_exists, Go, Return, At, TypeOK
<1>4. final' = final \/ (final'.content \in served /\ Matches(p, final'.content))
  BY DEF file_exists, TempInv
<1>5. (TempInv(p) /\ ResultInv(p) /\ FinalInv(p))'
  <2>1. pc[p] = "lookup" /\ pc'[p] \in {"fetch", "validate"} /\ ~retry'[p]
    BY DEF file_exists, At, Go, FinalInv, TypeOK
  <2> QED BY <2>1 DEF TempInv, ResultInv, FinalInv, file_exists, Go
<1> QED BY <1>1, <1>2, <1>3, <1>4, <1>5, OthersKept

\* A file that has the wanted checksum is loaded next; another one is fetched once.
LEMMA validate_cached_fileStep == ASSUME IInv, NEW p \in Processes, validate_cached_file(p) PROVE IInv'
<1> USE DEF IInv
<1>1. TypeOK'
  <2>1. pc'[p] \in {"load", "fetch", "idle"} /\ pc' \in [Processes -> Steps]
    BY DEF validate_cached_file, Reject, Go, Return, TypeOK, Steps
  <2>2. result' \in [Processes -> Results]
    BY DEF validate_cached_file, Reject, Go, Return, TypeOK, Results
  <2>3. \A q \in Processes : q # p => pc'[q] = pc[q]
    BY DEF validate_cached_file, Reject, Go, Return, TypeOK
  <2> QED BY <2>1, <2>2, <2>3, CacheAssumption DEF validate_cached_file, TypeOK
<1>2. final'.synced /\ stable'.synced
  BY DEF validate_cached_file, TempInv
<1>3. Others(p) /\ UNCHANGED served
  BY DEF Others, validate_cached_file, Go, Return, At, Reject, Matches, TypeOK
<1>4. final' = final \/ (final'.content \in served /\ Matches(p, final'.content))
  BY DEF validate_cached_file, TempInv
<1>5. (TempInv(p) /\ ResultInv(p) /\ FinalInv(p))'
  BY DEF TempInv, ResultInv, FinalInv, Suits, Agreement, validate_cached_file, Go, Return, At, Reject, Matches, TypeOK, Steps, Results, File, NoFile
<1> QED BY <1>1, <1>2, <1>3, <1>4, <1>5, OthersKept

\* What is loaded is loadable, and what was checked if all processes agree.
LEMMA open_pathStep == ASSUME IInv, NEW p \in Processes, open_path(p) PROVE IInv'
<1> USE DEF IInv
<1>1. TypeOK'
  BY CacheAssumption, SMTT(60) DEF open_path, Go, Return, At, Reject, TypeOK, Steps, Results, File, NoFile
<1>2. final'.synced /\ stable'.synced
  BY DEF open_path, TempInv
<1>3. Others(p) /\ UNCHANGED served
  BY DEF Others, open_path, Go, Return, At, Reject, TypeOK
<1>4. final' = final \/ (final'.content \in served /\ Matches(p, final'.content))
  BY DEF open_path, TempInv
<1>5. (TempInv(p) /\ ResultInv(p) /\ FinalInv(p))'
  BY DEF TempInv, ResultInv, FinalInv, Suits, Agreement, open_path, Go, Return, At, Reject, TypeOK, Steps, Results, File, NoFile
<1> QED BY <1>1, <1>2, <1>3, <1>4, <1>5, OthersKept

\* The temporary file is made by an online process only.
LEMMA temp_path_forStep == ASSUME IInv, NEW p \in Processes, temp_path_for(p) PROVE IInv'
<1> USE DEF IInv
<1>1. TypeOK'
  BY CacheAssumption DEF temp_path_for, Go, Return, At, TypeOK, Steps, Results, File, NoFile
<1>2. final'.synced /\ stable'.synced
  BY DEF temp_path_for, TempInv
<1>3. Others(p) /\ UNCHANGED served
  BY DEF Others, temp_path_for, Go, Return, At, TypeOK
<1>4. final' = final \/ (final'.content \in served /\ Matches(p, final'.content))
  BY DEF temp_path_for, TempInv
<1>5. (TempInv(p) /\ ResultInv(p) /\ FinalInv(p))'
  BY DEF TempInv, ResultInv, FinalInv, Suits, Agreement, temp_path_for, Go, Return, At, TypeOK, Steps, Results, File, NoFile
<1> QED BY <1>1, <1>2, <1>3, <1>4, <1>5, OthersKept

\* An offline process gives up.
LEMMA fetch_offlineStep == ASSUME IInv, NEW p \in Processes, fetch_offline(p) PROVE IInv'
<1> USE DEF IInv
<1>1. TypeOK'
  BY CacheAssumption DEF fetch_offline, Go, Return, At, TypeOK, Steps, Results, File, NoFile
<1>2. final'.synced /\ stable'.synced
  BY DEF fetch_offline, TempInv
<1>3. Others(p) /\ UNCHANGED served
  BY DEF Others, fetch_offline, Go, Return, At, TypeOK
<1>4. final' = final \/ (final'.content \in served /\ Matches(p, final'.content))
  BY DEF fetch_offline, TempInv
<1>5. (TempInv(p) /\ ResultInv(p) /\ FinalInv(p))'
  BY DEF TempInv, ResultInv, FinalInv, Suits, Agreement, fetch_offline, Go, Return, At, TypeOK, Steps, Results, File, NoFile
<1> QED BY <1>1, <1>2, <1>3, <1>4, <1>5, OthersKept

\* A download that ends has what the server brings, synchronized.
LEMMA download_to_fileStep == ASSUME IInv, NEW p \in Processes, download_to_file(p) PROVE IInv'
<1> USE DEF IInv
<1>1. TypeOK'
  BY CacheAssumption DEF download_to_file, Go, Return, At, TypeOK, Steps, Results, File, NoFile
<1>2. final'.synced /\ stable'.synced
  BY DEF download_to_file, TempInv
<1>3. Others(p) /\ UNCHANGED served
  BY DEF Others, download_to_file, Go, Return, At, TypeOK
<1>4. final' = final \/ (final'.content \in served /\ Matches(p, final'.content))
  BY DEF download_to_file, TempInv
<1>5. (TempInv(p) /\ ResultInv(p) /\ FinalInv(p))'
  BY DEF TempInv, ResultInv, FinalInv, Suits, Agreement, download_to_file, Go, Return, At, TypeOK, Steps, Results, File, NoFile
<1> QED BY <1>1, <1>2, <1>3, <1>4, <1>5, OthersKept

\* Only a file with the wanted checksum is probed; another one is removed.
LEMMA verify_checksumStep == ASSUME IInv, NEW p \in Processes, verify_checksum(p) PROVE IInv'
<1> USE DEF IInv
<1>1. TypeOK'
  <2>1. /\ pc' \in [Processes -> Steps] /\ pc'[p] \in {"probe", "idle"}
        /\ pc[p] = "verify"
    BY DEF verify_checksum, At, Go, Return, TypeOK, Steps
  <2>2. result' \in [Processes -> Results] /\ temp' \in [Processes -> File]
    BY NoFileIsFile DEF verify_checksum, remove_temp, Go, Return, TypeOK, Results
  <2>3. \A q \in Processes : q # p => pc'[q] = pc[q]
    BY DEF verify_checksum, Go, Return, TypeOK
  <2> QED BY <2>1, <2>2, <2>3, CacheAssumption DEF verify_checksum, TypeOK
<1>2. final'.synced /\ stable'.synced
  BY DEF verify_checksum, TempInv
<1>3. Others(p) /\ UNCHANGED served
  BY DEF Others, verify_checksum, Go, Return, At, remove_temp, Matches, TypeOK
<1>4. final' = final \/ (final'.content \in served /\ Matches(p, final'.content))
  BY DEF verify_checksum, TempInv
<1>5. (TempInv(p) /\ ResultInv(p) /\ FinalInv(p))'
  <2>1. CASE Matches(p, temp[p].content)
    BY <2>1 DEF verify_checksum, At, Go, TempInv, ResultInv, FinalInv, Matches, TypeOK
  <2>2. CASE ~Matches(p, temp[p].content)
    <3>1. ~Suits(p)'
      BY <2>2 DEF verify_checksum, At, TempInv, Suits, Matches
    <3> QED BY <2>2, <3>1 DEF verify_checksum, At, Return, remove_temp, TempInv, ResultInv,
               FinalInv, TypeOK
  <2> QED BY <2>1, <2>2
<1> QED BY <1>1, <1>2, <1>3, <1>4, <1>5, OthersKept

\* Only a file that loads is renamed; another one is removed.
LEMMA verify_model_fileStep == ASSUME IInv, NEW p \in Processes, verify_model_file(p) PROVE IInv'
<1> USE DEF IInv
<1>1. TypeOK'
  <2>1. /\ pc' \in [Processes -> Steps] /\ pc'[p] \in {"rename", "idle"}
        /\ pc[p] = "probe"
    BY DEF verify_model_file, At, Go, Return, TypeOK, Steps
  <2>2. result' \in [Processes -> Results] /\ temp' \in [Processes -> File]
    BY NoFileIsFile DEF verify_model_file, remove_temp, Go, Return, TypeOK, Results
  <2>3. \A q \in Processes : q # p => pc'[q] = pc[q]
    BY DEF verify_model_file, Go, Return, TypeOK
  <2> QED BY <2>1, <2>2, <2>3, CacheAssumption DEF verify_model_file, TypeOK
<1>2. final'.synced /\ stable'.synced
  BY DEF verify_model_file, TempInv
<1>3. Others(p) /\ UNCHANGED served
  BY DEF Others, verify_model_file, Go, Return, At, remove_temp, TypeOK
<1>4. final' = final \/ (final'.content \in served /\ Matches(p, final'.content))
  BY DEF verify_model_file, TempInv
<1>5. (TempInv(p) /\ ResultInv(p) /\ FinalInv(p))'
  <2>1. CASE temp[p].content \in Loadable
    BY <2>1 DEF verify_model_file, At, Go, TempInv, ResultInv, FinalInv, Matches, TypeOK
  <2>2. CASE temp[p].content \notin Loadable
    <3>1. ~Suits(p)'
      BY <2>2 DEF verify_model_file, At, TempInv, Suits
    <3> QED BY <2>2, <3>1, SMTT(60) DEF verify_model_file, At, Return, remove_temp, TempInv, ResultInv,
               FinalInv, TypeOK
  <2> QED BY <2>1, <2>2
<1> QED BY <1>1, <1>2, <1>3, <1>4, <1>5, OthersKept

\* The renamed file was brought by the server, checked and loaded.
LEMMA renameStep == ASSUME IInv, NEW p \in Processes, rename(p) PROVE IInv'
<1> USE DEF IInv
<1>1. TypeOK'
  BY CacheAssumption DEF rename, Go, Return, At, remove_temp, TypeOK, Steps, Results, File, NoFile
<1>2. final'.synced /\ stable'.synced
  BY DEF rename, At, TempInv
<1>3. Others(p) /\ UNCHANGED served
  BY DEF Others, rename, Go, Return, At, remove_temp, TypeOK
<1>4. final' = final \/ (final'.content \in served /\ Matches(p, final'.content))
  BY DEF rename, At, TempInv
<1>5. (TempInv(p) /\ ResultInv(p) /\ FinalInv(p))'
  BY DEF TempInv, ResultInv, FinalInv, Suits, Agreement, rename, Go, Return, At, remove_temp, TypeOK, Steps, Results, File, NoFile
<1> QED BY <1>1, <1>2, <1>3, <1>4, <1>5, OthersKept

\* A failure removes the temporary file and is not forgotten.
LEMMA FailsStep == ASSUME IInv, NEW p \in Processes, Fails(p) PROVE IInv'
<1> USE DEF IInv
<1>1. TypeOK'
  <2>1. /\ pc' \in [Processes -> Steps]
        /\ pc'[p] \in {"fetch", "idle"}
    BY DEF Fails, Reject, Go, Return, TypeOK, Steps
  <2>2. result' \in [Processes -> Results]
    BY DEF Fails, Reject, Go, Return, TypeOK, Results
  <2>3. temp' \in [Processes -> File]
    BY NoFileIsFile DEF Fails, remove_temp, TypeOK
  <2>4. \A q \in Processes : q # p => pc'[q] = pc[q]
    BY DEF Fails, Reject, Go, Return, TypeOK
  <2> QED BY <2>1, <2>2, <2>3, <2>4, CacheAssumption, ZenonT(60) DEF Fails, TypeOK
<1>2. final'.synced /\ stable'.synced
  BY DEF Fails, TempInv
<1>3. Others(p) /\ UNCHANGED served
  BY DEF Others, Fails, Go, Return, At, Reject, remove_temp, TypeOK
<1>4. final' = final \/ (final'.content \in served /\ Matches(p, final'.content))
  BY DEF Fails, TempInv
<1>5. (TempInv(p) /\ ResultInv(p) /\ FinalInv(p))'
  <2>1. result[p] = "none" /\ out'[p] = Absent /\ faulty'[p]
    BY DEF Fails, ResultInv, TypeOK
  <2>2. temp'[p] = NoFile
    BY DEF Fails, remove_temp, TempInv, TypeOK
  <2>3. \/ pc'[p] = "idle" /\ result'[p] \in Results \ {"none", "ok"}
        \/ pc'[p] = "fetch" /\ result'[p] = "none"
    BY <2>1 DEF Fails, Reject, Go, Return, Results, TypeOK
  <2> QED BY <2>1, <2>2, <2>3 DEF TempInv, ResultInv, FinalInv, Suits
<1> QED BY <1>1, <1>2, <1>3, <1>4, <1>5, OthersKept

\* A killed process has nothing.
LEMMA KilledStep == ASSUME IInv, NEW p \in Processes, Killed(p) PROVE IInv'
<1> USE DEF IInv
<1>1. TypeOK'
  BY CacheAssumption DEF Killed, Go, Return, At, remove_temp, TypeOK, Steps, Results, File, NoFile
<1>2. final'.synced /\ stable'.synced
  BY DEF Killed, TempInv
<1>3. Others(p) /\ UNCHANGED served
  BY DEF Others, Killed, Go, Return, At, remove_temp, TypeOK
<1>4. final' = final \/ (final'.content \in served /\ Matches(p, final'.content))
  BY SMTT(60) DEF Killed, TempInv
<1>5. (TempInv(p) /\ ResultInv(p) /\ FinalInv(p))'
  BY DEF TempInv, ResultInv, FinalInv, Suits, Agreement, Killed, Go, Return, At, remove_temp, TypeOK, Steps, Results, File, NoFile
<1> QED BY <1>1, <1>2, <1>3, <1>4, <1>5, OthersKept

\* What was synchronized survives a power failure as it was.
LEMMA LostKeeps == ASSUME NEW f, f.synced PROVE Lost(f) = f
BY DEF Lost

\* After a power failure no open is in progress and no file is half written.
LEMMA PowerFailsStep == ASSUME IInv, PowerFails PROVE IInv'
<1> USE DEF IInv
<1>1. final' \in {final, stable} /\ stable' = final'
  BY LostKeeps DEF PowerFails
<1>2. TypeOK'
  <2>1. crashes' \in 0..MaxCrashes
    BY CacheAssumption, SMTT(60) DEF PowerFails, TypeOK
  <2> QED BY <1>1, <2>1, NoFileIsFile, CacheAssumption DEF PowerFails, TypeOK, Steps, Results
<1>3. \A p \in Processes : (TempInv(p) /\ ResultInv(p) /\ FinalInv(p))'
  BY DEF PowerFails, TempInv, ResultInv, FinalInv
<1> QED BY <1>1, <1>2, <1>3

\* The directory on stable storage matters after a power failure only.
LEMMA DirectoryWrittenStep == ASSUME IInv, DirectoryWritten PROVE IInv'
<1> USE DEF IInv
<1>1. TypeOK'
  BY DEF DirectoryWritten, TypeOK
<1>2. final'.synced /\ stable'.synced
  BY DEF DirectoryWritten
<1>3. \A p \in Processes : (TempInv(p) /\ ResultInv(p) /\ FinalInv(p))'
  BY DEF DirectoryWritten, TempInv, ResultInv, FinalInv, Suits, Agreement, Matches
<1> QED BY <1>1, <1>2, <1>3

\* Every step keeps the invariant.
LEMMA Invariance == IInv /\ [Next]_vars => IInv'
<1> SUFFICES ASSUME IInv, [Next]_vars PROVE IInv'
  BY SMTT(60)
<1>1. CASE UNCHANGED vars
  BY <1>1 DEF vars, IInv, TypeOK, TempInv, ResultInv, FinalInv, Suits, Agreement, Matches
<1>2. ASSUME NEW p \in Processes, open_cached(p) \/ Step(p) \/ Fails(p) \/ Killed(p)
      PROVE  IInv'
  BY <1>2, open_cachedStep, file_existsStep, validate_cached_fileStep, open_pathStep,
     temp_path_forStep, fetch_offlineStep, download_to_fileStep, verify_checksumStep,
     verify_model_fileStep, renameStep, FailsStep, KilledStep DEF Step
<1>3. CASE PowerFails \/ DirectoryWritten
  BY <1>3, PowerFailsStep, DirectoryWrittenStep
<1> QED BY <1>1, <1>2, <1>3 DEF Next

\* The invariant holds throughout.
LEMMA Always == Spec => []IInv
BY Initially, Invariance, PTL DEF Spec

\* An open that succeeds has loaded a model with the checksum it was told to
\* enforce, if all processes agree; one that fails has loaded nothing and leaves
\* no temporary file; an online open that is fed with what it wants succeeds.
\* For any processes, contents, servers and checksums (cpkt_sus_open_cached).
THEOREM OpensAreSound == Spec => []OpensSound
<1>1. IInv => OpensSound
  BY DEF IInv, TempInv, ResultInv, FinalInv, Suits, OpensSound, LoadedIsWanted,
         FailureLeavesNothing, SoundSourceSuffices
<1> QED BY <1>1, Always, PTL

\* The file at model_path is only ever replaced by one that loads and that a
\* process checked, or by what a power failure brings back (rename in
\* cpkt_sus_fetch_cached_file, after verify_model_file and the checksum).
THEOREM ReplacedOnlyBySound == Spec => ReplacedBySound
<1> DEFINE Replaced ==
      final' # final =>
        \/ final' = stable
        \/ final'.content \in Loadable /\ \E p \in Processes : Matches(p, final'.content)
<1>1. IInv /\ [Next]_vars => [Replaced]_vars
  <2> SUFFICES ASSUME IInv, Next PROVE Replaced
    OBVIOUS
  <2>1. CASE PowerFails
    BY <2>1, LostKeeps DEF PowerFails, IInv
  <2>2. CASE DirectoryWritten
    BY <2>2 DEF DirectoryWritten
  <2>3. ASSUME NEW p \in Processes, rename(p) PROVE Replaced
    BY <2>3, SMTT(60) DEF rename, At, IInv, TempInv
  <2>4. ASSUME NEW p \in Processes, open_cached(p) \/ Step(p) \/ Fails(p) \/ Killed(p),
               ~rename(p)
        PROVE  final' = final
    BY <2>4 DEF Step, open_cached, file_exists, validate_cached_file, open_path, temp_path_for,
         fetch_offline, download_to_file, verify_checksum, verify_model_file, Fails, Killed
  <2> QED BY <2>1, <2>2, <2>3, <2>4 DEF Next
<1> HIDE DEF Replaced
<1>2. Spec => [][Replaced]_vars
  BY <1>1, Always, PTL DEF Spec
<1> QED BY <1>2 DEF ReplacedBySound, Replaced
==============================================================================
