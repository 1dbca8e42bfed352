------------------------- MODULE JobResourcesProofs -------------------------
(***************************************************************************)
(* Proofs about JobResources, for every tree of files, every command and   *)
(* every number of jobs, retries and failures: the types, where the files  *)
(* of the cache are, that the cache is complete, and what is left of the   *)
(* temporary directories.                                                  *)
(***************************************************************************)
EXTENDS JobResources, TLAPS

-----------------------------------------------------------------------------
(***************************************************************************)
(* The loop of writeCache                                                  *)
(***************************************************************************)
LEMMA LoopSteps ==
    ASSUME NEW S, NEW s \in Seq(S), s # <<>>
    PROVE  /\ Head(s) \in S /\ Tail(s) \in Seq(S)
           /\ ToSet(s) \subseteq {Head(s)} \union ToSet(Tail(s))
<1>1. Head(s) \in S /\ Tail(s) \in Seq(S)
  OBVIOUS
<1>2. ASSUME NEW x \in ToSet(s), x # Head(s) PROVE x \in ToSet(Tail(s))
  <2>1. PICK i \in 1..Len(s) : s[i] = x
    BY <1>2 DEF ToSet
  <2>2. i # 1
    BY <2>1, <1>2
  <2>3. i - 1 \in 1..Len(Tail(s)) /\ Tail(s)[i - 1] = x
    BY <2>1, <2>2
  <2>4. DOMAIN Tail(s) = 1..Len(Tail(s))
    BY <1>1
  <2> QED
    BY <2>3, <2>4 DEF ToSet
<1> QED
  BY <1>1, <1>2

\* A loop over a sequence meets the elements of the sequence.
LEMMA PathsLoop ==
    ASSUME NEW T, NEW s \in Seq(T)
    PROVE  s \in Seq(ToSet(s)) /\ (s = <<>> => ToSet(s) = {})
BY DEF ToSet

\* every path that a command caches is a file or a directory
LEMMA PathsAreFiles ==
    ASSUME cmd \in Cmds, NEW p \in ToSet(cmd.paths)
    PROVE  FilesAt(p) \subseteq Files /\ FilesAt(p) # {}
<1>1. cmd.paths \in Seq((Files \ DOMAIN Links) \union DOMAIN Under)
  BY CmdsAssumption
<1>2. p \in Files \union DOMAIN Under
  BY <1>1 DEF ToSet
<1> QED
  BY <1>2, FilesAssumption DEF FilesAt, IsDir

\* The count of the faults stays within its bound.
LEMMA FaultCounts ==
    ASSUME faults \in 0..MaxFaults, Fault
    PROVE  faults' \in 0..MaxFaults
BY CmdsAssumption DEF Fault

\* A missing directory is a tree without files.
LEMMA NothingIsTree == Nothing \in [Files -> Content]
BY DEF Nothing, Content

-----------------------------------------------------------------------------
(***************************************************************************)
(* The types; while the directory of the cache is written, the loop goes   *)
(* over paths of the command                                               *)
(***************************************************************************)
TypeInv ==
    /\ TypeOK
    /\ pc = "copy" => todo \in Seq(ToSet(cmd.paths))

\* The initial trees, paths and results have their types.
LEMMA TypeInit == Init => TypeInv
<1> SUFFICES ASSUME Init PROVE TypeInv
  OBVIOUS
<1>1. server \in [Files -> Content]
  <2>1. 0 \in 0..MaxJobs
    BY CmdsAssumption
  <2>2. server = Nothing \/ server = [f \in Files |->
                        IF IsDir(Entry[f]) /\ \E p \in ToSet(cmd.paths) : f \in FilesAt(p)
                        THEN IF f \notin DOMAIN Links THEN <<f, 0>>
                             ELSE IF cmd.docker THEN <<f, Empty>> ELSE None
                        ELSE None]
    BY DEF Init
  <2> QED
    BY <2>1, <2>2, NothingIsTree DEF Content
<1>2. job \in 0..MaxJobs /\ left \in 0..Retry /\ faults \in 0..MaxFaults
  BY CmdsAssumption DEF Init
<1>3. dir \in [Files -> Content] /\ input \in [Files -> Content]
      /\ output \in [Files -> Content]
  BY NothingIsTree DEF Init
<1> QED
  BY <1>1, <1>2, <1>3 DEF Init, TypeInv, TypeOK

\* Every step of prepare, Execute and cleanup keeps the types.
LEMMA TypeStep == TypeInv /\ [Next]_vars => TypeInv'
<1> SUFFICES ASSUME TypeInv, [Next]_vars PROVE TypeInv'
  OBVIOUS
<1>1. CASE Begin
  <2>1. job' \in 0..MaxJobs /\ left' \in 0..Retry
    BY <1>1, CmdsAssumption DEF Begin, TypeInv, TypeOK
  <2>2. pc' = "plugin" /\ excused' = FALSE /\ input' = Nothing /\ output' = Nothing
        /\ UNCHANGED <<cmd, ok, aborted, faults, host, server, dir, temps, lost>>
    BY <1>1 DEF Begin, Then
  <2> QED
    BY <2>1, <2>2, NothingIsTree DEF TypeInv, TypeOK, host
<1>2. CASE LoadPlugin
  BY <1>2, TypeInv, FilesAssumption, CmdsAssumption DEF LoadPlugin, Then, flow, host,
     cache, TypeInv, TypeOK, Nothing, Content, Copied, Without
<1>3. CASE LoadPluginFails
  BY <1>3, TypeInv, FilesAssumption, CmdsAssumption DEF LoadPluginFails, Abort, Then,
     Fault, flow, host, cache, TypeInv, TypeOK, Nothing, Content, Copied, Without
<1>4. CASE Download
  <2>1. pc' \in {"secrets", "fetch"} /\ temps' \subseteq {"input", "output"}
        /\ input' \in {input, Nothing}
        /\ UNCHANGED <<flow, faults, host, server, dir, output, lost, excused>>
    BY <1>4 DEF Download, Then, TypeInv, TypeOK
  <2> QED
    BY <2>1, NothingIsTree DEF TypeInv, TypeOK, host, flow
<1>5. CASE DownloadFails
  BY <1>5, TypeInv, FilesAssumption, CmdsAssumption DEF DownloadFails, Then, Fault,
     flow, host, cache, TypeInv, TypeOK, Nothing, Content, Copied, Without
<1>6. CASE Fetch
  BY <1>6, TypeInv, FilesAssumption, CmdsAssumption DEF Fetch, flow, host, cache,
     TypeInv, TypeOK, Nothing, Content, Copied, Without
<1>7. CASE FetchFails
  <2>1. faults' \in 0..MaxFaults /\ pc = "fetch"
        /\ UNCHANGED <<pc, flow, host, server, dir, output, temps, lost, excused>>
    BY <1>7, FaultCounts DEF FetchFails, TypeInv, TypeOK
  <2>2. input' \in [Files -> Content]
    <3>1. \/ input' = [input EXCEPT ![TmpFile] = <<TmpFile, job>>]
          \/ \E e \in todo : \E some \in SUBSET InEntry(e) :
               input' = Copied(server, some, input)
      BY <1>7 DEF FetchFails
    <3>2. {server, input} \subseteq [Files -> Content] /\ job \in 0..MaxJobs
      BY DEF TypeInv, TypeOK
    <3> QED
      BY <3>1, <3>2, FilesAssumption DEF Copied, Content
  <2> QED
    BY <2>1, <2>2 DEF TypeInv, TypeOK, host, flow
<1>8. CASE Fetched
  BY <1>8, TypeInv, FilesAssumption, CmdsAssumption DEF Fetched, Then, flow, host,
     cache, TypeInv, TypeOK, Nothing, Content, Copied, Without
<1>9. CASE LoadSecrets
  BY <1>9, TypeInv, FilesAssumption, CmdsAssumption DEF LoadSecrets, Then, flow, host,
     cache, TypeInv, TypeOK, Nothing, Content, Copied, Without
<1>10. CASE LoadSecretsFails
  BY <1>10, TypeInv, FilesAssumption, CmdsAssumption DEF LoadSecretsFails, Abort,
     Then, Fault, flow, host, cache, TypeInv, TypeOK, Nothing, Content, Copied,
     Without
<1>11. CASE InitFails
  BY <1>11, TypeInv, FilesAssumption, CmdsAssumption DEF InitFails, Abort, Then,
     Fault, flow, host, cache, TypeInv, TypeOK, Nothing, Content, Copied, Without
<1>12. CASE InitShell
  BY <1>12, TypeInv, FilesAssumption, CmdsAssumption DEF InitShell, flow, host, cache,
     TypeInv, TypeOK, Nothing, Content, Copied, Without
<1>13. CASE CreateVolume
  BY <1>13, TypeInv, FilesAssumption, CmdsAssumption DEF CreateVolume, Then, flow,
     host, cache, TypeInv, TypeOK, Nothing, Content, Copied, Without
<1>14. CASE FillVolume
  <2>1. volume' \in {volume, "filled"} /\ spoiled' \in {spoiled, TRUE} /\ pc' = "network"
        /\ UNCHANGED <<flow, repo, network, cache, temps, lost, excused>>
    BY <1>14 DEF FillVolume, Then
  <2>2. faults' \in 0..MaxFaults
    BY <1>14, FaultCounts DEF FillVolume, TypeInv, TypeOK
  <2> QED
    BY <2>1, <2>2 DEF TypeInv, TypeOK, cache, flow
<1>15. CASE InitNetwork
  BY <1>15, TypeInv, FilesAssumption, CmdsAssumption DEF InitNetwork, flow, host,
     cache, TypeInv, TypeOK, Nothing, Content, Copied, Without
<1>16. CASE ApplyShell
  BY <1>16, TypeInv, FilesAssumption, CmdsAssumption DEF ApplyShell, flow, host,
     cache, TypeInv, TypeOK, Nothing, Content, Copied, Without
<1>16a. CASE ApplyShellFails
  BY <1>16a, TypeInv, FilesAssumption, CmdsAssumption DEF ApplyShellFails, Then, Fault,
     flow, host, cache, TypeInv, TypeOK, Nothing, Content, Copied, Without
<1>17. CASE ApplyDocker
  BY <1>17, TypeInv, FilesAssumption, CmdsAssumption DEF ApplyDocker, flow, host,
     cache, TypeInv, TypeOK, Nothing, Content, Copied, Without
<1>18. CASE ApplyDockerFails
  BY <1>18, TypeInv, FilesAssumption, CmdsAssumption DEF ApplyDockerFails, Fault,
     flow, host, cache, TypeInv, TypeOK, Nothing, Content, Copied, Without
<1>19. CASE Applied
  BY <1>19, TypeInv, FilesAssumption, CmdsAssumption DEF Applied, Then, flow, host,
     cache, TypeInv, TypeOK, Nothing, Content, Copied, Without
<1>20. CASE Script
  BY <1>20, TypeInv, FilesAssumption, CmdsAssumption DEF Script, Writes, Then, flow, host,
     cache, TypeInv, TypeOK, Nothing, Content, Copied, Without
<1>20a. CASE AttemptPanics
  <2>1. PICK done \in SUBSET Files :
          dir' = [f \in Files |-> IF f \in done THEN <<f, job>> ELSE dir[f]]
    BY <1>20a DEF AttemptPanics, Writes
  <2>2. dir' \in [Files -> Content]
    BY <2>1 DEF TypeInv, TypeOK, Content
  <2>3. faults' \in 0..MaxFaults /\ left' \in 0..Retry /\ ok' = FALSE /\ excused' = TRUE
    BY <1>20a, FaultCounts, CmdsAssumption DEF AttemptPanics, TypeInv, TypeOK
  <2>4. pc' \in {"apply", "upload"}
        /\ UNCHANGED <<cmd, job, aborted, host, server, input, output, temps, lost>>
    BY <1>20a DEF AttemptPanics
  <2> QED
    BY <2>2, <2>3, <2>4 DEF TypeInv, TypeOK, host
<1>21. CASE MakeOutput
  <2>1. cmd.paths \in Seq(ToSet(cmd.paths))
    BY PathsLoop, CmdsAssumption DEF TypeInv, TypeOK
  <2>2. output' \in [Files -> Content] /\ temps' \subseteq {"input", "output"}
        /\ lost' \subseteq {"input", "output"}
    BY <1>21 DEF MakeOutput, Nothing, Content, TypeInv, TypeOK
  <2>3. pc' \in {"written", "copy"} /\ (pc' = "copy" => todo' = cmd.paths)
        /\ UNCHANGED <<flow, faults, host, server, dir, input>> /\ excused' = FALSE
    BY <1>21 DEF MakeOutput, Then
  <2> QED
    BY <2>1, <2>2, <2>3 DEF TypeInv, TypeOK, flow, host
<1>21a. CASE MakeOutputFails
  BY <1>21a, TypeInv, FilesAssumption, CmdsAssumption DEF MakeOutputFails, Then, Fault,
     flow, host, cache, TypeInv, TypeOK, Nothing, Content, Copied, Without
<1>22. CASE CopyPath
  <2>1. todo \in Seq(ToSet(cmd.paths)) /\ todo # <<>>
    BY <1>22 DEF CopyPath, TypeInv
  <2>2. Tail(todo) \in Seq(ToSet(cmd.paths)) /\ <<>> \in Seq(ToSet(cmd.paths))
    BY <2>1, LoopSteps
  <2> QED
    <3>1. WithoutLinks \in [Files -> Content]
      BY DEF WithoutLinks, Content, TypeInv, TypeOK
    <3>2. output' \in [Files -> Content]
      BY <1>22, <3>1 DEF CopyPath, Copied, TypeInv, TypeOK
    <3>3. todo' \in {<<>>, Tail(todo)}
          /\ UNCHANGED <<pc, flow, faults, host, server, dir, input, temps, lost, excused>>
      BY <1>22 DEF CopyPath
    <3> QED
      BY <2>2, <3>2, <3>3 DEF TypeInv, TypeOK, flow, host
<1>23. CASE CopyPathFails
  <2>1. todo \in Seq(ToSet(cmd.paths)) /\ todo # <<>>
    BY <1>23 DEF CopyPathFails, TypeInv
  <2>2. Tail(todo) \in Seq(ToSet(cmd.paths)) /\ <<>> \in Seq(ToSet(cmd.paths))
    BY <2>1, LoopSteps
  <2> QED
    BY <1>23, <2>2, CmdsAssumption DEF CopyPathFails, Fault, Copied, WithoutLinks,
       Content, TypeInv, TypeOK, flow, host
<1>24. CASE UntarPath
  <2>1. todo \in Seq(ToSet(cmd.paths)) /\ todo # <<>> /\ cmd \in Cmds
    BY <1>24 DEF UntarPath, TypeInv, TypeOK
  <2>2. Path \in ToSet(cmd.paths) /\ Tail(todo) \in Seq(ToSet(cmd.paths))
    BY <2>1, LoopSteps DEF Path
  <2>3. FilesAt(Path) \subseteq Files
    BY <2>1, <2>2, PathsAreFiles
  <2>4. output' \in [Files -> Content]
    <3>1. PICK some \in SUBSET FilesAt(Path) :
            output' = [f \in Files |->
                         IF \E g \in some : Based[Path][g] = f /\ dir[g] # None
                         THEN WithEmptyLinks[CHOOSE g \in some : Based[Path][g] = f]
                         ELSE output[f]]
      BY <1>24 DEF UntarPath
    <3>2. ASSUME NEW f \in Files, \E g \in some : Based[Path][g] = f
          PROVE  (CHOOSE g \in some : Based[Path][g] = f) \in Files
      BY <3>2, <2>3
    <3>3. WithEmptyLinks \in [Files -> Content] /\ output \in [Files -> Content]
      BY DEF TypeInv, TypeOK, WithEmptyLinks, Content
    <3> QED
      BY <3>1, <3>2, <3>3
  <2>5. excused' \in BOOLEAN /\ faults' \in 0..MaxFaults
    BY <1>24, FaultCounts DEF UntarPath, TypeInv, TypeOK
  <2>6. todo' = Tail(todo)
        /\ UNCHANGED <<pc, flow, host, server, dir, input, temps, lost>>
    BY <1>24 DEF UntarPath
  <2> QED
    BY <2>2, <2>4, <2>5, <2>6 DEF TypeInv, TypeOK, flow, host
<1>25. CASE CopyEnds
  BY <1>25, TypeInv, FilesAssumption, CmdsAssumption DEF CopyEnds, flow, host, cache,
     TypeInv, TypeOK, Nothing, Content, Copied, Without
<1>26. CASE Attempted
  BY <1>26, TypeInv, FilesAssumption, CmdsAssumption DEF Attempted, Then, flow, host,
     cache, TypeInv, TypeOK, Nothing, Content, Copied, Without
<1>27. CASE Upload
  BY <1>27, TypeInv, FilesAssumption, CmdsAssumption DEF Upload, Then, flow, host,
     cache, TypeInv, TypeOK, Nothing, Content, Copied, Without
<1>28. CASE UploadFails
  BY <1>28, TypeInv, FilesAssumption, CmdsAssumption DEF UploadFails, Then, Fault,
     flow, host, cache, TypeInv, TypeOK, Nothing, Content, Copied, Without
<1>29. CASE Cleanup
  BY <1>29, TypeInv, FilesAssumption, CmdsAssumption DEF Cleanup, Then, flow, host,
     cache, TypeInv, TypeOK, Nothing, Content, Copied, Without
<1>30. CASE UNCHANGED vars
  BY <1>30, TypeInv, FilesAssumption, CmdsAssumption DEF vars, flow, host, cache,
     TypeInv, TypeOK, Nothing, Content, Copied, Without
<1> QED
  BY <1>1, <1>2, <1>3, <1>4, <1>5, <1>6, <1>7, <1>8, <1>9, <1>10, <1>11,
     <1>12, <1>13, <1>14, <1>15, <1>16, <1>16a, <1>17, <1>18, <1>19,
     <1>20, <1>20a, <1>21, <1>21a, <1>22, <1>23, <1>24, <1>25, <1>26,
     <1>27, <1>28, <1>29, <1>30 DEF Next, Prepare, Execute

\* Every variable keeps its type, for every command and every tree of files.
THEOREM TypeCorrect == Spec => []TypeOK
<1>1. TypeInv => TypeOK
  BY DEF TypeInv
<1> QED
  BY <1>1, TypeInit, TypeStep, PTL DEF Spec

-----------------------------------------------------------------------------
(***************************************************************************)
(* The temporary directories: cacheOutputDir is set only from writeCache   *)
(* to the end of the job, or between the attempts of a docker command      *)
(***************************************************************************)
TempInv ==
    /\ "output" \in temps =>
         \/ pc \in {"copy", "written", "upload", "cleanup"}
         \/ pc \in {"apply", "script", "write"} /\ cmd.docker /\ left < Retry
    /\ TempDirsRemoved

\* Every step keeps the account of the temporary directories.
LEMMA TempStep == TypeInv /\ TempInv /\ [Next]_vars => TempInv'
<1> SUFFICES ASSUME TypeInv, TempInv, [Next]_vars PROVE TempInv'
  OBVIOUS
<1>0. left \in 0..Retry /\ temps \subseteq {"input", "output"} /\ Retry \in Nat
  BY CmdsAssumption DEF TypeInv, TypeOK
<1>1. CASE Begin
  BY <1>1, <1>0, TempInv DEF Begin, Then, flow, host, cache, TempInv, TempDirsRemoved
<1>2. CASE LoadPlugin
  BY <1>2, <1>0, TempInv DEF LoadPlugin, Then, flow, host, cache, TempInv,
     TempDirsRemoved
<1>3. CASE LoadPluginFails
  BY <1>3, <1>0, TempInv DEF LoadPluginFails, Abort, Then, Fault, flow, host, cache,
     TempInv, TempDirsRemoved
<1>4. CASE Download
  BY <1>4, <1>0, TempInv DEF Download, Then, flow, host, cache, TempInv, TempDirsRemoved
<1>5. CASE DownloadFails
  BY <1>5, <1>0, TempInv DEF DownloadFails, Then, Fault, flow, host, cache, TempInv,
     TempDirsRemoved
<1>6. CASE Fetch
  BY <1>6, <1>0, TempInv DEF Fetch, flow, host, cache, TempInv, TempDirsRemoved
<1>7. CASE FetchFails
  BY <1>7, <1>0, TempInv DEF FetchFails, Fault, flow, host, cache, TempInv,
     TempDirsRemoved
<1>8. CASE Fetched
  BY <1>8, <1>0, TempInv DEF Fetched, Then, flow, host, cache, TempInv, TempDirsRemoved
<1>9. CASE LoadSecrets
  BY <1>9, <1>0, TempInv DEF LoadSecrets, Then, flow, host, cache, TempInv,
     TempDirsRemoved
<1>10. CASE LoadSecretsFails
  BY <1>10, <1>0, TempInv DEF LoadSecretsFails, Abort, Then, Fault, flow, host, cache,
     TempInv, TempDirsRemoved
<1>11. CASE InitFails
  BY <1>11, <1>0, TempInv DEF InitFails, Abort, Then, Fault, flow, host, cache,
     TempInv, TempDirsRemoved
<1>12. CASE InitShell
  BY <1>12, <1>0, TempInv DEF InitShell, flow, host, cache, TempInv, TempDirsRemoved
<1>13. CASE CreateVolume
  BY <1>13, <1>0, TempInv DEF CreateVolume, Then, flow, host, cache, TempInv,
     TempDirsRemoved
<1>14. CASE FillVolume
  BY <1>14, <1>0, TempInv DEF FillVolume, Then, Fault, flow, host, cache, TempInv,
     TempDirsRemoved
<1>15. CASE InitNetwork
  BY <1>15, <1>0, TempInv DEF InitNetwork, flow, host, cache, TempInv, TempDirsRemoved
<1>16. CASE ApplyShell
  BY <1>16, <1>0, TempInv DEF ApplyShell, flow, host, cache, TempInv, TempDirsRemoved
<1>16a. CASE ApplyShellFails
  BY <1>16a, <1>0, TempInv DEF ApplyShellFails, Then, Fault, flow, host, cache, TempInv,
     TempDirsRemoved
<1>17. CASE ApplyDocker
  BY <1>17, <1>0, TempInv DEF ApplyDocker, flow, host, cache, TempInv, TempDirsRemoved
<1>18. CASE ApplyDockerFails
  BY <1>18, <1>0, TempInv DEF ApplyDockerFails, Fault, flow, host, cache, TempInv,
     TempDirsRemoved
<1>19. CASE Applied
  BY <1>19, <1>0, TempInv DEF Applied, Then, flow, host, cache, TempInv, TempDirsRemoved
<1>20. CASE Script
  BY <1>20, <1>0, TempInv DEF Script, Then, flow, host, cache, TempInv, TempDirsRemoved
<1>20a. CASE AttemptPanics
  BY <1>20a, <1>0, TempInv DEF AttemptPanics, Then, Fault, flow, host, cache, TempInv,
     TempDirsRemoved
<1>21. CASE MakeOutput
  BY <1>21, <1>0, TempInv DEF MakeOutput, Then, flow, host, cache, TempInv,
     TempDirsRemoved
<1>21a. CASE MakeOutputFails
  BY <1>21a, <1>0, TempInv DEF MakeOutputFails, Then, Fault, flow, host, cache, TempInv,
     TempDirsRemoved
<1>22. CASE CopyPath
  BY <1>22, <1>0, TempInv DEF CopyPath, flow, host, cache, TempInv, TempDirsRemoved
<1>23. CASE CopyPathFails
  BY <1>23, <1>0, TempInv DEF CopyPathFails, Fault, flow, host, cache, TempInv,
     TempDirsRemoved
<1>24. CASE UntarPath
  BY <1>24, <1>0, TempInv DEF UntarPath, Fault, flow, host, cache, TempInv,
     TempDirsRemoved
<1>25. CASE CopyEnds
  BY <1>25, <1>0, TempInv DEF CopyEnds, flow, host, cache, TempInv, TempDirsRemoved
<1>26. CASE Attempted
  BY <1>26, <1>0, TempInv DEF Attempted, Then, flow, host, cache, TempInv,
     TempDirsRemoved
<1>27. CASE Upload
  BY <1>27, <1>0, TempInv DEF Upload, Then, flow, host, cache, TempInv, TempDirsRemoved
<1>28. CASE UploadFails
  BY <1>28, <1>0, TempInv DEF UploadFails, Then, Fault, flow, host, cache, TempInv,
     TempDirsRemoved
<1>29. CASE Cleanup
  BY <1>29, <1>0, TempInv DEF Cleanup, Then, flow, host, cache, TempInv, TempDirsRemoved
<1>30. CASE UNCHANGED vars
  BY <1>30, <1>0, TempInv DEF vars, flow, host, cache, TempInv, TempDirsRemoved
<1> QED
  BY <1>1, <1>2, <1>3, <1>4, <1>5, <1>6, <1>7, <1>8, <1>9, <1>10, <1>11,
     <1>12, <1>13, <1>14, <1>15, <1>16, <1>16a, <1>17, <1>18, <1>19,
     <1>20, <1>20a, <1>21, <1>21a, <1>22, <1>23, <1>24, <1>25, <1>26,
     <1>27, <1>28, <1>29, <1>30 DEF Next, Prepare, Execute

\* No job loses a directory that holds its cache, unless the command is one of
\* docker that was retried or the job failed before its executor started
\* (writeCache, the recovery of execShell).
THEOREM DirsRemoved == Spec => []TempDirsRemoved
<1>1. Init => TempInv
  BY DEF Init, TempInv, TempDirsRemoved
<1>2. TempInv => TempDirsRemoved
  BY DEF TempInv
<1> QED
  BY <1>1, <1>2, TypeInit, TypeStep, TempStep, PTL DEF Spec

-----------------------------------------------------------------------------
(***************************************************************************)
(* The places of the files, in the four directories they go through        *)
(***************************************************************************)
InPlace(tree) == \A f \in Files : tree[f] # None => tree[f][1] = f
PlacesInv ==
    ~(cmd.docker /\ Nested) =>
        InPlace(server) /\ InPlace(dir) /\ InPlace(input) /\ InPlace(output)

\* Copying between two trees moves no file to another path.
LEMMA PlacesOfCopy ==
    ASSUME NEW from, NEW to, NEW S, InPlace(from), InPlace(to)
    PROVE  InPlace(Copied(from, S, to))
BY DEF InPlace, Copied

\* A missing directory has no file out of place.
LEMMA PlacesOfNothing == InPlace(Nothing)
BY DEF InPlace, Nothing

\* Removing files moves none to another path.
LEMMA PlacesOfWithout ==
    ASSUME NEW tree, NEW S, InPlace(tree)
    PROVE  InPlace(Without(tree, S))
BY DEF InPlace, Without

\* What is made of a link stays at its place.
LEMMA PlacesOfLinks ==
    ASSUME InPlace(dir)
    PROVE  InPlace(WithoutLinks) /\ InPlace(WithEmptyLinks)
BY DEF InPlace, WithoutLinks, WithEmptyLinks

\* Every file of the initial trees is in its place.
LEMMA PlacesInit == Init => PlacesInv
<1> SUFFICES ASSUME Init PROVE PlacesInv
  OBVIOUS
<1>1. InPlace(server)
  <2>1. server = Nothing \/ server = [f \in Files |->
                        IF IsDir(Entry[f]) /\ \E p \in ToSet(cmd.paths) : f \in FilesAt(p)
                        THEN IF f \notin DOMAIN Links THEN <<f, 0>>
                             ELSE IF cmd.docker THEN <<f, Empty>> ELSE None
                        ELSE None]
    BY DEF Init
  <2> QED
    BY <2>1, PlacesOfNothing DEF InPlace
<1> QED
  BY <1>1, PlacesOfNothing DEF Init, PlacesInv

\* an archive of docker that is rooted at the top puts every file at its place
LEMMA UntarsInPlace ==
    ASSUME TypeInv, UntarPath, ~Nested
    PROVE  \E some \in SUBSET FilesAt(Path) :
             /\ some # FilesAt(Path) => excused'
             /\ \A f \in Files :
                  output'[f] = IF f \in some /\ dir[f] # None
                               THEN WithEmptyLinks[f] ELSE output[f]
<1>1. todo \in Seq(ToSet(cmd.paths)) /\ todo # <<>> /\ cmd \in Cmds
  BY DEF UntarPath, TypeInv, TypeOK
<1>2. Path \in ToSet(cmd.paths)
  BY <1>1, LoopSteps DEF Path
<1>3. \A f \in FilesAt(Path) : Based[Path][f] = f
  BY <1>1, <1>2, CmdsAssumption DEF Nested
<1>4. PICK some \in SUBSET FilesAt(Path) :
        /\ some # FilesAt(Path) => excused'
        /\ output' = [f \in Files |->
                        IF \E g \in some : Based[Path][g] = f /\ dir[g] # None
                        THEN WithEmptyLinks[CHOOSE g \in some : Based[Path][g] = f]
                        ELSE output[f]]
  BY DEF UntarPath
<1>5. ASSUME NEW f \in Files
      PROVE  output'[f] = IF f \in some /\ dir[f] # None
                          THEN WithEmptyLinks[f] ELSE output[f]
  <2>1. output'[f] = IF \E g \in some : Based[Path][g] = f /\ dir[g] # None
                     THEN WithEmptyLinks[CHOOSE g \in some : Based[Path][g] = f]
                     ELSE output[f]
    BY <1>4
  <2>2. (\E g \in some : Based[Path][g] = f /\ dir[g] # None) <=> f \in some /\ dir[f] # None
    BY <1>3
  <2>3. f \in some => (CHOOSE g \in some : Based[Path][g] = f) = f
    BY <1>3
  <2> QED
    BY <2>1, <2>2, <2>3
<1> QED
  BY <1>4, <1>5

\* The command of the job never changes.
LEMMA CmdStays == [Next]_vars => cmd' = cmd
<1> SUFFICES ASSUME [Next]_vars PROVE cmd' = cmd
  OBVIOUS
<1>1. CASE Begin
  BY <1>1 DEF Begin, Then, flow
<1>2. CASE LoadPlugin
  BY <1>2 DEF LoadPlugin, Then, flow
<1>3. CASE LoadPluginFails
  BY <1>3 DEF LoadPluginFails, Abort, Then, Fault, flow
<1>4. CASE Download
  BY <1>4 DEF Download, Then, flow
<1>5. CASE DownloadFails
  BY <1>5 DEF DownloadFails, Then, Fault, flow
<1>6. CASE Fetch
  BY <1>6 DEF Fetch, flow
<1>7. CASE FetchFails
  BY <1>7 DEF FetchFails, Fault, flow
<1>8. CASE Fetched
  BY <1>8 DEF Fetched, Then, flow
<1>9. CASE LoadSecrets
  BY <1>9 DEF LoadSecrets, Then, flow
<1>10. CASE LoadSecretsFails
  BY <1>10 DEF LoadSecretsFails, Abort, Then, Fault, flow
<1>11. CASE InitFails
  BY <1>11 DEF InitFails, Abort, Then, Fault, flow
<1>12. CASE InitShell
  BY <1>12 DEF InitShell, flow
<1>13. CASE CreateVolume
  BY <1>13 DEF CreateVolume, Then, flow
<1>14. CASE FillVolume
  BY <1>14 DEF FillVolume, Then, Fault, flow
<1>15. CASE InitNetwork
  BY <1>15 DEF InitNetwork, flow
<1>16. CASE ApplyShell
  BY <1>16 DEF ApplyShell, flow
<1>16a. CASE ApplyShellFails
  BY <1>16a DEF ApplyShellFails, Then, Fault, flow
<1>17. CASE ApplyDocker
  BY <1>17 DEF ApplyDocker, flow
<1>18. CASE ApplyDockerFails
  BY <1>18 DEF ApplyDockerFails, Fault, flow
<1>19. CASE Applied
  BY <1>19 DEF Applied, Then, flow
<1>20. CASE Script
  BY <1>20 DEF Script, Then, flow
<1>20a. CASE AttemptPanics
  BY <1>20a DEF AttemptPanics, Then, Fault, flow
<1>21. CASE MakeOutput
  BY <1>21 DEF MakeOutput, Then, flow
<1>21a. CASE MakeOutputFails
  BY <1>21a DEF MakeOutputFails, Then, Fault, flow
<1>22. CASE CopyPath
  BY <1>22 DEF CopyPath, flow
<1>23. CASE CopyPathFails
  BY <1>23 DEF CopyPathFails, Fault, flow
<1>24. CASE UntarPath
  BY <1>24 DEF UntarPath, Fault, flow
<1>25. CASE CopyEnds
  BY <1>25 DEF CopyEnds, flow
<1>26. CASE Attempted
  BY <1>26 DEF Attempted, Then, flow
<1>27. CASE Upload
  BY <1>27 DEF Upload, Then, flow
<1>28. CASE UploadFails
  BY <1>28 DEF UploadFails, Then, Fault, flow
<1>29. CASE Cleanup
  BY <1>29 DEF Cleanup, Then, flow
<1>30. CASE UNCHANGED vars
  BY <1>30 DEF vars, flow
<1> QED
  BY <1>1, <1>2, <1>3, <1>4, <1>5, <1>6, <1>7, <1>8, <1>9, <1>10, <1>11,
     <1>12, <1>13, <1>14, <1>15, <1>16, <1>16a, <1>17, <1>18, <1>19,
     <1>20, <1>20a, <1>21, <1>21a, <1>22, <1>23, <1>24, <1>25, <1>26,
     <1>27, <1>28, <1>29, <1>30 DEF Next, Prepare, Execute

\* Every step keeps the files of the cache in their places.
LEMMA PlacesStep == TypeInv /\ PlacesInv /\ [Next]_vars => PlacesInv'
<1> SUFFICES ASSUME TypeInv, PlacesInv, [Next]_vars, ~(cmd.docker /\ Nested)'
             PROVE  (InPlace(server) /\ InPlace(dir) /\ InPlace(input) /\ InPlace(output))'
  BY DEF PlacesInv
<1> DEFINE Placed == InPlace(server) /\ InPlace(dir) /\ InPlace(input) /\ InPlace(output)
<1>0. cmd' = cmd /\ ~(cmd.docker /\ Nested) /\ Placed
  <2>1. cmd' = cmd
    BY CmdStays
  <2> QED
    BY <2>1 DEF PlacesInv, Nested
<1> HIDE DEF Placed
<1>1. CASE Begin
  <2>1. input' = Nothing /\ output' = Nothing
        /\ UNCHANGED <<server, dir>>
    BY <1>1 DEF Begin, Then
  <2> QED
    BY <2>1, <1>0, PlacesOfCopy, PlacesOfNothing, PlacesOfWithout DEF Placed, InPlace
<1>2. CASE LoadPlugin
  <2>1. UNCHANGED cache
    BY <1>2 DEF LoadPlugin, Then, cache
  <2> QED
    BY <2>1, <1>0 DEF cache, InPlace, Placed
<1>3. CASE LoadPluginFails
  <2>1. UNCHANGED cache
    BY <1>3 DEF LoadPluginFails, Abort, Then, Fault, cache
  <2> QED
    BY <2>1, <1>0 DEF cache, InPlace, Placed
<1>4. CASE Download
  <2>1. input' \in {input, Nothing}
        /\ UNCHANGED <<server, dir, output>>
    BY <1>4 DEF Download, Then
  <2> QED
    BY <2>1, <1>0, PlacesOfCopy, PlacesOfNothing, PlacesOfWithout DEF Placed, InPlace
<1>5. CASE DownloadFails
  <2>1. UNCHANGED cache
    BY <1>5 DEF DownloadFails, Then, Fault, cache
  <2> QED
    BY <2>1, <1>0 DEF cache, InPlace, Placed
<1>6. CASE Fetch
  <2>1. (\E e \in todo : input' = Copied(server, InEntry(e), input))
        /\ UNCHANGED <<server, dir, output>>
    BY <1>6 DEF Fetch
  <2>2. InPlace(input')
    BY <2>1, <1>0, PlacesOfCopy, PlacesOfNothing, PlacesOfWithout DEF Placed
  <2> QED
    BY <2>1, <2>2, <1>0 DEF Placed, InPlace
<1>7. CASE FetchFails
  <2>1. \/ input' = [input EXCEPT ![TmpFile] = <<TmpFile, job>>]
        \/ \E e \in todo : \E some \in SUBSET InEntry(e) :
             input' = Copied(server, some, input)
    BY <1>7 DEF FetchFails
  <2>2. UNCHANGED <<server, dir, output>>
    BY <1>7 DEF FetchFails
  <2>3. CASE input' = [input EXCEPT ![TmpFile] = <<TmpFile, job>>]
    <3>1. ASSUME NEW f \in Files, input'[f] # None PROVE input'[f][1] = f
      BY <3>1, <2>3, <1>0 DEF Placed, InPlace, TypeInv, TypeOK
    <3> QED
      BY <3>1, <2>2, <1>0 DEF Placed, InPlace
  <2>4. CASE \E e \in todo : \E some \in SUBSET InEntry(e) :
               input' = Copied(server, some, input)
    <3>1. InPlace(input')
      BY <2>4, <1>0, PlacesOfCopy DEF Placed
    <3> QED
      BY <3>1, <2>2, <1>0 DEF Placed, InPlace
  <2> QED
    BY <2>1, <2>3, <2>4
<1>8. CASE Fetched
  <2>1. UNCHANGED cache
    BY <1>8 DEF Fetched, Then, cache
  <2> QED
    BY <2>1, <1>0 DEF cache, InPlace, Placed
<1>9. CASE LoadSecrets
  <2>1. UNCHANGED cache
    BY <1>9 DEF LoadSecrets, Then, cache
  <2> QED
    BY <2>1, <1>0 DEF cache, InPlace, Placed
<1>10. CASE LoadSecretsFails
  <2>1. UNCHANGED cache
    BY <1>10 DEF LoadSecretsFails, Abort, Then, Fault, cache
  <2> QED
    BY <2>1, <1>0 DEF cache, InPlace, Placed
<1>11. CASE InitFails
  <2>1. UNCHANGED cache
    BY <1>11 DEF InitFails, Abort, Then, Fault, cache
  <2> QED
    BY <2>1, <1>0 DEF cache, InPlace, Placed
<1>12. CASE InitShell
  <2>1. UNCHANGED cache
    BY <1>12 DEF InitShell, cache
  <2> QED
    BY <2>1, <1>0 DEF cache, InPlace, Placed
<1>13. CASE CreateVolume
  <2>1. UNCHANGED cache
    BY <1>13 DEF CreateVolume, Then, cache
  <2> QED
    BY <2>1, <1>0 DEF cache, InPlace, Placed
<1>14. CASE FillVolume
  <2>1. UNCHANGED cache
    BY <1>14 DEF FillVolume, Then, Fault, cache
  <2> QED
    BY <2>1, <1>0 DEF cache, InPlace, Placed
<1>15. CASE InitNetwork
  <2>1. UNCHANGED cache
    BY <1>15 DEF InitNetwork, cache
  <2> QED
    BY <2>1, <1>0 DEF cache, InPlace, Placed
<1>16. CASE ApplyShell
  <2>1. PICK e \in todo :
          /\ dir' = dir \/ dir' = Copied(input, InEntry(e), dir)
          /\ input' = Without(input, InEntry(e))
    BY <1>16 DEF ApplyShell
  <2>2. UNCHANGED <<server, output>>
    BY <1>16 DEF ApplyShell
  <2>3. InPlace(dir')
    BY <2>1, <1>0, PlacesOfCopy DEF Placed
  <2>4. InPlace(input')
    BY <2>1, <1>0, PlacesOfWithout DEF Placed
  <2> QED
    BY <2>2, <2>3, <2>4, <1>0 DEF Placed, InPlace
<1>16a. CASE ApplyShellFails
  <2>1. PICK e \in todo :
          /\ dir' = dir \/ dir' = Without(dir, InEntry(e))
          /\ input' = Without(input, InEntry(e))
    BY <1>16a DEF ApplyShellFails
  <2>2. UNCHANGED <<server, output>>
    BY <1>16a DEF ApplyShellFails
  <2>3. InPlace(dir') /\ InPlace(input')
    BY <2>1, <1>0, PlacesOfWithout DEF Placed
  <2> QED
    BY <2>2, <2>3, <1>0 DEF Placed, InPlace
<1>17. CASE ApplyDocker
  <2>1. PICK e \in todo :
          /\ dir' = dir \/ dir' = Copied(input, InEntry(e), dir)
          /\ input' = Without(input, InEntry(e))
    BY <1>17 DEF ApplyDocker
  <2>2. UNCHANGED <<server, output>>
    BY <1>17 DEF ApplyDocker
  <2>3. InPlace(dir')
    BY <2>1, <1>0, PlacesOfCopy DEF Placed
  <2>4. InPlace(input')
    BY <2>1, <1>0, PlacesOfWithout DEF Placed
  <2> QED
    BY <2>2, <2>3, <2>4, <1>0 DEF Placed, InPlace
<1>18. CASE ApplyDockerFails
  <2>1. (\E e \in todo : dir' \in {dir, Without(dir, InEntry(e))})
        /\ UNCHANGED <<server, input, output>>
    BY <1>18 DEF ApplyDockerFails, Fault
  <2>2. InPlace(dir')
    BY <2>1, <1>0, PlacesOfCopy, PlacesOfNothing, PlacesOfWithout DEF Placed
  <2> QED
    BY <2>1, <2>2, <1>0 DEF Placed, InPlace
<1>19. CASE Applied
  <2>1. UNCHANGED cache
    BY <1>19 DEF Applied, Then, cache
  <2> QED
    BY <2>1, <1>0 DEF cache, InPlace, Placed
<1>20. CASE Script
  <2>1. PICK done \in SUBSET (Files \ {TmpFile}) :
          dir' = [f \in Files |-> IF f \in done THEN <<f, job>> ELSE dir[f]]
    BY <1>20 DEF Script, Writes
  <2>2. UNCHANGED <<server, input, output>>
    BY <1>20 DEF Script
  <2>3. InPlace(dir')
    BY <2>1, <1>0 DEF Placed, InPlace
  <2> QED
    BY <2>2, <2>3, <1>0 DEF Placed, InPlace
<1>20a. CASE AttemptPanics
  <2>1. PICK done \in SUBSET Files :
          dir' = [f \in Files |-> IF f \in done THEN <<f, job>> ELSE dir[f]]
    BY <1>20a DEF AttemptPanics, Writes
  <2>2. UNCHANGED <<server, input, output>>
    BY <1>20a DEF AttemptPanics
  <2>3. InPlace(dir')
    BY <2>1, <1>0 DEF Placed, InPlace
  <2> QED
    BY <2>2, <2>3, <1>0 DEF Placed, InPlace
<1>21. CASE MakeOutput
  <2>1. output' \in {output, Nothing}
        /\ UNCHANGED <<server, dir, input>>
    BY <1>21 DEF MakeOutput, Then
  <2> QED
    BY <2>1, <1>0, PlacesOfCopy, PlacesOfNothing, PlacesOfWithout DEF Placed, InPlace
<1>21a. CASE MakeOutputFails
  <2>1. UNCHANGED cache
    BY <1>21a DEF MakeOutputFails, Then, cache
  <2> QED
    BY <2>1, <1>0 DEF cache, InPlace, Placed
<1>22. CASE CopyPath
  <2>1. (output' = output \/ output' = Copied(WithoutLinks, FilesAt(Path), output))
        /\ UNCHANGED <<server, dir, input>>
    BY <1>22 DEF CopyPath
  <2>2. InPlace(output')
    BY <2>1, <1>0, PlacesOfCopy, PlacesOfLinks DEF Placed
  <2> QED
    BY <2>1, <2>2, <1>0 DEF Placed, InPlace
<1>23. CASE CopyPathFails
  <2>1. (\E some \in SUBSET FilesAt(Path) : output' = Copied(WithoutLinks, some, output))
        /\ UNCHANGED <<server, dir, input>>
    BY <1>23 DEF CopyPathFails, Fault
  <2>2. InPlace(output')
    BY <2>1, <1>0, PlacesOfCopy, PlacesOfLinks DEF Placed
  <2> QED
    BY <2>1, <2>2, <1>0 DEF Placed, InPlace
<1>24. CASE UntarPath
  <2>1. cmd.docker /\ UNCHANGED <<server, dir, input>>
    BY <1>24 DEF UntarPath
  <2>2. PICK some \in SUBSET FilesAt(Path) : \A f \in Files :
          output'[f] = IF f \in some /\ dir[f] # None THEN WithEmptyLinks[f] ELSE output[f]
    BY <1>24, <1>0, <2>1, UntarsInPlace
  <2>3. InPlace(output')
    BY <2>2, <1>0, PlacesOfLinks DEF Placed, InPlace
  <2> QED
    BY <2>1, <2>3, <1>0 DEF Placed, InPlace
<1>25. CASE CopyEnds
  <2>1. UNCHANGED cache
    BY <1>25 DEF CopyEnds, cache
  <2> QED
    BY <2>1, <1>0 DEF cache, InPlace, Placed
<1>26. CASE Attempted
  <2>1. UNCHANGED cache
    BY <1>26 DEF Attempted, Then, cache
  <2> QED
    BY <2>1, <1>0 DEF cache, InPlace, Placed
<1>27. CASE Upload
  <2>1. UNCHANGED <<dir, input, output>>
    BY <1>27 DEF Upload
  <2>2. \/ server' = server
        \/ \E some \in SUBSET Zipped : server' = Copied(output, some, Nothing)
    BY <1>27 DEF Upload
  <2>3. InPlace(server')
    BY <2>2, <1>0, PlacesOfCopy, PlacesOfNothing DEF Placed
  <2> QED
    BY <2>1, <2>3, <1>0 DEF Placed, InPlace
<1>28. CASE UploadFails
  <2>1. UNCHANGED <<dir, input, output>>
    BY <1>28 DEF UploadFails
  <2>2. \/ server' = server
        \/ \E some \in SUBSET Zipped : server' = Copied(output, some, Nothing)
    BY <1>28 DEF UploadFails
  <2>3. InPlace(server')
    BY <2>2, <1>0, PlacesOfCopy, PlacesOfNothing DEF Placed
  <2> QED
    BY <2>1, <2>3, <1>0 DEF Placed, InPlace
<1>29. CASE Cleanup
  <2>1. input' = Nothing /\ output' = Nothing
        /\ UNCHANGED <<server, dir>>
    BY <1>29 DEF Cleanup, Then
  <2> QED
    BY <2>1, <1>0, PlacesOfCopy, PlacesOfNothing, PlacesOfWithout DEF Placed, InPlace
<1>30. CASE UNCHANGED vars
  <2>1. UNCHANGED <<server, dir, input, output>>
    BY <1>30 DEF vars, cache
  <2> QED
    BY <2>1, <1>0 DEF Placed, InPlace
<1> QED
  BY <1>1, <1>2, <1>3, <1>4, <1>5, <1>6, <1>7, <1>8, <1>9, <1>10, <1>11,
     <1>12, <1>13, <1>14, <1>15, <1>16, <1>16a, <1>17, <1>18, <1>19,
     <1>20, <1>20a, <1>21, <1>21a, <1>22, <1>23, <1>24, <1>25, <1>26,
     <1>27, <1>28, <1>29, <1>30 DEF Next, Prepare, Execute

\* Whatever fails, no file gets out of place on its way through the cache, unless
\* the docker executor caches a path below the top (UntarPath, copyCache, Upload).
THEOREM KeepsPlaces == Spec => []CacheKeepsPlaces
<1>1. PlacesInv => CacheKeepsPlaces
  BY DEF PlacesInv, CacheKeepsPlaces, InPlace
<1> QED
  BY <1>1, TypeInit, TypeStep, PlacesInit, PlacesStep, PTL DEF Spec

-----------------------------------------------------------------------------
(***************************************************************************)
(* What the cache holds: while writeCache runs, a directory is either      *)
(* still to be copied, and not in the output, or in it as it is            *)
(***************************************************************************)
Cached == {p \in ToSet(cmd.paths) \intersect DOMAIN Under : ~Split(p)}
Saved(p) == \A f \in Under[p] : output[f] = Images[f]
Pending(p) == p \in ToSet(todo) /\ ~Exists(output, p)
CopyInv ==
    ~excused /\ ~Misplaced =>
        /\ pc = "copy" =>
             /\ \A f \in Files : output[f] # None => output[f] = Images[f]
             /\ \A p \in Cached : Saved(p) \/ Pending(p)
        /\ pc \in {"written", "upload"} => \A p \in Cached : Saved(p)
        /\ CacheIsComplete

\* What is not there leaves no image.
LEMMA ImageOfNone ==
    ASSUME NEW f \in Files, dir[f] = None
    PROVE  Images[f] = None
BY DEF Images, WithoutLinks, WithEmptyLinks, IsLink

\* Which of the paths can be cached as they are depends on the command alone, and
\* what they become on the job directory as well.
LEMMA PathsStay ==
    ASSUME cmd' = cmd
    PROVE  /\ Misplaced' = Misplaced /\ Cached' = Cached
           /\ dir' = dir => Images' = Images
<1>1. Misplaced' = Misplaced
  BY DEF Misplaced
<1>2. \A p : Split(p)' <=> Split(p)
  BY DEF Split
<1>3. Cached' = Cached
  BY <1>2 DEF Cached
<1>4. dir' = dir => Images' = Images
  BY DEF Images, WithoutLinks, WithEmptyLinks, IsLink
<1> QED
  BY <1>1, <1>3, <1>4

\* the steps after writeCache that write no file, and all steps before it
LEMMA CopyKept ==
    ASSUME CopyInv, cmd' = cmd, excused' = excused \/ excused', dir' = dir, output' = output,
           server' = server, temps' = temps,
           pc' = "cleanup" => pc = "cleanup",
           pc' = "copy" => pc = "copy" /\ todo' = todo,
           pc' \in {"written", "upload"} => pc \in {"written", "upload"}
    PROVE  CopyInv'
<1>1. Misplaced' = Misplaced /\ Cached' = Cached /\ Images' = Images
  BY PathsStay
<1>2. \A p : Saved(p)' <=> Saved(p)
  BY <1>1 DEF Saved
<1>3. pc' = "copy" => \A p : Pending(p)' <=> Pending(p)
  BY DEF Pending, Exists
<1>4. CacheIsComplete => CacheIsComplete' \/ excused'
  <2>1. \A p : Split(p)' <=> Split(p)
    BY DEF Split
  <2> QED
    BY <1>1, <2>1 DEF CacheIsComplete, EntriesOf
<1> QED
  BY <1>1, <1>2, <1>3, <1>4 DEF CopyInv

\* where nothing is written and nothing is complete yet
LEMMA CopyNotYet ==
    ASSUME pc' \notin {"copy", "written", "upload", "cleanup"}
    PROVE  CopyInv'
BY DEF CopyInv, CacheIsComplete

\* A path that is copied as it is, or passed over because there is nothing to copy
\* or a directory in its place, leaves no directory of the command half copied.
LEMMA CopyOfPath ==
    ASSUME TypeInv, CopyInv, pc = "copy", todo # <<>>, ~excused, ~Misplaced,
           UNCHANGED <<pc, cmd, dir>>, todo' = Tail(todo),
           \/ /\ output' = output
              /\ ~Exists(dir, Path) \/ (IsDir(Path) /\ Exists(output, Path))
           \/ \A f \in Files :
                output'[f] = IF f \in FilesAt(Path) /\ dir[f] # None
                             THEN Images[f] ELSE output[f]
    PROVE  CopyInv'
<1>1. todo \in Seq(ToSet(cmd.paths)) /\ cmd \in Cmds
  BY DEF TypeInv, TypeOK
<1>2. Path \in ToSet(cmd.paths) /\ ToSet(todo) \subseteq {Path} \union ToSet(Tail(todo))
  BY <1>1, LoopSteps DEF Path
<1>3. Images' = Images /\ Cached' = Cached
  BY PathsStay
<1>4. \A f \in Files : output[f] # None => output[f] = Images[f]
  BY DEF CopyInv
<1>5. ASSUME NEW f \in Files, output'[f] # None PROVE output'[f] = Images[f]
  BY <1>4, <1>5
<1>6. ASSUME NEW p \in Cached PROVE Saved(p)' \/ Pending(p)'
  <2>1. /\ p \in ToSet(cmd.paths) /\ IsDir(p) /\ FilesAt(p) = Under[p]
        /\ Under[p] \subseteq Files
    BY FilesAssumption DEF Cached, FilesAt, IsDir
  <2>2. Saved(p) \/ Pending(p)
    BY DEF CopyInv
  <2>3. \/ FilesAt(Path) \intersect Under[p] = {}
        \/ Under[p] \subseteq FilesAt(Path)
    BY <1>2, <2>1 DEF Cached, Split
  <2>4. ASSUME p # Path, \A f \in Under[p] : output'[f] = output[f]
        PROVE  Saved(p)' \/ Pending(p)'
    <3>1. Saved(p) => Saved(p)'
      BY <1>3, <2>4 DEF Saved
    <3>2. Pending(p) => Pending(p)'
      BY <1>2, <2>1, <2>4 DEF Pending, Exists
    <3> QED
      BY <2>2, <3>1, <3>2
  <2>5. CASE output' = output /\ p # Path
    BY <2>4, <2>5
  <2>6. CASE output' = output /\ p = Path
    <3>1. CASE ~Exists(dir, Path)
      <4>1. ASSUME NEW f \in Under[p] PROVE output[f] = Images[f]
        <5>1. dir[f] = None /\ f \in Files
          BY <2>1, <2>6, <3>1 DEF Exists
        <5> QED
          BY <1>4, <5>1, ImageOfNone
      <4> QED
        BY <1>3, <2>6, <4>1 DEF Saved
    <3>2. CASE Exists(output, Path)
      BY <1>3, <2>2, <2>6, <3>2 DEF Pending, Saved
    <3>3. CASE \A f \in Files :
                 output'[f] = IF f \in FilesAt(Path) /\ dir[f] # None
                              THEN Images[f] ELSE output[f]
      <4>1. ASSUME NEW f \in Under[p] PROVE output'[f] = Images[f]
        BY <1>4, <2>1, <2>6, <3>3, ImageOfNone
      <4> QED
        BY <1>3, <4>1 DEF Saved
    <3> QED
      BY <3>1, <3>2, <3>3
  <2>7. CASE \A f \in Files :
               output'[f] = IF f \in FilesAt(Path) /\ dir[f] # None
                            THEN Images[f] ELSE output[f]
    <3>1. CASE Under[p] \subseteq FilesAt(Path)
      <4>1. ASSUME NEW f \in Under[p] PROVE output'[f] = Images[f]
        BY <1>4, <2>1, <2>7, <3>1, ImageOfNone
      <4> QED
        BY <1>3, <4>1 DEF Saved
    <3>2. CASE FilesAt(Path) \intersect Under[p] = {}
      <4>1. p # Path
        BY <2>1, <3>2, FilesAssumption DEF IsDir
      <4>2. \A f \in Under[p] : output'[f] = output[f]
        BY <2>1, <2>7, <3>2
      <4> QED
        BY <2>4, <4>1, <4>2
    <3> QED
      BY <2>3, <3>1, <3>2
  <2> QED
    BY <2>5, <2>6, <2>7
<1> QED
  BY <1>3, <1>5, <1>6 DEF CopyInv, CacheIsComplete

\* Every step keeps what the copies of a job have reached.
LEMMA CopyStep == TypeInv /\ CopyInv /\ [Next]_vars => CopyInv'
<1> SUFFICES ASSUME TypeInv, CopyInv, [Next]_vars PROVE CopyInv'
  OBVIOUS
<1>1. CASE Begin
  <2>1. pc' \notin {"copy", "written", "upload", "cleanup"}
    BY <1>1 DEF Begin, Then
  <2> QED
    BY <2>1, CopyNotYet
<1>2. CASE LoadPlugin
  <2>1. pc' \notin {"copy", "written", "upload", "cleanup"}
    BY <1>2 DEF LoadPlugin, Then
  <2> QED
    BY <2>1, CopyNotYet
<1>3. CASE LoadPluginFails
  <2>1. pc' \notin {"copy", "written", "upload", "cleanup"}
    BY <1>3 DEF LoadPluginFails, Abort, Then, Fault
  <2> QED
    BY <2>1, CopyNotYet
<1>4. CASE Download
  <2>1. pc' \notin {"copy", "written", "upload", "cleanup"}
    BY <1>4 DEF Download, Then
  <2> QED
    BY <2>1, CopyNotYet
<1>5. CASE DownloadFails
  <2>1. pc' \notin {"copy", "written", "upload", "cleanup"}
    BY <1>5 DEF DownloadFails, Then, Fault
  <2> QED
    BY <2>1, CopyNotYet
<1>6. CASE Fetch
  <2>1. pc' \notin {"copy", "written", "upload", "cleanup"}
    BY <1>6 DEF Fetch
  <2> QED
    BY <2>1, CopyNotYet
<1>7. CASE FetchFails
  <2>1. pc' \notin {"copy", "written", "upload", "cleanup"}
    BY <1>7 DEF FetchFails, Fault
  <2> QED
    BY <2>1, CopyNotYet
<1>8. CASE Fetched
  <2>1. pc' \notin {"copy", "written", "upload", "cleanup"}
    BY <1>8 DEF Fetched, Then
  <2> QED
    BY <2>1, CopyNotYet
<1>9. CASE LoadSecrets
  <2>1. pc' \notin {"copy", "written", "upload", "cleanup"}
    BY <1>9 DEF LoadSecrets, Then
  <2> QED
    BY <2>1, CopyNotYet
<1>10. CASE LoadSecretsFails
  <2>1. pc' \notin {"copy", "written", "upload", "cleanup"}
    BY <1>10 DEF LoadSecretsFails, Abort, Then, Fault
  <2> QED
    BY <2>1, CopyNotYet
<1>11. CASE InitFails
  <2>1. pc' \notin {"copy", "written", "upload", "cleanup"}
    BY <1>11 DEF InitFails, Abort, Then, Fault
  <2> QED
    BY <2>1, CopyNotYet
<1>12. CASE InitShell
  <2>1. pc' \notin {"copy", "written", "upload", "cleanup"}
    BY <1>12 DEF InitShell
  <2> QED
    BY <2>1, CopyNotYet
<1>13. CASE CreateVolume
  <2>1. pc' \notin {"copy", "written", "upload", "cleanup"}
    BY <1>13 DEF CreateVolume, Then
  <2> QED
    BY <2>1, CopyNotYet
<1>14. CASE FillVolume
  <2>1. pc' \notin {"copy", "written", "upload", "cleanup"}
    BY <1>14 DEF FillVolume, Then, Fault
  <2> QED
    BY <2>1, CopyNotYet
<1>15. CASE InitNetwork
  <2>1. pc' \notin {"copy", "written", "upload", "cleanup"}
    BY <1>15 DEF InitNetwork
  <2> QED
    BY <2>1, CopyNotYet
<1>16. CASE ApplyShell
  <2>1. pc' \notin {"copy", "written", "upload", "cleanup"}
    BY <1>16 DEF ApplyShell
  <2> QED
    BY <2>1, CopyNotYet
<1>16a. CASE ApplyShellFails
  <2>1. pc' \notin {"copy", "written", "upload", "cleanup"}
    BY <1>16a DEF ApplyShellFails, Fault
  <2> QED
    BY <2>1, CopyNotYet
<1>17. CASE ApplyDocker
  <2>1. pc' \notin {"copy", "written", "upload", "cleanup"}
    BY <1>17 DEF ApplyDocker
  <2> QED
    BY <2>1, CopyNotYet
<1>18. CASE ApplyDockerFails
  <2>1. pc' \notin {"copy", "written", "upload", "cleanup"}
    BY <1>18 DEF ApplyDockerFails, Fault
  <2> QED
    BY <2>1, CopyNotYet
<1>19. CASE Applied
  <2>1. pc' \notin {"copy", "written", "upload", "cleanup"}
    BY <1>19 DEF Applied, Then
  <2> QED
    BY <2>1, CopyNotYet
<1>20. CASE Script
  <2>1. pc' \notin {"copy", "written", "upload", "cleanup"}
    BY <1>20 DEF Script, Then
  <2> QED
    BY <2>1, CopyNotYet
<1>20a. CASE AttemptPanics
  <2>1. excused'
    BY <1>20a DEF AttemptPanics
  <2> QED
    BY <2>1 DEF CopyInv, CacheIsComplete
<1>21. CASE MakeOutput
  <2>1. cmd.paths \in Seq((Files \ DOMAIN Links) \union DOMAIN Under)
    BY CmdsAssumption DEF TypeInv, TypeOK
  <2>2. cmd' = cmd
    BY <1>21 DEF MakeOutput, flow
  <2>3. CASE cmd.paths = <<>>
    <3>1. pc' = "written" /\ ToSet(cmd.paths) = {}
      BY <1>21, <2>1, <2>3, PathsLoop DEF MakeOutput, Then
    <3> QED
      BY <3>1, <2>2, PathsStay DEF CopyInv, CacheIsComplete, Cached
  <2>4. CASE cmd.paths # <<>>
    <3>1. pc' = "copy" /\ output' = Nothing /\ todo' = cmd.paths
      BY <1>21, <2>4 DEF MakeOutput
    <3>2. \A f \in Files : output'[f] = None
      BY <3>1 DEF Nothing
    <3>3. ASSUME NEW p \in Cached PROVE Pending(p)'
      <4>1. FilesAt(p) \subseteq Files
        BY FilesAssumption DEF Cached, FilesAt, IsDir
      <4>2. ~Exists(output', p)
        BY <4>1, <3>2 DEF Exists
      <4>3. p \in ToSet(todo')
        BY <3>1 DEF Cached
      <4> QED
        BY <4>2, <4>3 DEF Pending
    <3> QED
      BY <3>1, <3>2, <3>3, <2>2, PathsStay DEF CopyInv, CacheIsComplete
  <2> QED
    BY <2>3, <2>4
<1>21a. CASE MakeOutputFails
  <2>1. excused'
    BY <1>21a DEF MakeOutputFails
  <2> QED
    BY <2>1 DEF CopyInv, CacheIsComplete
<1>22. CASE CopyPath
  <2>1. todo \in Seq(ToSet(cmd.paths)) /\ todo # <<>> /\ cmd \in Cmds /\ pc = "copy"
    BY <1>22 DEF CopyPath, TypeInv, TypeOK
  <2>2. Path \in ToSet(cmd.paths)
    BY <2>1, LoopSteps DEF Path
  <2>3. ~cmd.docker /\ UNCHANGED <<pc, cmd, dir, excused>>
    BY <1>22 DEF CopyPath, flow
  <2>4. SUFFICES ASSUME ~excused, ~Misplaced PROVE CopyInv'
    BY <2>1, <2>3, PathsStay DEF CopyInv, CacheIsComplete
  <2>5. Entry[Path] = Path \/ IsDir(Path)
    BY <2>2, <2>4 DEF Misplaced, AtTop, FilesAt
  <2>6. todo' = Tail(todo)
        /\ \/ /\ ~Exists(dir, Path) \/ (IsDir(Path) /\ Exists(output, Path))
              /\ output' = output
           \/ output' = Copied(WithoutLinks, FilesAt(Path), output)
    BY <1>22, <2>5 DEF CopyPath, ParentExists
  <2>7. CASE output' = Copied(WithoutLinks, FilesAt(Path), output)
    <3>1. ASSUME NEW f \in Files
          PROVE  output'[f] = IF f \in FilesAt(Path) /\ dir[f] # None
                              THEN Images[f] ELSE output[f]
      <4>1. output'[f] = IF f \in FilesAt(Path) THEN Images[f] ELSE output[f]
        BY <2>3, <2>7 DEF Copied, Images
      <4>2. dir[f] = None => Images[f] = None /\ output[f] = None
        BY <2>1, <2>4, ImageOfNone DEF CopyInv
      <4> QED
        BY <4>1, <4>2
    <3> QED
      BY <2>1, <2>3, <2>4, <2>6, <3>1, CopyOfPath
  <2> QED
    BY <2>1, <2>3, <2>4, <2>6, <2>7, CopyOfPath
<1>23. CASE CopyPathFails
  <2>1. pc' = "copy" /\ excused'
    BY <1>23 DEF CopyPathFails
  <2> QED
    BY <2>1 DEF CopyInv, CacheIsComplete
<1>24. CASE UntarPath
  <2>1. todo # <<>> /\ cmd \in Cmds /\ pc = "copy" /\ cmd.docker
    BY <1>24 DEF UntarPath, TypeInv, TypeOK
  <2>2. UNCHANGED <<pc, cmd, dir>> /\ todo' = Tail(todo)
    BY <1>24 DEF UntarPath, flow
  <2>3. SUFFICES ASSUME ~excused', ~Misplaced PROVE CopyInv'
    BY <2>1, <2>2, PathsStay DEF CopyInv, CacheIsComplete
  <2>4. ~Nested /\ ~excused
    BY <1>24, <2>1, <2>3 DEF Misplaced, Nested, UntarPath
  <2>5. \A f \in Files :
          output'[f] = IF f \in FilesAt(Path) /\ dir[f] # None THEN Images[f] ELSE output[f]
    BY <1>24, <2>1, <2>3, <2>4, UntarsInPlace DEF Images
  <2> QED
    BY <2>1, <2>2, <2>3, <2>4, <2>5, CopyOfPath
<1>25. CASE CopyEnds
  <2>1. pc = "copy" /\ pc' = "written" /\ todo = <<>>
        /\ UNCHANGED <<cmd, excused, dir, output>>
    BY <1>25 DEF CopyEnds, flow, cache
  <2>2. ToSet(todo) = {}
    BY <2>1, PathsLoop DEF TypeInv
  <2>3. /\ Misplaced' = Misplaced /\ Cached' = Cached
        /\ \A p : Saved(p)' <=> Saved(p)
        /\ \A p : ~Pending(p)
    BY <2>1, <2>2, PathsStay DEF Saved, Pending
  <2> QED
    BY <2>1, <2>3 DEF CopyInv, CacheIsComplete
<1>26. CASE Attempted
  <2>1. pc = "written" /\ pc' \in {"apply", "upload"}
        /\ UNCHANGED <<cmd, excused, dir, output, server, temps>>
    BY <1>26 DEF Attempted, Then, cache
  <2> QED
    BY <2>1, CopyKept
<1>27. CASE Upload
  <2>1. pc = "upload" /\ pc' = "cleanup" /\ UNCHANGED <<cmd, excused, dir, output, temps>>
        /\ server' = IF "output" \in temps /\ EntriesOf(output) # {}
                     THEN Copied(output, Zipped, Nothing) ELSE server
    BY <1>27 DEF Upload, Then, flow
  <2>2. /\ Misplaced' = Misplaced /\ Images' = Images
        /\ \A p : Split(p)' <=> Split(p)
        /\ EntriesOf(output)' = EntriesOf(output)
    BY <2>1, PathsStay DEF Split, EntriesOf
  <2>3. ASSUME ~excused, ~Misplaced, "output" \in temps, EntriesOf(output) # {},
               NEW p \in Cached, NEW f \in Under[p]
        PROVE  server'[f] = Images[f]
    <3>1. output[f] = Images[f]
      BY <2>1, <2>3 DEF CopyInv, Saved
    <3>2. f \in Files /\ IsDir(Entry[f])
      BY <2>3, FilesAssumption DEF Cached, IsDir
    <3>3. server'[f] = IF f \in Zipped THEN output[f] ELSE None
      BY <2>1, <2>3, <3>2 DEF Copied, Nothing
    <3>4. f \in Zipped <=> output[f] # None
      BY <3>2 DEF Zipped
    <3> QED
      BY <3>1, <3>3, <3>4
  <2>4. CacheIsComplete'
    BY <2>1, <2>2, <2>3 DEF CacheIsComplete, Cached
  <2> QED
    BY <2>1, <2>4 DEF CopyInv
<1>28. CASE UploadFails
  <2>1. excused'
    BY <1>28 DEF UploadFails
  <2> QED
    BY <2>1 DEF CopyInv, CacheIsComplete
<1>29. CASE Cleanup
  <2>1. pc' \notin {"copy", "written", "upload", "cleanup"}
    BY <1>29 DEF Cleanup, Then
  <2> QED
    BY <2>1, CopyNotYet
<1>30. CASE UNCHANGED vars
  <2>1. UNCHANGED <<cmd, pc, todo, excused, dir, output, server, temps>>
    BY <1>30 DEF vars, flow, cache
  <2> QED
    BY <2>1, CopyKept
<1> QED
  BY <1>1, <1>2, <1>3, <1>4, <1>5, <1>6, <1>7, <1>8, <1>9, <1>10, <1>11,
     <1>12, <1>13, <1>14, <1>15, <1>16, <1>16a, <1>17, <1>18, <1>19,
     <1>20, <1>20a, <1>21, <1>21a, <1>22, <1>23, <1>24, <1>25, <1>26,
     <1>27, <1>28, <1>29, <1>30 DEF Next, Prepare, Execute

\* Whatever failed before, a job whose cache is written to the end leaves on the
\* server what it has in the directories that it caches, but for their symbolic
\* links, and but for the paths that lie in, or divide, others (writeCache, CopyDir,
\* untarFromReader, CachePut).
THEOREM CacheComplete == Spec => []CacheIsComplete
<1>1. Init => CopyInv
  BY DEF Init, CopyInv, CacheIsComplete
<1>2. CopyInv => CacheIsComplete
  BY DEF CopyInv, CacheIsComplete
<1> QED
  BY <1>1, <1>2, TypeInit, TypeStep, CopyStep, PTL DEF Spec

=============================================================================
