---------------------------- MODULE JobResources ----------------------------
(***************************************************************************)
(* What the jobs of one flow share on a host and on the server: the plugin *)
(* repository, the docker volume, the job directory and the cache.  One    *)
(* job after the other goes through the steps of execShell and of its      *)
(* executor, a shell executor or a docker executor; any step may fail.     *)
(*                                                                         *)
(* A file is a name, its content tells which file it was written as and by *)
(* which job.  The concurrency of these steps is left to CmdService,       *)
(* ShellExecutor and DockerExecutor.                                       *)
(***************************************************************************)
EXTENDS Integers, Sequences, SequencesExt

CONSTANTS
    Files,      \* the files that a job directory may have, TmpFile among them
    Entry,      \* Entry[f]: the entry of the top directory that f is or is in
    Under,      \* Under[p]: the files in p, for the paths that are directories
    Based,      \* Based[p][f]: the place of f in an archive rooted at p
    Links,      \* Links[f]: the file that f points to, where the script makes f
                \* a symbolic link
    Cmds,       \* ShellIn: [docker, plugin, secrets, paths (Cache.Paths)]
    Retry, MaxJobs, MaxFaults    \* Retry as in ShellIn; the others are bounds

TmpFile == "tmp"     \* {file}.tmp
ASSUME FilesAssumption ==
    /\ TmpFile \in Files
    /\ \A p \in DOMAIN Under :
          /\ Under[p] \subseteq Files /\ Under[p] # {}
          /\ \A f, g \in Under[p] : Entry[f] = Entry[g] /\ Entry[f] \in DOMAIN Under
    \* links point to a file in the same directories
    /\ DOMAIN Links \subseteq Files
    /\ \A f \in DOMAIN Links :
          /\ Links[f] \in Files \ DOMAIN Links
          /\ \A p \in DOMAIN Under : f \in Under[p] <=> Links[f] \in Under[p]

VARIABLES
    cmd,        \* the command of every job
    pc, job,    \* the step, and the number of the job
    todo,       \* what is left of the loop at this step
    left,       \* the retries that are left
    ok,         \* the last script has ended with 0
    aborted,    \* a job has failed before it was started
    faults,     \* how many steps may still fail
    repo,       \* the plugin: "none", "cloned", cloned from an "oldUrl", "noOrigin"
    volume,     \* "absent", "empty" or "filled"
    spoiled,    \* an initialisation of the volume has failed half way
    network,    \* the network flow-ci-agent-default exists
    server,     \* the cache on the server, by file
    dir,        \* the job directory, by file
    input,      \* cacheInputDir, by file
    output,     \* cacheOutputDir, by file
    temps,      \* the directories that cacheInputDir and cacheOutputDir name
    lost,       \* temporary directories that no field names any more
    excused     \* what the last attempt leaves in the directories that are cached
                \* was not written to the cache, or was cut short

flow == <<cmd, job, left, ok, aborted>>
host == <<repo, volume, spoiled, network>>
cache == <<server, dir, input, output>>
vars == <<flow, pc, todo, faults, host, cache, temps, lost, excused>>

None == <<>>
Nothing == [f \in Files |-> None]
Empty == -1     \* a file without content, in place of the number of a job
Content == {None} \union (Files \X ({Empty} \union 0..MaxJobs))   \* 0: a job elsewhere
EntriesOf(tree) == {Entry[f] : f \in {g \in Files : tree[g] # None}}
InEntry(e) == {f \in Files : Entry[f] = e}
Without(tree, files) == [f \in Files |-> IF f \in files THEN None ELSE tree[f]]
Copied(from, files, to) == [f \in Files |-> IF f \in files THEN from[f] ELSE to[f]]
IsDir(p) == p \in DOMAIN Under
FilesAt(p) == IF IsDir(p) THEN Under[p] ELSE {p}
IsLink(f) == f \in DOMAIN Links /\ dir[f] # None /\ dir[f][2] # Empty
\* p is an entry of the top directory
AtTop(p) == \A f \in FilesAt(p) : Entry[f] = p
\* rooted at its last name, what is at the top keeps its place
ASSUME CmdsAssumption ==
    /\ Retry \in Nat /\ MaxJobs \in Nat /\ MaxFaults \in Nat
    /\ \A c \in Cmds :
          /\ c.paths \in Seq((Files \ DOMAIN Links) \union DOMAIN Under)
          /\ \A p \in ToSet(c.paths) : AtTop(p) => \A f \in FilesAt(p) : Based[p][f] = f
Fault == faults > 0 /\ faults' = faults - 1
Then(label) == pc' = label /\ UNCHANGED todo
\* the recovery of execShell; it does not know the directory of the cache
Abort ==
    /\ Then("idle")
    /\ aborted' = TRUE
    /\ lost' = lost \union temps /\ temps' = {}
    /\ UNCHANGED <<cmd, job, left, ok>>

-----------------------------------------------------------------------------
(***************************************************************************)
(* execShell: the plugin, the cache, the secrets                           *)
(***************************************************************************)
Begin ==
    /\ pc = "idle" /\ job < MaxJobs
    /\ job' = job + 1 /\ left' = Retry
    /\ excused' = FALSE
    /\ input' = Nothing /\ output' = Nothing
    /\ Then("plugin")
    /\ UNCHANGED <<cmd, ok, aborted, faults, host, server, dir, temps, lost>>

\* PluginManager.Load: a clone, or else a pull, from the url of the server
LoadPlugin ==
    /\ pc = "plugin"
    /\ \/ ~cmd.plugin /\ UNCHANGED repo
       \/ cmd.plugin /\ repo \in {"none", "cloned", "oldUrl"} /\ repo' = "cloned"
    /\ Then("download")
    /\ UNCHANGED <<flow, faults, volume, spoiled, network, cache, temps, lost, excused>>

\* pull fails, for good if it fails between DeleteRemote and CreateRemote, or with
\* the url updated; a clone that fails leaves nothing.
LoadPluginFails ==
    /\ pc = "plugin" /\ cmd.plugin
    /\ IF repo = "noOrigin" THEN UNCHANGED <<faults, repo>>
       ELSE Fault /\ repo' \in {repo} \union
                            (IF repo = "oldUrl" THEN {"noOrigin", "cloned"} ELSE {})
    /\ Abort
    /\ UNCHANGED <<volume, spoiled, network, cache, excused>>

\* CacheManager.Download: the list of the cache, and a temp dir for its files
Download ==
    /\ pc = "download"
    /\ IF cmd.paths = <<>> THEN Then("secrets") /\ UNCHANGED <<input, temps>>
       ELSE /\ todo' = EntriesOf(server) /\ pc' = "fetch"
            /\ temps' = temps \union {"input"} /\ input' = Nothing
    /\ UNCHANGED <<flow, faults, host, server, dir, output, lost, excused>>

\* .. without it, the job goes on without a cache
DownloadFails ==
    /\ pc = "download" /\ cmd.paths # <<>>
    /\ Fault
    /\ Then("secrets")
    /\ UNCHANGED <<flow, host, cache, temps, lost, excused>>

\* CacheDownload of one archive: download, rename, unzip
Fetch ==
    /\ pc = "fetch"
    /\ \E e \in todo : /\ input' = Copied(server, InEntry(e), input)
                       /\ todo' = todo \ {e}
    /\ UNCHANGED <<pc, flow, faults, host, server, dir, output, temps, lost, excused>>

\* .. its failures are only logged: the .tmp of a broken transfer stays, and so
\* do the files that an archive has yielded before it proved broken
FetchFails ==
    /\ pc = "fetch"
    /\ Fault
    /\ \E e \in todo :
        /\ \/ input' = [input EXCEPT ![TmpFile] = <<TmpFile, job>>]
           \/ \E some \in SUBSET InEntry(e) : input' = Copied(server, some, input)
        /\ todo' = todo \ {e}
    /\ UNCHANGED <<pc, flow, host, server, dir, output, temps, lost, excused>>

Fetched ==
    /\ pc = "fetch" /\ todo = {}
    /\ Then("secrets")
    /\ UNCHANGED <<flow, faults, host, cache, temps, lost, excused>>

\* GetSecret, GetConfig: an answer that is not Ok, has no data or a category
\* that is unknown is an error; a docker auth must be of the category AUTH
Usable(kind, use) ==
    /\ kind \in {"AUTH", "SSH_RSA", "TOKEN", "SMTP", "TEXT"}
    /\ use = "secret" => kind \in {"AUTH", "SSH_RSA", "TOKEN"}
    /\ use = "config" => kind \in {"SMTP", "TEXT"}
    /\ use = "auth" => kind = "AUTH"

\* loadSecretForDocker, initSecretEnv, initConfigEnv
LoadSecrets ==
    /\ pc = "secrets"
    /\ \A s \in cmd.secrets : Usable(s.kind, s.use)
    /\ Then("init")
    /\ UNCHANGED <<flow, faults, host, cache, temps, lost, excused>>

\* .. one of them panics, there is no executor yet, and nobody removes the
\* directory of the cache
LoadSecretsFails ==
    /\ pc = "secrets" /\ cmd.secrets # {}
    /\ \/ \E s \in cmd.secrets : ~Usable(s.kind, s.use) /\ UNCHANGED faults
       \/ Fault
    /\ Abort
    /\ UNCHANGED <<host, cache, excused>>

-----------------------------------------------------------------------------
(***************************************************************************)
(* Init of the executor                                                    *)
(***************************************************************************)
\* Init panics: release closes the executor and forgets it with its directories
InitFails ==
    /\ pc \in {"init", "fill", "network"}
    /\ Fault
    /\ spoiled' = (spoiled \/ pc = "fill")
    /\ Abort
    /\ UNCHANGED <<repo, volume, network, cache, excused>>

\* shellExecutor.Init, up to copyCache
InitShell ==
    /\ pc = "init" /\ ~cmd.docker
    /\ pc' = "apply" /\ todo' = EntriesOf(input)
    /\ UNCHANGED <<flow, faults, host, cache, temps, lost, excused>>

\* dockerExecutor.initVolumeData: a volume that is listed is taken as it is, a
\* new one is created, after its image has been pulled
CreateVolume ==
    /\ pc = "init" /\ cmd.docker
    /\ volume' = IF volume = "absent" THEN "empty" ELSE volume
    /\ Then(IF volume = "absent" THEN "fill" ELSE "network")
    /\ UNCHANGED <<flow, faults, repo, spoiled, network, cache, temps, lost, excused>>

\* runCmd; neither the error of ContainerWait nor the exit code is looked at
FillVolume ==
    /\ pc = "fill"
    /\ \/ volume' = "filled" /\ UNCHANGED <<faults, spoiled>>
       \/ Fault /\ spoiled' = TRUE /\ UNCHANGED volume
    /\ Then("network")
    /\ UNCHANGED <<flow, repo, network, cache, temps, lost, excused>>

\* initNetwork, initWorkspaceVolume, initConfig, and the start of the containers
InitNetwork ==
    /\ pc = "network"
    /\ network' = TRUE
    /\ pc' = "apply" /\ todo' = EntriesOf(input)
    /\ UNCHANGED <<flow, faults, repo, volume, spoiled, cache, temps, lost, excused>>

-----------------------------------------------------------------------------
(***************************************************************************)
(* The attempts: copyCache, the script, writeCache                         *)
(***************************************************************************)
\* shellExecutor.copyCache: os.Remove and os.Rename replace a file, and leave a
\* directory with files as it is; the entry leaves the cache dir anyway
ApplyShell ==
    /\ pc = "apply" /\ ~cmd.docker
    /\ \E e \in todo :
        /\ dir' = IF IsDir(e) /\ e \in EntriesOf(dir) THEN dir
                  ELSE Copied(input, InEntry(e), dir)
        /\ input' = Without(input, InEntry(e))
        /\ todo' = todo \ {e}
    /\ UNCHANGED <<pc, flow, faults, host, server, output, temps, lost, excused>>

\* .. the error of os.Rename is only logged: a file that was removed is gone
ApplyShellFails ==
    /\ pc = "apply" /\ ~cmd.docker
    /\ Fault
    /\ \E e \in todo :
        /\ dir' = IF IsDir(e) THEN dir ELSE Without(dir, InEntry(e))
        /\ input' = Without(input, InEntry(e))
        /\ todo' = todo \ {e}
    /\ UNCHANGED <<pc, flow, host, server, output, temps, lost, excused>>

\* dockerExecutor.copyCache: rm -rf, then the copy
ApplyDocker ==
    /\ pc = "apply" /\ cmd.docker
    /\ \E e \in todo :
        /\ dir' = Copied(input, InEntry(e), dir)
        /\ input' = Without(input, InEntry(e))
        /\ todo' = todo \ {e}
    /\ UNCHANGED <<pc, flow, faults, host, server, output, temps, lost, excused>>

\* .. a copy that fails ends it, with the old files gone unless the rm, whose
\* error is dropped, has failed too; the next attempt finds the entry still there
ApplyDockerFails ==
    /\ pc = "apply" /\ cmd.docker
    /\ Fault
    /\ \E e \in todo : dir' \in {dir, Without(dir, InEntry(e))}
    /\ pc' = "script" /\ todo' = {}
    /\ UNCHANGED <<flow, host, server, input, output, temps, lost, excused>>

Applied ==
    /\ pc = "apply" /\ todo = {}
    /\ Then("script")
    /\ UNCHANGED <<flow, faults, host, cache, temps, lost, excused>>

\* the script writes some of the files, whether it succeeds or not; the docker
\* executor writes the cache after every attempt, the shell executor at the end
Writes(written) ==
    /\ \A f \in written \intersect DOMAIN Links :
          Links[f] \in written \/ dir[Links[f]] # None
    /\ dir' = [f \in Files |-> IF f \in written THEN <<f, job>> ELSE dir[f]]
Script ==
    /\ pc = "script"
    /\ \E written \in SUBSET (Files \ {TmpFile}), good \in BOOLEAN :
        /\ Writes(written)
        /\ ok' = good
        /\ IF ~good /\ left > 0 /\ ~cmd.docker
           THEN left' = left - 1 /\ Then("script")
           ELSE UNCHANGED left /\ Then("write")
    /\ UNCHANGED <<cmd, job, aborted, faults, host, server, input, output, temps, lost, excused>>

\* dockerExecutor.doStart panics: a call to the daemon fails, or the command is
\* killed, which is final.  What the attempt has written is not cached.
AttemptPanics ==
    /\ pc \in {"apply", "script"} /\ cmd.docker
    /\ Fault
    /\ ok' = FALSE /\ excused' = TRUE
    /\ \E written \in IF pc = "script" THEN SUBSET (Files \ {TmpFile}) ELSE {{}} :
          Writes(written)
    /\ \/ left > 0 /\ left' = left - 1 /\ pc' = "apply" /\ todo' = EntriesOf(input)
       \/ UNCHANGED left /\ pc' = "upload" /\ todo' = {}
    /\ UNCHANGED <<cmd, job, aborted, host, server, input, output, temps, lost>>

\* writeCache: a new directory, although an earlier attempt may have made one
MakeOutput ==
    /\ pc = "write"
    /\ excused' = FALSE
    /\ IF cmd.paths = <<>> THEN Then("written") /\ UNCHANGED <<output, temps, lost>>
       ELSE /\ output' = Nothing
            /\ temps' = temps \union {"output"}
            /\ lost' = lost \union (temps \intersect {"output"})
            /\ pc' = "copy" /\ todo' = cmd.paths
    /\ UNCHANGED <<flow, faults, host, server, dir, input>>

\* .. or none, and the one of the earlier attempt is uploaded
MakeOutputFails ==
    /\ pc = "write" /\ cmd.paths # <<>>
    /\ Fault /\ excused' = TRUE
    /\ Then("written")
    /\ UNCHANGED <<flow, host, cache, temps, lost>>

Path == Head(todo)
Exists(tree, p) == \E f \in FilesAt(p) : tree[f] # None
\* filepath.Dir of a file below the top directory is made only with a directory
ParentExists == Entry[Path] = Path \/ Entry[Path] \in EntriesOf(output)

\* CopyDir leaves out the links in a directory ..
WithoutLinks == [f \in Files |-> IF IsLink(f) THEN None ELSE dir[f]]
\* .. and untarFromReader makes empty files of them
WithEmptyLinks == [f \in Files |-> IF IsLink(f) THEN <<f, Empty>> ELSE dir[f]]

\* (mutant) a path is copied under its last name, as in an archive of docker
CopyPathBased ==
    /\ pc = "copy" /\ todo # <<>> /\ ~cmd.docker
    /\ output' = [f \in Files |->
                    IF \E g \in FilesAt(Path) : Based[Path][g] = f /\ dir[g] # None
                    THEN dir[CHOOSE g \in FilesAt(Path) : Based[Path][g] = f] ELSE output[f]]
    /\ todo' = Tail(todo)
    /\ UNCHANGED <<pc, flow, faults, host, server, dir, input, temps, lost, excused>>

\* shellExecutor.writeCache: CopyDir of a path that is in the output already
\* panics, recovers, and returns no error; CopyFile without its directory ends
\* the loop
CopyPath ==
    /\ pc = "copy" /\ todo # <<>> /\ ~cmd.docker
    /\ IF ~Exists(dir, Path) \/ (IsDir(Path) /\ Exists(output, Path))
       THEN todo' = Tail(todo) /\ UNCHANGED output
       ELSE IF IsDir(Path) \/ ParentExists
            THEN todo' = Tail(todo) /\ output' = Copied(WithoutLinks, FilesAt(Path), output)
            ELSE todo' = <<>> /\ UNCHANGED output
    /\ UNCHANGED <<pc, flow, faults, host, server, dir, input, temps, lost, excused>>

\* .. an error in the middle ends the loop
CopyPathFails ==
    /\ pc = "copy" /\ todo # <<>> /\ ~cmd.docker
    /\ Fault /\ excused' = TRUE
    /\ \E some \in SUBSET FilesAt(Path) : output' = Copied(WithoutLinks, some, output)
    /\ todo' = <<>>
    /\ UNCHANGED <<pc, flow, host, server, dir, input, temps, lost>>

\* dockerExecutor.writeCache: the archive of a path is rooted at its last name,
\* and an error goes on with the next path
UntarPath ==
    /\ pc = "copy" /\ todo # <<>> /\ cmd.docker
    /\ \E some \in SUBSET FilesAt(Path) :
        /\ IF some = FilesAt(Path) THEN UNCHANGED <<faults, excused>>
           ELSE Fault /\ excused' = TRUE
        /\ output' = [f \in Files |->
                        IF \E g \in some : Based[Path][g] = f /\ dir[g] # None
                        THEN WithEmptyLinks[CHOOSE g \in some : Based[Path][g] = f]
                        ELSE output[f]]
    /\ todo' = Tail(todo)
    /\ UNCHANGED <<pc, flow, host, server, dir, input, temps, lost>>

CopyEnds ==
    /\ pc = "copy" /\ todo = <<>>
    /\ pc' = "written" /\ todo' = {}
    /\ UNCHANGED <<flow, faults, host, cache, temps, lost, excused>>

\* dockerExecutor.Start: the next attempt, which copies the cache again
Attempted ==
    /\ pc = "written"
    /\ IF cmd.docker /\ ~ok /\ left > 0
       THEN left' = left - 1 /\ pc' = "apply" /\ todo' = EntriesOf(input)
       ELSE UNCHANGED left /\ Then("upload")
    /\ UNCHANGED <<cmd, job, ok, aborted, faults, host, cache, temps, lost, excused>>

-----------------------------------------------------------------------------
(***************************************************************************)
(* The end of the job: CacheManager.Upload and the removal of the dirs     *)
(***************************************************************************)
\* client.CachePut: Zip of an entry that is a file fails and leaves it out
Zipped == {f \in Files : output[f] # None /\ IsDir(Entry[f])}

\* (mutant) what the server has already is not sent again
UploadNewOnly ==
    /\ pc = "upload"
    /\ server' = [f \in Files |-> IF f \in Zipped /\ server[f] = None THEN output[f] ELSE server[f]]
    /\ Then("cleanup")
    /\ UNCHANGED <<flow, faults, host, dir, input, output, temps, lost, excused>>

Upload ==
    /\ pc = "upload"
    /\ server' = IF "output" \in temps /\ EntriesOf(output) # {}
                 THEN Copied(output, Zipped, Nothing) ELSE server
    /\ Then("cleanup")
    /\ UNCHANGED <<flow, faults, host, dir, input, output, temps, lost, excused>>

\* a file that cannot be read is left out of its archive, a request that fails
\* leaves the cache of the server as it was
UploadFails ==
    /\ pc = "upload" /\ "output" \in temps
    /\ Fault /\ excused' = TRUE
    /\ server' \in {server} \union {Copied(output, some, Nothing) : some \in SUBSET Zipped}
    /\ Then("cleanup")
    /\ UNCHANGED <<flow, host, dir, input, output, temps, lost>>

\* (mutant) only the directory of the input is removed
CleanupInput ==
    /\ pc = "cleanup"
    /\ input' = Nothing /\ output' = Nothing
    /\ lost' = lost \union (temps \ {"input"}) /\ temps' = {}
    /\ Then("idle")
    /\ UNCHANGED <<flow, faults, host, server, dir, excused>>

\* the deferred call of the job goroutine
Cleanup ==
    /\ pc = "cleanup"
    /\ input' = Nothing /\ output' = Nothing /\ temps' = {}
    /\ Then("idle")
    /\ UNCHANGED <<flow, faults, host, server, dir, lost, excused>>

-----------------------------------------------------------------------------
Init ==
    /\ cmd \in Cmds
    /\ pc = "idle" /\ job = 0 /\ todo = {} /\ left = Retry /\ ok = FALSE /\ aborted = FALSE
    /\ faults = MaxFaults
    /\ repo \in {"none", "oldUrl"}
    /\ volume = "absent" /\ spoiled = FALSE /\ network = FALSE
    /\ server \in {Nothing, [f \in Files |->
                        IF IsDir(Entry[f]) /\ \E p \in ToSet(cmd.paths) : f \in FilesAt(p)
                        THEN IF f \notin DOMAIN Links THEN <<f, 0>>
                             ELSE IF cmd.docker THEN <<f, Empty>> ELSE None
                        ELSE None]}
    /\ dir = Nothing /\ input = Nothing /\ output = Nothing
    /\ temps = {} /\ lost = {} /\ excused = FALSE

Prepare ==
    \/ Begin \/ LoadPlugin \/ LoadPluginFails \/ Download \/ DownloadFails
    \/ Fetch \/ FetchFails \/ Fetched \/ LoadSecrets \/ LoadSecretsFails
    \/ InitFails \/ InitShell \/ CreateVolume \/ FillVolume \/ InitNetwork
Execute ==
    \/ ApplyShell \/ ApplyShellFails \/ ApplyDocker \/ ApplyDockerFails \/ Applied
    \/ Script \/ AttemptPanics
    \/ MakeOutput \/ MakeOutputFails \/ CopyPath \/ CopyPathFails \/ UntarPath \/ CopyEnds \/ Attempted
    \/ Upload \/ UploadFails \/ Cleanup

Next == Prepare \/ Execute
Spec == Init /\ [][Next]_vars

-----------------------------------------------------------------------------
(***************************************************************************)
(* Properties                                                              *)
(***************************************************************************)
\* Every variable keeps its type.
TypeOK ==
    /\ cmd \in Cmds
    /\ pc \in {"idle", "plugin", "download", "fetch", "secrets", "init", "fill", "network",
               "apply", "script", "write", "copy", "written", "upload", "cleanup"}
    /\ job \in 0..MaxJobs /\ left \in 0..Retry /\ faults \in 0..MaxFaults
    /\ repo \in {"none", "oldUrl", "noOrigin", "cloned"}
    /\ volume \in {"absent", "empty", "filled"}
    /\ {spoiled, network, excused, ok, aborted} \subseteq BOOLEAN
    /\ {server, dir, input, output} \subseteq [Files -> Content]
    /\ temps \subseteq {"input", "output"} /\ lost \subseteq {"input", "output"}

Nested == \E p \in ToSet(cmd.paths) : ~AtTop(p)

\* A file comes out of the cache under the name it was written with, in the job
\* directory and on the server, whatever fails on the way, unless the docker
\* executor caches a path that is not at the top of the job directory.
CacheKeepsPlaces ==
    ~(cmd.docker /\ Nested) =>
        \A f \in Files : /\ dir[f] # None => dir[f][1] = f
                         /\ server[f] # None => server[f][1] = f

\* the loop of writeCache ends at, or moves, one of the paths
Misplaced == \E p \in ToSet(cmd.paths) : ~AtTop(p) /\ (cmd.docker \/ ~IsDir(p))
\* another of the paths holds a part of what is in p
Split(p) ==
    \E q \in ToSet(cmd.paths) :
        /\ FilesAt(q) \intersect FilesAt(p) # {}
        /\ ~(FilesAt(p) \subseteq FilesAt(q))
Images == IF cmd.docker THEN WithEmptyLinks ELSE WithoutLinks

\* When its writing is not cut short, and whatever fails before, a job leaves on
\* the server every file that it has in the directories it caches; of the symbolic
\* links, it leaves nothing or, the docker executor, empty files.  Excepted is a
\* directory one of whose own parts is a path of the cache as well, and every
\* directory if a file below the top is one, or, with docker, a directory there
\* (writeCache, CopyDir, untarFromReader, CachePut).
CacheIsComplete ==
    pc = "cleanup" /\ ~excused /\ ~Misplaced /\ "output" \in temps /\ EntriesOf(output) # {} =>
        \A p \in ToSet(cmd.paths) \intersect DOMAIN Under :
            ~Split(p) => \A f \in Under[p] : server[f] = Images[f]

\* A shell command whose executor has come to its start leaves no temporary
\* directory; only a retried docker command and a job that failed before it was
\* started do.
TempDirsRemoved ==
    /\ "output" \in lost => cmd.docker /\ Retry > 0
    /\ "input" \in lost => aborted
=============================================================================
