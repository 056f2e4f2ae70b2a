------------------------------ MODULE UpxUnpack ------------------------------
(***************************************************************************)
(* `binsight --repair-and-unpack-upx`: repair_and_unpack_upx_file of       *)
(* src/upx_repair.c in several processes at once, with the children each   *)
(* of them forks: tools/fetch-upx.sh, and `upx -d`.  They share the        *)
(* managed tool directories, and nothing locks them.                       *)
(*                                                                         *)
(* A tool file is absent, torn (cp has created or truncated it and not yet *)
(* written all of it; its mode is executable from the start) or whole.     *)
(***************************************************************************)
EXTENDS Naturals, FiniteSets

CONSTANTS
  Proc,        \* the binsight processes
  Version,     \* the UPX versions that are asked for or detected
  NumRoots,    \* how many managed roots are searched; fetching fills the first
  Requests,    \* the command lines, environments and samples
  Installed    \* what the roots may hold before the first run

ASSUME RootAssumption == NumRoots \in Nat \ {0}

Root == 1..NumRoots     \* BINSIGHT_UPX_DIR if set, tools/upx, then under HOME
NoVersion == "none"

(***************************************************************************)
(* user: --upx or BINSIGHT_UPX names a tool; version: --upx-version;       *)
(* fetch: --upx-auto-fetch; elf: the sample is ELF and not PE; release:    *)
(* the release string that is embedded in the sample.                      *)
(***************************************************************************)
Request ==
  [user : BOOLEAN, version : Version \cup {NoVersion}, fetch : BOOLEAN,
   elf : BOOLEAN, release : Version \cup {NoVersion}]

ASSUME RequestAssumption   == Requests \subseteq Request
ASSUME InstalledAssumption ==
  Installed \subseteq [Version \X Root -> {"absent", "whole"}]

Tool ==
  [kind : {"none", "user", "path"}] \cup
  [kind : {"managed"}, version : Version, root : Root]

VARIABLES
  request,   \* per process: what it was asked to do
  pc,        \* per process: where it is
  temp,      \* per process: its temporary file
  tool,      \* per process: the executable it resolved
  files,     \* the managed tool files
  fetcher,   \* per process: where its fetcher child is
  unpacker,  \* per process: where its upx child is
  output     \* per process: its output file

vars == <<request, pc, temp, tool, files, fetcher, unpacker, output>>

Failed == {"temp failed", "repair failed", "no user tool", "not installed",
           "no release", "fetch failed", "not found after fetch", "unpack failed"}
Ended(p)   == pc[p] \in Failed \cup {"exit 0"}
Crashed(p) == pc[p] = "crashed"

FetcherState  == {"none", "download", "copy", "writing", "chmod", "ok", "failed", "torn"}
UnpackerState == {"none", "exec", "running", "ok", "failed", "not found"}

TypeOK ==
  /\ request \in [Proc -> Requests]
  /\ pc \in [Proc -> {"temp", "repair", "resolve", "fetch", "fetching", "resolve again", "run",
                      "unpacking", "exit 0", "crashed"} \cup Failed]
  /\ temp \in [Proc -> {"none", "empty", "torn", "repaired"}]
  /\ tool \in [Proc -> Tool]
  /\ files \in [Version \X Root -> {"absent", "torn", "whole"}]
  /\ fetcher \in [Proc -> FetcherState]
  /\ unpacker \in [Proc -> UnpackerState]
  /\ output \in [Proc -> {"none", "partial", "unpacked"}]

NoTool == [kind |-> "none"]

Init ==
  /\ request \in [Proc -> Requests]
  /\ pc = [p \in Proc |-> "temp"]
  /\ temp = [p \in Proc |-> "none"]
  /\ tool = [p \in Proc |-> NoTool]
  /\ files \in Installed
  /\ fetcher = [p \in Proc |-> "none"]
  /\ unpacker = [p \in Proc |-> "none"]
  /\ output = [p \in Proc |-> "none"]

Goto(p, l) == pc' = [pc EXCEPT ![p] = l]

\* Every failure after mkstemp unlinks the temporary file.
FailUnlinking(p, l) == Goto(p, l) /\ temp' = [temp EXCEPT ![p] = "none"]

-----------------------------------------------------------------------------
\* make_temp_path: mkstemp creates an empty file of a fresh name.
MakeTemp(p) ==
  /\ pc[p] = "temp"
  /\ \/ temp' = [temp EXCEPT ![p] = "empty"] /\ Goto(p, "repair")
     \/ UNCHANGED temp /\ Goto(p, "temp failed")
  /\ UNCHANGED <<request, tool, files, fetcher, unpacker, output>>

\* repair_upx_file into the temporary file; UpxElfRepair has its steps.
Repair(p) ==
  /\ pc[p] = "repair"
  /\ \/ temp' = [temp EXCEPT ![p] = "repaired"] /\ Goto(p, "resolve")
     \/ FailUnlinking(p, "repair failed")
  /\ UNCHANGED <<request, tool, files, fetcher, unpacker, output>>

\* The summary has a release string only if the ELF repair looked for one.
Detected(r) == IF r.elf THEN r.release ELSE NoVersion

\* A bug: the release in the sample overrides the user's choice.
WantedByRelease(r) == IF Detected(r) # NoVersion THEN Detected(r) ELSE r.version

Wanted(r) == IF r.version # NoVersion THEN r.version ELSE Detected(r)

\* A bug: a file that is not whole does not count as installed.
FoundWhole(v) ==
  {r \in Root : files[<<v, r>>] = "whole" /\ \A s \in 1..(r - 1) : files[<<v, s>>] # "whole"}

\* find_managed_upx_version: the first root whose file passes access(X_OK).
Found(v) ==
  {r \in Root : files[<<v, r>>] # "absent" /\ \A s \in 1..(r - 1) : files[<<v, s>>] = "absent"}

Managed(v, r) == [kind |-> "managed", version |-> v, root |-> r]

Resolved(p, t) == tool' = [tool EXCEPT ![p] = t] /\ Goto(p, "run") /\ UNCHANGED temp

(***************************************************************************)
(* resolve_upx_executable, up to its call of run_upx_fetcher: the user's   *)
(* own tool, an installed version, a fetch, or `upx` from PATH.            *)
(***************************************************************************)
Resolve(p) ==
  LET r == request[p]
      v == Wanted(r)
  IN
  /\ pc[p] = "resolve"
  /\ \/ r.user /\ Resolved(p, [kind |-> "user"])
     \/ /\ r.user
        /\ FailUnlinking(p, "no user tool")
        /\ UNCHANGED tool
     \/ /\ ~r.user /\ v # NoVersion
        /\ \E root \in Found(v) : Resolved(p, Managed(v, root))
     \/ /\ ~r.user /\ v # NoVersion /\ Found(v) = {} /\ r.fetch
        /\ Goto(p, "fetch")
        /\ UNCHANGED <<temp, tool>>
     \/ /\ ~r.user /\ r.version # NoVersion /\ Found(v) = {} /\ ~r.fetch
        /\ FailUnlinking(p, "not installed")
        /\ UNCHANGED tool
     \/ /\ ~r.user /\ v = NoVersion /\ r.fetch
        /\ FailUnlinking(p, "no release")
        /\ UNCHANGED tool
     \/ /\ ~r.user /\ r.version = NoVersion /\ ~r.fetch
        /\ v = NoVersion \/ Found(v) = {}
        /\ Resolved(p, [kind |-> "path"])
  /\ UNCHANGED <<request, files, fetcher, unpacker, output>>

\* run_upx_fetcher: fork, or its failure.
StartFetcher(p) ==
  /\ pc[p] = "fetch"
  /\ \/ /\ fetcher' = [fetcher EXCEPT ![p] = "download"]
        /\ Goto(p, "fetching")
        /\ UNCHANGED temp
     \/ FailUnlinking(p, "fetch failed") /\ UNCHANGED fetcher
  /\ UNCHANGED <<request, tool, files, unpacker, output>>

\* A bug: a child that a signal ended is waited for again.
FetcherExits(p) ==
  /\ pc[p] = "fetching"
  /\ \/ fetcher[p] = "ok" /\ Goto(p, "resolve again") /\ UNCHANGED temp
     \/ fetcher[p] = "failed" /\ FailUnlinking(p, "fetch failed")
  /\ UNCHANGED <<request, tool, files, fetcher, unpacker, output>>

\* waitpid, whose own failure loses the exit status.
FetcherReturns(p) ==
  /\ pc[p] = "fetching"
  /\ \/ fetcher[p] = "ok" /\ Goto(p, "resolve again") /\ UNCHANGED temp
     \/ fetcher[p] \in {"ok", "failed", "torn"} /\ FailUnlinking(p, "fetch failed")
  /\ UNCHANGED <<request, tool, files, fetcher, unpacker, output>>

ResolveAgain(p) ==
  LET v == Wanted(request[p])
  IN
  /\ pc[p] = "resolve again"
  /\ \/ \E r \in Found(v) : Resolved(p, Managed(v, r))
     \/ /\ Found(v) = {}
        /\ FailUnlinking(p, "not found after fetch")
        /\ UNCHANGED tool
  /\ UNCHANGED <<request, files, fetcher, unpacker, output>>

\* A bug: the temporary file is unlinked as soon as the child runs.
StartUnpackerUnlinking(p) ==
  /\ pc[p] = "run"
  /\ unpacker' = [unpacker EXCEPT ![p] = "exec"]
  /\ FailUnlinking(p, "unpacking")
  /\ UNCHANGED <<request, tool, files, fetcher, output>>

\* run_upx_unpack: fork, or its failure.
StartUnpacker(p) ==
  /\ pc[p] = "run"
  /\ \/ /\ unpacker' = [unpacker EXCEPT ![p] = "exec"]
        /\ Goto(p, "unpacking")
        /\ UNCHANGED temp
     \/ FailUnlinking(p, "unpack failed") /\ UNCHANGED unpacker
  /\ UNCHANGED <<request, tool, files, fetcher, output>>

\* Two bugs: any child that returned will do, or its status is the run's.
UnpackerEnds(p) ==
  /\ pc[p] = "unpacking" /\ unpacker[p] \in {"ok", "failed", "not found"}
  /\ FailUnlinking(p, "exit 0")
  /\ UNCHANGED <<request, tool, files, fetcher, unpacker, output>>
UnpackerStatus(p) ==
  /\ pc[p] = "unpacking" /\ unpacker[p] \in {"ok", "failed", "not found"}
  /\ FailUnlinking(p, unpacker[p])
  /\ UNCHANGED <<request, tool, files, fetcher, unpacker, output>>

\* waitpid, and the unlink that follows it; its own failure loses the status.
UnpackerReturns(p) ==
  /\ pc[p] = "unpacking"
  /\ \/ unpacker[p] = "ok" /\ FailUnlinking(p, "exit 0")
     \/ unpacker[p] \in {"ok", "failed", "not found"} /\ FailUnlinking(p, "unpack failed")
  /\ UNCHANGED <<request, tool, files, fetcher, unpacker, output>>

\* binsight is killed; the temporary file and the children stay behind.
Crash(p) ==
  /\ ~Ended(p) /\ ~Crashed(p)
  /\ Goto(p, "crashed")
  /\ \/ UNCHANGED temp
     \/ pc[p] = "repair" /\ temp' = [temp EXCEPT ![p] = "torn"]
  /\ UNCHANGED <<request, tool, files, fetcher, unpacker, output>>

-----------------------------------------------------------------------------
(***************************************************************************)
(* tools/fetch-upx.sh for process p.  It outlives a killed parent, and it  *)
(* may be killed itself.                                                   *)
(***************************************************************************)
Fetcher(p, from, to) ==
  fetcher[p] = from /\ fetcher' = [fetcher EXCEPT ![p] = to]

\* A bug: the fetcher installs into the last root.
LastTarget(p) == <<Wanted(request[p]), NumRoots>>

Target(p) == <<Wanted(request[p]), 1>>

\* Another fetcher is writing, or has died writing, the same file.
Disturbed(p, states) ==
  \E q \in Proc \ {p} : Target(q) = Target(p) /\ fetcher[q] \in states

\* A bug: without `set -e` a failed download still exits 0.
DownloadOrSo(p) ==
  /\ Fetcher(p, "download", "copy") \/ Fetcher(p, "download", "ok")
  /\ UNCHANGED <<request, pc, temp, tool, files, unpacker, output>>

\* mktemp, mkdir -p, curl or wget, tar and find.
Download(p) ==
  /\ Fetcher(p, "download", "copy") \/ Fetcher(p, "download", "failed")
  /\ UNCHANGED <<request, pc, temp, tool, files, unpacker, output>>

\* cp opens its target; Linux refuses that while the file is being executed.
CopyOpen(p) ==
  LET busy == \E q \in Proc : /\ unpacker[q] = "running"
                              /\ tool[q] = Managed(Target(p)[1], 1)
  IN
  /\ \/ /\ ~busy
        /\ Fetcher(p, "copy", "writing")
        /\ files' = [files EXCEPT ![Target(p)] = "torn"]
     \/ Fetcher(p, "copy", "failed") /\ UNCHANGED files
  /\ UNCHANGED <<request, pc, temp, tool, unpacker, output>>

(***************************************************************************)
(* cp finishes or fails.  When two copies into the file overlapped, either *)
(* truncation may have come last and dropped what the other had written.   *)
(***************************************************************************)
CopyWrite(p) ==
  /\ \/ /\ Fetcher(p, "writing", "chmod")
        /\ \/ files' = [files EXCEPT ![Target(p)] = "whole"]
           \/ Disturbed(p, {"writing", "torn"}) /\ UNCHANGED files
     \/ Fetcher(p, "writing", "torn") /\ UNCHANGED files
  /\ UNCHANGED <<request, pc, temp, tool, unpacker, output>>

Chmod(p) ==
  /\ Fetcher(p, "chmod", "ok") \/ Fetcher(p, "chmod", "failed")
  /\ UNCHANGED <<request, pc, temp, tool, files, unpacker, output>>

FetcherDies(p) ==
  /\ \/ Fetcher(p, "download", "failed") \/ Fetcher(p, "copy", "failed")
     \/ Fetcher(p, "writing", "torn") \/ Fetcher(p, "chmod", "failed")
  /\ UNCHANGED <<request, pc, temp, tool, files, unpacker, output>>

-----------------------------------------------------------------------------
(***************************************************************************)
(* The upx child of process p: exec of the resolved tool, then `upx -d`.   *)
(***************************************************************************)
Unpacker(p, from, to) ==
  unpacker[p] = from /\ unpacker' = [unpacker EXCEPT ![p] = to]

\* A managed file runs only if it is whole and nobody has it open for writing.
Executable(p) ==
  tool[p].kind = "managed" =>
    /\ files[<<tool[p].version, tool[p].root>>] = "whole"
    /\ \A q \in Proc :
         fetcher[q] = "writing" => tool[p] # Managed(Target(q)[1], 1)

\* execl or execlp; a torn file may start and crash.
Exec(p) ==
  /\ \/ Executable(p) /\ Unpacker(p, "exec", "running")
     \/ Unpacker(p, "exec", "not found")
     \/ ~Executable(p) /\ Unpacker(p, "exec", "failed")
  /\ UNCHANGED <<request, pc, temp, tool, files, fetcher, output>>

Unpack(p) ==
  /\ \/ /\ temp[p] = "repaired"
        /\ Unpacker(p, "running", "ok")
        /\ output' = [output EXCEPT ![p] = "unpacked"]
     \/ /\ Unpacker(p, "running", "failed")
        /\ output' \in {output, [output EXCEPT ![p] = "partial"]}
  /\ UNCHANGED <<request, pc, temp, tool, files, fetcher>>

-----------------------------------------------------------------------------
\* What process p and its children do of their own accord.
Steps(p) ==
  \/ MakeTemp(p) \/ Repair(p) \/ Resolve(p) \/ ResolveAgain(p)
  \/ StartFetcher(p) \/ FetcherReturns(p) \/ StartUnpacker(p) \/ UnpackerReturns(p)

FetcherSteps(p)  == Download(p) \/ CopyOpen(p) \/ CopyWrite(p) \/ Chmod(p)
UnpackerSteps(p) == Exec(p) \/ Unpack(p)

Next ==
  \E p \in Proc : \/ Steps(p) \/ FetcherSteps(p) \/ UnpackerSteps(p)
                  \/ Crash(p) \/ FetcherDies(p)

Spec == Init /\ [][Next]_vars

(***************************************************************************)
(* Processes are scheduled, and a download ends: curl and wget fail when   *)
(* the connection breaks, though the script sets no time limit of its own. *)
(***************************************************************************)
Fairness ==
  \A p \in Proc : /\ WF_vars(Steps(p))
                  /\ WF_vars(FetcherSteps(p))
                  /\ WF_vars(UnpackerSteps(p))

FairSpec == Spec /\ Fairness

-----------------------------------------------------------------------------
(***************************************************************************)
(* The unpacker only ever reads a whole repaired file, even if binsight is *)
(* killed under it, and a run that ends by itself leaves no temporary file *)
(* and no child that still reads one.                                      *)
(***************************************************************************)
TempFileLife ==
  \A p \in Proc :
    /\ unpacker[p] \in {"exec", "running"} => temp[p] = "repaired"
    /\ Ended(p) => /\ temp[p] = "none"
                   /\ unpacker[p] \notin {"exec", "running"}
                   /\ fetcher[p] \in {"none", "ok", "failed", "torn"}

(***************************************************************************)
(* What tools/fetch-upx.sh has installed is found again: the error "was    *)
(* fetched but no managed executable was found afterward" cannot happen.   *)
(***************************************************************************)
FetchedIsFound == \A p \in Proc : pc[p] # "not found after fetch"

(***************************************************************************)
(* README.md, "Selection order": what runs is the user's tool if there is  *)
(* one, else exactly the requested version, else exactly the version the   *)
(* sample was packed with; `upx` from PATH is never a silent substitute    *)
(* for a requested version or for a fetch, and what was fetched is found.  *)
(***************************************************************************)
RightTool ==
  /\ \A p \in Proc : unpacker[p] # "none" =>
       LET r == request[p]
           t == tool[p]
       IN  /\ t.kind = "user" <=> r.user
           /\ t.kind = "managed" =>
                t.version = IF r.version # NoVersion THEN r.version ELSE r.release
           /\ t.kind = "path" => ~r.fetch /\ r.version = NoVersion
  /\ FetchedIsFound

\* binsight exits 0 only if that tool has unpacked the repaired file.
SuccessMeansUnpacked ==
  \A p \in Proc : pc[p] = "exit 0" =>
    output[p] = "unpacked" /\ unpacker[p] = "ok"

(***************************************************************************)
(* A managed tool is torn only in the root that is fetched into, and only  *)
(* while a fetcher copies into it or after one died or failed copying; so  *)
(* runs without --upx-auto-fetch never damage a tool.                      *)
(***************************************************************************)
TornToolHasACulprit ==
  \A v \in Version, r \in Root : files[<<v, r>>] = "torn" =>
    /\ r = 1
    /\ \E q \in Proc : /\ request[q].fetch /\ Wanted(request[q]) = v
                       /\ fetcher[q] \in {"writing", "chmod", "ok", "failed", "torn"}

(***************************************************************************)
(* A tool that a dead copy left torn, with no fetch of it under way, stays *)
(* so: every later run takes it for installed, and none fetches it again.  *)
(***************************************************************************)
Stuck(v) ==
  /\ files[<<v, 1>>] = "torn"
  /\ \A q \in Proc : Wanted(request[q]) = v =>
       pc[q] # "fetch" /\ fetcher[q] \in {"none", "ok", "failed", "torn"}

TornToolIsKept == [][\A v \in Version : Stuck(v) => Stuck(v)']_vars

\* Every run ends, whatever its children and the other runs do, unless killed.
EveryRunEnds == \A p \in Proc : <>(Ended(p) \/ Crashed(p))

(***************************************************************************)
(* README.md:251 "With --upx-auto-fetch, BinSight first repairs the        *)
(* sample, reads the embedded UPX release string [...]": a fetch is only   *)
(* refused for want of a release when the sample has none.                 *)
(***************************************************************************)
AutoFetchReadsRelease ==
  \A p \in Proc : pc[p] = "no release" => request[p].release = NoVersion
=============================================================================
