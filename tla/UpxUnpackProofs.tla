---------------------------- MODULE UpxUnpackProofs ----------------------------
(***************************************************************************)
(* Proofs about repair and unpack, for any number of processes, versions   *)
(* and roots, with crashes and dying fetchers: what runs is the tool that  *)
(* was asked for, it reads a whole temporary file, and a torn tool has a   *)
(* fetcher to blame and stays torn.                                        *)
(***************************************************************************)
EXTENDS UpxUnpack, TLAPS

Copying == {"writing", "chmod", "ok", "torn"}
Quiet   == {"none", "ok", "failed", "torn"}

\* The tool a process has resolved is the one its request selects.
Fits(r, t) ==
  /\ t.kind = "user" <=> r.user
  /\ t.kind = "managed" =>
       t.version = IF r.version # NoVersion THEN r.version ELSE r.release
  /\ t.kind = "path" => ~r.fetch /\ r.version = NoVersion

\* A process, its two children and its temporary file.
ProcInv(p) ==
  /\ pc[p] \in {"resolve", "fetch", "fetching", "resolve again", "run", "unpacking"}
       => temp[p] = "repaired"
  /\ Ended(p) \/ pc[p] = "temp" => temp[p] = "none"
  /\ unpacker[p] # "none" => pc[p] \in {"unpacking", "exit 0", "unpack failed", "crashed"}
  /\ unpacker[p] \in {"exec", "running"} =>
       pc[p] \in {"unpacking", "crashed"} /\ temp[p] = "repaired"
  /\ unpacker[p] = "ok" => output[p] = "unpacked"
  /\ pc[p] = "exit 0" => unpacker[p] = "ok"
  /\ pc[p] \in {"run", "unpacking"} \/ unpacker[p] # "none" => Fits(request[p], tool[p])
  /\ pc[p] \in {"temp", "repair", "resolve", "fetch"} => fetcher[p] = "none"
  /\ fetcher[p] \notin Quiet => pc[p] \in {"fetching", "crashed"}
  /\ pc[p] \in {"fetch", "fetching", "resolve again"} \/ fetcher[p] # "none" =>
       /\ request[p].fetch /\ ~request[p].user
       /\ Wanted(request[p]) \in Version /\ Wanted(request[p]) # NoVersion
  /\ fetcher[p] \in Copying => files[<<Wanted(request[p]), 1>>] # "absent"
  /\ pc[p] = "resolve again" => fetcher[p] = "ok"
  /\ pc[p] # "not found after fetch"

\* A torn file has a fetcher that has begun to write it.
FilesInv ==
  \A v \in Version, r \in Root : files[<<v, r>>] = "torn" =>
    /\ r = 1
    /\ \E q \in Proc : Wanted(request[q]) = v /\ fetcher[q] \in Copying \cup {"failed"}

Inv == TypeOK /\ (\A p \in Proc : ProcInv(p)) /\ FilesInv

\* What a step of p leaves alone.
Frame(p) ==
  /\ request' = request
  /\ \A q \in Proc \ {p} :
       /\ pc'[q] = pc[q] /\ temp'[q] = temp[q] /\ tool'[q] = tool[q]
       /\ fetcher'[q] = fetcher[q] /\ unpacker'[q] = unpacker[q] /\ output'[q] = output[q]
  /\ \A x \in Version \X Root : files[x] # "absent" => files'[x] # "absent"
  /\ fetcher[p] \in Copying \cup {"failed"} => fetcher'[p] \in Copying \cup {"failed"}

-----------------------------------------------------------------------------
LEMMA WantedVersion ==
  ASSUME NEW r \in Requests
  PROVE  /\ r \in Request
         /\ Wanted(r) \in Version \cup {NoVersion}
         /\ Wanted(r) # NoVersion =>
              Wanted(r) = IF r.version # NoVersion THEN r.version ELSE r.release
BY RequestAssumption DEF Request, Wanted, Detected

LEMMA Roots == 1 \in Root /\ Root \subseteq Nat
BY RootAssumption DEF Root

\* The first root is the first that is looked at.
LEMMA FirstRoot ==
  ASSUME NEW v, files[<<v, 1>>] # "absent"
  PROVE  Found(v) # {}
<1>1. 1 \in Root /\ 1..(1 - 1) = {}
  BY RootAssumption DEF Root
<1> QED
  BY <1>1 DEF Found

LEMMA InitInv == Init => Inv
<1> SUFFICES ASSUME Init PROVE Inv
  OBVIOUS
<1>1. files \in [Version \X Root -> {"absent", "whole"}]
  BY InstalledAssumption DEF Init
<1>2. NoTool \in Tool
  BY DEF NoTool, Tool
<1>3. TypeOK
  BY <1>1, <1>2 DEF Init, TypeOK, FetcherState, UnpackerState
<1>4. ASSUME NEW p \in Proc PROVE ProcInv(p)
  BY <1>4 DEF Init, ProcInv, Ended, Failed, Quiet, Copying
<1>5. FilesInv
  BY <1>1 DEF FilesInv
<1> QED
  BY <1>3, <1>4, <1>5 DEF Inv

\* The invariant of every other process survives a step of p.
LEMMA OthersKeep ==
  ASSUME Inv, NEW p \in Proc, NEW q \in Proc \ {p}, Frame(p)
  PROVE  ProcInv(q)'
<1>1. ProcInv(q)
  BY DEF Inv
<1>2. fetcher[q] \in Copying => files'[<<Wanted(request[q]), 1>>] # "absent"
  <2>1. fetcher[q] \in Copying => Wanted(request[q]) \in Version
    BY <1>1 DEF ProcInv, Copying
  <2>2. fetcher[q] \in Copying => <<Wanted(request[q]), 1>> \in Version \X Root
    BY <2>1, Roots
  <2> QED
    BY <1>1, <2>2 DEF ProcInv, Frame
<1> QED
  BY <1>1, <1>2 DEF ProcInv, Frame, Ended

\* And the invariant of the files, if p writes none.
LEMMA FilesKeep ==
  ASSUME Inv, NEW p \in Proc, Frame(p), UNCHANGED files
  PROVE  FilesInv'
<1> SUFFICES ASSUME NEW v \in Version, NEW r \in Root, files[<<v, r>>] = "torn"
    PROVE  /\ r = 1
           /\ \E q \in Proc : Wanted(request[q]) = v /\ fetcher'[q] \in Copying \cup {"failed"}
  BY DEF FilesInv, Frame
<1>1. PICK q \in Proc : Wanted(request[q]) = v /\ fetcher[q] \in Copying \cup {"failed"}
  BY DEF Inv, FilesInv
<1>2. r = 1
  BY DEF Inv, FilesInv
<1> QED
  BY <1>1, <1>2 DEF Frame

\* So a step of p that writes no file is judged by p alone.
LEMMA StepOf ==
  ASSUME Inv, NEW p \in Proc, Frame(p), UNCHANGED files, TypeOK', ProcInv(p)'
  PROVE  Inv'
BY OthersKeep, FilesKeep DEF Inv

-----------------------------------------------------------------------------
\* The steps of binsight.

LEMMA MakeTempStep ==
  ASSUME Inv, NEW p \in Proc, MakeTemp(p)
  PROVE  Inv'
<1>1. TypeOK /\ ProcInv(p)
  BY DEF Inv
<1>2. Frame(p) /\ UNCHANGED files
  BY <1>1 DEF MakeTemp, FailUnlinking, Goto, Frame, TypeOK, Copying
<1>3. TypeOK'
  BY <1>1 DEF MakeTemp, FailUnlinking, Goto, TypeOK, Failed
<1>4. ProcInv(p)'
  BY <1>1 DEF MakeTemp, FailUnlinking, Goto, TypeOK, ProcInv, Ended, Failed, Copying, Quiet
<1> QED
  BY <1>2, <1>3, <1>4, StepOf

LEMMA RepairStep ==
  ASSUME Inv, NEW p \in Proc, Repair(p)
  PROVE  Inv'
<1>1. TypeOK /\ ProcInv(p)
  BY DEF Inv
<1>2. Frame(p) /\ UNCHANGED files
  BY <1>1 DEF Repair, FailUnlinking, Goto, Frame, TypeOK, Copying
<1>3. TypeOK'
  BY <1>1 DEF Repair, FailUnlinking, Goto, TypeOK, Failed
<1>4. ProcInv(p)'
  BY <1>1 DEF Repair, FailUnlinking, Goto, TypeOK, ProcInv, Ended, Failed, Copying, Quiet
<1> QED
  BY <1>2, <1>3, <1>4, StepOf

LEMMA StartFetcherStep ==
  ASSUME Inv, NEW p \in Proc, StartFetcher(p)
  PROVE  Inv'
<1>1. TypeOK /\ ProcInv(p)
  BY DEF Inv
<1>2. Frame(p) /\ UNCHANGED files
  BY <1>1 DEF StartFetcher, FailUnlinking, Goto, Frame, TypeOK, ProcInv, Copying
<1>3. TypeOK'
  BY <1>1 DEF StartFetcher, FailUnlinking, Goto, TypeOK, Failed, FetcherState, UnpackerState
<1>4. ProcInv(p)'
  BY <1>1 DEF StartFetcher, FailUnlinking, Goto, TypeOK, ProcInv, Ended, Failed, Copying, Quiet
<1> QED
  BY <1>2, <1>3, <1>4, StepOf

LEMMA FetcherReturnsStep ==
  ASSUME Inv, NEW p \in Proc, FetcherReturns(p)
  PROVE  Inv'
<1>1. TypeOK /\ ProcInv(p)
  BY DEF Inv
<1>2. Frame(p) /\ UNCHANGED files
  BY <1>1 DEF FetcherReturns, FailUnlinking, Goto, Frame, TypeOK, Copying
<1>3. TypeOK'
  BY <1>1 DEF FetcherReturns, FailUnlinking, Goto, TypeOK, Failed
<1>4. ProcInv(p)'
  BY <1>1 DEF FetcherReturns, FailUnlinking, Goto, TypeOK, ProcInv, Ended, Failed, Copying, Quiet
<1> QED
  BY <1>2, <1>3, <1>4, StepOf

LEMMA StartUnpackerStep ==
  ASSUME Inv, NEW p \in Proc, StartUnpacker(p)
  PROVE  Inv'
<1>1. TypeOK /\ ProcInv(p)
  BY DEF Inv
<1>2. Frame(p) /\ UNCHANGED files
  BY <1>1 DEF StartUnpacker, FailUnlinking, Goto, Frame, TypeOK, Copying
<1>3. TypeOK'
  BY <1>1 DEF StartUnpacker, FailUnlinking, Goto, TypeOK, Failed, FetcherState, UnpackerState
<1>4. ProcInv(p)'
  BY <1>1 DEF StartUnpacker, FailUnlinking, Goto, TypeOK, ProcInv, Ended, Failed, Copying, Quiet
<1> QED
  BY <1>2, <1>3, <1>4, StepOf

LEMMA UnpackerReturnsStep ==
  ASSUME Inv, NEW p \in Proc, UnpackerReturns(p)
  PROVE  Inv'
<1>1. TypeOK /\ ProcInv(p)
  BY DEF Inv
<1>2. Frame(p) /\ UNCHANGED files
  BY <1>1 DEF UnpackerReturns, FailUnlinking, Goto, Frame, TypeOK, Copying
<1>3. TypeOK'
  BY <1>1 DEF UnpackerReturns, FailUnlinking, Goto, TypeOK, Failed
<1>4. ProcInv(p)'
  BY <1>1 DEF UnpackerReturns, FailUnlinking, Goto, TypeOK, ProcInv, Ended, Failed, Copying, Quiet
<1> QED
  BY <1>2, <1>3, <1>4, StepOf

LEMMA CrashStep ==
  ASSUME Inv, NEW p \in Proc, Crash(p)
  PROVE  Inv'
<1>1. TypeOK /\ ProcInv(p)
  BY DEF Inv
<1>2. Frame(p) /\ UNCHANGED files
  BY <1>1 DEF Crash, Goto, Crashed, Ended, Frame, TypeOK, Copying
<1>3. TypeOK'
  BY <1>1 DEF Crash, Goto, Crashed, Ended, TypeOK, Failed
<1>4. ProcInv(p)'
  <2>1. /\ pc'[p] = "crashed" /\ ~Ended(p)
        /\ temp'[p] = temp[p] \/ pc[p] = "repair"
        /\ UNCHANGED <<request, tool, files, fetcher, unpacker, output>>
    BY <1>1 DEF Crash, Goto, TypeOK
  <2> QED
    BY <1>1, <2>1 DEF ProcInv, Ended, Failed, Copying, Quiet
<1> QED
  BY <1>2, <1>3, <1>4, StepOf

LEMMA ToolTypes ==
  /\ [kind |-> "user"] \in Tool /\ [kind |-> "path"] \in Tool
  /\ \A v \in Version, r \in Root : Managed(v, r) \in Tool
BY DEF Tool, Managed

\* Where resolve_upx_executable goes on to, and with what.
LEMMA Resolutions ==
  ASSUME Inv, NEW p \in Proc, Resolve(p)
  PROVE  /\ pc[p] = "resolve"
         /\ UNCHANGED <<request, files, fetcher, unpacker, output>>
         /\ \/ /\ Goto(p, "run") /\ UNCHANGED temp
               /\ \E t \in Tool : tool' = [tool EXCEPT ![p] = t] /\ Fits(request[p], t)
            \/ /\ Goto(p, "fetch") /\ UNCHANGED <<temp, tool>>
               /\ request[p].fetch /\ ~request[p].user
               /\ Wanted(request[p]) \in Version /\ Wanted(request[p]) # NoVersion
            \/ /\ \E l \in {"no user tool", "not installed", "no release"} : FailUnlinking(p, l)
               /\ UNCHANGED tool
<1> DEFINE r == request[p]
           v == Wanted(r)
<1>1. r \in Requests
  BY DEF Inv, TypeOK
<1>2. /\ r.user \in BOOLEAN /\ r.fetch \in BOOLEAN
      /\ v \in Version \cup {NoVersion}
      /\ v # NoVersion => v = IF r.version # NoVersion THEN r.version ELSE r.release
      /\ r.version # NoVersion => v = r.version
  BY <1>1, WantedVersion DEF Request, Wanted
<1>3. /\ pc[p] = "resolve"
      /\ UNCHANGED <<request, files, fetcher, unpacker, output>>
  BY DEF Resolve
<1> HIDE DEF v
<1>4. CASE r.user /\ Resolved(p, [kind |-> "user"])
  <2>1. Fits(r, [kind |-> "user"])
    BY <1>4 DEF Fits
  <2> QED
    BY <1>3, <1>4, <2>1, ToolTypes DEF Resolved
<1>5. CASE ~r.user /\ v # NoVersion /\ \E root \in Found(v) : Resolved(p, Managed(v, root))
  <2>1. PICK root \in Found(v) : Resolved(p, Managed(v, root))
    BY <1>5
  <2>2. Managed(v, root) \in Tool
    BY <1>2, <1>5, ToolTypes DEF Found
  <2>3. Fits(r, Managed(v, root))
    BY <1>2, <1>5 DEF Fits, Managed
  <2> QED
    BY <1>3, <2>1, <2>2, <2>3 DEF Resolved
<1>6. CASE ~r.user /\ v # NoVersion /\ r.fetch /\ Goto(p, "fetch") /\ UNCHANGED <<temp, tool>>
  BY <1>2, <1>3, <1>6 DEF v
<1>7. CASE ~r.user /\ r.version = NoVersion /\ ~r.fetch /\ Resolved(p, [kind |-> "path"])
  <2>1. Fits(r, [kind |-> "path"])
    BY <1>7 DEF Fits
  <2> QED
    BY <1>3, <1>7, <2>1, ToolTypes DEF Resolved
<1>8. CASE /\ \E l \in {"no user tool", "not installed", "no release"} : FailUnlinking(p, l)
           /\ UNCHANGED tool
  BY <1>3, <1>8
<1> QED
  BY <1>4, <1>5, <1>6, <1>7, <1>8 DEF Resolve, v

LEMMA ResolveStep ==
  ASSUME Inv, NEW p \in Proc, Resolve(p)
  PROVE  Inv'
<1>1. TypeOK /\ ProcInv(p)
  BY DEF Inv
<1>2. /\ pc[p] = "resolve"
      /\ UNCHANGED <<request, files, fetcher, unpacker, output>>
  BY Resolutions
<1>3. CASE /\ Goto(p, "run") /\ UNCHANGED temp
           /\ \E t \in Tool : tool' = [tool EXCEPT ![p] = t] /\ Fits(request[p], t)
  <2>1. PICK t \in Tool : tool' = [tool EXCEPT ![p] = t] /\ Fits(request[p], t)
    BY <1>3
  <2>2. Frame(p)
    BY <1>1, <1>2, <1>3, <2>1 DEF Goto, Frame, TypeOK
  <2>3. TypeOK'
    BY <1>1, <1>2, <1>3, <2>1 DEF Goto, TypeOK
  <2>4. pc'[p] = "run" /\ tool'[p] = t
    BY <1>1, <1>3, <2>1 DEF Goto, TypeOK
  <2>5. ProcInv(p)'
    BY <1>1, <1>2, <1>3, <2>1, <2>4 DEF ProcInv, Ended, Failed, Copying, Quiet
  <2> QED
    BY <1>2, <2>2, <2>3, <2>5, StepOf
<1>4. CASE /\ Goto(p, "fetch") /\ UNCHANGED <<temp, tool>>
           /\ request[p].fetch /\ ~request[p].user
           /\ Wanted(request[p]) \in Version /\ Wanted(request[p]) # NoVersion
  <2>1. Frame(p)
    BY <1>1, <1>2, <1>4 DEF Goto, Frame, TypeOK
  <2>2. TypeOK'
    BY <1>1, <1>2, <1>4 DEF Goto, TypeOK
  <2>3. pc'[p] = "fetch"
    BY <1>1, <1>4 DEF Goto, TypeOK
  <2>4. ProcInv(p)'
    BY <1>1, <1>2, <1>4, <2>3 DEF ProcInv, Ended, Failed, Copying, Quiet
  <2> QED
    BY <1>2, <2>1, <2>2, <2>4, StepOf
<1>5. CASE /\ \E l \in {"no user tool", "not installed", "no release"} : FailUnlinking(p, l)
           /\ UNCHANGED tool
  <2>1. PICK l \in {"no user tool", "not installed", "no release"} : FailUnlinking(p, l)
    BY <1>5
  <2>2. Frame(p)
    BY <1>1, <1>2, <1>5, <2>1 DEF FailUnlinking, Goto, Frame, TypeOK
  <2>3. TypeOK'
    BY <1>1, <1>2, <1>5, <2>1 DEF FailUnlinking, Goto, TypeOK, Failed
  <2>4. pc'[p] = l /\ temp'[p] = "none"
    BY <1>1, <2>1 DEF FailUnlinking, Goto, TypeOK
  <2>5. ProcInv(p)'
    BY <1>1, <1>2, <1>5, <2>4 DEF ProcInv, Ended, Failed, Copying, Quiet
  <2> QED
    BY <1>2, <2>2, <2>3, <2>5, StepOf
<1> QED
  BY <1>3, <1>4, <1>5, Resolutions

\* What was fetched is there.
LEMMA ResolveAgainStep ==
  ASSUME Inv, NEW p \in Proc, ResolveAgain(p)
  PROVE  Inv'
<1> DEFINE v == Wanted(request[p])
<1>1. TypeOK /\ ProcInv(p)
  BY DEF Inv
<1>2. /\ pc[p] = "resolve again" /\ UNCHANGED <<request, files, fetcher, unpacker, output>>
      /\ \/ \E r \in Found(v) : Resolved(p, Managed(v, r))
         \/ Found(v) = {}
  BY DEF ResolveAgain
<1>3. /\ fetcher[p] = "ok" /\ ~request[p].user /\ v \in Version /\ v # NoVersion
      /\ files[<<v, 1>>] # "absent"
  BY <1>1, <1>2 DEF ProcInv, Copying
<1>4. PICK r \in Found(v) : Resolved(p, Managed(v, r))
  BY <1>2, <1>3, FirstRoot
<1> DEFINE t == Managed(v, r)
<1>5. t \in Tool /\ Fits(request[p], t)
  <2>1. r \in Root
    BY DEF Found
  <2>2. request[p] \in Requests
    BY <1>1 DEF TypeOK
  <2>3. v = IF request[p].version # NoVersion THEN request[p].version ELSE request[p].release
    BY <1>3, <2>2, WantedVersion
  <2>4. t.kind = "managed" /\ t.version = v
    BY DEF Managed
  <2> HIDE DEF t
  <2>5. Fits(request[p], t)
    BY <1>3, <2>3, <2>4 DEF Fits
  <2> QED
    BY <1>3, <2>1, <2>5, ToolTypes DEF t
<1> HIDE DEF t
<1>6. tool' = [tool EXCEPT ![p] = t] /\ Goto(p, "run") /\ UNCHANGED temp
  BY <1>4 DEF Resolved, t
<1>7. Frame(p)
  BY <1>1, <1>2, <1>6 DEF Goto, Frame, TypeOK
<1>8. TypeOK'
  BY <1>1, <1>2, <1>5, <1>6 DEF Goto, TypeOK
<1>9. pc'[p] = "run" /\ tool'[p] = t
  BY <1>1, <1>6 DEF Goto, TypeOK
<1>10. ProcInv(p)'
  BY <1>1, <1>2, <1>5, <1>6, <1>9 DEF ProcInv, Ended, Failed, Copying, Quiet
<1> QED
  BY <1>2, <1>7, <1>8, <1>10, StepOf

-----------------------------------------------------------------------------
\* The steps of the two children.
LEMMA FetcherMoves ==
  ASSUME Inv, NEW p \in Proc, NEW from \in FetcherState, NEW to \in FetcherState,
         Fetcher(p, from, to), UNCHANGED <<request, pc, temp, tool, files, unpacker, output>>,
         <<from, to>> \in {<<"download", "copy">>, <<"download", "failed">>, <<"copy", "failed">>,
                          <<"writing", "chmod">>, <<"writing", "torn">>,
                          <<"chmod", "ok">>, <<"chmod", "failed">>}
  PROVE  Inv'
<1>1. TypeOK /\ ProcInv(p)
  BY DEF Inv
<1>2. fetcher[p] = from /\ fetcher'[p] = to /\ from # "none"
  BY <1>1 DEF Fetcher, TypeOK
<1>3. Frame(p)
  BY <1>1, <1>2 DEF Fetcher, Frame, TypeOK, Copying
<1>4. TypeOK'
  BY <1>1 DEF Fetcher, TypeOK
<1>5. ProcInv(p)'
  BY <1>1, <1>2 DEF ProcInv, Ended, Failed, Copying, Quiet
<1> QED
  BY <1>3, <1>4, <1>5, StepOf

LEMMA DownloadStep ==
  ASSUME Inv, NEW p \in Proc, Download(p)
  PROVE  Inv'
BY FetcherMoves DEF Download, FetcherState

LEMMA ChmodStep ==
  ASSUME Inv, NEW p \in Proc, Chmod(p)
  PROVE  Inv'
BY FetcherMoves DEF Chmod, FetcherState

LEMMA FetcherDiesStep ==
  ASSUME Inv, NEW p \in Proc, FetcherDies(p)
  PROVE  Inv'
BY FetcherMoves DEF FetcherDies, FetcherState

LEMMA ExecStep ==
  ASSUME Inv, NEW p \in Proc, Exec(p)
  PROVE  Inv'
<1>1. TypeOK /\ ProcInv(p)
  BY DEF Inv
<1>2. Frame(p) /\ UNCHANGED files
  BY <1>1 DEF Exec, Unpacker, Frame, TypeOK, Copying
<1>3. TypeOK'
  BY <1>1 DEF Exec, Unpacker, TypeOK, UnpackerState
<1>4. ProcInv(p)'
  BY <1>1 DEF Exec, Unpacker, TypeOK, ProcInv, Ended, Failed, Copying, Quiet
<1> QED
  BY <1>2, <1>3, <1>4, StepOf

LEMMA UnpackStep ==
  ASSUME Inv, NEW p \in Proc, Unpack(p)
  PROVE  Inv'
<1>1. TypeOK /\ ProcInv(p)
  BY DEF Inv
<1>2. Frame(p) /\ UNCHANGED files
  BY <1>1 DEF Unpack, Unpacker, Frame, TypeOK, Copying
<1>3. TypeOK'
  BY <1>1 DEF Unpack, Unpacker, TypeOK, UnpackerState
<1>4. ProcInv(p)'
  BY <1>1 DEF Unpack, Unpacker, TypeOK, ProcInv, Ended, Failed, Copying, Quiet
<1> QED
  BY <1>2, <1>3, <1>4, StepOf

\* A copy that opens its target, or finishes it.
LEMMA FetcherWrites ==
  ASSUME Inv, NEW p \in Proc, NEW from \in FetcherState, NEW to \in FetcherState,
         NEW content \in {"torn", "whole"},
         Fetcher(p, from, to), files' = [files EXCEPT ![Target(p)] = content],
         UNCHANGED <<request, pc, temp, tool, unpacker, output>>,
         <<from, to>> \in {<<"copy", "writing">>, <<"writing", "chmod">>}
  PROVE  Inv'
<1>1. TypeOK /\ ProcInv(p) /\ FilesInv
  BY DEF Inv
<1>2. fetcher[p] = from /\ fetcher'[p] = to /\ from \notin Quiet /\ to \in Copying
  BY <1>1 DEF Fetcher, TypeOK, Quiet, Copying
<1> DEFINE v == Wanted(request[p])
<1>3. v \in Version /\ <<v, 1>> \in Version \X Root /\ Target(p) = <<v, 1>>
  BY <1>1, <1>2, Roots DEF ProcInv, Quiet, Target
<1> HIDE DEF v
<1>4. /\ files'[<<v, 1>>] = content
      /\ \A x \in Version \X Root : x # <<v, 1>> => files'[x] = files[x]
  BY <1>1, <1>3 DEF TypeOK
<1>5. Frame(p)
  BY <1>1, <1>2, <1>4 DEF Fetcher, Frame, TypeOK
<1>6. TypeOK'
  BY <1>1, <1>3 DEF Fetcher, TypeOK
<1>7. ProcInv(p)'
  BY <1>1, <1>2, <1>4 DEF ProcInv, Ended, Failed, Copying, Quiet, v
<1>8. FilesInv'
  <2> SUFFICES ASSUME NEW w \in Version, NEW r \in Root, files'[<<w, r>>] = "torn"
      PROVE  /\ r = 1
             /\ \E q \in Proc : Wanted(request[q]) = w /\ fetcher'[q] \in Copying \cup {"failed"}
    BY <1>5 DEF FilesInv, Frame
  <2>1. CASE <<w, r>> = <<v, 1>>
    BY <1>2, <2>1 DEF v
  <2>2. CASE <<w, r>> # <<v, 1>>
    <3>1. files[<<w, r>>] = "torn"
      BY <1>4, <2>2
    <3>2. PICK q \in Proc : Wanted(request[q]) = w /\ fetcher[q] \in Copying \cup {"failed"}
      BY <1>1, <3>1 DEF FilesInv
    <3>3. r = 1
      BY <1>1, <3>1 DEF FilesInv
    <3> QED
      BY <1>5, <3>2, <3>3 DEF Frame
  <2> QED
    BY <2>1, <2>2
<1> QED
  BY <1>5, <1>6, <1>7, <1>8, OthersKeep DEF Inv

LEMMA CopyOpenStep ==
  ASSUME Inv, NEW p \in Proc, CopyOpen(p)
  PROVE  Inv'
BY FetcherMoves, FetcherWrites DEF CopyOpen, FetcherState

LEMMA CopyWriteStep ==
  ASSUME Inv, NEW p \in Proc, CopyWrite(p)
  PROVE  Inv'
BY FetcherMoves, FetcherWrites DEF CopyWrite, FetcherState

LEMMA NextInv == Inv /\ [Next]_vars => Inv'
<1> SUFFICES ASSUME Inv, [Next]_vars PROVE Inv'
  OBVIOUS
<1>1. ASSUME NEW p \in Proc, Steps(p) PROVE Inv'
  BY <1>1, MakeTempStep, RepairStep, ResolveStep, ResolveAgainStep, StartFetcherStep,
     FetcherReturnsStep, StartUnpackerStep, UnpackerReturnsStep DEF Steps
<1>2. ASSUME NEW p \in Proc, FetcherSteps(p) \/ FetcherDies(p) PROVE Inv'
  BY <1>2, DownloadStep, CopyOpenStep, CopyWriteStep, ChmodStep, FetcherDiesStep
     DEF FetcherSteps
<1>3. ASSUME NEW p \in Proc, UnpackerSteps(p) PROVE Inv'
  BY <1>3, ExecStep, UnpackStep DEF UnpackerSteps
<1>4. CASE UNCHANGED vars
  <2>1. TypeOK'
    BY <1>4 DEF Inv, vars, TypeOK
  <2>2. ASSUME NEW p \in Proc PROVE ProcInv(p)'
    BY <1>4, <2>2 DEF Inv, vars, ProcInv, Ended
  <2>3. FilesInv'
    BY <1>4 DEF Inv, vars, FilesInv
  <2> QED
    BY <2>1, <2>2, <2>3 DEF Inv
<1> QED
  BY <1>1, <1>2, <1>3, <1>4, CrashStep DEF Next

LEMMA Invariance == Spec => []Inv
BY InitInv, NextInv, PTL DEF Spec

-----------------------------------------------------------------------------
\* The variables keep their types.
THEOREM TypeCorrect == Spec => []TypeOK
<1>1. Inv => TypeOK
  BY DEF Inv
<1> QED
  BY <1>1, Invariance, PTL

(***************************************************************************)
(* repair_and_unpack_upx_file: upx reads a whole temporary file, and a run *)
(* that ended left neither the file nor a child behind.                    *)
(***************************************************************************)
THEOREM TempFiles == Spec => []TempFileLife
<1>1. Inv => TempFileLife
  <2> SUFFICES ASSUME Inv, NEW p \in Proc
      PROVE  /\ unpacker[p] \in {"exec", "running"} => temp[p] = "repaired"
             /\ Ended(p) => /\ temp[p] = "none"
                            /\ unpacker[p] \notin {"exec", "running"}
                            /\ fetcher[p] \in {"none", "ok", "failed", "torn"}
    BY DEF TempFileLife
  <2>1. ProcInv(p)
    BY DEF Inv
  <2> QED
    BY <2>1 DEF ProcInv, Ended, Failed, Quiet
<1> QED
  BY <1>1, Invariance, PTL

(***************************************************************************)
(* resolve_upx_executable: the tool that runs is the one that was asked    *)
(* for, and a fetched tool is found again.                                 *)
(***************************************************************************)
THEOREM RightToolRuns == Spec => []RightTool
<1>1. Inv => RightTool
  <2> SUFFICES ASSUME Inv PROVE RightTool
    OBVIOUS
  <2>1. ASSUME NEW p \in Proc, unpacker[p] # "none" PROVE Fits(request[p], tool[p])
    BY <2>1 DEF Inv, ProcInv
  <2>2. FetchedIsFound
    BY DEF Inv, ProcInv, FetchedIsFound
  <2> QED
    BY <2>1, <2>2 DEF RightTool, Fits
<1> QED
  BY <1>1, Invariance, PTL

\* main's exit status: 0 only if upx unpacked the repaired file.
THEOREM SuccessUnpacked == Spec => []SuccessMeansUnpacked
<1>1. Inv => SuccessMeansUnpacked
  BY DEF Inv, ProcInv, SuccessMeansUnpacked
<1> QED
  BY <1>1, Invariance, PTL

\* tools/fetch-upx.sh: only a fetch tears a tool, and only in the first root.
THEOREM TornHasCulprit == Spec => []TornToolHasACulprit
<1>1. Inv => TornToolHasACulprit
  <2> SUFFICES ASSUME Inv, NEW v \in Version, NEW r \in Root, files[<<v, r>>] = "torn"
      PROVE  /\ r = 1
             /\ \E q \in Proc : /\ request[q].fetch /\ Wanted(request[q]) = v
                                /\ fetcher[q] \in {"writing", "chmod", "ok", "failed", "torn"}
    BY DEF TornToolHasACulprit
  <2>1. r = 1
    BY DEF Inv, FilesInv
  <2>2. PICK q \in Proc : Wanted(request[q]) = v /\ fetcher[q] \in Copying \cup {"failed"}
    BY DEF Inv, FilesInv
  <2>3. request[q].fetch
    BY <2>2 DEF Inv, ProcInv, Copying
  <2> QED
    BY <2>1, <2>2, <2>3 DEF Copying
<1> QED
  BY <1>1, Invariance, PTL

\* Nobody sets out to fetch a version whose file is there, torn or not.
LEMMA NoFetchOfTorn ==
  ASSUME NEW p \in Proc, TypeOK, Steps(p), pc'[p] = "fetch",
         files[<<Wanted(request[p]), 1>>] # "absent"
  PROVE  FALSE
<1>1. ~Resolve(p)
  <2> SUFFICES ASSUME Resolve(p) PROVE FALSE
    OBVIOUS
  <2>1. Found(Wanted(request[p])) # {}
    BY FirstRoot
  <2> QED
    BY <2>1 DEF Resolve, Resolved, FailUnlinking, Goto, TypeOK
<1> QED
  BY <1>1 DEF Steps, MakeTemp, Repair, ResolveAgain, StartFetcher, FetcherReturns,
     StartUnpacker, UnpackerReturns, Resolved, FailUnlinking, Goto, TypeOK

(***************************************************************************)
(* find_managed_upx_version takes a torn tool for installed for good: no   *)
(* step of any process starts a fetch of it or writes it.                  *)
(***************************************************************************)
LEMMA StuckStays ==
  ASSUME TypeOK, NEW v \in Version, Stuck(v), [Next]_vars
  PROVE  Stuck(v)'
<1>1. CASE UNCHANGED vars
  BY <1>1 DEF Stuck, vars
<1>2. ASSUME NEW p \in Proc, Steps(p) \/ Crash(p) PROVE Stuck(v)'
  <2>1. UNCHANGED <<request, files>> /\ \A q \in Proc \ {p} : pc'[q] = pc[q] /\ fetcher'[q] = fetcher[q]
    BY <1>2 DEF Steps, Crash, MakeTemp, Repair, Resolve, ResolveAgain, StartFetcher, FetcherReturns,
       StartUnpacker, UnpackerReturns, Resolved, FailUnlinking, Goto, TypeOK
  <2>2. fetcher'[p] = fetcher[p] \/ pc[p] = "fetch"
    BY <1>2 DEF Steps, Crash, MakeTemp, Repair, Resolve, ResolveAgain, StartFetcher, FetcherReturns,
       StartUnpacker, UnpackerReturns
  <2>3. Wanted(request[p]) = v => pc'[p] # "fetch"
    <3>1. Wanted(request[p]) = v => files[<<Wanted(request[p]), 1>>] # "absent"
      BY DEF Stuck
    <3>2. CASE Steps(p)
      BY <3>1, <3>2, NoFetchOfTorn
    <3>3. CASE Crash(p)
      BY <3>3 DEF Crash, Goto, TypeOK
    <3> QED
      BY <1>2, <3>2, <3>3
  <2> QED
    BY <2>1, <2>2, <2>3 DEF Stuck
<1>3. ASSUME NEW p \in Proc, FetcherSteps(p) \/ FetcherDies(p) PROVE Stuck(v)'
  <2>1. UNCHANGED <<request, pc>> /\ \A q \in Proc \ {p} : fetcher'[q] = fetcher[q]
    BY <1>3 DEF FetcherSteps, FetcherDies, Download, CopyOpen, CopyWrite, Chmod, Fetcher, TypeOK
  <2>2. fetcher[p] \in {"download", "copy", "writing", "chmod"}
    BY <1>3 DEF FetcherSteps, FetcherDies, Download, CopyOpen, CopyWrite, Chmod, Fetcher
  <2>3. Wanted(request[p]) # v
    BY <2>2 DEF Stuck
  <2>4. files'[<<v, 1>>] = files[<<v, 1>>]
    <3>1. \/ UNCHANGED files
          \/ \E c \in {"torn", "whole"} : files' = [files EXCEPT ![Target(p)] = c]
      BY <1>3 DEF FetcherSteps, FetcherDies, Download, CopyOpen, CopyWrite, Chmod
    <3>2. Target(p) # <<v, 1>> /\ <<v, 1>> \in Version \X Root
      BY <2>3, Roots DEF Target
    <3> QED
      BY <3>1, <3>2 DEF TypeOK
  <2> QED
    BY <2>1, <2>3, <2>4 DEF Stuck
<1>4. ASSUME NEW p \in Proc, UnpackerSteps(p) PROVE Stuck(v)'
  BY <1>4 DEF UnpackerSteps, Exec, Unpack, Stuck
<1> QED
  BY <1>1, <1>2, <1>3, <1>4 DEF Next

THEOREM TornKept == Spec => TornToolIsKept
<1>1. Inv /\ [Next]_vars => [\A v \in Version : Stuck(v) => Stuck(v)']_vars
  BY StuckStays DEF Inv
<1> QED
  BY <1>1, Invariance, PTL DEF Spec, TornToolIsKept
=============================================================================
