--------------------------- MODULE ArtifactCache ---------------------------
(***************************************************************************)
(* What dincli keeps of one model on one machine: the manifest and its CID *)
(* sidecar, the files the manifest pins by CID with the store of their     *)
(* CIDs (local.json.cid), the packages of the worker container and the     *)
(* local models of the client.                                             *)
(*                                                                         *)
(* A machine may play several roles for the model.  Their commands share   *)
(* this directory without a lock; a command may be killed, a download may  *)
(* fail, and the manifest on chain may change at any moment.               *)
(***************************************************************************)
EXTENDS Integers, Sequences, FiniteSets

CONSTANTS
    Roles,        \* the roles of the machine; "client" trains and submits
    Versions,     \* manifests, 1 first
    Files,        \* the pinned files
    Pins,         \* per version and file: the CID the manifest pins
    Key,          \* per file: <<the directory whose store has its CID, its name there>>
    Plan,         \* per role: what its command does before the container runs
    Requirements, \* per role: its requirements.txt
    DP,           \* per version: "off", "gaussian", or "legacy" (dp_mode only)
    Providers,    \* configured IPFS providers: "env", "gateway", "filebase", "custom"
    MaxRunning,   \* bound: commands that run at the same time
    MaxBegun,     \* bound: commands that begin
    MaxFailures   \* bound: kills, failed or forged downloads, failed containers

Other == "other"   \* content that nobody asked for
None == "none"

\* One read of the manifest takes the CIDs of some files, or of none.
Operations ==
    [op : {"read"}, files : SUBSET Files] \cup [op : {"get"}, file : Files] \cup [op : {"install"}]

Read(files) == [op |-> "read", files |-> files]
Get(f) == [op |-> "get", file |-> f]
Install == [op |-> "install"]

Reads(r) == {j \in DOMAIN Plan[r] : Plan[r][j].op = "read"}
Gets(r) == {j \in DOMAIN Plan[r] : Plan[r][j].op = "get"}

\* A command asks for a file by the CID that it has read, and reads a CID once.
ASSUME PlanAssumption ==
    \A r \in Roles :
        /\ Plan[r] \in Seq(Operations)
        /\ \A i \in Gets(r) : \E j \in Reads(r) : j < i /\ Plan[r][i].file \in Plan[r][j].files
        /\ \A i, j \in Reads(r) : i # j => Plan[r][i].files \cap Plan[r][j].files = {}

ASSUME CacheAssumption ==
    /\ Versions \subseteq Nat \ {0} /\ 1 \in Versions
    /\ \A r \in Roles : Requirements[r] \in Files
    /\ \A v \in Versions : DP[v] \in {"off", "gaussian", "legacy"}
    /\ \A v \in Versions, f \in Files : Pins[v][f] # None
    /\ MaxRunning \in Nat /\ MaxBegun \in Nat /\ MaxFailures \in Nat

VARIABLES
    onChain,    \* the manifest CID of the registry, the pending updates, the CIDs so far
    provider,   \* the configured IPFS provider
    binary,     \* the machine has an ipfs binary to hash with
    manifest,   \* the cached manifest.json and manifest.json.cid
    file,       \* per file: its content
    store,      \* local.json.cid
    worker,     \* the installed requirements and their marker
    localModels,     \* the client's local models of this iteration
    uploads,    \* what submit-lm uploaded, and the manifests on chain during the command
    proc,       \* per role: the command that runs
    begun, failures,
    overlapped,      \* two commands have run at the same time
    torn,            \* a command was killed between content and the CID kept of it
    forged,          \* an answer that was not asked for has been kept
    returned         \* a CID that was replaced is on chain or pinned again

disk == <<manifest, file, store, worker, localModels, uploads>>
ghosts == <<overlapped, torn, forged, returned>>
host == <<provider, binary>>
counts == <<begun, failures, ghosts>>
cacheVars == <<onChain, host, disk, proc, counts>>

NoStore == [k \in {Key[f] : f \in Files} |-> None]
Sleeping == [cmd |-> None, step |-> "idle", v |-> 0, i |-> 1, cid |-> None,
             want |-> [f \in Files |-> None], snap |-> NoStore, seen |-> {}]

CacheInit ==
    /\ onChain = [cid |-> 1, pending |-> {}, was |-> {1}]
    /\ provider \in Providers /\ binary \in BOOLEAN
    /\ manifest = [cid |-> 0, sidecar |-> 0]
    /\ file = [f \in Files |-> None]
    /\ store = NoStore
    /\ worker = [packages |-> {}, marker |-> None]
    /\ localModels = {} /\ uploads = {}
    /\ proc = [r \in Roles |-> Sleeping]
    /\ begun = 0 /\ failures = 0
    /\ overlapped = FALSE /\ torn = FALSE /\ forged = FALSE /\ returned = FALSE

On(r, step) == proc[r].step = step
Continues(r, step) == proc' = [proc EXCEPT ![r].step = step]
Stops(r) == proc' = [proc EXCEPT ![r] = Sleeping]
Fails == failures < MaxFailures /\ failures' = failures + 1
Untroubled == UNCHANGED failures

\* Where the plan of r goes on at its i-th operation.
StepAt(r, i) ==
    IF i > Len(Plan[r]) THEN "run"
    ELSE [read |-> "manifest", get |-> "get", install |-> "packages"][Plan[r][i].op]

\* An operation is over: so are the variables of its functions.
Advanced(r, p) == [p EXCEPT !.i = p.i + 1, !.step = StepAt(r, p.i + 1),
                            !.v = 0, !.cid = None, !.snap = NoStore]
Advances(r) == proc' = [proc EXCEPT ![r] = Advanced(r, proc[r])]

Starts(r, c) ==
    /\ proc[r] = Sleeping /\ begun < MaxBegun
    /\ c = "work" \/ r = "client"
    /\ Cardinality({s \in Roles : proc[s] # Sleeping}) < MaxRunning
    /\ begun' = begun + 1
    /\ overlapped' = (overlapped \/ \E s \in Roles : proc[s] # Sleeping)
    /\ proc' = [proc EXCEPT ![r] =
          [Sleeping EXCEPT !.cmd = c, !.seen = {onChain.cid},
                           !.step = IF c = "work" THEN StepAt(r, 1) ELSE "manifest"]]
    /\ UNCHANGED <<onChain, host, disk, failures, torn, forged, returned>>

-----------------------------------------------------------------------------
(* The manifest on chain. *)

\* update-manifest-request: another CID than the current one, so it may be one of
\* before.
UpdateManifestRequest(v) ==
    /\ v # onChain.cid /\ v \notin onChain.pending
    /\ onChain' = [onChain EXCEPT !.pending = @ \cup {v}]
    /\ UNCHANGED <<host, disk, proc, counts>>

Returns(v) ==
    \/ v \in onChain.was
    \/ \E f \in Files, u \in onChain.was :
          Pins[u][f] = Pins[v][f] /\ Pins[onChain.cid][f] # Pins[v][f]

ApproveManifestUpdate(v) ==
    /\ v \in onChain.pending
    /\ onChain' = [cid |-> v, pending |-> onChain.pending \ {v}, was |-> onChain.was \cup {v}]
    /\ returned' = (returned \/ Returns(v))
    /\ proc' = [r \in Roles |-> IF proc[r] = Sleeping THEN Sleeping
                                ELSE [proc[r] EXCEPT !.seen = @ \cup {v}]]
    /\ UNCHANGED <<host, disk, begun, failures, overlapped, torn, forged>>

-----------------------------------------------------------------------------
(* Downloads. *)

\* With a usable ipfs binary what was downloaded is hashed, except for a custom
\* provider; without one there is a warning.
Verifies == provider # "custom" /\ binary
VerifyDownloadedCid(got, cid) == Verifies => got = cid

Answered(got, cid) ==
    /\ IF got = cid THEN Untroubled ELSE Fails
    /\ forged' = (forged \/ got # cid)

\* The content goes to a temporary file of its own, is verified, and replaces
\* the destination.
Saved(r, cid) ==
    \E got \in {cid, Other} :
        /\ VerifyDownloadedCid(got, cid)
        /\ Answered(got, cid)
        /\ proc' = [proc EXCEPT ![r].cid = got, ![r].step = "arrived"]

\* No answer, or one that is refused.
NotRetrieved(r) == Fails /\ Stops(r) /\ UNCHANGED forged
RetrieveFromIpfs(r, cid) == Saved(r, cid) \/ NotRetrieved(r)

-----------------------------------------------------------------------------
(* get_manifest and cache_manifest, at every read of a key.                  *)

\* The sidecar is compared with the CID on chain; when that cannot be read, the
\* manifest is fetched.
ManifestIsFresh == manifest.cid # 0 /\ manifest.sidecar = onChain.cid
CheckManifest(r) ==
    /\ On(r, "manifest")
    /\ \/ /\ Continues(r, IF ManifestIsFresh THEN "open" ELSE "fetch")
          /\ Untroubled
       \/ /\ Continues(r, "fetch")
          /\ Fails
    /\ UNCHANGED <<onChain, host, disk, begun, ghosts>>

\* cache_manifest reads the CID again, downloads, and then writes the sidecar.
CacheManifest(r) ==
    /\ On(r, "fetch")
    /\ \/ proc' = [proc EXCEPT ![r].v = onChain.cid, ![r].step = "download manifest"]
          /\ Untroubled
       \/ (Fails /\ Stops(r))
    /\ UNCHANGED <<onChain, host, disk, begun, ghosts>>

\* What is taken for the manifest is one.
ReplaceManifest(r) ==
    /\ On(r, "download manifest")
    /\ \/ \E got \in Versions :
             /\ VerifyDownloadedCid(got, proc[r].v)
             /\ Answered(got, proc[r].v)
             /\ manifest' = [manifest EXCEPT !.cid = got]
             /\ Continues(r, "sidecar")
       \/ NotRetrieved(r) /\ UNCHANGED manifest
    /\ UNCHANGED <<onChain, host, file, store, worker, localModels, uploads, begun,
                   overlapped, torn, returned>>

WriteSidecar(r) ==
    /\ On(r, "sidecar")
    /\ manifest' = [manifest EXCEPT !.sidecar = proc[r].v]
    /\ Continues(r, "open")
    /\ UNCHANGED <<onChain, host, file, store, worker, localModels, uploads, counts>>

GetManifest(r) ==
    /\ On(r, "open")
    /\ proc' = [proc EXCEPT ![r] =
          IF proc[r].cmd = "submit" THEN [@ EXCEPT !.v = manifest.cid, !.step = "submit"]
          ELSE [Advanced(r, @) EXCEPT !.want =
                  [f \in Files |-> IF f \in Plan[r][proc[r].i].files THEN Pins[manifest.cid][f]
                                   ELSE proc[r].want[f]]]]
    /\ UNCHANGED <<onChain, host, disk, counts>>

-----------------------------------------------------------------------------
(* ensure_file_exists: the store is read, the file downloaded unless it is    *)
(* there and the stored CID is the pinned one, then the CID is stored.        *)

Wanted(r) == Plan[r][proc[r].i].file
WantedCid(r) == proc[r].want[Wanted(r)]
NeedsDownload(r, f) == file[f] = None \/ store[Key[f]] # proc[r].want[f]

EnsureStoresFirst(r) ==
    /\ On(r, "get")
    /\ IF NeedsDownload(r, Wanted(r))
       THEN /\ store' = [store EXCEPT ![Key[Wanted(r)]] = WantedCid(r)]
            /\ proc' = [proc EXCEPT ![r].snap = store', ![r].step = "download"]
       ELSE Advances(r) /\ UNCHANGED store
    /\ UNCHANGED <<onChain, host, manifest, file, worker, localModels, uploads, counts>>

EnsureFileExists(r) ==
    /\ On(r, "get")
    /\ IF NeedsDownload(r, Wanted(r))
       THEN proc' = [proc EXCEPT ![r].snap = store, ![r].step = "download"]
       ELSE Advances(r)
    /\ UNCHANGED <<onChain, host, disk, counts>>

Download(r) ==
    /\ On(r, "download")
    /\ RetrieveFromIpfs(r, WantedCid(r))
    /\ UNCHANGED <<onChain, host, disk, begun, overlapped, torn, returned>>

ReplaceFile(r) ==
    /\ On(r, "arrived")
    /\ file' = [file EXCEPT ![Wanted(r)] = proc[r].cid]
    /\ Continues(r, "store")
    /\ UNCHANGED <<onChain, host, manifest, store, worker, localModels, uploads, counts>>

\* The store of the file's directory is written as it was read, but for this CID.
StoreOf(f) == {k \in DOMAIN store : k[1] = Key[f][1]}
WriteLocalCidStore(r) ==
    /\ On(r, "store")
    /\ store' = [k \in DOMAIN store |->
                    IF k = Key[Wanted(r)] THEN WantedCid(r)
                    ELSE IF k \in StoreOf(Wanted(r)) THEN proc[r].snap[k] ELSE store[k]]
    /\ Advances(r)
    /\ UNCHANGED <<onChain, host, manifest, file, worker, localModels, uploads, counts>>

-----------------------------------------------------------------------------
(* The worker container. *)

\* pip installs what requirements.txt says over what is there, and the hash that
\* requirements.txt had before is written last.
Installed(r) == worker.marker = file[Requirements[r]]
EnsureWorkerPackagesInstalled(r) ==
    /\ On(r, "packages")
    /\ \/ /\ Installed(r)
          /\ Advances(r) /\ Untroubled /\ UNCHANGED worker
       \/ /\ ~Installed(r)
          /\ worker' = [worker EXCEPT !.packages = @ \cup {file[Requirements[r]]}]
          /\ \/ /\ proc' = [proc EXCEPT ![r].cid = file[Requirements[r]], ![r].step = "marker"]
                /\ Untroubled
             \/ (Stops(r) /\ Fails)
    /\ UNCHANGED <<onChain, host, manifest, file, store, localModels, uploads, begun, ghosts>>

WriteMarker(r) ==
    /\ On(r, "marker")
    /\ worker' = [worker EXCEPT !.marker = proc[r].cid]
    /\ Advances(r)
    /\ UNCHANGED <<onChain, host, manifest, file, store, localModels, uploads, counts>>

\* The service resolves the DP block of the manifest that lies in the mounted
\* directory, not the legacy dp_mode: a private model is written next to the raw one.
ServiceDP(v) == DP[v] = "gaussian"
TrainClientModel(r) ==
    IF r # "client" THEN {}
    ELSE {"raw"} \cup (IF ServiceDP(manifest.cid) THEN {"gaussian"} ELSE {})

RunWorkerContainer(r) ==
    /\ On(r, "run")
    /\ \/ /\ localModels' = localModels \cup TrainClientModel(r)
          /\ Untroubled
       \/ (Fails /\ UNCHANGED localModels)
    /\ Stops(r)
    /\ UNCHANGED <<onChain, host, manifest, file, store, worker, uploads, begun, ghosts>>

-----------------------------------------------------------------------------
\* The command line resolves the legacy dp_mode too, and takes the model whose
\* name that gives, if it is there.
ClientDP(v) == DP[v] \in {"gaussian", "legacy"}
RawModelPath(v) == "raw"
LocalModelPath(v) == IF ClientDP(v) THEN "gaussian" ELSE "raw"

SubmitLms(r) ==
    /\ On(r, "submit")
    /\ \/ /\ LocalModelPath(proc[r].v) \in localModels
          /\ uploads' = uploads \cup {[seen |-> proc[r].seen, model |-> LocalModelPath(proc[r].v)]}
          /\ Untroubled
       \/ /\ LocalModelPath(proc[r].v) \notin localModels
          /\ Untroubled /\ UNCHANGED uploads
       \/ (Fails /\ UNCHANGED uploads)
    /\ Stops(r)
    /\ UNCHANGED <<onChain, host, manifest, file, store, worker, localModels, begun, ghosts>>

\* The sidecar, the store and the marker are written in place: a kill in the middle
\* leaves a sidecar or a marker that matches nothing, a store that is read as empty.
KillCommand(r) ==
    /\ proc[r] # Sleeping /\ Fails /\ Stops(r)
    /\ \/ UNCHANGED <<manifest, store, worker>>
       \/ /\ On(r, "sidecar")
          /\ manifest' = [manifest EXCEPT !.sidecar = 0] /\ UNCHANGED <<store, worker>>
       \/ /\ On(r, "store")
          /\ store' = [k \in DOMAIN store |-> IF k \in StoreOf(Wanted(r)) THEN None ELSE store[k]]
          /\ UNCHANGED <<manifest, worker>>
       \/ /\ On(r, "marker")
          /\ worker' = [worker EXCEPT !.marker = None] /\ UNCHANGED <<manifest, store>>
    /\ torn' = (torn \/ On(r, "sidecar") \/ On(r, "store"))
    /\ UNCHANGED <<onChain, host, file, localModels, uploads, begun, overlapped, forged, returned>>

CacheStep(r) ==
    \/ CheckManifest(r) \/ CacheManifest(r) \/ ReplaceManifest(r) \/ WriteSidecar(r)
    \/ GetManifest(r) \/ EnsureFileExists(r) \/ Download(r) \/ ReplaceFile(r)
    \/ WriteLocalCidStore(r) \/ EnsureWorkerPackagesInstalled(r) \/ WriteMarker(r)
    \/ RunWorkerContainer(r) \/ SubmitLms(r) \/ KillCommand(r)

CacheNext ==
    \/ \E r \in Roles : CacheStep(r) \/ \E c \in {"work", "submit"} : Starts(r, c)
    \/ \E v \in Versions : UpdateManifestRequest(v) \/ ApproveManifestUpdate(v)

CacheSpec == CacheInit /\ [][CacheNext]_cacheVars

-----------------------------------------------------------------------------
(* Properties. *)

\* The files of a role that share their key in a store with no other file.
Services(r) ==
    {f \in {Plan[r][j].file : j \in Gets(r)} : \A g \in Files : Key[g] = Key[f] => g = f}

\* Content and the CID kept of it can part only when two commands overlap, when a
\* kill between the two writes is followed by a return of the older CID, or when an
\* answer that nobody hashed is not what was asked for.
CanVouch == ~overlapped /\ ~(torn /\ returned) /\ (Verifies \/ ~forged)

\* The worker then runs services that were pinned during the command, and those whose
\* CIDs the command read at one time (all of the client's, but not all of the
\* auditor's or the aggregator's) are those of one manifest: neither a kill nor a
\* failed or refused download nor a manifest that is updated in mid-command or rolled
\* back leaves, alone, a store or a sidecar that vouches for other content.
StaleOnlyByOverlap ==
    CanVouch => \A r \in Roles : On(r, "run") =>
        \A j \in Reads(r) : \E v \in proc[r].seen :
            \A f \in Plan[r][j].files \cap Services(r) : file[f] = Pins[v][f]

\* And submit-lm then uploads raw weights only if a manifest without differential
\* privacy was on chain during the command: neither a model trained before an update
\* nor a sidecar left by a killed command gets them out under a manifest that asks
\* for privacy.
NoRawUploadUnderDP ==
    CanVouch => \A u \in uploads :
        u.model = "raw" => \E v \in u.seen : DP[v] = "off"

\* "Retrieve file_path from IPFS if it is missing or its stored CID no longer
\* matches": the worker installs the requirements that the command asked for.
RequirementsAreTheOnesPinned ==
    \A r \in Roles : On(r, "run") =>
        file[Requirements[r]] = proc[r].want[Requirements[r]]
=============================================================================
