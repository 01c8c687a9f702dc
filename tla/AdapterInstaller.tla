-------------------------- MODULE AdapterInstaller --------------------------
(***************************************************************************)
(* Signed adapter releases on disk: host/adapter-installer.mjs with the    *)
(* extraction of host/adapter-package.mjs, driven by the two programs that *)
(* install, runSeedInstall (host/adapter-seed.mjs, at every start of the   *)
(* app host and of the desktop shell) and runEmulatorUpdate                *)
(* (scripts/emulators/update.mjs).  Several of them may run at the same    *)
(* time on one install root; each may fail at any step or be killed        *)
(* between two steps, and is started again later.  Meanwhile the agent     *)
(* activates what is installed (host/adapter-runtime.mjs).                 *)
(*                                                                         *)
(* One adapter id.  A run's feed offers one release of it, Release[r]; a   *)
(* package is the files 1..Files, unpacked in that order, and its manifest,*)
(* written as file 0.  A staging directory is named by a random UUID, so a *)
(* run never meets the one of an earlier attempt.                          *)
(***************************************************************************)
EXTENDS Naturals, FiniteSets

CONSTANTS Run,       \* processes that install
          Seeder,    \* those that are runSeedInstall
          Ahead,     \* those whose feed offers the later of the two releases
          Files,     \* files in a package
          MaxFaults  \* bound: failing steps and crashes

ASSUME InstallerAssumption ==
    /\ Seeder \subseteq Run
    /\ Ahead \subseteq Run
    /\ Files \in Nat \ {0}
    /\ MaxFaults \in Nat

Release == [r \in Run |-> IF r \in Ahead THEN 2 ELSE 1]
Version == {Release[r] : r \in Run}
Content == 0..Files
Manifest == 0
None == 0                   \* no version

VARIABLES pointer,   \* the version current.json names, or None
          target,    \* the version directories that exist
          content,   \* what is in each
          staging,   \* .staging/<uuid> of a run: "none", "made", or with its "payload"
          payload,   \* what is in it
          next,      \* the next file to unpack
          at,        \* the await a run is at
          seen,      \* the version a run read from current.json
          activation,\* how far the agent is with load(), and the version it has read
          faults,
          swept,     \* TRUE once a run has removed what another one had unpacked
          overlapped,\* TRUE once two runs were under way together
          abandoned, \* TRUE once a run was killed or could not remove what it had published
          wasCurrent \* the versions current.json has named

disk == <<pointer, target, content>>
area == <<staging, payload, next>>
installGhosts == <<swept, overlapped, abandoned, wasCurrent>>
installVars == <<disk, area, at, seen, activation, faults, installGhosts>>

Steps == {"reading", "mkdir", "download", "access", "unpack", "files", "publish",
          "pointer", "switch", "sweep"}
Undo  == {"unpublish", "unstage"}

InstallerInit ==
    /\ pointer = None /\ target = {} /\ content = [v \in Version |-> {}]
    /\ staging = [r \in Run |-> "none"] /\ payload = [r \in Run |-> {}]
    /\ next = [r \in Run |-> 1]
    /\ at = [r \in Run |-> "idle"] /\ seen = [r \in Run |-> None]
    /\ activation = [step |-> "idle", version |-> None, entry |-> 1]
    /\ faults = 0 /\ swept = FALSE /\ overlapped = FALSE /\ abandoned = FALSE /\ wasCurrent = {}

Goto(r, step) == at' = [at EXCEPT ![r] = step]

(***************************************************************************)
(* readInstalledRecords() reads the pointer, then the manifest of the      *)
(* version it names; a record it cannot read counts as nothing installed.  *)
(***************************************************************************)
Start(r) ==
    /\ at[r] = "idle" /\ Goto(r, "reading")
    /\ seen' = [seen EXCEPT ![r] = pointer]
    /\ overlapped' = (overlapped \/ \E q \in Run : at[q] # "idle")
    /\ UNCHANGED <<disk, area, faults, swept, abandoned, wasCurrent>>

Installed(r) == IF seen[r] # None /\ Manifest \in content[seen[r]] THEN seen[r] ELSE None

\* Mutant: an adapter that is installed is never updated.
Plan_NeverUpdates(r) ==
    /\ at[r] = "reading"
    /\ Goto(r, IF Installed(r) = None THEN "mkdir" ELSE "idle")
    /\ seen' = [seen EXCEPT ![r] = None]
    /\ UNCHANGED <<disk, area, faults, installGhosts>>

\* createReleaseFeedPlanner(): install-available, update-available or up-to-date.
Plan(r) ==
    /\ at[r] = "reading"
    /\ Goto(r, IF Release[r] > Installed(r) THEN "mkdir" ELSE "idle")
    /\ seen' = [seen EXCEPT ![r] = None]
    /\ UNCHANGED <<disk, area, faults, installGhosts>>

MakeStaging(r) ==
    /\ at[r] = "mkdir" /\ Goto(r, "download")
    /\ staging' = [staging EXCEPT ![r] = "made"]
    /\ payload' = [payload EXCEPT ![r] = {}] /\ next' = [next EXCEPT ![r] = 1]
    /\ UNCHANGED <<disk, seen, faults, installGhosts>>

\* The download, and its size, digest and signature (Fault when one is wrong).
Download(r) ==
    /\ at[r] = "download" /\ Goto(r, "access")
    /\ UNCHANGED <<disk, area, seen, faults, installGhosts>>

\* Mutant: the catch removes the version directory although another run has published it.
HasPublished_Always(r) == at[r] \in Steps
\* Mutant: what was published counts only when the pointer has been written.
HasPublished_Late(r) == at[r] = "switch"
\* The catch of install(): what this run has published goes first, then its staging directory.
HasPublished(r) == at[r] \in {"pointer", "switch"}
Caught(r) == Goto(r, IF HasPublished(r) THEN "unpublish" ELSE "unstage")

\* `adapter version is already installed' is thrown inside the try.
Access(r) ==
    /\ at[r] = "access"
    /\ IF Release[r] \in target THEN Caught(r) ELSE Goto(r, "unpack")
    /\ UNCHANGED <<disk, area, seen, faults, installGhosts>>

\* extractAdapterPackage() makes its directory without making its parents ...
Unpack(r) ==
    /\ at[r] = "unpack"
    /\ IF staging[r] = "none"
         THEN Caught(r) /\ UNCHANGED staging
         ELSE Goto(r, "files") /\ staging' = [staging EXCEPT ![r] = "payload"]
    /\ UNCHANGED <<disk, payload, next, seen, faults, installGhosts>>

\* ... but each file with them, whatever has become of the directory meanwhile.
UnpackFile(r) ==
    /\ at[r] = "files" /\ next[r] <= Files
    /\ staging' = [staging EXCEPT ![r] = "payload"]
    /\ payload' = [payload EXCEPT ![r] = @ \cup {next[r]}]
    /\ next' = [next EXCEPT ![r] = @ + 1]
    /\ UNCHANGED <<disk, at, seen, faults, installGhosts>>

\* The manifest is written last, into a directory that must exist.
WriteManifest(r) ==
    /\ at[r] = "files" /\ next[r] > Files
    /\ IF staging[r] # "payload"
         THEN Caught(r) /\ UNCHANGED payload
         ELSE Goto(r, "publish") /\ payload' = [payload EXCEPT ![r] = @ \cup {Manifest}]
    /\ UNCHANGED <<disk, staging, next, seen, faults, installGhosts>>

\* rename() of the payload: fails when it is gone, or on a directory that has something in it.
Publishes(r) == staging[r] = "payload" /\ Release[r] \notin target

Publish(r) ==
    /\ at[r] = "publish"
    /\ IF Publishes(r)
         THEN /\ Goto(r, "pointer")
              /\ target' = target \cup {Release[r]}
              /\ content' = [content EXCEPT ![Release[r]] = payload[r]]
              /\ staging' = [staging EXCEPT ![r] = "made"]
              /\ payload' = [payload EXCEPT ![r] = {}]
         ELSE Caught(r) /\ UNCHANGED <<target, content, staging, payload>>
    /\ UNCHANGED <<pointer, next, seen, faults, installGhosts>>

\* current.json.<uuid>.tmp is written ...
WritePointer(r) ==
    /\ at[r] = "pointer" /\ Goto(r, "switch")
    /\ UNCHANGED <<disk, area, seen, faults, installGhosts>>

\* ... and renamed onto current.json.  Only runSeedInstall cleans up afterwards.
Switch(r) ==
    /\ at[r] = "switch"
    /\ Goto(r, IF r \in Seeder THEN "sweep" ELSE "idle")
    /\ pointer' = Release[r] /\ wasCurrent' = wasCurrent \cup {Release[r]}
    /\ UNCHANGED <<target, content, area, seen, faults, swept, overlapped, abandoned>>

\* rm of all of .staging, that of other runs included.
Sweep(r) ==
    /\ at[r] = "sweep" /\ Goto(r, "idle")
    /\ staging' = [q \in Run |-> "none"] /\ payload' = [q \in Run |-> {}]
    /\ swept' = (swept \/ \E q \in Run \ {r} : payload[q] # {})
    /\ UNCHANGED <<disk, next, seen, faults, overlapped, abandoned, wasCurrent>>

\* A step that can throw does: the disk is full, a digest or a signature is wrong.
\* The mkdir of the staging directory comes before the try.
Fault(r) ==
    /\ at[r] \in Steps \ {"reading", "sweep"} /\ faults < MaxFaults
    /\ IF at[r] = "mkdir" THEN Goto(r, "idle") ELSE Caught(r)
    /\ faults' = faults + 1
    /\ UNCHANGED <<disk, area, seen, installGhosts>>

\* rm -r of the version directory: one entry after the other, the directory with the last.
Unpublish(r) ==
    /\ at[r] = "unpublish"
    /\ LET left == content[Release[r]]
       IN \E e \in left :
            /\ content' = [content EXCEPT ![Release[r]] = left \ {e}]
            /\ IF left = {e} THEN Goto(r, "unstage") /\ target' = target \ {Release[r]}
                             ELSE UNCHANGED <<at, target>>
    /\ UNCHANGED <<pointer, area, seen, faults, installGhosts>>

Unstage(r) ==
    /\ at[r] = "unstage" /\ Goto(r, "idle")
    /\ staging' = [staging EXCEPT ![r] = "none"] /\ payload' = [payload EXCEPT ![r] = {}]
    /\ UNCHANGED <<disk, next, seen, faults, installGhosts>>

\* The process is killed: nothing is undone, and the staging directory belongs to nobody.
Crash(r) ==
    /\ at[r] # "idle" /\ faults < MaxFaults
    /\ Goto(r, "idle") /\ faults' = faults + 1 /\ abandoned' = TRUE
    /\ staging' = [staging EXCEPT ![r] = "none"] /\ payload' = [payload EXCEPT ![r] = {}]
    /\ seen' = [seen EXCEPT ![r] = None]
    /\ UNCHANGED <<disk, next, swept, overlapped, wasCurrent>>

\* The catch ignores the errors of its rm, and runSeedInstall those of the sweep: what is not
\* removed stays.  A staging directory that stays belongs to nobody.
RemovalFails(r) ==
    /\ at[r] \in {"unpublish", "sweep"} /\ faults < MaxFaults
    /\ Goto(r, IF at[r] = "unpublish" THEN "unstage" ELSE "idle")
    /\ faults' = faults + 1 /\ abandoned' = (abandoned \/ at[r] = "unpublish")
    /\ UNCHANGED <<disk, area, seen, swept, overlapped, wasCurrent>>

Advance(r) ==
    \/ Plan(r) \/ MakeStaging(r) \/ Download(r) \/ Access(r) \/ Unpack(r) \/ UnpackFile(r)
    \/ WriteManifest(r) \/ Publish(r) \/ WritePointer(r) \/ Switch(r) \/ Sweep(r)
    \/ Unpublish(r) \/ Unstage(r)

-----------------------------------------------------------------------------
\* The agent's load() of the installed adapter, at each start of it.

Entrypoint == 1

At(step) == activation' = [activation EXCEPT !.step = step]

\* inspect() reads current.json ...
ReadPointer ==
    /\ activation.step \in {"idle", "loaded", "refused"} /\ pointer # None
    /\ activation' = [step |-> "manifest", version |-> pointer, entry |-> 1]

\* ... and then the manifest of the version it names.
ReadManifest ==
    /\ activation.step = "manifest"
    /\ At(IF Manifest \in content[activation.version] THEN "entries" ELSE "refused")

\* Mutant: the manifest's signature is verified, the files are not.
VerifyEntry_Trusts == activation.step = "entries" /\ At("verified")

\* verifyPackageEntries() reads one file after the other.
VerifyEntry ==
    /\ activation.step = "entries"
    /\ IF activation.entry \notin content[activation.version] THEN At("refused")
       ELSE IF activation.entry = Files THEN At("verified")
       ELSE activation' = [activation EXCEPT !.entry = @ + 1]

\* import() of the entry point; its factory makes the adapter.
LoadModule ==
    /\ activation.step = "verified"
    /\ At(IF Entrypoint \in content[activation.version] THEN "loaded" ELSE "refused")

Activate == ReadPointer \/ ReadManifest \/ VerifyEntry \/ LoadModule

InstallerNext ==
    \/ UNCHANGED activation
         /\ \E r \in Run : Start(r) \/ Advance(r) \/ Fault(r) \/ RemovalFails(r) \/ Crash(r)
    \/ Activate /\ UNCHANGED <<disk, area, at, seen, faults, installGhosts>>

\* Both programs are started again and again, and an await of a run settles.
InstallerFair ==
    \A r \in Run : /\ WF_installVars(UNCHANGED activation /\ Start(r))
                   /\ WF_installVars(UNCHANGED activation /\ Advance(r))
InstallerSpec == InstallerInit /\ [][InstallerNext]_installVars /\ InstallerFair

-----------------------------------------------------------------------------
\* The type invariant: a run that has published has a version directory, and
\* a run at rest after a failure leaves nothing of its own (adapter-installer.mjs:209).
InstallerTypeOK ==
    /\ pointer \in Version \cup {None} /\ target \subseteq Version
    /\ \A v \in Version : content[v] \subseteq Content /\ (content[v] # {} <=> v \in target)
    /\ at \in [Run -> {"idle"} \cup Steps \cup Undo] /\ seen \in [Run -> Version \cup {None}]
    /\ \A r \in Run : /\ staging[r] \in {"none", "made", "payload"}
                       /\ payload[r] \subseteq Content /\ (payload[r] # {} => staging[r] = "payload")
                       /\ next[r] \in 1..(Files + 1)
    /\ faults \in 0..MaxFaults /\ wasCurrent \subseteq Version

\* The version current.json names is there with its manifest, whatever failed or was
\* killed, and with every file of its package unless a seed run has swept away the
\* files another run had unpacked.  A version once named stays: who has read the pointer,
\* and reads the manifest later, finds it (adapter-runtime.mjs:80).
CurrentIsWhole ==
    /\ pointer # None => /\ Manifest \in content[pointer]
                         /\ swept \/ content[pointer] = Content
    /\ \A r \in Run : seen[r] # None => Manifest \in content[seen[r]]

\* Only a crash, or a failing removal, leaves a version directory that was never current: a failed
\* run removes what it has published, so that a retry does not meet `already installed'.
LeftoversOnlyByCrash ==
    abandoned \/ \A v \in target \ wasCurrent : \E r \in Run : Release[r] = v /\ at[r] \in {"pointer", "switch", "unpublish"}

\* Whatever steps fail, the newest release offered gets installed in the end and stays
\* current, unless a run was killed or could not clean up, or two overlapped (see the hazards).
Newest == CHOOSE v \in Version : \A w \in Version : w <= v
Converges == <>[](pointer = Newest \/ abandoned \/ overlapped)

\* The agent's adapter is a whole, verified package, and stays one while newer versions are
\* installed, fail and are undone around it; what it found installed it can also activate,
\* unless a seed run has swept away some of the files.
ActivatedIsWhole ==
    /\ activation.step \in {"verified", "loaded"} => content[activation.version] = Content
    /\ activation.step = "refused" => swept

\* What is on the disk can be used, and can be installed anew.
InstallIsWhole == CurrentIsWhole /\ LeftoversOnlyByCrash /\ ActivatedIsWhole
=============================================================================
