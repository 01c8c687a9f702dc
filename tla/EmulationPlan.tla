----------------------------- MODULE EmulationPlan -----------------------------
(***************************************************************************)
(* The launch plan of the emulation page: the files the user picks, the    *)
(* runtime profiles, the plan made of them (emulation.mjs, integration.mjs,*)
(* runtime-profiles.mjs), and the request it leaves for a host             *)
(* (host-launch.mjs).  The browser's own emulator is BrowserEmulation.     *)
(*                                                                         *)
(* What is remembered is metadata: a file can be used in the page that     *)
(* picked it only.  Storage accepts every write.                           *)
(***************************************************************************)
EXTENDS Integers, Sequences, SequencesExt

CONSTANTS Core, NeedsFirmware, RunsInBrowser,  \* the catalogue's cores, and two kinds of them
          GameFile, FirmwareFile,
          ProfileRecord, \* what a user may save: [id, kind, platform, trust]
          MaxGames,      \* bound: games picked
          MaxRemembered  \* the limit of the library

VARIABLES catalog,    \* "loading", "failed", "hidden", "shown" or, once hidden, "late"
          preference, \* emulation.frontend
          report,     \* the browser's capabilities: "none", "graphics" or "plain"
          games, firmware, \* state.gameFiles, state.firmwareFiles
          hashing,    \* firmware whose digest is being computed
          remembered, \* the library's files, the newest first
          profiles,   \* the runtime profiles in the order they were added
          launch,     \* the plan that is shown
          agreed,     \* the plan the box is ticked for, and the host's content named
          left        \* the request that was saved, and what was agreed to then: the page is left
planVars == <<catalog, preference, report, games, firmware, hashing, remembered, profiles, launch,
              agreed, left>>

Nothing == [core |-> "none"]
PlanInit ==
  /\ games = <<>> /\ firmware = {} /\ hashing = {} /\ launch = Nothing /\ agreed = Nothing
  /\ catalog = "loading" /\ preference = "automatic" /\ report = "none" /\ left = <<>>
  /\ remembered = <<>> /\ profiles = <<>>

On == left = <<>> /\ UNCHANGED left
\* renderCores(): a catalogue that was hidden by an error is shown by the next rendering.
Renders == catalog' = IF catalog = "hidden" THEN "late" ELSE catalog

-----------------------------------------------------------------------------
\* What the settings come to; a preference for a Libretro host is one for a native runtime.
Preference == {"automatic", "native", "browser"}
\* loadCores(): the settings are read before the catalogue is; the manager's model may throw after
\* the cores were kept, and then the capabilities are never collected.
LoadCores(to) ==
  /\ On /\ catalog = "loading" /\ to \in {"failed", "hidden", "shown"}
  /\ catalog' = to
  /\ preference' \in Preference
  /\ UNCHANGED <<report, games, firmware, hashing, remembered, profiles, launch, agreed>>
Collected ==
  /\ On /\ catalog = "shown" /\ report = "none"
  /\ report' \in {"graphics", "plain"}
  /\ UNCHANGED <<catalog, preference, games, firmware, hashing, remembered, profiles, launch,
                 agreed>>

\* createEmulationLibraryStore().add(): the new entries first, no entry twice, the oldest dropped.
Remember(file) ==
  LET all == <<file>> \o SelectSeq(remembered, LAMBDA other : other # file)
  IN remembered' = SubSeq(all, 1, IF Len(all) < MaxRemembered THEN Len(all) ELSE MaxRemembered)
PickGame(file) ==
  /\ On /\ Len(games) < MaxGames
  /\ games' = Append(games, file)
  /\ Remember(file) /\ Renders
  /\ UNCHANGED <<preference, report, firmware, hashing, profiles, launch, agreed>>

\* A firmware file counts when its digest is known.
\* Mutant: it is added at once and hashed meanwhile.
PickFirmware_AtOnce(file) ==
  /\ On /\ file \notin hashing
  /\ hashing' = hashing \cup {file}
  /\ firmware' = firmware \cup {[file |-> file, digest |-> FALSE]}
  /\ UNCHANGED <<catalog, preference, report, games, remembered, profiles, launch, agreed>>
PickFirmware(file) ==
  /\ On /\ file \notin hashing
  /\ hashing' = hashing \cup {file}
  /\ UNCHANGED <<catalog, preference, report, games, firmware, remembered, profiles, launch,
                 agreed>>
Hashed(file) ==
  /\ On /\ file \in hashing
  /\ hashing' = hashing \ {file}
  /\ firmware' = firmware \cup {[file |-> file, digest |-> TRUE]}
  /\ Remember(file) /\ Renders
  /\ UNCHANGED <<preference, report, games, profiles, launch, agreed>>
\* Too large, unreadable, or no Web Crypto: the whole batch is dropped.
HashFails(file) ==
  /\ On /\ file \in hashing
  /\ hashing' = hashing \ {file}
  /\ UNCHANGED <<catalog, preference, report, games, firmware, remembered, profiles, launch,
                 agreed>>

\* Forget and clear touch what is remembered, not what is picked.
Forget(files) ==
  /\ On /\ remembered # <<>>
  /\ remembered' = SelectSeq(remembered, LAMBDA file : file \notin files)
  /\ UNCHANGED <<catalog, preference, report, games, firmware, hashing, profiles, launch, agreed>>

SaveProfile(record) ==
  /\ On
  /\ profiles' = IF \E i \in DOMAIN profiles : profiles[i].id = record.id
                 THEN [i \in DOMAIN profiles |->
                         IF profiles[i].id = record.id THEN record ELSE profiles[i]]
                 ELSE Append(profiles, record)
  /\ Renders
  /\ UNCHANGED <<preference, report, games, firmware, hashing, remembered, launch, agreed>>
RemoveProfile(id) ==
  /\ On
  /\ \E i \in DOMAIN profiles : profiles[i].id = id /\ profiles' = RemoveAt(profiles, i)
  /\ Renders
  /\ UNCHANGED <<preference, report, games, firmware, hashing, remembered, launch, agreed>>

-----------------------------------------------------------------------------
\* runtimeFor() and resolveRuntimeProfile().  A profile for a named platform never matches: the
\* page compares it with what the browser calls its platform (`Windows', `Linux x86_64'), and with
\* `browser' until the capabilities are known.
RuntimeFor(core) ==
  IF preference # "automatic" THEN preference
  ELSE IF core \in RunsInBrowser THEN "browser" ELSE "native"
BrowserReady(core) == RuntimeFor(core) = "browser" /\ report = "graphics"
\* Mutant: a profile nobody has approved is selected like any other.
Matches_Untrusted(core, profile) ==
  /\ profile.platform \in IF report = "none" THEN {"any", "browser"} ELSE {"any"}
  /\ profile.kind = RuntimeFor(core)
Matches(core, profile) ==
  /\ profile.trust # "unverified"
  /\ profile.platform \in IF report = "none" THEN {"any", "browser"} ELSE {"any"}
  /\ profile.kind = RuntimeFor(core)
Profile(core) ==
  LET matching == {i \in DOMAIN profiles : Matches(core, profiles[i])}
      first == profiles[CHOOSE i \in matching : \A j \in matching : i <= j]
  IN IF BrowserReady(core) THEN [id |-> "built-in", trust |-> "signed"]
     ELSE IF matching = {} THEN [id |-> "none", trust |-> "none"]
     ELSE [id |-> first.id, trust |-> first.trust]

\* createEmulationLaunchPlan(): the first game of the page, all firmware; `ready' even when no
\* profile was found.  A new plan is shown with its box unticked.
\* Mutant: the ticked box of the plan before is taken over.
Prepare_KeepsTick(core) ==
  /\ On /\ catalog \in {"shown", "late"} /\ games # <<>>
  /\ core \in NeedsFirmware => firmware # {}
  /\ launch' = [core |-> core, runtime |-> RuntimeFor(core), profile |-> Profile(core),
                game |-> games[1], firmware |-> firmware]
  /\ UNCHANGED <<catalog, preference, report, games, firmware, hashing, remembered, profiles,
                 agreed>>
Prepare(core) ==
  /\ On /\ catalog \in {"shown", "late"} /\ games # <<>>
  /\ core \in NeedsFirmware => firmware # {}
  /\ launch' = [core |-> core, runtime |-> RuntimeFor(core), profile |-> Profile(core),
                game |-> games[1], firmware |-> firmware]
  /\ agreed' = Nothing
  /\ UNCHANGED <<catalog, preference, report, games, firmware, hashing, remembered, profiles>>

\* The plan offers a launch by a host: a native runtime with a profile.
NativeReady == launch # Nothing /\ launch.runtime = "native" /\ launch.profile.id # "none"
Tick ==
  /\ On /\ NativeReady
  /\ agreed' \in {launch, Nothing}
  /\ UNCHANGED <<catalog, preference, report, games, firmware, hashing, remembered, profiles,
                 launch>>
\* createNativeHostLaunchRequest() and savePendingLaunchHandoff(): the request is saved, the page
\* goes on to the host's.
PrepareNative ==
  /\ left = <<>> /\ NativeReady /\ agreed # Nothing /\ launch.profile.trust # "unverified"
  /\ left' = <<launch, agreed>>
  /\ UNCHANGED <<catalog, preference, report, games, firmware, hashing, remembered, profiles,
                 launch, agreed>>
\* The page is loaded again, with what was stored.
Reload ==
  /\ games' = <<>> /\ firmware' = {} /\ hashing' = {} /\ launch' = Nothing /\ agreed' = Nothing
  /\ catalog' = "loading" /\ preference' = "automatic" /\ report' = "none" /\ left' = <<>>
  /\ UNCHANGED <<remembered, profiles>>

PlanNext ==
  \/ \E to \in {"failed", "hidden", "shown"} : LoadCores(to)
  \/ Collected
  \/ \E file \in GameFile : PickGame(file)
  \/ \E file \in FirmwareFile : PickFirmware(file) \/ Hashed(file) \/ HashFails(file)
  \/ \E files \in {{file} : file \in GameFile \cup FirmwareFile} \cup {GameFile \cup FirmwareFile} :
       Forget(files)
  \/ \E record \in ProfileRecord : SaveProfile(record) \/ RemoveProfile(record.id)
  \/ \E core \in Core : Prepare(core)
  \/ Tick \/ PrepareNative \/ Reload

PlanSpec == PlanInit /\ [][PlanNext]_planVars

-----------------------------------------------------------------------------
\* A plan is made of files this page's user picked, firmware with its digest and never missing
\* where the core needs it, and of a runtime the user has trusted: what is merely remembered, or
\* still being hashed, is not in it.
PlanIsPicked ==
  launch # Nothing =>
    /\ \E i \in DOMAIN games : games[i] = launch.game
    /\ launch.firmware \subseteq firmware
    /\ \A file \in launch.firmware : file.digest
    /\ launch.core \in NeedsFirmware => launch.firmware # {}
    /\ launch.profile.trust # "unverified"

\* The host is sent the very plan the user has agreed to, for a runtime it can launch.
RequestIsAgreed ==
  left # <<>> => left[1] = left[2] /\ left[1].runtime = "native"

LaunchIsAsked == PlanIsPicked /\ RequestIsAgreed
=============================================================================
