------------------------------ MODULE Deployment ------------------------------
(***************************************************************************)
(* What is run beside a deployed service, as two specifications that share *)
(* no state: RotationSpec and EvidenceSpec.                                *)
(*                                                                         *)
(* rotateTlsCertificatePair of scripts/deployment/tls-rotation.mjs: a key  *)
(* and its certificate are staged, the old ones put aside, the new ones    *)
(* renamed into place and the backups removed; any of these may fail, and  *)
(* the process may be killed between two of them.  The names carry the     *)
(* process id and the time, so that no other rotation meets these files.   *)
(*                                                                         *)
(* The evidence a release needs: the rollout of the production services    *)
(* and its report (scripts/deployment/production-rollout.mjs), the signing *)
(* of a package manifest (scripts/native/release-manifest.mjs,             *)
(* sign-release.mjs, verify-release.mjs) and the assessment of all reports *)
(* (scripts/roadmap/acceptance.mjs).  Every await of a rollout is a step;  *)
(* the services answer as they like.  A report is the record the file      *)
(* holds; a report of the other gates is its target and whether it has all *)
(* the gate asks for (HostMachine has two of these gates in full).         *)
(* `seen' and `backing' are history: what a rollout has really observed,   *)
(* and the one whose report is on disk.                                    *)
(***************************************************************************)
EXTENDS Integers, Sequences, SequencesExt

CONSTANTS MaxErrors,    \* bound: file operations of a rotation that fail
          Target,       \* platforms, devices and providers that gates ask about
          MaxRollouts   \* bound: rollouts that are run

VARIABLES live,      \* [File -> what is under the target name]
          backup,    \* [File -> what is under the backup name]
          staged,    \* the files with a .tmp
          backedUp, published,   \* keyBackedUp and certBackedUp, ...
          step,      \* the next of the awaits
          errors,    \* <<step, ...>> that failed
          killed
tlsVars == <<live, backup, staged, backedUp, published, step, errors, killed>>

File == {"key", "cert"}

\* What is awaited, each for the key and then for the certificate: the body of the try block,
\* the catch block and the finally block.
Await == <<"stage", "put aside", "publish", "drop", "unpublish", "restore", "unstage", "forget">>
FirstUndo == 9
FirstClean == 13
Over == step > 2 * Len(Await)
Operating == Await[(step + 1) \div 2]
Subject == IF step % 2 = 1 THEN "key" ELSE "cert"

\* The pair of before, or the first pair of a new deployment.
RotationInit ==
  /\ live \in [File -> {"old", "none"}]
  /\ backup = [f \in File |-> "none"] /\ staged = {} /\ backedUp = {} /\ published = {}
  /\ step = 1 /\ errors = <<>> /\ killed = FALSE
-----------------------------------------------------------------------------
Op(op) == ~Over /\ ~killed /\ Operating = op

\* After the last step of the body the catch block is passed over.
Onward == step' = IF step = FirstUndo - 1 THEN FirstClean ELSE step + 1

\* writeFile and chmod of one file.
Stage ==
  /\ Op("stage") /\ staged' = staged \cup {Subject}
  /\ Onward /\ UNCHANGED <<live, backup, backedUp, published, errors, killed>>

\* ENOENT is no error: there was nothing to put aside.
PutAside ==
  /\ Op("put aside")
  /\ IF live[Subject] = "none" THEN UNCHANGED <<live, backup, backedUp>>
     ELSE /\ live' = [live EXCEPT ![Subject] = "none"]
          /\ backup' = [backup EXCEPT ![Subject] = live[Subject]]
          /\ backedUp' = backedUp \cup {Subject}
  /\ Onward /\ UNCHANGED <<staged, published, errors, killed>>

Publish ==
  /\ Op("publish") /\ staged' = staged \ {Subject}
  /\ live' = [live EXCEPT ![Subject] = "new"] /\ published' = published \cup {Subject}
  /\ Onward /\ UNCHANGED <<backup, backedUp, errors, killed>>

Drop ==
  /\ Op("drop") \/ Op("forget") \/ Op("unstage")
  /\ IF Op("unstage") THEN staged' = staged \ {Subject} /\ UNCHANGED backup
     ELSE backup' = [backup EXCEPT ![Subject] = "none"] /\ UNCHANGED staged
  /\ Onward /\ UNCHANGED <<live, backedUp, published, errors, killed>>

Unpublish ==
  /\ Op("unpublish")
  /\ live' = IF Subject \in published THEN [live EXCEPT ![Subject] = "none"] ELSE live
  /\ Onward /\ UNCHANGED <<backup, staged, backedUp, published, errors, killed>>

Restore ==
  /\ Op("restore")
  /\ IF backup[Subject] # "none"
     THEN /\ live' = [live EXCEPT ![Subject] = backup[Subject]]
          /\ backup' = [backup EXCEPT ![Subject] = "none"]
     ELSE UNCHANGED <<live, backup>>
  /\ Onward /\ UNCHANGED <<staged, backedUp, published, errors, killed>>

\* The steps that call the file system: a step of the catch block may have nothing to do.
Calls ==
  /\ ~Over /\ ~killed
  /\ Op("drop") \/ Op("restore") => Subject \in backedUp
  /\ Op("unpublish") => Subject \in published
  /\ Op("unstage") => Subject \in staged
  /\ Op("forget") => backup[Subject] # "none"

\* Mutant: an error while the pair is published leaves it to the cleaning.
StepFails_NoUndo ==
  /\ Calls /\ Len(errors) < MaxErrors
  /\ errors' = Append(errors, <<Operating, Subject>>)
  /\ \/ Op("stage") /\ staged' = staged \cup {Subject}
     \/ UNCHANGED staged
  /\ step' = IF step >= FirstUndo THEN step + 1
             ELSE IF Op("publish") THEN FirstClean ELSE FirstUndo
  /\ UNCHANGED <<live, backup, backedUp, published, killed>>

\* An error of the body goes to the catch block, a later one is swallowed.  A file may
\* have been written before chmod failed.
StepFails ==
  /\ Calls /\ Len(errors) < MaxErrors
  /\ errors' = Append(errors, <<Operating, Subject>>)
  /\ \/ Op("stage") /\ staged' = staged \cup {Subject}
     \/ UNCHANGED staged
  /\ step' = IF step >= FirstUndo THEN step + 1 ELSE FirstUndo
  /\ UNCHANGED <<live, backup, backedUp, published, killed>>

Killed ==
  /\ ~Over /\ ~killed /\ killed' = TRUE
  /\ UNCHANGED <<live, backup, staged, backedUp, published, step, errors>>

RotationNext ==
  Stage \/ PutAside \/ Publish \/ Drop \/ Unpublish \/ Restore \/ StepFails \/ Killed

RotationSpec == RotationInit /\ [][RotationNext]_tlsVars
-----------------------------------------------------------------------------
Mixed == {live["key"], live["cert"]} = {"old", "new"}
Lost(f) == f \in backedUp /\ live[f] = "none" /\ backup[f] = "none"
LateError == errors = <<<<"drop", "cert">>>>
\* What each file should be once the rotation is over.
Outcome(f) == IF errors # <<>> /\ errors[1][1] \notin {"unstage", "forget"} THEN "old" ELSE "new"

\* A server that starts at any instant, of a rotation or after one that was killed, finds no
\* key beside a certificate of another pair; the old pair is under one of its names until the
\* new one is published; and a rotation that met one error has put the old pair back, with one
\* exception, an error while the second backup is removed (the first one is gone by then).
PairIsSafe ==
  /\ Mixed => Len(errors) > 1
  /\ Len(errors) <= 1 /\ ~LateError =>
       /\ \A f \in File : ~Lost(f)
       /\ Over => \A f \in File : f \in backedUp => live[f] = Outcome(f)
  /\ Over /\ errors = <<>> => live = [f \in File |-> "new"] /\ staged = {}
-----------------------------------------------------------------------------
VARIABLES options,   \* the flags of this rollout
          progress,  \* what it does next
          deployed,  \* the services that compose has (re)started
          answer,    \* what the primary health endpoint has said of the broker
          turn,      \* what the check of the credentials has found
          exit,      \* the code it ended with, -1 before
          production,   \* the report on disk
          manifest,  \* the manifest of a package: its state and what its signature covers
          gate,      \* the gate the assessment looks at next, 0 when none runs
          blocked, verdict,
          seen, backing, judged, rollouts
evidenceVars == <<options, progress, deployed, answer, turn, exit, production, manifest, gate,
                  blocked, verdict, seen, backing, judged, rollouts>>
rolloutVars ==
  <<options, progress, deployed, answer, turn, exit, production, seen, backing, rollouts>>
assessVars == <<gate, blocked, verdict, judged>>

Options == [mode : {"plan", "unconfirmed", "execute"}, broker : BOOLEAN, turn : BOOLEAN,
            checkTurn : BOOLEAN, network : BOOLEAN, admin : BOOLEAN, checkAdmin : BOOLEAN,
            https : BOOLEAN]
NoOptions == [mode |-> "plan", broker |-> FALSE, turn |-> TRUE, checkTurn |-> FALSE,
              network |-> FALSE, admin |-> FALSE, checkAdmin |-> FALSE, https |-> TRUE]
NoEvidence == [required |-> {}, broker |-> "none", turn |-> "none", includeTurn |-> FALSE,
             tls |-> "none"]

EvidenceInit ==
  /\ options = NoOptions /\ progress = "idle" /\ deployed = {} /\ answer = "none" /\ turn = "none"
  /\ exit = -1 /\ production = NoEvidence /\ seen = {} /\ backing = {} /\ rollouts = 0
  /\ manifest = [state |-> "none", covers |-> "none"]
  /\ gate = 0 /\ blocked = FALSE /\ verdict = "none" /\ judged = {}
-----------------------------------------------------------------------------
Fail == progress' = "idle" /\ exit' = 1

\* createProductionRolloutPlan: --check-turn needs the relay and the admin endpoint.
PlanRejected(o) == o.checkTurn /\ (~o.turn \/ ~o.admin)
\* executeProductionRollout, before it runs anything.
ExecutionRejected(o) == o.checkAdmin /\ ~o.admin
Required == {"service"} \cup (IF options.broker THEN {"broker"} ELSE {})
                        \cup (IF options.checkTurn THEN {"turn-credential-service"} ELSE {})

\* The command line: a plan is only printed, an execution needs --confirm.
Rollout(o) ==
  /\ progress = "idle" /\ gate = 0 /\ rollouts < MaxRollouts /\ rollouts' = rollouts + 1
  /\ options' = o /\ answer' = "none" /\ turn' = "none" /\ seen' = {}
  /\ IF o.mode = "plan" /\ ~PlanRejected(o) THEN progress' = "idle" /\ exit' = 0
     ELSE IF PlanRejected(o) \/ o.mode = "unconfirmed" \/ ExecutionRejected(o) THEN Fail
     ELSE progress' = "preflight" /\ exit' = -1
  /\ UNCHANGED <<deployed, production, backing, manifest, assessVars>>

Keeps == UNCHANGED <<options, production, backing, rollouts, manifest, assessVars>>

\* docker compose config, docker compose up: a failing `up' may have started some services.
Preflight ==
  /\ progress = "preflight"
  /\ \/ progress' = "up" /\ UNCHANGED exit
     \/ Fail
  /\ UNCHANGED <<deployed, answer, turn, seen>> /\ Keeps
Services == {"signaling", "redis"} \cup (IF options.turn THEN {"turn"} ELSE {})
Up ==
  /\ progress = "up"
  /\ \/ deployed' = deployed \cup Services /\ progress' = "primary" /\ UNCHANGED exit
     \/ \E some \in SUBSET Services : deployed' = deployed \cup some /\ Fail
  /\ UNCHANGED <<answer, turn, seen>> /\ Keeps

\* checkHealth of the primary endpoint, and the broker it may have to speak of.
Primary(broker) ==
  /\ progress = "primary"
  /\ answer' = broker
  /\ IF broker = "error" \/ (options.broker /\ broker \notin {"redis ready", "memory ready"})
     THEN Fail /\ UNCHANGED seen
     ELSE /\ progress' = "admin" /\ UNCHANGED exit
          /\ seen' = {broker} \cup (IF options.https THEN {"https"} ELSE {})
  /\ UNCHANGED <<deployed, turn>> /\ Keeps

Admin ==
  /\ progress = "admin"
  /\ \/ progress' = "turn" /\ UNCHANGED exit
     \/ options.checkAdmin /\ Fail
  /\ UNCHANGED <<deployed, answer, turn, seen>> /\ Keeps

\* checkTurnCredentials, with the secret found missing only now; probeTurnEndpoints asks for a
\* connection to every URL.
CheckTurn(reached) ==
  /\ progress = "turn"
  /\ IF ~options.checkTurn THEN progress' = "report" /\ UNCHANGED <<turn, exit, seen>>
     ELSE \/ Fail /\ UNCHANGED <<turn, seen>>
          \/ /\ options.network => reached = "all"
             /\ turn' = IF options.network THEN "reachable" ELSE "ready"
             /\ seen' = seen \cup {"credentials"}
                             \cup (IF options.network THEN {"relays"} ELSE {})
             /\ progress' = "report" /\ UNCHANGED exit
  /\ UNCHANGED <<deployed, answer>> /\ Keeps

\* createProductionRolloutReport.
ProductionReport ==
  [required |-> Required, broker |-> answer, turn |-> turn, includeTurn |-> options.turn,
   tls |-> IF options.https THEN "configured" ELSE "loopback-development"]

\* The report is written, or not asked for; a failing write is a failing rollout.
WriteReport ==
  /\ progress = "report"
  /\ \/ production' = ProductionReport /\ backing' = seen /\ progress' = "idle" /\ exit' = 0
     \/ UNCHANGED <<production, backing>> /\ progress' = "idle" /\ exit' \in {0, 1}
  /\ UNCHANGED <<options, deployed, answer, turn, seen, rollouts, manifest, assessVars>>
-----------------------------------------------------------------------------
\* createUnsignedNativePackageManifest; the files are hashed one by one (flag wx: once).
CreateManifest ==
  /\ manifest.state = "none" /\ gate = 0
  /\ manifest' = [state |-> "unsigned", covers |-> "none"]
  /\ UNCHANGED <<rolloutVars, assessVars>>

\* The signing service may sign what it was sent or the normalised manifest, which has a
\* totalBytes more.  Its answer is normalised, compared without totalBytes (another manifest
\* is refused) and written, with totalBytes.
SignManifest(covers) ==
  /\ manifest.state = "unsigned" /\ gate = 0
  /\ manifest' = [state |-> "signed", covers |-> covers]
  /\ UNCHANGED <<rolloutVars, assessVars>>

\* verifyReleaseManifest: the signature is verified over the written manifest, totalBytes and
\* all.  It throws when it does not fit.
Verified == manifest.state = "signed" /\ manifest.covers = "normalised"
-----------------------------------------------------------------------------
\* Mutant: the network is not looked at.
ProductionGate_NoNetwork(r) ==
  /\ r.broker = "redis ready" /\ "broker" \in r.required
  /\ r.turn \in {"ready", "reachable"} /\ r.includeTurn
  /\ "turn-credential-service" \in r.required /\ r.tls = "configured"

\* productionGate.
ProductionGate(r) ==
  /\ r.broker = "redis ready" /\ "broker" \in r.required
  /\ r.turn = "reachable" /\ r.includeTurn
  /\ "turn-credential-service" \in r.required /\ r.tls = "configured"

\* The gates of the other reports, in the order they are assessed.  Two take one report.
Gates == <<"hardware", "virtual", "signing", "steamOs", "visuals", "inputs", "offline",
           "providers", "candidate">>
Single == {"inputs", "candidate"}
Reports == [target : Target, whole : BOOLEAN]
Given(g) ==
  IF g \in Single THEN { <<r>> : r \in Reports } ELSE SeqOf(Reports, 2)

\* rejectDuplicateReports.
Duplicate(reports) ==
  \E i, j \in DOMAIN reports : i # j /\ reports[i].target = reports[j].target

\* hardwareGate ... releaseCandidateGate: every target has a report with all of it verified.
\* Reports of a target are put into a Map, where the last one stays.
Exercised(reports, targets) ==
  \A t \in targets : \E i \in DOMAIN reports :
    /\ reports[i].target = t /\ reports[i].whole
    /\ \A j \in DOMAIN reports : j > i => reports[j].target # t

\* assessRoadmapAcceptanceWithSignedManifests: signed manifests are verified first, and then
\* count as reports of their platform; expectedProviderIds may be empty.
Assess ==
  /\ progress = "idle" /\ gate = 0 /\ production # NoEvidence /\ gate' = 1
  /\ manifest.state = "signed" => Verified
  /\ blocked' = ~ProductionGate(production)
  /\ verdict' = "none" /\ judged' = backing \cup {"whole"}
  /\ UNCHANGED <<rolloutVars, manifest>>

AssessGate ==
  /\ gate \in DOMAIN Gates
  /\ \E reports \in Given(Gates[gate]), targets \in {{}, Target} :
       /\ targets = {} => Gates[gate] = "providers"
       /\ IF Duplicate(reports)
          THEN /\ gate' = 0 /\ verdict' = "failed"   \* exit code 1, no new report
               /\ UNCHANGED <<blocked, judged>>
          ELSE /\ LET met == IF Gates[gate] \in Single THEN reports[1].whole
                             ELSE targets # {} /\ Exercised(reports, targets)
                  IN  /\ blocked' = (blocked \/ ~met)
                      /\ judged' = IF \A i \in DOMAIN reports : reports[i].whole THEN judged
                                  ELSE judged \ {"whole"}
               /\ IF gate = Len(Gates)
                  THEN gate' = 0 /\ verdict' = IF blocked' THEN "incomplete" ELSE "complete"
                  ELSE gate' = gate + 1 /\ UNCHANGED verdict
  /\ UNCHANGED <<rolloutVars, manifest>>

EvidenceNext ==
  \/ \E o \in Options : Rollout(o)
  \/ Preflight \/ Up \/ Admin \/ WriteReport
  \/ \E b \in {"redis ready", "memory ready", "degraded", "none", "error"} : Primary(b)
  \/ \E r \in {"all", "some"} : CheckTurn(r)
  \/ CreateManifest \/ \E c \in {"sent", "normalised"} : SignManifest(c)
  \/ Assess \/ AssessGate

EvidenceSpec == EvidenceInit /\ [][EvidenceNext]_evidenceVars
-----------------------------------------------------------------------------
\* What a rollout has to have seen itself for its report to count.
Observations == {"redis ready", "https", "credentials", "relays"}

\* A release is complete only on evidence: the rollout whose report is read has itself seen the
\* Redis broker ready behind HTTPS, received credentials and connected to every relay; no report
\* that misses something was hidden behind another one of its target.  A rollout
\* that ends well has seen what it was told to require, and one that is not confirmed, or is
\* rejected for its flags, has started nothing.
EvidenceIsReal ==
  /\ verdict = "complete" => Observations \cup {"whole"} \subseteq judged
  /\ exit = 0 /\ options.mode = "execute" =>
       /\ options.broker => seen \cap {"redis ready", "memory ready"} # {}
       /\ options.checkTurn => "credentials" \in seen
       /\ options.checkTurn /\ options.network => "relays" \in seen
       /\ Services \subseteq deployed
  /\ progress \notin {"idle"} => options.mode = "execute" /\ ~PlanRejected(options)
=============================================================================
