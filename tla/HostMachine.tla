---------------------------- MODULE HostMachine -----------------------------
(***************************************************************************)
(* The machine a host runs on: what the host comes up as with the packages *)
(* installed there, and the checks of those packages that leave evidence.  *)
(* The two share no state.                                                 *)
(***************************************************************************)
EXTENDS Integers, Sequences, SequencesExt

-----------------------------------------------------------------------------
(***************************************************************************)
(* What a host comes up as: its configuration (host/config.mjs) and the    *)
(* command line, the native package of its platform                        *)
(* (native-binding-loader.mjs), the driver of a virtual gamepad            *)
(* (virtual-gamepad-loader.mjs), what is made ready of both                *)
(* (environment.mjs), and what agent.mjs opens, shows and then serves to   *)
(* the one player who has its code.                                        *)
(*                                                                         *)
(* The machine is given, the configuration is any.  The control path and   *)
(* the native one (native-host.mjs) each have their own gate for input.    *)
(* What the connections do meanwhile is the subject of HostAgent and       *)
(* NativeHost; here each offer is answered in a step.                      *)
(***************************************************************************)
CONSTANTS Claims,    \* the sets of capabilities a package may claim
          Bindings   \* the sets of bindings it may really provide

VARIABLES installed, \* what is installed on it
          config,    \* the configuration and the command line, as they resolve
          boot,      \* what the agent does next
          native,    \* the package as it was loaded: its status and claims
          pad,       \* the status of the virtual gamepad's driver
          dispatches, \* the agent has an executor for input
          shown,     \* what the host says it can do
          code,      \* the pairing code was used
          session,   \* the session that was accepted, and what runs for it
          did        \* the last input: its kind and what carried it out
bootVars == <<installed, config, boot, native, pad, dispatches, shown, code, session, did>>

Installed == [package : {"absent", "broken", "valid"}, claims : Claims, binds : Bindings,
              werift : BOOLEAN, driver : {"none", "good", "wrong"}]

\* A configuration that normalizeHostConfig and the agent's own checks let pass.  `backend' is the
\* choice for virtual gamepads, `ours' the one of this platform; `sound' the codec.
Config == [input : BOOLEAN, pads : BOOLEAN, media : BOOLEAN, audio : BOOLEAN, sound : {"opus", "aac"},
           backend : {"Automatic", "ours", "foreign", "Disabled"}, game : {"none", "native", "proton"}]
Unread == [input |-> FALSE, pads |-> FALSE, media |-> FALSE, audio |-> FALSE, sound |-> "opus",
           backend |-> "Disabled", game |-> "none"]
Nothing == [transport |-> "none", av1 |-> FALSE, input |-> {}, audio |-> FALSE, game |-> FALSE]
NoSession == [path |-> "none", game |-> FALSE]
NoInput == [kind |-> "none", by |-> "none"]

BootInit ==
  /\ installed \in Installed
  /\ installed.package # "valid" => (installed.claims = {} /\ installed.binds = {})
  /\ config = Unread /\ boot = "start"
  /\ native = [status |-> "unread", claims |-> {}] /\ pad = "unread" /\ dispatches = FALSE
  /\ shown = Nothing /\ code = FALSE /\ session = NoSession /\ did = NoInput

Goes(stage) == boot' = stage /\ UNCHANGED <<installed, code, session, did>>

ReadConfig ==
  /\ boot = "start"
  /\ config' \in Config
  /\ Goes("package") /\ UNCHANGED <<native, pad, dispatches, shown>>
\* The agent does not come up: the file holds a secret or an unknown key, is another platform's, or
\* names an origin without TLS; half a certificate, a limit out of range, a game that is not
\* described, or Proton that was not allowed.
ConfigRefused ==
  /\ boot = "start"
  /\ Goes("exit")
  /\ UNCHANGED <<config, native, pad, dispatches, shown>>

\* loadPlatformNativeBindings: a package that is absent, does not load or returns something else
\* leaves the host without native capabilities.
LoadBindings ==
  /\ boot = "package"
  /\ native' = IF installed.package = "valid"
               THEN [status |-> "available", claims |-> installed.claims]
               ELSE [status |-> "unavailable", claims |-> {}]
  /\ Goes("driver") /\ UNCHANGED <<config, pad, dispatches, shown>>

\* loadVirtualGamepadAdapter: only from an installed, verified runtime; a package that is merely
\* named is not loaded.
\* Mutant: a package that is named is loaded without a runtime.
DriverStatus_Unverified ==
  IF config.backend = "Disabled" THEN "not-required"
  ELSE IF installed.driver = "good" \/ installed.driver = "none" THEN "available" ELSE "unavailable"
DriverStatus ==
  IF config.backend = "Disabled" THEN "not-required"
  ELSE IF installed.driver = "good" THEN "available"
  ELSE IF installed.driver = "wrong" THEN "unavailable" ELSE "unconfigured"
LoadDriver ==
  /\ boot = "driver"
  /\ pad' = DriverStatus
  /\ Goes("detect") /\ UNCHANGED <<config, native, dispatches, shown>>

\* detectHostRuntime.
VirtualInput == pad = "available"
InputReady == native.claims \cap {"keys", "pad", "rumble"} # {} \/ VirtualInput
InputClaims ==
  (native.claims \cap {"keys", "pad", "rumble"}) \cup (IF VirtualInput THEN {"pad"} ELSE {})
\* readiness.virtualGamepad: the package's own, unless the driver of a backend was asked for.
VirtualReady ==
  \/ "pad" \in native.claims /\ config.backend \in {"Automatic", "ours"}
  \/ VirtualInput /\ config.backend # "foreign"

\* createInputAdapterMux: the controls of a gamepad go to the driver when there is one, everything
\* else to the package's own input, which the driver stands in for when there is none.
Base == IF "input" \in installed.binds THEN "package" ELSE IF VirtualInput THEN "driver" ELSE "none"
Carrier(kind) == IF VirtualInput /\ kind \in {"pad", "rumble"} THEN "driver" ELSE Base

\* An executor for the control path: asked for, bound and ready.
\* Mutant: it is made whether or not input is enabled.
WantsExecutor_Always == Base # "none" /\ InputReady
WantsExecutor == config.input /\ Base # "none" /\ InputReady
Detect ==
  /\ boot = "detect"
  /\ dispatches' = WantsExecutor
  /\ Goes("media") /\ UNCHANGED <<config, native, pad, shown>>

\* --enable-native-media needs the WebRTC package and a binding that can plan a capture.
\* Mutant: the binding is not looked at before an offer comes.
CanCapture_Werift == installed.werift
CanCapture == installed.werift /\ "capture" \in installed.binds
OpenMedia ==
  /\ boot = "media"
  /\ Goes(IF config.media => CanCapture THEN "advertise" ELSE "exit")
  /\ UNCHANGED <<config, native, pad, dispatches, shown>>

\* The capabilities shown to a client: AV1 only when the package has found hardware for it.
\* Mutant: AV1 is shown whatever there is.
Video_Always == TRUE
Video == "av1" \in native.claims
Advertise ==
  /\ boot = "advertise"
  /\ shown' = [transport |-> IF config.media THEN "webrtc" ELSE "websocket", av1 |-> Video,
               input |-> InputClaims, audio |-> config.audio, game |-> config.game # "none"]
  /\ Goes("serving") /\ UNCHANGED <<config, native, pad, dispatches>>

\* An offer with the right code, and the launch of a game it may ask for; a launch that does not
\* match is refused before the code is used on the native path, after it on the other.
Offered == boot = "serving" /\ session = NoSession /\ ~code
Served == UNCHANGED <<installed, config, boot, native, pad, dispatches, shown>>
MatchesLaunch(launch) == launch = "right" /\ config.game # "none"

\* createNativeWeriftHostFromPlatformBindings and its session factory: with audio a binding that
\* plans it and a codec that can be packetized, and the game that was asked for.
\* Mutant: the audio's plan is taken for granted.
CanStart_NoAudio(launch) == config.game # "none" => launch = "right"
CanStart(launch) ==
  /\ config.audio => "audio" \in installed.binds /\ config.sound = "opus"
  /\ config.game # "none" => launch = "right"
NativeOffer(launch) ==
  /\ Offered /\ config.media
  /\ launch = "none" \/ MatchesLaunch(launch)
  /\ code' = TRUE
  /\ session' = IF CanStart(launch) THEN [path |-> "native", game |-> config.game # "none"]
                ELSE NoSession
  /\ UNCHANGED did /\ Served
ControlOffer(launch) ==
  /\ Offered /\ ~config.media
  /\ code' = TRUE
  /\ session' = IF launch = "none" \/ MatchesLaunch(launch)
                THEN [path |-> "control", game |-> launch = "right"] ELSE NoSession
  /\ UNCHANGED did /\ Served

\* createInputInjectionPlan: the permission a kind of event needs, and whether it was granted.
\* Keys are granted to the agent's executor whatever is configured, as it exists only with input
\* enabled; a native session's executor always exists.  Rumble is not granted to the latter.
VirtualGranted == config.input /\ config.pads /\ ("pad" \in native.claims \/ VirtualInput)
RumbleGranted == config.input /\ config.pads /\ "rumble" \in native.claims
\* Mutant: a native session may always use the keys.
NativeGrants_Keys == {"key"} \cup (IF VirtualGranted THEN {"pad"} ELSE {})
NativeGrants == (IF config.input THEN {"key"} ELSE {}) \cup (IF VirtualGranted THEN {"pad"} ELSE {})
ControlGrants ==
  {"key"} \cup (IF VirtualGranted THEN {"pad"} ELSE {}) \cup (IF RumbleGranted THEN {"rumble"} ELSE {})

Executes(kind) ==
  \/ session.path = "control" /\ dispatches /\ kind \in ControlGrants
  \/ session.path = "native" /\ Base # "none" /\ kind \in NativeGrants
InputEvent(kind) ==
  /\ session # NoSession
  /\ did' = IF Executes(kind) THEN [kind |-> kind, by |-> Carrier(kind)] ELSE NoInput
  /\ UNCHANGED <<code, session>> /\ Served

SessionCloses == session # NoSession /\ session' = NoSession /\ UNCHANGED <<code, did>> /\ Served

BootNext ==
  \/ ReadConfig \/ ConfigRefused \/ LoadBindings \/ LoadDriver \/ Detect \/ OpenMedia \/ Advertise
  \/ \E launch \in {"none", "right", "wrong"} : NativeOffer(launch) \/ ControlOffer(launch)
  \/ \E kind \in {"key", "pad", "rumble"} : InputEvent(kind)
  \/ SessionCloses

BootSpec == BootInit /\ [][BootNext]_bootVars

-----------------------------------------------------------------------------
\* Input is carried out only where the host's operator allowed it, and through what was verified:
\* nothing without `enable-input', no gamepad when gamepads are disabled, no driver that was not
\* installed and verified.  The driver of another platform's backend is not excluded: it is loaded
\* and used although the host's own readiness says it is not ready.
InputIsAllowed ==
  did # NoInput =>
    /\ config.input
    /\ did.kind \in {"pad", "rumble"} => config.pads
    /\ did.by = "driver" => installed.driver = "good" /\ config.backend # "Disabled"
    /\ did.by = "package" => "input" \in installed.binds

\* A session that was accepted has what it was accepted for: a capture that can be planned, sound
\* that can be sent if the host has sound at all, and the game only if one was configured.
SessionIsServed ==
  /\ session.path = "native" =>
       /\ installed.werift /\ installed.package = "valid" /\ "capture" \in installed.binds
       /\ shown.audio => "audio" \in installed.binds /\ config.sound = "opus"
  /\ session.game => shown.game
  /\ session # NoSession => code

\* What is shown to clients is what the machine has: no AV1 without hardware, and a gamepad only
\* from the package or a verified driver.
ShownIsThere ==
  boot = "serving" =>
    /\ shown.av1 => "av1" \in installed.claims
    /\ "pad" \in shown.input => "pad" \in installed.claims \/ installed.driver = "good"
    /\ VirtualReady => "pad" \in shown.input

HostComesUpHonest == InputIsAllowed /\ SessionIsServed /\ ShownIsThere

-----------------------------------------------------------------------------
(***************************************************************************)
(* The checks of a machine's native packages that leave evidence: of the   *)
(* desktop package (scripts/native/verify-desktop-capabilities.mjs), of    *)
(* Linux uinput (verify-linux-uinput.mjs) and of an installed virtual      *)
(* gamepad (verify-virtual-gamepad.mjs), with the bindings they exercise   *)
(* (native/linux, native/windows, native/desktop, host/adapter-runtime).   *)
(*                                                                         *)
(* A check loads the package, performs its operations one by one, stops    *)
(* the media it has started, closes the bindings and writes its report;    *)
(* the file keeps the last report that was written.  `performed' and       *)
(* `earned' are history: what was done in this check and in the one whose  *)
(* report is on disk.  What the checks print is left out.                  *)
(***************************************************************************)
CONSTANT MaxChecks   \* bound: checks that are run

VARIABLES machine,   \* the platform, and what is installed on it
          check,     \* the check that runs: its tool and options
          stage,     \* what it does next
          position,  \* the operation it performs next
          problem,   \* an operation or the loading failed
          media,     \* [Media -> "off", "on" or "died"]
          pressed,   \* the controls that are down on this machine
          file,      \* [Tool -> the report on disk]
          performed, earned,
          checks     \* how many were run
hardwareVars ==
  <<machine, check, stage, position, problem, media, pressed, file, performed, earned, checks>>

Tool == {"desktop", "uinput", "gamepad"}
Media == {"capture", "audio"}   \* started as processes of FFmpeg, and stopped
NoReport == [status |-> "none"]
NoCheck == [tool |-> "none", execute |-> FALSE, extra |-> FALSE]

\* createBindings: the compiled package beside the reference adapter.  Without it Linux has the
\* reference alone, Windows nothing.
Gamepad == machine.platform = "linux" /\ machine.compiled
Rumble == machine.compiled /\ machine.rumble
Keyboard == IF machine.platform = "linux" THEN machine.xdotool ELSE machine.compiled
Loads == machine.platform = "linux" \/ machine.compiled

HardwareInit ==
  /\ machine \in [platform : {"linux", "win32"}, compiled : BOOLEAN, rumble : BOOLEAN,
                  xdotool : BOOLEAN, ffmpeg : BOOLEAN, device : BOOLEAN]
  /\ check = NoCheck /\ stage = "idle" /\ position = 1 /\ problem = FALSE
  /\ media = [m \in Media |-> "off"] /\ pressed = {}
  /\ file = [t \in Tool |-> NoReport] /\ performed = {} /\ earned = [t \in Tool |-> {}]
  /\ checks = 0
-----------------------------------------------------------------------------
\* The operations of a check, in their order; `extra' asks for the driver of a virtual gamepad
\* and for the force feedback of uinput.
Exercise == <<"capture", "audio", "press", "release", "rumble">>
Sequence == <<"press", "release", "axis">>
Operations ==
  CASE check.tool = "desktop" -> IF check.execute THEN Exercise ELSE <<>>
    [] check.tool = "uinput" ->
         IF ~check.execute THEN <<>>
         ELSE IF check.extra THEN Sequence \o <<"rumble", "observe">> ELSE Sequence
    [] check.tool = "gamepad" ->
         (IF check.extra THEN <<"driver">> ELSE <<>>) \o (IF check.execute THEN Sequence ELSE <<>>)
    [] OTHER -> <<>>
Operation == Operations[position]

\* Whether the bindings can perform it at all; it may still fail.
Able ==
  CASE Operation \in Media -> machine.ffmpeg
    [] Operation \in {"press", "release"} /\ check.tool = "desktop" -> Gamepad \/ Keyboard
    [] Operation = "rumble" -> Rumble
    [] OTHER -> TRUE
Control == IF check.tool = "desktop" /\ ~Gamepad THEN "F20" ELSE "button-0"

\* --execute without --confirm is refused before anything is loaded; the uinput check asks for
\* no confirmation.
Begin(tool, execute, extra) ==
  /\ stage = "idle" /\ checks < MaxChecks
  /\ check' = [tool |-> tool, execute |-> execute, extra |-> extra]
  /\ stage' = "load" /\ position' = 1 /\ problem' = FALSE /\ performed' = {} /\ checks' = checks + 1
  /\ UNCHANGED <<machine, media, pressed, file, earned>>

\* The uinput check looks at the device first and needs the gamepad; the others load what is
\* there.  An installed gamepad is loaded by its pointer, manifest, signature and files.
Load ==
  /\ stage = "load"
  /\ check.tool \in {"desktop", "uinput"} => Loads
  /\ check.tool = "uinput" => machine.device /\ (check.execute => Gamepad)
  /\ stage' = "operate"
  /\ UNCHANGED <<machine, check, position, problem, media, pressed, file, performed, earned,
                 checks>>

\* A package that cannot be loaded, or a duration out of its bounds.
LoadFails ==
  /\ stage = "load" /\ stage' = "close" /\ problem' = TRUE
  /\ UNCHANGED <<machine, check, position, media, pressed, file, performed, earned, checks>>

Perform ==
  /\ stage = "operate" /\ position <= Len(Operations) /\ Able
  /\ position' = position + 1 /\ performed' = performed \cup {Operation}
  /\ media' = IF Operation \in Media THEN [media EXCEPT ![Operation] = "on"] ELSE media
  /\ pressed' = CASE Operation = "press" -> pressed \cup {Control}
                  [] Operation = "release" -> pressed \ {Control}
                  [] OTHER -> pressed
  /\ UNCHANGED <<machine, check, stage, problem, file, earned, checks>>

\* Mutant: the catch of the exercise is gone with the finally that stops the media.
PerformFails_NoFinally ==
  /\ stage = "operate" /\ position <= Len(Operations)
  /\ stage' = "write" /\ problem' = TRUE
  /\ UNCHANGED <<machine, check, position, media, pressed, file, performed, earned, checks>>

PerformFails ==
  /\ stage = "operate" /\ position <= Len(Operations)
  /\ stage' = "stop" /\ problem' = TRUE
  /\ UNCHANGED <<machine, check, position, media, pressed, file, performed, earned, checks>>

Performed ==
  /\ stage = "operate" /\ position > Len(Operations) /\ stage' = "stop"
  /\ UNCHANGED <<machine, check, position, problem, media, pressed, file, performed, earned,
                 checks>>

\* The finally of the exercise: what was started last is stopped first.  The controller of a
\* process that has died still has it, and stop() resolves.
StopMedia ==
  /\ stage = "stop"
  /\ IF media["audio"] # "off" THEN media' = [media EXCEPT !["audio"] = "off"] /\ UNCHANGED stage
     ELSE IF media["capture"] # "off"
     THEN media' = [media EXCEPT !["capture"] = "off"] /\ UNCHANGED stage
     ELSE stage' = "close" /\ UNCHANGED media
  /\ UNCHANGED <<machine, check, position, problem, pressed, file, performed, earned, checks>>

\* close() of the bindings takes the virtual device away, and what it held with it.  When it
\* throws there is no report.
CloseBindings ==
  /\ stage = "close" /\ stage' \in {"write", "idle"}
  /\ pressed' = pressed \ {"button-0"}
  /\ UNCHANGED <<machine, check, position, problem, media, file, performed, earned, checks>>

HardwareReady == machine.platform = "linux" => machine.device

\* The report: the steps of the exercise that were verified, and `ready' when nothing failed.
\* A virtual gamepad that failed has a report without its driver.
Report ==
  [status |-> IF problem \/ (check.tool = "desktop" /\ ~HardwareReady)
              THEN "unavailable" ELSE "ready",
   execute |-> check.execute,
   verified |-> performed,
   driver |-> ~problem /\ "driver" \in performed]

\* Nothing is written when no file was named or writeFile fails.
Write ==
  /\ stage = "write" /\ stage' = "idle"
  /\ \/ file' = [file EXCEPT ![check.tool] = Report]
        /\ earned' = [earned EXCEPT ![check.tool] = IF problem THEN {} ELSE performed]
     \/ UNCHANGED <<file, earned>>
  /\ UNCHANGED <<machine, check, position, problem, media, pressed, performed, checks>>

\* FFmpeg ends by itself; nobody is told.
MediaDies(m) ==
  /\ media[m] = "on" /\ media' = [media EXCEPT ![m] = "died"]
  /\ UNCHANGED <<machine, check, stage, position, problem, pressed, file, performed, earned,
                 checks>>

HardwareNext ==
  \/ \E t \in Tool, execute, extra \in BOOLEAN : Begin(t, execute, extra)
  \/ Load \/ LoadFails \/ Perform \/ PerformFails \/ Performed \/ StopMedia
  \/ CloseBindings \/ Write
  \/ \E m \in Media : MediaDies(m)

HardwareSpec == HardwareInit /\ [][HardwareNext]_hardwareVars
-----------------------------------------------------------------------------
\* hardwareGate and virtualDriverGate of scripts/roadmap/acceptance.mjs: the reports that count.
HardwareAccepted(r) ==
  /\ r.status = "ready" /\ r.execute
  /\ {"capture", "audio", "press", "release", "rumble"} \subseteq r.verified
VirtualAccepted(r) ==
  /\ r.status = "ready" /\ r.execute /\ r.driver /\ {"press", "release", "axis"} \subseteq r.verified

\* A report that will be accepted was earned: in the check that wrote it every operation was
\* performed, in the order of the exercise, and nothing failed.  A check that is over has left
\* no capture and no sound running, and nothing held but a key whose release failed; one that
\* was not asked to exercise anything has touched nothing.  (A capture that died while the
\* exercise went on still counts as verified, and the report of an earlier check stays when a
\* later one fails to write its own.)
ChecksAreHonest ==
  /\ file["desktop"].status = "ready" => HardwareReady
  /\ file["desktop"].status = "ready" /\ HardwareAccepted(file["desktop"]) =>
       /\ earned["desktop"] = ToSet(Exercise) /\ Rumble /\ machine.ffmpeg
  /\ file["gamepad"].status = "ready" /\ VirtualAccepted(file["gamepad"]) =>
       earned["gamepad"] = ToSet(Sequence) \cup {"driver"}
  /\ stage = "idle" =>
       /\ \A m \in Media : media[m] = "off"
       /\ pressed \subseteq {"F20"}
       /\ check.tool = "desktop" /\ check.execute /\ ~problem => pressed = {}
  /\ ~check.execute => \A m \in Media : media[m] = "off"
=============================================================================
