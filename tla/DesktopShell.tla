---------------------------- MODULE DesktopShell ----------------------------
(***************************************************************************)
(* The main process of the Electron shell, desktop/electron/main.mjs: the  *)
(* primary window, the provider view and its popups, the power-save blocker*)
(* (power-runtime.mjs), the tray (tray-policy.mjs), deep links, the runtime*)
(* settings with the file of startup-policy.mjs, the quit guard, and the   *)
(* restart prompt of update-service.mjs.                                   *)
(*                                                                         *)
(* A handler runs to its next await; the renderer, the user and the system *)
(* act in between.  `windowRef' goes on naming a window that was closed,   *)
(* and every call on that throws.  A crash of the shell leaves nothing     *)
(* behind: the state it means to keep is written to localStorage, which a  *)
(* main process does not have.  Permissions, the network policy, logs,     *)
(* shortcuts and the developer tools are not modelled.                     *)
(***************************************************************************)
EXTENDS Naturals, Sequences

CONSTANTS Settings,   \* the <<battery saver, background apps>> the renderer may apply
          MaxApplies, \* bound: times the renderer applies settings
          MaxDialogs, \* bound: `Quit anyway?' dialogs open at once
          MaxPopups   \* bound: popups of a provider

ASSUME ShellAssumption ==
  /\ Settings \subseteq BOOLEAN \X BOOLEAN
  /\ MaxApplies \in Nat /\ MaxDialogs \in Nat \ {0} /\ MaxPopups \in Nat

Apply == 1..MaxApplies
Power == {"none", "app", "display"}    \* the types of powerSaveBlocker, and none

VARIABLES
  mac,       \* the platform
  app,       \* "starting", "running", "quit"
  window,    \* windowRef: "none", "loading" for the first time, "open", "busy" with
             \* another page, "blank" as that could not be loaded, or "destroyed"
  session,   \* sessionActive
  provider,  \* the provider view: "none", "loading", "open", "crashed"
  stale,     \* a view that was closed while it was loading
  playing,   \* providerSessionActive
  popups,    \* windows the provider has opened
  saver,     \* runtimePolicy.powerMode is `Battery saver'
  background,\* runtimePolicy.backgroundApps
  blocker,   \* type of the blocker that runs
  tray,      \* there is a tray icon
  calls,     \* state of each apply-runtime-settings call
  queue,     \* the calls whose settings are to be written, in order
  saved,     \* the call whose settings are in the file, or 0
  guard,     \* quitGuardEnabled
  quitting,
  dialogs,   \* `Quit anyway?' dialogs open
  prompt,    \* the restart prompt of an update: "none", "open", "accepted"
  link,      \* pendingDeepLink
  refused,   \* powerSaveBlocker.start() has thrown
  failed,    \* a call of apply-runtime-settings has failed half-way
  overtaken, \* settings were queued behind later ones
  deferred,  \* a link came while a loaded window was busy
  unloaded,  \* a window has not loaded its first page
  reopens,   \* there is a handler of 'activate'
  confirmed  \* the user has agreed to quit

places == <<window, provider, stale, popups>>
sessions == <<session, playing>>
settings == <<saver, background, calls, queue, saved>>
quits == <<guard, quitting, dialogs, prompt, confirmed>>
loads == <<deferred, unloaded, reopens>>
ghosts == <<failed, overtaken>>
vars == <<mac, app, places, sessions, settings, blocker, refused, tray, quits, link, loads, ghosts>>

ShellInit ==
  /\ mac \in BOOLEAN /\ app = "starting" /\ window = "none"
  /\ session = FALSE /\ provider = "none" /\ stale = FALSE /\ playing = FALSE /\ popups = 0
  /\ saver = FALSE /\ background = FALSE /\ blocker = "none" /\ tray = FALSE
  /\ calls = [i \in Apply |-> "none"] /\ queue = <<>> /\ saved = 0
  /\ guard = TRUE /\ quitting = FALSE /\ dialogs = 0 /\ prompt = "none" /\ link = FALSE
  /\ refused = FALSE /\ failed = FALSE /\ overtaken = FALSE /\ confirmed = FALSE
  /\ deferred = FALSE /\ unloaded = FALSE /\ reopens = FALSE

Calling == window \in {"loading", "open", "busy"}   \* its page may call
Alive == Calling \/ window = "blank"
Running == app = "running"
Active == session \/ playing       \* applicationSessionActive()
-----------------------------------------------------------------------------
\* resolvePowerSaveBlockerType()
Desired(active, battery) ==
  IF ~active THEN "none" ELSE IF battery THEN "app" ELSE "display"

\* Mutant: a blocker that runs is kept whatever its type.
SyncPower_Once(active, battery) ==
  LET type == Desired(active, battery)
  IN IF (type = "none") = (blocker = "none") THEN UNCHANGED <<blocker, refused>>
     ELSE blocker' = type /\ UNCHANGED refused

\* syncPowerSaveBlocker(): the old blocker is stopped first, and a new one may be refused.
SyncPower(active, battery) ==
  LET type == Desired(active, battery)
  IN IF type = blocker THEN refused' = FALSE /\ UNCHANGED blocker
     ELSE \/ blocker' = type /\ refused' = FALSE
          \/ type # "none" /\ blocker' = "none" /\ refused' = TRUE

\* closeProviderView(); a view that is loading may be heard of later.
ProviderClosed == /\ stale' = (stale \/ provider = "loading")
                  /\ popups' = 0 /\ playing' = FALSE

CloseProvider ==
  /\ Running /\ Alive /\ ProviderClosed /\ provider' = "none"
  /\ SyncPower(session, saver)
  /\ UNCHANGED <<mac, app, window, session, settings, tray, quits, link, loads, ghosts>>

OpenProvider ==
  /\ Running /\ Calling /\ ProviderClosed /\ provider' = "loading"
  /\ SyncPower(session, saver)
  /\ UNCHANGED <<mac, app, window, session, settings, tray, quits, link, loads, ghosts>>

\* did-finish-load of the view, or of one that was closed; autoDetect is an option.
ProviderLoads(old, detect) ==
  /\ Running /\ (IF old THEN stale ELSE provider = "loading")
  /\ stale' = (stale /\ ~old)
  /\ provider' = IF old THEN provider ELSE "open"
  /\ IF detect /\ ~old
     THEN playing' = TRUE /\ SyncPower(TRUE, saver)
     ELSE UNCHANGED <<playing, blocker, refused>>
  /\ UNCHANGED <<mac, app, window, popups, session, settings, tray, quits, link, loads, ghosts>>

ProviderCrashes ==
  /\ Running /\ provider \in {"loading", "open"}
  /\ provider' = "crashed" /\ playing' = FALSE /\ SyncPower(session, saver)
  /\ UNCHANGED <<mac, app, window, stale, popups, session, settings, tray, quits, link, loads, ghosts>>

OpenPopup ==
  /\ Running /\ provider = "open" /\ popups < MaxPopups /\ popups' = popups + 1
  /\ UNCHANGED <<mac, app, window, provider, stale, sessions, settings, blocker, refused, tray,
                 quits, link, loads, ghosts>>

\* spartan:set-session-active
SetSession(active) ==
  /\ Running /\ window \in {"open", "busy"} /\ session # active
  /\ session' = active /\ SyncPower(active \/ playing, saver)
  /\ UNCHANGED <<mac, app, places, playing, settings, tray, quits, link, loads, ghosts>>
-----------------------------------------------------------------------------
\* spartan:apply-runtime-settings

\* The end of it: blocker and tray follow the policy, then the settings of this call
\* wait to be written.
TakeEffect(i, battery, apps) ==
  /\ SyncPower(Active, battery) /\ tray' = apps
  /\ calls' = [calls EXCEPT ![i] = "saving"] /\ queue' = Append(queue, i)
  /\ overtaken' = (overtaken \/ \E j \in Apply : j > i /\ calls[j] \in {"saving", "done"})

\* Up to the first await, pruneElectronDiagnosticLog() when the log's policy has changed.
ApplySettings(i, battery, apps, prunes) ==
  /\ Running /\ Calling /\ calls[i] = "none" /\ \A j \in 1..(i - 1) : calls[j] # "none"
  /\ saver' = battery /\ background' = apps
  /\ IF prunes
     THEN /\ calls' = [calls EXCEPT ![i] = "pruning"]
          /\ UNCHANGED <<queue, blocker, refused, tray, overtaken>>
     ELSE TakeEffect(i, battery, apps)
  /\ UNCHANGED <<mac, app, places, sessions, saved, quits, link, loads, failed>>

\* queueDiagnosticOperation(): one operation on the log after the other.
PruneDone(i) == calls[i] = "pruning" /\ \A j \in 1..(i - 1) : calls[j] # "pruning"

\* The log cannot be pruned, or the window is gone meanwhile: nothing else is done.
Pruned(i, ok) ==
  /\ Running /\ PruneDone(i)
  /\ IF ok /\ Alive THEN /\ TakeEffect(i, saver, background) /\ UNCHANGED failed
     ELSE /\ calls' = [calls EXCEPT ![i] = "failed"] /\ failed' = TRUE
          /\ UNCHANGED <<queue, blocker, refused, tray, overtaken>>
  /\ UNCHANGED <<mac, app, places, sessions, saver, background, saved, quits, link, loads>>

\* Mutant: the files are written in any order.
Saved_AnyOrder(ok) ==
  /\ queue # <<>>
  /\ \E n \in 1..Len(queue) :
       /\ saved' = IF ok THEN queue[n] ELSE saved
       /\ calls' = [calls EXCEPT ![queue[n]] = IF ok THEN "done" ELSE "failed"]
       /\ queue' = SubSeq(queue, 1, n - 1) \o SubSeq(queue, n + 1, Len(queue))
  /\ failed' = (failed \/ ~ok)
  /\ UNCHANGED <<mac, app, places, sessions, saver, background, blocker, refused, tray,
                 quits, link, loads, overtaken>>

\* persistElectronStartupPolicy(): one write after the other, a failed one leaves the file.
Saved(ok) ==
  /\ queue # <<>> /\ queue' = Tail(queue)
  /\ saved' = IF ok THEN Head(queue) ELSE saved
  /\ calls' = [calls EXCEPT ![Head(queue)] = IF ok THEN "done" ELSE "failed"]
  /\ failed' = (failed \/ ~ok)
  /\ UNCHANGED <<mac, app, places, sessions, saver, background, blocker, refused, tray,
                 quits, link, loads, overtaken>>
-----------------------------------------------------------------------------
\* Windows and deep links.

\* whenReady: what is awaited before the handlers are there and the window is made;
\* 'activate' makes another one where the application outlives its windows.
CreateWindow ==
  /\ \/ app = "starting"
     \/ Running /\ mac /\ reopens /\ window = "destroyed" /\ popups = 0
  /\ app' = "running" /\ window' = "loading"
  /\ UNCHANGED <<mac, provider, stale, popups, sessions, settings, blocker, refused, tray,
                 quits, link, loads, ghosts>>

\* Mutant: the link that has waited for the window is not sent.
WindowLoads_KeepsLink ==
  /\ window = "loading" /\ window' = "open" /\ reopens' = TRUE
  /\ UNCHANGED <<mac, app, provider, stale, popups, sessions, settings, blocker, refused, tray,
                 quits, link, deferred, unloaded, ghosts>>

\* The first load delivers a link that has waited; whenReady goes on and handles 'activate'.
WindowLoads ==
  /\ window = "loading" /\ window' = "open" /\ reopens' = TRUE
  /\ link' = FALSE /\ deferred' = FALSE /\ unloaded' = FALSE
  /\ UNCHANGED <<mac, app, provider, stale, popups, sessions, settings, blocker, refused, tray,
                 quits, ghosts>>

\* It fails, or is given up for another page: what comes after the await is not done.
WindowFails ==
  /\ window = "loading" /\ window' \in {"blank", "busy"} /\ unloaded' = TRUE
  /\ UNCHANGED <<mac, app, provider, stale, popups, sessions, settings, blocker, refused, tray,
                 quits, link, deferred, reopens, ghosts>>

\* The renderer goes to another page or is reloaded from the menu, and has loaded.
Navigate ==
  /\ \/ window \in {"open", "blank"} /\ window' = "busy"
     \/ window = "busy" /\ window' = "open"
  /\ UNCHANGED <<mac, app, provider, stale, popups, sessions, settings, blocker, refused, tray,
                 quits, link, loads, ghosts>>

\* second-instance and open-url: a link for a window that is loading waits; one for a
\* window that was closed is lost, as showMainWindow() throws, and one for a blank window too.
DeepLink ==
  /\ app # "quit" /\ window # "destroyed"
  /\ link' = (link \/ window \notin {"open", "blank"})
  /\ deferred' = (deferred \/ window = "busy")
  /\ UNCHANGED <<mac, app, places, sessions, settings, blocker, refused, tray, quits,
                 unloaded, reopens, ghosts>>

\* Everything the application has on the screen goes.
Quit ==
  /\ app' = "quit" /\ window' = "destroyed" /\ provider' = "none" /\ stale' = FALSE /\ popups' = 0
  /\ blocker' = "none" /\ tray' = FALSE /\ dialogs' = 0 /\ prompt' = "none"

\* Mutant: a session of a provider does not count for the quit guard.
Held_GameOnly(win) == ~quitting /\ session /\ (guard \/ win # "destroyed")

\* before-quit holds the quit up during a session; without the guard, if there is a window.
Held(win) == ~quitting /\ Active /\ (guard \/ win # "destroyed")

\* app.quit() with the window win and n popups left: a dialog (which may fail to open for
\* a window that was closed), or the end.
QuitWith(win, n) ==
  IF Held(win)
  THEN /\ window' = win /\ popups' = n
       /\ \/ dialogs < MaxDialogs /\ dialogs' = dialogs + 1
          \/ (win = "destroyed" \/ dialogs = MaxDialogs) /\ UNCHANGED dialogs
       /\ UNCHANGED <<app, provider, stale, blocker, tray, prompt>>
  ELSE Quit

\* The menu, the tray, the session of the system.
AskToQuit ==
  /\ Running /\ QuitWith(window, popups)
  /\ UNCHANGED <<mac, sessions, settings, refused, guard, quitting, confirmed, link, loads, ghosts>>

\* A window is closed; window-all-closed quits, but not on a Mac or with background apps.
CloseWindow(win, n) ==
  /\ Running
  /\ IF win = "destroyed" /\ n = 0 /\ ~mac /\ ~background
     THEN QuitWith(win, n)
     ELSE /\ window' = win /\ popups' = n
          /\ UNCHANGED <<app, provider, stale, blocker, tray, dialogs, prompt>>
  /\ UNCHANGED <<mac, sessions, settings, refused, guard, quitting, confirmed, link, deferred,
                 reopens, ghosts>>

\* The load of a page ends with its window.
CloseMain ==
  Alive /\ CloseWindow("destroyed", popups) /\ unloaded' = (unloaded \/ window = "loading")
ClosePopup == popups > 0 /\ CloseWindow(window, popups - 1) /\ UNCHANGED unloaded

\* `Quit anyway?' is answered.
AnswerQuit(yes) ==
  /\ Running /\ dialogs > 0
  /\ IF yes THEN quitting' = TRUE /\ confirmed' = TRUE /\ Quit
     ELSE dialogs' = dialogs - 1 /\ UNCHANGED <<app, places, blocker, tray, quitting, confirmed, prompt>>
  /\ UNCHANGED <<mac, sessions, settings, refused, guard, link, loads, ghosts>>

SetGuard(enabled) ==
  /\ Running /\ Calling /\ guard' = enabled
  /\ UNCHANGED <<mac, app, places, sessions, settings, blocker, refused, tray, quitting, dialogs,
                 prompt, confirmed, link, loads, ghosts>>

\* update-downloaded: for a window that was closed, onStatus throws before the prompt.
UpdateDownloaded ==
  /\ Running /\ Alive /\ prompt = "none" /\ prompt' = "open"
  /\ UNCHANGED <<mac, app, places, sessions, settings, blocker, refused, tray, guard, quitting,
                 dialogs, confirmed, link, loads, ghosts>>

\* `Restart now' sets quitting, and the updater quits the application later, or fails.
AnswerRestart(yes) ==
  /\ Running /\ prompt = "open"
  /\ IF yes THEN prompt' = "accepted" /\ quitting' = TRUE /\ confirmed' = TRUE
            ELSE prompt' = "none" /\ UNCHANGED <<quitting, confirmed>>
  /\ UNCHANGED <<mac, app, places, sessions, settings, blocker, refused, tray, guard, dialogs,
                 link, loads, ghosts>>

ShellNext ==
  \/ CloseProvider \/ OpenProvider \/ ProviderCrashes \/ OpenPopup \/ CreateWindow \/ WindowLoads
  \/ WindowFails \/ Navigate \/ DeepLink \/ AskToQuit \/ CloseMain \/ ClosePopup \/ UpdateDownloaded
  \/ \E b \in BOOLEAN : \/ SetSession(b) \/ Saved(b) \/ AnswerQuit(b) \/ SetGuard(b)
                        \/ AnswerRestart(b) \/ \E d \in BOOLEAN : ProviderLoads(b, d)
  \/ \E i \in Apply : \/ \E ok \in BOOLEAN : Pruned(i, ok)
                      \/ \E c \in Settings, p \in BOOLEAN : ApplySettings(i, c[1], c[2], p)

ShellSpec == ShellInit /\ [][ShellNext]_vars
-----------------------------------------------------------------------------
Pending == \E i \in Apply : calls[i] = "pruning"

\* docs/development.md: "active sessions use Electron's power-save blocker", of the type
\* that the power mode asks for; and the tray is there as long as background apps are on.
\* Unless settings wait for the log, or a call has failed, or the system has refused.
PolicyTakesEffect ==
  Running /\ ~Pending /\ ~failed =>
    /\ refused \/ blocker = Desired(Active, saver)
    /\ tray = background

\* docs/development.md: an activation "delivers a normalized catalog launch request".  A link
\* waits only for a window that is to be loaded, unless it came while a loaded window was
\* going to another page, or the window it waited for has not loaded its page (see the
\* hazards): nothing but the next window that does looks at it again.
LinkWaitsForWindow ==
  app # "quit" /\ link => window \in {"none", "loading"} \/ deferred \/ unloaded

\* `A gaming session is active. Quit anyway?' is asked before a session is ended by
\* quitting, but for a guard that is off when the window is closed already.
QuitAsksFirst ==
  [][app' = "quit" /\ app # "quit" /\ Active => confirmed' \/ ~guard]_vars

\* When every call has ended, the file has the settings that were applied last, unless one
\* has failed, or has waited for the log while a later one went ahead.
SavedIsApplied ==
  (\A i \in Apply : calls[i] \in {"none", "done"}) /\ ~overtaken =>
    \A i \in Apply : calls[i] = "done" => saved >= i

\* What the user has set is what the shell does now, and what it does after a restart.
SettingsTakeEffect == PolicyTakesEffect /\ SavedIsApplied
=============================================================================
