--------------------------- MODULE DesktopProofs ----------------------------
(***************************************************************************)
(* Proofs about the desktop application: its shell, and the installer of   *)
(* adapters that it runs beside it.                                        *)
(***************************************************************************)
EXTENDS MCDesktopShell, AdapterInstaller, FiniteSetTheorems, TLAPS

-----------------------------------------------------------------------------
(***************************************************************************)
(* What the shell does with settings, links and quits, for any number of   *)
(* settings calls, dialogs and popups.                                     *)
(***************************************************************************)
\* The variables the proofs reason about have their types; in three parts.
PowerTypeOK == blocker \in Power /\ refused \in BOOLEAN

CallTypeOK ==
  /\ calls \in [Apply -> {"none", "pruning", "saving", "done", "failed"}]
  /\ queue \in Seq(Apply)
  /\ saved \in {0} \cup Apply
  /\ saver \in BOOLEAN /\ background \in BOOLEAN

FlagTypeOK ==
  /\ app \in {"starting", "running", "quit"}
  /\ window \in {"none", "loading", "open", "busy", "blank", "destroyed"}
  /\ session \in BOOLEAN /\ playing \in BOOLEAN
  /\ tray \in BOOLEAN
  /\ failed \in BOOLEAN /\ overtaken \in BOOLEAN
  /\ link \in BOOLEAN /\ deferred \in BOOLEAN /\ unloaded \in BOOLEAN
  /\ guard \in BOOLEAN /\ quitting \in BOOLEAN /\ confirmed \in BOOLEAN

\* Before the shell is ready nothing plays and there is no window; after it has quit
\* there is none any more.
PlaceInv ==
  /\ app = "starting" => window = "none" /\ ~session /\ ~playing
  /\ app = "quit" => window = "destroyed"

\* Whoever is quitting was asked.
QuitInv == quitting => confirmed

\* The policy is in effect, be the shell up or about to be.
PolicyInv ==
  app # "quit" /\ ~Pending /\ ~failed =>
    /\ refused \/ blocker = Desired(Active, saver)
    /\ tray = background

\* A call waits in the queue once, while it is saving; unless one was overtaken, those that wait
\* are in order and behind those that are done, of which the file has the last.
QueueInv ==
  /\ \A n \in 1..Len(queue) : calls[queue[n]] = "saving"
  /\ \A m, n \in 1..Len(queue) : m < n => queue[m] # queue[n]
  /\ ~overtaken =>
       /\ \A m, n \in 1..Len(queue) : m < n => queue[m] < queue[n]
       /\ \A j \in Apply, n \in 1..Len(queue) : calls[j] = "done" => j < queue[n]
       /\ \A j \in Apply : calls[j] = "done" => j <= saved

ShellInv == /\ PowerTypeOK /\ CallTypeOK /\ FlagTypeOK /\ PlaceInv /\ QuitInv /\ PolicyInv /\ QueueInv
            /\ LinkWaitsForWindow
-----------------------------------------------------------------------------
\* Whatever the blocker was, it is what is asked for, or the system has refused.
LEMMA SyncPowerEffect ==
  ASSUME PowerTypeOK, NEW plays \in BOOLEAN, NEW battery \in BOOLEAN,
         SyncPower(plays, battery)
  PROVE  PowerTypeOK' /\ (refused' \/ blocker' = Desired(plays, battery))
  BY DEF SyncPower, Desired, Power, PowerTypeOK

\* The shell starts with nothing on, nothing waiting and no link.
LEMMA ShellInitInv == ShellInit => ShellInv
<1> SUFFICES ASSUME ShellInit PROVE ShellInv
  OBVIOUS
<1>1. PowerTypeOK
  BY DEF ShellInit, PowerTypeOK, Power
<1>2. CallTypeOK
  <2>1. queue \in Seq(Apply) /\ calls \in [Apply -> {"none", "pruning", "saving", "done", "failed"}]
    BY DEF ShellInit
  <2> QED
    BY <2>1 DEF ShellInit, CallTypeOK
<1>3. FlagTypeOK
  BY DEF ShellInit, FlagTypeOK
<1>5. QueueInv
  BY DEF ShellInit, QueueInv
<1>4. PlaceInv /\ QuitInv /\ PolicyInv /\ LinkWaitsForWindow
  BY DEF ShellInit, PlaceInv, QuitInv, PolicyInv, Desired, Active, LinkWaitsForWindow
<1> QED
  BY <1>1, <1>2, <1>3, <1>4, <1>5 DEF ShellInv

\* Steps that are not about settings leave the calls and their queue as they are.
LEMMA QueueKept ==
  ASSUME CallTypeOK, QueueInv, UNCHANGED <<calls, queue, saved, overtaken, saver, background>>
  PROVE  CallTypeOK' /\ QueueInv'
  BY DEF CallTypeOK, QueueInv

\* A step that syncs the blocker with what plays after it keeps the policy in effect.
LEMMA PolicySynced ==
  ASSUME PowerTypeOK, CallTypeOK, PolicyInv,
         NEW plays \in BOOLEAN, plays = Active', SyncPower(plays, saver),
         UNCHANGED <<app, saver, background, tray, calls, failed>>
  PROVE  PolicyInv'
  BY SyncPowerEffect DEF PolicyInv, CallTypeOK, Pending

\* A step that is not about what plays, nor about settings, does too; one that quits is excused.
LEMMA PolicyKept ==
  ASSUME PolicyInv, app' # "quit" => app # "quit",
         app' # "quit" => UNCHANGED <<session, playing, saver, background, tray, calls, failed,
                                      blocker, refused>>
  PROVE  PolicyInv'
  BY DEF PolicyInv, Pending, Active

\* A step that touches none of them keeps the types of the flags.
LEMMA FlagsKept ==
  ASSUME FlagTypeOK, UNCHANGED <<app, window, session, playing, tray, failed, overtaken, link, deferred,
                                 unloaded, guard, quitting, confirmed>>
  PROVE  FlagTypeOK'
  BY DEF FlagTypeOK

\* The same, when the page stops saying that something is played.
LEMMA FlagsQuiet ==
  ASSUME FlagTypeOK, playing' = FALSE,
         app' = app, window' = window, session' = session, tray' = tray, failed' = failed,
         overtaken' = overtaken, link' = link, deferred' = deferred, unloaded' = unloaded, guard' = guard,
         quitting' = quitting, confirmed' = confirmed
  PROVE  FlagTypeOK'
<1>1. /\ app \in {"starting", "running", "quit"}
      /\ window \in {"none", "loading", "open", "busy", "blank", "destroyed"}
  BY DEF FlagTypeOK
<1>2. /\ session \in BOOLEAN /\ tray \in BOOLEAN /\ failed \in BOOLEAN /\ overtaken \in BOOLEAN
      /\ link \in BOOLEAN /\ deferred \in BOOLEAN /\ unloaded \in BOOLEAN
  BY DEF FlagTypeOK
<1>3. guard \in BOOLEAN /\ quitting \in BOOLEAN /\ confirmed \in BOOLEAN
  BY DEF FlagTypeOK
<1>4. playing' \in BOOLEAN
  OBVIOUS
<1>5. app' \in {"starting", "running", "quit"}
  BY <1>1
<1>6. window' \in {"none", "loading", "open", "busy", "blank", "destroyed"}
  BY <1>1
<1>7. session' \in BOOLEAN /\ tray' \in BOOLEAN /\ failed' \in BOOLEAN /\ overtaken' \in BOOLEAN
  BY <1>2, Zenon
<1>8. link' \in BOOLEAN /\ deferred' \in BOOLEAN /\ unloaded' \in BOOLEAN /\ guard' \in BOOLEAN
  BY <1>2, <1>3, Zenon
<1>9. quitting' \in BOOLEAN /\ confirmed' \in BOOLEAN
  BY <1>3, Zenon
<1> HIDE DEF FlagTypeOK
<1> QED BY <1>4, <1>5, <1>6, <1>7, <1>8, <1>9, Zenon DEF FlagTypeOK

\* app.quit() ends the shell, or leaves it with the windows it had.
Ends == app' = "quit" /\ window' = "destroyed" /\ tray' = FALSE /\ blocker' = "none"
Stays == UNCHANGED <<app, tray, blocker>>

LEMMA QuitWithEffect ==
  ASSUME NEW win, NEW n, QuitWith(win, n)
  PROVE  (Ends /\ ~Held(win)) \/ (Stays /\ window' = win)
  BY DEF QuitWith, Quit, Ends, Stays

LEMMA CloseWindowEffect ==
  ASSUME NEW win, NEW n, CloseWindow(win, n)
  PROVE  /\ (Ends /\ ~Held(win)) \/ (Stays /\ window' = win)
         /\ UNCHANGED <<mac, sessions, settings, refused, guard, quitting, confirmed, link, deferred,
                        reopens, ghosts>>
  BY QuitWithEffect DEF CloseWindow, Stays

\* What the provider does, and what the page says is played.
LEMMA ProviderSteps ==
  ASSUME ShellInv,
         \/ CloseProvider \/ OpenProvider \/ ProviderCrashes \/ OpenPopup
         \/ \E b, d \in BOOLEAN : ProviderLoads(b, d)
         \/ \E b \in BOOLEAN : SetSession(b)
  PROVE  ShellInv'
<1>1. ASSUME CloseProvider PROVE ShellInv'
  <2>1. PowerTypeOK'
    BY <1>1, SyncPowerEffect DEF CloseProvider, ProviderClosed, ShellInv, CallTypeOK, FlagTypeOK
  <2>2. FlagTypeOK'
    <3>1. /\ app' = app /\ window' = window /\ session' = session /\ tray' = tray
          /\ failed' = failed /\ overtaken' = overtaken /\ link' = link /\ deferred' = deferred
          /\ unloaded' = unloaded /\ guard' = guard /\ quitting' = quitting /\ confirmed' = confirmed /\ playing' = FALSE
      BY <1>1
         DEF CloseProvider, ProviderClosed, settings, quits, loads, ghosts
    <3> QED
      BY <3>1, FlagsQuiet DEF ShellInv
  <2>3. PlaceInv' /\ QuitInv' /\ LinkWaitsForWindow'
    BY <1>1
       DEF CloseProvider, ProviderClosed, Running, Calling, Alive, ShellInv, FlagTypeOK, PlaceInv, QuitInv, LinkWaitsForWindow,
           places, sessions, settings, quits, loads, ghosts
  <2>4. PolicyInv'
    BY <1>1, PolicySynced, PolicyKept
       DEF CloseProvider, ProviderClosed, Active, ShellInv, CallTypeOK, FlagTypeOK, settings, loads, ghosts
  <2>5. CallTypeOK' /\ QueueInv'
    BY <1>1, QueueKept DEF CloseProvider, ProviderClosed, ShellInv, settings, loads, ghosts
  <2> QED
    BY <2>1, <2>2, <2>3, <2>4, <2>5 DEF ShellInv
<1>2. ASSUME OpenProvider PROVE ShellInv'
  <2>1. PowerTypeOK'
    BY <1>2, SyncPowerEffect DEF OpenProvider, ProviderClosed, ShellInv, CallTypeOK, FlagTypeOK
  <2>2. FlagTypeOK'
    <3>1. /\ app' = app /\ window' = window /\ session' = session /\ tray' = tray
          /\ failed' = failed /\ overtaken' = overtaken /\ link' = link /\ deferred' = deferred
          /\ unloaded' = unloaded /\ guard' = guard /\ quitting' = quitting /\ confirmed' = confirmed /\ playing' = FALSE
      BY <1>2
         DEF OpenProvider, ProviderClosed, settings, quits, loads, ghosts
    <3> QED
      BY <3>1, FlagsQuiet DEF ShellInv
  <2>3. PlaceInv' /\ QuitInv' /\ LinkWaitsForWindow'
    BY <1>2
       DEF OpenProvider, ProviderClosed, Running, Calling, Alive, ShellInv, FlagTypeOK, PlaceInv, QuitInv, LinkWaitsForWindow,
           places, sessions, settings, quits, loads, ghosts
  <2>4. PolicyInv'
    BY <1>2, PolicySynced, PolicyKept
       DEF OpenProvider, ProviderClosed, Active, ShellInv, CallTypeOK, FlagTypeOK, settings, loads, ghosts
  <2>5. CallTypeOK' /\ QueueInv'
    BY <1>2, QueueKept DEF OpenProvider, ProviderClosed, ShellInv, settings, loads, ghosts
  <2> QED
    BY <2>1, <2>2, <2>3, <2>4, <2>5 DEF ShellInv
<1>3. ASSUME ProviderCrashes PROVE ShellInv'
  <2>1. PowerTypeOK'
    BY <1>3, SyncPowerEffect DEF ProviderCrashes, ShellInv, CallTypeOK, FlagTypeOK
  <2>2. FlagTypeOK'
    <3>1. /\ app' = app /\ window' = window /\ session' = session /\ tray' = tray
          /\ failed' = failed /\ overtaken' = overtaken /\ link' = link /\ deferred' = deferred
          /\ unloaded' = unloaded /\ guard' = guard /\ quitting' = quitting /\ confirmed' = confirmed /\ playing' = FALSE
      BY <1>3
         DEF ProviderCrashes, settings, quits, loads, ghosts
    <3> QED
      BY <3>1, FlagsQuiet DEF ShellInv
  <2>3. PlaceInv' /\ QuitInv' /\ LinkWaitsForWindow'
    BY <1>3 DEF ProviderCrashes, Running, Calling, Alive, ShellInv, FlagTypeOK, PlaceInv, QuitInv, LinkWaitsForWindow,
           places, sessions, settings, quits, loads, ghosts
  <2>4. PolicyInv'
    BY <1>3, PolicySynced, PolicyKept
       DEF ProviderCrashes, Active, ShellInv, CallTypeOK, FlagTypeOK, settings, loads, ghosts
  <2>5. CallTypeOK' /\ QueueInv'
    BY <1>3, QueueKept DEF ProviderCrashes, ShellInv, settings, loads, ghosts
  <2> QED
    BY <2>1, <2>2, <2>3, <2>4, <2>5 DEF ShellInv
<1>4. ASSUME OpenPopup PROVE ShellInv'
  <2>1. PowerTypeOK'
    BY <1>4 DEF OpenPopup, ShellInv, PowerTypeOK, Power
  <2>2. FlagTypeOK'
    BY <1>4 DEF OpenPopup, ShellInv, FlagTypeOK, places, sessions, settings, quits, loads, ghosts
  <2>3. PlaceInv' /\ QuitInv' /\ LinkWaitsForWindow'
    BY <1>4 DEF OpenPopup, Running, Calling, Alive, ShellInv, FlagTypeOK, PlaceInv, QuitInv, LinkWaitsForWindow,
           places, sessions, settings, quits, loads, ghosts
  <2>4. PolicyInv'
    BY <1>4, PolicyKept DEF OpenPopup, Running, ShellInv, places, sessions, settings, quits, loads, ghosts
  <2>5. CallTypeOK' /\ QueueInv'
    BY <1>4, QueueKept DEF OpenPopup, ShellInv, settings, loads, ghosts
  <2> QED
    BY <2>1, <2>2, <2>3, <2>4, <2>5 DEF ShellInv
<1>5. ASSUME NEW b \in BOOLEAN, NEW d \in BOOLEAN, ProviderLoads(b, d)
     PROVE  ShellInv'
  <2>1. PowerTypeOK'
    <3>1. CASE d /\ ~b
      BY <1>5, <3>1, SyncPowerEffect DEF ProviderLoads, ShellInv, CallTypeOK
    <3>2. CASE ~(d /\ ~b)
      BY <1>5, <3>2 DEF ProviderLoads, ShellInv, PowerTypeOK
    <3> QED
      BY <3>1, <3>2
  <2>2. FlagTypeOK'
    <3>1. CASE d /\ ~b
      BY <1>5, <3>1 DEF ProviderLoads, ShellInv, FlagTypeOK, places, sessions, settings, quits, loads, ghosts
    <3>2. CASE ~(d /\ ~b)
      BY <1>5, <3>2, FlagsKept DEF ProviderLoads, ShellInv, places, sessions, settings, quits, loads, ghosts
    <3> QED
      BY <1>5, <3>1, <3>2
  <2>3. PlaceInv' /\ QuitInv' /\ LinkWaitsForWindow'
    BY <1>5 DEF ProviderLoads, Running, Calling, Alive, ShellInv, FlagTypeOK, PlaceInv, QuitInv, LinkWaitsForWindow,
           places, sessions, settings, quits, loads, ghosts
  <2>4. PolicyInv'
    BY <1>5, PolicySynced, PolicyKept
       DEF ProviderLoads, Active, ShellInv, CallTypeOK, FlagTypeOK, sessions, settings, loads, ghosts
  <2>5. CallTypeOK' /\ QueueInv'
    BY <1>5, QueueKept DEF ProviderLoads, ShellInv, settings, loads, ghosts
  <2> QED
    BY <2>1, <2>2, <2>3, <2>4, <2>5 DEF ShellInv
<1>6. ASSUME NEW b \in BOOLEAN, SetSession(b)
     PROVE  ShellInv'
  <2>1. PowerTypeOK'
    BY <1>6, SyncPowerEffect DEF SetSession, ShellInv, CallTypeOK, FlagTypeOK
  <2>2. FlagTypeOK'
    BY <1>6 DEF SetSession, ShellInv, FlagTypeOK, places, sessions, settings, quits, loads, ghosts
  <2>3. PlaceInv' /\ QuitInv' /\ LinkWaitsForWindow'
    BY <1>6 DEF SetSession, Running, Calling, Alive, ShellInv, FlagTypeOK, PlaceInv, QuitInv, LinkWaitsForWindow,
           places, sessions, settings, quits, loads, ghosts
  <2>4. PolicyInv'
    BY <1>6, PolicySynced, PolicyKept
       DEF SetSession, Active, ShellInv, CallTypeOK, FlagTypeOK, settings, loads, ghosts
  <2>5. CallTypeOK' /\ QueueInv'
    BY <1>6, QueueKept DEF SetSession, ShellInv, settings, loads, ghosts
  <2> QED
    BY <2>1, <2>2, <2>3, <2>4, <2>5 DEF ShellInv
<1> QED
  BY <1>1, <1>2, <1>3, <1>4, <1>5, <1>6

\* Windows that load, and links that wait for them.
LEMMA WindowSteps ==
  ASSUME ShellInv,
         \/ CreateWindow \/ WindowLoads \/ WindowFails \/ Navigate \/ DeepLink
  PROVE  ShellInv'
<1>1. ASSUME CreateWindow PROVE ShellInv'
  <2>1. PowerTypeOK'
    BY <1>1 DEF CreateWindow, ShellInv, PowerTypeOK, Power
  <2>2. FlagTypeOK'
    BY <1>1 DEF CreateWindow, ShellInv, FlagTypeOK, places, sessions, settings, quits, loads, ghosts
  <2>3. PlaceInv' /\ QuitInv' /\ LinkWaitsForWindow'
    BY <1>1 DEF CreateWindow, Running, Calling, Alive, ShellInv, FlagTypeOK, PlaceInv, QuitInv, LinkWaitsForWindow,
           places, sessions, settings, quits, loads, ghosts
  <2>4. PolicyInv'
    BY <1>1, PolicyKept DEF CreateWindow, Running, ShellInv, places, sessions, settings, quits, loads, ghosts
  <2>5. CallTypeOK' /\ QueueInv'
    BY <1>1, QueueKept DEF CreateWindow, ShellInv, settings, loads, ghosts
  <2> QED
    BY <2>1, <2>2, <2>3, <2>4, <2>5 DEF ShellInv
<1>2. ASSUME WindowLoads PROVE ShellInv'
  <2>1. PowerTypeOK'
    BY <1>2 DEF WindowLoads, ShellInv, PowerTypeOK, Power
  <2>2. FlagTypeOK'
    BY <1>2 DEF WindowLoads, ShellInv, FlagTypeOK, places, sessions, settings, quits, loads, ghosts
  <2>3. PlaceInv' /\ QuitInv' /\ LinkWaitsForWindow'
    BY <1>2 DEF WindowLoads, Running, Calling, Alive, ShellInv, FlagTypeOK, PlaceInv, QuitInv, LinkWaitsForWindow,
           places, sessions, settings, quits, loads, ghosts
  <2>4. PolicyInv'
    BY <1>2, PolicyKept DEF WindowLoads, Running, ShellInv, places, sessions, settings, quits, loads, ghosts
  <2>5. CallTypeOK' /\ QueueInv'
    BY <1>2, QueueKept DEF WindowLoads, ShellInv, settings, loads, ghosts
  <2> QED
    BY <2>1, <2>2, <2>3, <2>4, <2>5 DEF ShellInv
<1>3. ASSUME Navigate PROVE ShellInv'
  <2>1. PowerTypeOK'
    BY <1>3 DEF Navigate, ShellInv, PowerTypeOK, Power
  <2>2. FlagTypeOK'
    BY <1>3 DEF Navigate, ShellInv, FlagTypeOK, places, sessions, settings, quits, loads, ghosts
  <2>3. PlaceInv' /\ QuitInv' /\ LinkWaitsForWindow'
    BY <1>3 DEF Navigate, Running, Calling, Alive, ShellInv, FlagTypeOK, PlaceInv, QuitInv, LinkWaitsForWindow,
           places, sessions, settings, quits, loads, ghosts
  <2>4. PolicyInv'
    BY <1>3, PolicyKept DEF Navigate, Running, ShellInv, places, sessions, settings, quits, loads, ghosts
  <2>5. CallTypeOK' /\ QueueInv'
    BY <1>3, QueueKept DEF Navigate, ShellInv, settings, loads, ghosts
  <2> QED
    BY <2>1, <2>2, <2>3, <2>4, <2>5 DEF ShellInv
<1>4. ASSUME DeepLink PROVE ShellInv'
  <2>1. PowerTypeOK'
    BY <1>4 DEF DeepLink, ShellInv, PowerTypeOK, Power
  <2>2. FlagTypeOK'
    BY <1>4 DEF DeepLink, ShellInv, FlagTypeOK, places, sessions, settings, quits, loads, ghosts
  <2>3. PlaceInv' /\ QuitInv' /\ LinkWaitsForWindow'
    BY <1>4 DEF DeepLink, Running, Calling, Alive, ShellInv, FlagTypeOK, PlaceInv, QuitInv, LinkWaitsForWindow,
           places, sessions, settings, quits, loads, ghosts
  <2>4. PolicyInv'
    BY <1>4, PolicyKept DEF DeepLink, Running, ShellInv, places, sessions, settings, quits, loads, ghosts
  <2>5. CallTypeOK' /\ QueueInv'
    BY <1>4, QueueKept DEF DeepLink, ShellInv, settings, loads, ghosts
  <2> QED
    BY <2>1, <2>2, <2>3, <2>4, <2>5 DEF ShellInv
<1>5. ASSUME WindowFails PROVE ShellInv'
  <2>1. PowerTypeOK'
    BY <1>5 DEF WindowFails, ShellInv, PowerTypeOK, Power
  <2>2. FlagTypeOK'
    BY <1>5 DEF WindowFails, ShellInv, FlagTypeOK, places, sessions, settings, quits, loads, ghosts
  <2>3. PlaceInv' /\ QuitInv' /\ LinkWaitsForWindow'
    BY <1>5 DEF WindowFails, Running, Calling, Alive, ShellInv, FlagTypeOK, PlaceInv, QuitInv, LinkWaitsForWindow,
           places, sessions, settings, quits, loads, ghosts
  <2>4. PolicyInv'
    BY <1>5, PolicyKept DEF WindowFails, Running, ShellInv, places, sessions, settings, quits, loads, ghosts
  <2>5. CallTypeOK' /\ QueueInv'
    BY <1>5, QueueKept DEF WindowFails, ShellInv, settings, loads, ghosts
  <2> QED
    BY <2>1, <2>2, <2>3, <2>4, <2>5 DEF ShellInv
<1> QED
  BY <1>1, <1>2, <1>3, <1>4, <1>5

\* What ends the shell, or asks whether it may end.
LEMMA QuitSteps ==
  ASSUME ShellInv,
         \/ AskToQuit \/ CloseMain \/ ClosePopup \/ UpdateDownloaded
         \/ \E b \in BOOLEAN : AnswerQuit(b)
         \/ \E b \in BOOLEAN : SetGuard(b)
         \/ \E b \in BOOLEAN : AnswerRestart(b)
  PROVE  ShellInv'
<1>1. ASSUME AskToQuit PROVE ShellInv'
  <2>1. PowerTypeOK'
    BY <1>1, QuitWithEffect DEF AskToQuit, Ends, Stays, ShellInv, PowerTypeOK, Power
  <2>2. FlagTypeOK'
    <3>1. CASE Ends
      BY <1>1, QuitWithEffect, <3>1
         DEF AskToQuit, Ends, Stays, ShellInv, FlagTypeOK, places, sessions, settings, quits, loads, ghosts
    <3>2. CASE Stays /\ window' = window
      BY <1>1, QuitWithEffect, <3>2
         DEF AskToQuit, Ends, Stays, ShellInv, FlagTypeOK, places, sessions, settings, quits, loads, ghosts
    <3> QED
      BY <1>1, QuitWithEffect, <3>1, <3>2 DEF AskToQuit
  <2>3. PlaceInv' /\ QuitInv' /\ LinkWaitsForWindow'
    BY <1>1, QuitWithEffect
       DEF AskToQuit, Ends, Stays, Running, Calling, Alive, ShellInv, FlagTypeOK, PlaceInv, QuitInv, LinkWaitsForWindow,
           places, sessions, settings, quits, loads, ghosts
  <2>4. PolicyInv'
    BY <1>1, QuitWithEffect, PolicyKept
       DEF AskToQuit, Ends, Stays, Running, ShellInv, places, sessions, settings, quits, loads, ghosts
  <2>5. CallTypeOK' /\ QueueInv'
    BY <1>1, QuitWithEffect, QueueKept DEF AskToQuit, Ends, Stays, ShellInv, settings, loads, ghosts
  <2> QED
    BY <2>1, <2>2, <2>3, <2>4, <2>5 DEF ShellInv
<1>2. ASSUME CloseMain PROVE ShellInv'
  <2>1. PowerTypeOK'
    BY <1>2, CloseWindowEffect DEF CloseMain, Ends, Stays, ShellInv, PowerTypeOK, Power
  <2>2. FlagTypeOK'
    <3>1. CASE Ends
      BY <1>2, CloseWindowEffect, <3>1, ZenonT(60)
         DEF CloseMain, Ends, Stays, ShellInv, FlagTypeOK, places, sessions, settings, quits, loads, ghosts
    <3>2. CASE Stays /\ window' = "destroyed"
      BY <1>2, CloseWindowEffect, <3>2, ZenonT(60)
         DEF CloseMain, Ends, Stays, ShellInv, FlagTypeOK, places, sessions, settings, quits, loads, ghosts
    <3> QED
      BY <1>2, CloseWindowEffect, <3>1, <3>2 DEF CloseMain
  <2>3. PlaceInv' /\ QuitInv' /\ LinkWaitsForWindow'
    BY <1>2, CloseWindowEffect
       DEF CloseMain, Ends, Stays, Running, Calling, Alive, ShellInv, FlagTypeOK, PlaceInv, QuitInv, LinkWaitsForWindow,
           places, sessions, settings, quits, loads, ghosts
  <2>4. PolicyInv'
    BY <1>2, CloseWindowEffect, PolicyKept
       DEF CloseMain, Ends, Stays, Running, ShellInv, places, sessions, settings, quits, loads, ghosts
  <2>5. CallTypeOK' /\ QueueInv'
    BY <1>2, CloseWindowEffect, QueueKept DEF CloseMain, Ends, Stays, ShellInv, settings, loads, ghosts
  <2> QED
    BY <2>1, <2>2, <2>3, <2>4, <2>5 DEF ShellInv
<1>3. ASSUME ClosePopup PROVE ShellInv'
  <2>1. PowerTypeOK'
    BY <1>3, CloseWindowEffect DEF ClosePopup, Ends, Stays, ShellInv, PowerTypeOK, Power
  <2>2. FlagTypeOK'
    <3>1. CASE Ends
      BY <1>3, CloseWindowEffect, <3>1, ZenonT(60)
         DEF ClosePopup, Ends, Stays, ShellInv, FlagTypeOK, places, sessions, settings, quits, loads, ghosts
    <3>2. CASE Stays /\ window' = window
      BY <1>3, CloseWindowEffect, <3>2, FlagsKept
         DEF ClosePopup, Ends, Stays, ShellInv, places, sessions, settings, quits, loads, ghosts
    <3> QED
      BY <1>3, CloseWindowEffect, <3>1, <3>2 DEF ClosePopup
  <2>3. PlaceInv' /\ QuitInv' /\ LinkWaitsForWindow'
    BY <1>3, CloseWindowEffect
       DEF ClosePopup, Ends, Stays, Running, Calling, Alive, ShellInv, FlagTypeOK, PlaceInv, QuitInv, LinkWaitsForWindow,
           places, sessions, settings, quits, loads, ghosts
  <2>4. PolicyInv'
    BY <1>3, CloseWindowEffect, PolicyKept
       DEF ClosePopup, Ends, Stays, Running, ShellInv, places, sessions, settings, quits, loads, ghosts
  <2>5. CallTypeOK' /\ QueueInv'
    BY <1>3, CloseWindowEffect, QueueKept DEF ClosePopup, Ends, Stays, ShellInv, settings, loads, ghosts
  <2> QED
    BY <2>1, <2>2, <2>3, <2>4, <2>5 DEF ShellInv
<1>4. ASSUME UpdateDownloaded PROVE ShellInv'
  <2>1. PowerTypeOK'
    BY <1>4 DEF UpdateDownloaded, ShellInv, PowerTypeOK, Power
  <2>2. FlagTypeOK'
    BY <1>4 DEF UpdateDownloaded, ShellInv, FlagTypeOK, places, sessions, settings, quits, loads, ghosts
  <2>3. PlaceInv' /\ QuitInv' /\ LinkWaitsForWindow'
    BY <1>4 DEF UpdateDownloaded, Running, Calling, Alive, ShellInv, FlagTypeOK, PlaceInv, QuitInv, LinkWaitsForWindow,
           places, sessions, settings, quits, loads, ghosts
  <2>4. PolicyInv'
    BY <1>4, PolicyKept DEF UpdateDownloaded, Running, ShellInv, places, sessions, settings, quits, loads, ghosts
  <2>5. CallTypeOK' /\ QueueInv'
    BY <1>4, QueueKept DEF UpdateDownloaded, ShellInv, settings, loads, ghosts
  <2> QED
    BY <2>1, <2>2, <2>3, <2>4, <2>5 DEF ShellInv
<1>5. ASSUME NEW b \in BOOLEAN, AnswerQuit(b)
     PROVE  ShellInv'
  <2>1. PowerTypeOK'
    BY <1>5 DEF AnswerQuit, Quit, ShellInv, PowerTypeOK, Power
  <2>2. FlagTypeOK'
    <3>1. CASE b
      BY <1>5, <3>1 DEF AnswerQuit, Quit, ShellInv, FlagTypeOK, places, sessions, settings, quits, loads, ghosts
    <3>2. CASE ~b
      BY <1>5, <3>2 DEF AnswerQuit, Quit, ShellInv, FlagTypeOK, places, sessions, settings, quits, loads, ghosts
    <3> QED
      BY <1>5, <3>1, <3>2
  <2>3. PlaceInv' /\ QuitInv' /\ LinkWaitsForWindow'
    BY <1>5 DEF AnswerQuit, Quit, Running, Calling, Alive, ShellInv, FlagTypeOK, PlaceInv, QuitInv, LinkWaitsForWindow,
           places, sessions, settings, quits, loads, ghosts
  <2>4. PolicyInv'
    BY <1>5, PolicyKept DEF AnswerQuit, Quit, Running, ShellInv, places, sessions, settings, quits, loads, ghosts
  <2>5. CallTypeOK' /\ QueueInv'
    BY <1>5, QueueKept DEF AnswerQuit, Quit, ShellInv, settings, loads, ghosts
  <2> QED
    BY <2>1, <2>2, <2>3, <2>4, <2>5 DEF ShellInv
<1>6. ASSUME NEW b \in BOOLEAN, SetGuard(b)
     PROVE  ShellInv'
  <2>1. PowerTypeOK'
    BY <1>6 DEF SetGuard, ShellInv, PowerTypeOK, Power
  <2>2. FlagTypeOK'
    BY <1>6 DEF SetGuard, ShellInv, FlagTypeOK, places, sessions, settings, quits, loads, ghosts
  <2>3. PlaceInv' /\ QuitInv' /\ LinkWaitsForWindow'
    BY <1>6 DEF SetGuard, Running, Calling, Alive, ShellInv, FlagTypeOK, PlaceInv, QuitInv, LinkWaitsForWindow,
           places, sessions, settings, quits, loads, ghosts
  <2>4. PolicyInv'
    BY <1>6, PolicyKept DEF SetGuard, Running, ShellInv, places, sessions, settings, quits, loads, ghosts
  <2>5. CallTypeOK' /\ QueueInv'
    BY <1>6, QueueKept DEF SetGuard, ShellInv, settings, loads, ghosts
  <2> QED
    BY <2>1, <2>2, <2>3, <2>4, <2>5 DEF ShellInv
<1>7. ASSUME NEW b \in BOOLEAN, AnswerRestart(b)
     PROVE  ShellInv'
  <2>1. PowerTypeOK'
    BY <1>7 DEF AnswerRestart, ShellInv, PowerTypeOK, Power
  <2>2. FlagTypeOK'
    <3>1. CASE b
      BY <1>7, <3>1 DEF AnswerRestart, ShellInv, FlagTypeOK, places, sessions, settings, quits, loads, ghosts
    <3>2. CASE ~b
      BY <1>7, <3>2 DEF AnswerRestart, ShellInv, FlagTypeOK, places, sessions, settings, quits, loads, ghosts
    <3> QED
      BY <1>7, <3>1, <3>2
  <2>3. PlaceInv' /\ QuitInv' /\ LinkWaitsForWindow'
    BY <1>7 DEF AnswerRestart, Running, Calling, Alive, ShellInv, FlagTypeOK, PlaceInv, QuitInv, LinkWaitsForWindow,
           places, sessions, settings, quits, loads, ghosts
  <2>4. PolicyInv'
    BY <1>7, PolicyKept DEF AnswerRestart, Running, ShellInv, places, sessions, settings, quits, loads, ghosts
  <2>5. CallTypeOK' /\ QueueInv'
    BY <1>7, QueueKept DEF AnswerRestart, ShellInv, settings, loads, ghosts
  <2> QED
    BY <2>1, <2>2, <2>3, <2>4, <2>5 DEF ShellInv
<1> QED
  BY <1>1, <1>2, <1>3, <1>4, <1>5, <1>6, <1>7

\* Putting settings into effect queues their call behind those that wait, or notes that it was
\* overtaken.
LEMMA TakeEffectQueues ==
  ASSUME CallTypeOK, QueueInv, NEW i \in Apply, calls[i] \in {"none", "pruning"},
         NEW battery \in BOOLEAN, NEW apps \in BOOLEAN, TakeEffect(i, battery, apps),
         saver' = battery, background' = apps, UNCHANGED saved
  PROVE  CallTypeOK' /\ QueueInv'
<1> DEFINE k == Len(queue)
<1>1. /\ queue' = Append(queue, i) /\ calls' = [calls EXCEPT ![i] = "saving"]
      /\ overtaken' = (overtaken \/ \E j \in Apply : j > i /\ calls[j] \in {"saving", "done"})
  BY DEF TakeEffect
<1>2. CallTypeOK'
  BY <1>1 DEF CallTypeOK
<1>3. /\ k \in Nat /\ Len(queue') = k + 1 /\ queue'[k + 1] = i
      /\ \A n \in 1..k : queue'[n] = queue[n] /\ queue[n] \in Apply
  BY <1>1 DEF CallTypeOK
<1>4. \A j \in Apply : calls'[j] = IF j = i THEN "saving" ELSE calls[j]
  BY <1>1 DEF CallTypeOK
<1>5. \A n \in 1..k : calls[queue[n]] = "saving" /\ queue[n] # i
  BY DEF QueueInv
<1>6. /\ \A n \in 1..Len(queue') : calls'[queue'[n]] = "saving"
      /\ \A m, n \in 1..Len(queue') : m < n => queue'[m] # queue'[n]
  BY <1>3, <1>4, <1>5 DEF QueueInv
<1>7. ASSUME ~overtaken'
      PROVE  /\ \A m, n \in 1..Len(queue') : m < n => queue'[m] < queue'[n]
             /\ \A j \in Apply, n \in 1..Len(queue') : calls'[j] = "done" => j < queue'[n]
             /\ \A j \in Apply : calls'[j] = "done" => j <= saved'
  <2>1. ~overtaken /\ \A j \in Apply : calls[j] \in {"saving", "done"} => ~(j > i)
    BY <1>1, <1>7
  <2>2. Apply \subseteq Nat
    BY DEF Apply
  <2>3. ASSUME NEW n \in 1..k PROVE queue[n] < i
    <3>1. queue[n] \in Apply /\ queue[n] # i /\ ~(queue[n] > i)
      BY <1>3, <1>5, <2>1
    <3>2. queue[n] \in Nat /\ i \in Nat
      BY <2>2, <3>1
    <3> QED
      BY <3>1, <3>2
  <2>4. \A j \in Apply : calls[j] = "done" => j < i
    BY <2>1, <2>2
  <2> QED
    BY <1>3, <1>4, <2>1, <2>3, <2>4 DEF QueueInv
<1> QED
  BY <1>2, <1>6, <1>7 DEF QueueInv

\* Settings that are applied or written, in the order of the code.
LEMMA SettingsSteps ==
  ASSUME ShellInv,
         \/ \E b \in BOOLEAN : Saved(b)
         \/ \E i \in Apply, ok \in BOOLEAN : Pruned(i, ok)
         \/ \E i \in Apply, c \in Settings, p \in BOOLEAN : ApplySettings(i, c[1], c[2], p)
  PROVE  ShellInv'
<1>1. ASSUME NEW b \in BOOLEAN, Saved(b)
      PROVE  ShellInv'
  <2> DEFINE h == Head(queue)
  <2>1. PowerTypeOK' /\ PlaceInv' /\ QuitInv' /\ LinkWaitsForWindow'
    BY <1>1 DEF Saved, ShellInv, PowerTypeOK, PlaceInv, QuitInv, LinkWaitsForWindow, places, sessions, quits, loads
  <2>2. FlagTypeOK'
    BY <1>1 DEF Saved, ShellInv, FlagTypeOK, places, sessions, quits, loads
  <2>3. /\ h \in Apply /\ h = queue[1] /\ Len(queue) \in Nat \ {0}
        /\ queue' \in Seq(Apply) /\ Len(queue') = Len(queue) - 1
        /\ \A n \in 1..Len(queue') : n + 1 \in 1..Len(queue) /\ queue'[n] = queue[n + 1]
    BY <1>1 DEF Saved, ShellInv, CallTypeOK
  <2>4. CallTypeOK'
    BY <1>1, <2>3 DEF Saved, ShellInv, CallTypeOK
  <2>5. \A j \in Apply : calls'[j] = IF j = h THEN (IF b THEN "done" ELSE "failed") ELSE calls[j]
    BY <1>1 DEF Saved, ShellInv, CallTypeOK
  <2>6. calls[h] = "saving" /\ \A n \in 1..Len(queue') : queue'[n] # h
    BY <2>3 DEF ShellInv, QueueInv
  <2>7. QueueInv'
    <3>1. /\ \A n \in 1..Len(queue') : calls'[queue'[n]] = "saving"
          /\ \A m, n \in 1..Len(queue') : m < n => queue'[m] # queue'[n]
      <4>1. \A n \in 1..Len(queue) : queue[n] \in Apply
        BY DEF ShellInv, CallTypeOK
      <4>2. \A n \in 1..Len(queue') : calls'[queue'[n]] = "saving"
        BY <2>3, <2>5, <2>6, <4>1 DEF ShellInv, QueueInv
      <4>3. \A m, n \in 1..Len(queue') : m < n => queue'[m] # queue'[n]
        BY <2>3, SMTT(60) DEF ShellInv, QueueInv
      <4> QED
        BY <4>2, <4>3
    <3>2. ASSUME ~overtaken
          PROVE  /\ \A m, n \in 1..Len(queue') : m < n => queue'[m] < queue'[n]
                 /\ \A j \in Apply, n \in 1..Len(queue') : calls'[j] = "done" => j < queue'[n]
      BY <2>3, <2>5, <3>2, SMTT(60) DEF ShellInv, QueueInv
    <3>3. ASSUME ~overtaken
          PROVE  \A j \in Apply : calls'[j] = "done" => j <= saved'
      BY <1>1, <2>3, <2>5, <3>3 DEF Saved, ShellInv, QueueInv, Apply
    <3> QED
      BY <1>1, <3>1, <3>2, <3>3 DEF Saved, QueueInv
  <2>8. PolicyInv'
    BY <1>1, <2>5, <2>6 DEF Saved, ShellInv, PolicyInv, Pending, Active, sessions
  <2> QED
    BY <2>1, <2>2, <2>4, <2>7, <2>8 DEF ShellInv
<1>2. ASSUME NEW i \in Apply, NEW ok \in BOOLEAN, Pruned(i, ok)
      PROVE  ShellInv'
  <2>1. PlaceInv' /\ QuitInv' /\ LinkWaitsForWindow'
    BY <1>2 DEF Pruned, ShellInv, PlaceInv, QuitInv, LinkWaitsForWindow, places, sessions, quits, loads
  <2>2. CASE ok /\ Alive
    <3>1. TakeEffect(i, saver, background) /\ calls[i] = "pruning"
          /\ UNCHANGED <<saver, background, saved, app, session, playing, failed>>
      BY <1>2, <2>2 DEF Pruned, PruneDone, sessions
    <3>2. CallTypeOK' /\ QueueInv'
      BY <3>1, TakeEffectQueues DEF ShellInv, CallTypeOK
    <3>3. PowerTypeOK' /\ PolicyInv'
      BY <3>1, SyncPowerEffect DEF TakeEffect, ShellInv, CallTypeOK, FlagTypeOK, PolicyInv, Active
    <3>4. FlagTypeOK'
      BY <1>2, <3>1 DEF Pruned, TakeEffect, ShellInv, CallTypeOK, FlagTypeOK, places, sessions, quits, loads
    <3> QED
      BY <2>1, <3>2, <3>3, <3>4 DEF ShellInv
  <2>3. CASE ~(ok /\ Alive)
    <3>1. /\ calls' = [calls EXCEPT ![i] = "failed"] /\ failed' = TRUE /\ calls[i] = "pruning"
          /\ UNCHANGED <<queue, saved, overtaken, saver, background, blocker, refused, tray>>
      BY <1>2, <2>3 DEF Pruned, PruneDone
    <3>2. CallTypeOK' /\ PowerTypeOK' /\ PolicyInv'
      BY <3>1 DEF ShellInv, CallTypeOK, PowerTypeOK, PolicyInv
    <3>3. QueueInv'
      BY <3>1 DEF ShellInv, CallTypeOK, QueueInv
    <3>4. FlagTypeOK'
      BY <1>2, <3>1 DEF Pruned, ShellInv, FlagTypeOK, places, sessions, quits, loads
    <3> QED
      BY <2>1, <3>2, <3>3, <3>4 DEF ShellInv
  <2> QED
    BY <2>2, <2>3
<1>3. ASSUME NEW i \in Apply, NEW c \in Settings, NEW p \in BOOLEAN, ApplySettings(i, c[1], c[2], p)
      PROVE  ShellInv'
  <2>1. PlaceInv' /\ QuitInv' /\ LinkWaitsForWindow'
    BY <1>3 DEF ApplySettings, ShellInv, PlaceInv, QuitInv, LinkWaitsForWindow, places, sessions, quits, loads
  <2>2. c[1] \in BOOLEAN /\ c[2] \in BOOLEAN
    BY ShellAssumption
  <2>3. calls[i] = "none" /\ saver' = c[1] /\ background' = c[2]
        /\ UNCHANGED <<saved, app, session, playing, failed>>
    BY <1>3 DEF ApplySettings, sessions
  <2>4. CASE p
    <3>1. calls' = [calls EXCEPT ![i] = "pruning"]
          /\ UNCHANGED <<queue, blocker, refused, tray, overtaken>>
      BY <1>3, <2>4 DEF ApplySettings
    <3>2. CallTypeOK' /\ PowerTypeOK'
      BY <2>2, <2>3, <3>1 DEF ShellInv, CallTypeOK, PowerTypeOK
    <3>3. QueueInv'
      BY <2>3, <3>1 DEF ShellInv, CallTypeOK, QueueInv
    <3>4. PolicyInv'
      BY <3>1 DEF ShellInv, CallTypeOK, PolicyInv, Pending
    <3>5. FlagTypeOK'
      BY <1>3, <3>1 DEF ApplySettings, ShellInv, FlagTypeOK, places, sessions, quits, loads
    <3> QED
      BY <2>1, <3>2, <3>3, <3>4, <3>5 DEF ShellInv
  <2>5. CASE ~p
    <3>1. TakeEffect(i, c[1], c[2])
      BY <1>3, <2>5 DEF ApplySettings
    <3>2. CallTypeOK' /\ QueueInv'
      BY <2>2, <2>3, <3>1, TakeEffectQueues DEF ShellInv
    <3>3. PowerTypeOK' /\ PolicyInv'
      BY <2>2, <2>3, <3>1, SyncPowerEffect DEF TakeEffect, ShellInv, FlagTypeOK, PolicyInv, Active
    <3>4. FlagTypeOK'
      BY <1>3, <2>2, <3>1 DEF ApplySettings, TakeEffect, ShellInv, FlagTypeOK, places, sessions, quits, loads
    <3> QED
      BY <2>1, <3>2, <3>3, <3>4 DEF ShellInv
  <2> QED
    BY <2>4, <2>5
<1> QED
  BY <1>1, <1>2, <1>3

\* Every step of the shell keeps the invariant.
LEMMA ShellStepInv ==
  ASSUME ShellInv, [ShellNext]_vars
  PROVE  ShellInv'
<1>1. CASE ShellNext
  BY <1>1, ProviderSteps, WindowSteps, QuitSteps, SettingsSteps DEF ShellNext
<1>2. CASE UNCHANGED vars
  <2>1. CallTypeOK' /\ QueueInv'
    BY <1>2, QueueKept DEF vars, settings, loads, ghosts, ShellInv
  <2>2. FlagTypeOK'
    BY <1>2, FlagsKept DEF vars, places, sessions, settings, quits, loads, ghosts, ShellInv
  <2>3. PowerTypeOK' /\ PlaceInv' /\ QuitInv' /\ LinkWaitsForWindow' /\ PolicyInv'
    BY <1>2, PolicyKept DEF vars, places, sessions, settings, quits, loads, ghosts, ShellInv, PowerTypeOK, PlaceInv,
       QuitInv, LinkWaitsForWindow
  <2> QED
    BY <2>1, <2>2, <2>3 DEF ShellInv
<1> QED
  BY <1>1, <1>2

\* The invariant of the shell.
THEOREM ShellInvariant == ShellSpec => []ShellInv
<1>1. ShellInit => ShellInv
  BY ShellInitInv
<1>2. ShellInv /\ [ShellNext]_vars => ShellInv'
  BY ShellStepInv
<1> QED
  BY <1>1, <1>2, PTL DEF ShellSpec

\* What the user has set is what the shell does, unless the log, the system or a failure is in the
\* way; and when all calls have ended the file has the settings that were applied last.
THEOREM SettingsTakeEffectThm == ShellSpec => []SettingsTakeEffect
<1>1. ShellInv => SettingsTakeEffect
  BY DEF ShellInv, SettingsTakeEffect, PolicyTakesEffect, PolicyInv, SavedIsApplied, QueueInv, Running,
     Apply, CallTypeOK
<1> QED
  BY <1>1, ShellInvariant, PTL

\* A link that was not delivered waits for a window that is to be loaded, but for one that came
\* while a page was left for another and one whose window did not load its page.
THEOREM LinkWaitsForWindowThm == ShellSpec => []LinkWaitsForWindow
<1>1. ShellInv => LinkWaitsForWindow
  BY DEF ShellInv
<1> QED
  BY <1>1, ShellInvariant, PTL

\* No session is ended by quitting but after the user agreed, or with the guard off.
THEOREM QuitAsksFirstThm == ShellSpec => QuitAsksFirst
<1>1. ASSUME ShellInv, [ShellNext]_vars, app' = "quit", app # "quit", Active
      PROVE  confirmed' \/ ~guard
  <2>1. \/ AskToQuit \/ CloseMain \/ ClosePopup \/ \E b \in BOOLEAN : AnswerQuit(b)
    BY <1>1 DEF vars, ShellNext, CloseProvider, OpenProvider, ProviderCrashes, OpenPopup, CreateWindow,
       WindowLoads, WindowFails, Navigate, DeepLink, UpdateDownloaded, SetSession, Saved, SetGuard, AnswerRestart,
       ProviderLoads, Pruned, ApplySettings
  <2>2. CASE AskToQuit
    BY <1>1, <2>2, QuitWithEffect DEF AskToQuit, Stays, Held, ShellInv, QuitInv
  <2>3. CASE CloseMain
    BY <1>1, <2>3, CloseWindowEffect DEF CloseMain, Stays, Held, ShellInv, QuitInv
  <2>4. CASE ClosePopup
    BY <1>1, <2>4, CloseWindowEffect DEF ClosePopup, Stays, Held, ShellInv, QuitInv
  <2>5. ASSUME NEW b \in BOOLEAN, AnswerQuit(b)
        PROVE  confirmed'
    BY <1>1, <2>5 DEF AnswerQuit
  <2> QED
    BY <2>1, <2>2, <2>3, <2>4, <2>5
<1>2. ShellInv /\ [ShellNext]_vars
        => [app' = "quit" /\ app # "quit" /\ Active => confirmed' \/ ~guard]_vars
  BY <1>1
<1> QED
  BY <1>2, ShellInvariant, PTL DEF ShellSpec, QuitAsksFirst
-----------------------------------------------------------------------------
(***************************************************************************)
(* Proofs about AdapterInstaller, for any number of runs that install at   *)
(* the same time, any size of a package and any number of failing steps    *)
(* and crashes.                                                            *)
(*                                                                         *)
(* A version directory has at most one run that holds it, the one that has *)
(* published it and has neither switched the pointer to it nor undone it.  *)
(* A version that was current once is held by nobody, so that nobody       *)
(* removes a file of it again: that is why those who read the pointer, and *)
(* the files later, find them.                                             *)
(***************************************************************************)
DiskTypes ==
  /\ pointer \in Version \cup {None} /\ target \subseteq Version
  /\ content \in [Version -> SUBSET Content]
  /\ \A v \in Version : content[v] # {} <=> v \in target
  /\ wasCurrent \subseteq Version

RunTypes ==
  /\ at \in [Run -> {"idle"} \cup Steps \cup Undo]
  /\ staging \in [Run -> {"none", "made", "payload"}]
  /\ payload \in [Run -> SUBSET Content]
  /\ next \in [Run -> 1..(Files + 1)]
  /\ \A r \in Run : payload[r] # {} => staging[r] = "payload"

\* What a run has unpacked by then, unless it was swept away.
Early == {"download", "access", "unpack"}
Unpacked(r) ==
  /\ at[r] \in Early => payload[r] = {} /\ next[r] = 1
  /\ at[r] = "files" => swept \/ payload[r] = 1..(next[r] - 1)
  /\ at[r] = "publish" => /\ swept \/ payload[r] = Content
                          /\ staging[r] = "payload" => Manifest \in payload[r]
UnpackInv == \A r \in Run : Unpacked(r)

Holds(r) == at[r] \in {"pointer", "switch", "unpublish"}
Sound(v) == Manifest \in content[v] /\ (swept \/ content[v] = Content)

HoldInv ==
  /\ \A r \in Run : Holds(r) => Release[r] \in target \ wasCurrent
  /\ \A r, q \in Run : Holds(r) /\ Holds(q) /\ Release[r] = Release[q] => r = q
  /\ \A r \in Run : at[r] \in {"pointer", "switch"} => Sound(Release[r])

CurrentInv == \A v \in wasCurrent : Sound(v)

ReadersInv ==
  /\ pointer # None => pointer \in wasCurrent
  /\ seen \in [Run -> Version \cup {None}]
  /\ \A r \in Run : seen[r] # None => seen[r] \in wasCurrent

ActivationInv ==
  /\ activation \in [step : {"idle", "manifest", "entries", "verified", "loaded", "refused"},
                     version : Version \cup {None}, entry : 1..Files]
  /\ activation.step # "idle" => activation.version \in wasCurrent
  /\ activation.step = "manifest" => activation.entry = 1
  /\ activation.step = "entries" => 1..(activation.entry - 1) \subseteq content[activation.version]
  /\ activation.step \in {"verified", "loaded"} => content[activation.version] = Content
  /\ activation.step = "refused" => swept

FlagTypes == swept \in BOOLEAN /\ abandoned \in BOOLEAN /\ faults \in 0..MaxFaults

DiskInv == DiskTypes /\ HoldInv /\ CurrentInv /\ LeftoversOnlyByCrash
InstallerInv ==
  RunTypes /\ UnpackInv /\ DiskInv /\ ReadersInv /\ ActivationInv /\ FlagTypes

RunStep(r) == Start(r) \/ Advance(r) \/ Fault(r) \/ RemovalFails(r) \/ Crash(r)
-----------------------------------------------------------------------------
LEMMA Constants ==
  /\ \A r \in Run : Release[r] \in Version
  /\ None \notin Version
  /\ Files \in Nat \ {0} /\ Content = 0..Files /\ Manifest \in Content
  /\ \A r \in Run : Release[r] \in Nat \ {0}
  BY InstallerAssumption DEF Release, Version, None, Content, Manifest

LEMMA InstallerInitInv == InstallerInit => InstallerInv
<1> SUFFICES ASSUME InstallerInit PROVE InstallerInv
  OBVIOUS
<1>1. RunTypes /\ UnpackInv
  BY Constants DEF InstallerInit, RunTypes, UnpackInv, Unpacked, Early
<1>2. DiskInv
  BY DEF InstallerInit, DiskInv, DiskTypes, HoldInv, Holds, CurrentInv, LeftoversOnlyByCrash
<1>3. ActivationInv
  BY Constants DEF InstallerInit, ActivationInv
<1>4. ReadersInv
  BY DEF InstallerInit, ReadersInv
<1>5. FlagTypes
  <2>1. 0 \in 0..MaxFaults
    BY InstallerAssumption
  <2> QED BY <2>1 DEF InstallerInit, FlagTypes
<1> QED
  BY <1>1, <1>2, <1>3, <1>4, <1>5 DEF InstallerInv
-----------------------------------------------------------------------------
\* Unpacking.

\* A step that unpacks nothing, and does not pretend to have.
LEMMA UnpackKept ==
  ASSUME RunTypes, UnpackInv, NEW r \in Run, NEW s \in {"idle"} \cup Steps \cup Undo,
         Goto(r, s), UNCHANGED <<area, swept>>,
         s \in Early => at[r] \in Early,
         s \notin {"files", "publish"}
  PROVE  RunTypes' /\ UnpackInv'
<1>1. at' \in [Run -> {"idle"} \cup Steps \cup Undo] /\ at'[r] = s
      /\ \A q \in Run : q # r => at'[q] = at[q]
  BY DEF Goto, RunTypes
<1> QED BY <1>1, SMTT(60) DEF area, RunTypes, UnpackInv, Unpacked

\* A step that changes the staging directory of one run.
LEMMA UnpackOne ==
  ASSUME RunTypes, UnpackInv, NEW r \in Run, NEW s \in {"idle"} \cup Steps \cup Undo,
         NEW dir \in {"none", "made", "payload"}, NEW p \in SUBSET Content, NEW n \in 1..(Files + 1),
         at' = [at EXCEPT ![r] = s], staging' = [staging EXCEPT ![r] = dir],
         payload' = [payload EXCEPT ![r] = p], next' = [next EXCEPT ![r] = n], swept' = swept,
         p # {} => dir = "payload",
         s \in Early => p = {} /\ n = 1,
         s = "files" => swept \/ p = 1..(n - 1),
         s = "publish" => /\ swept \/ p = Content
                          /\ dir = "payload" => Manifest \in p
  PROVE  RunTypes' /\ UnpackInv'
<1>1. /\ at'[r] = s /\ staging'[r] = dir /\ payload'[r] = p /\ next'[r] = n
      /\ \A q \in Run : q # r => /\ at'[q] = at[q] /\ staging'[q] = staging[q]
                                 /\ payload'[q] = payload[q] /\ next'[q] = next[q]
  BY DEF RunTypes
<1>2. RunTypes'
  BY <1>1 DEF RunTypes
<1>3. Unpacked(r)'
  BY <1>1 DEF Unpacked
<1>4. ASSUME NEW q \in Run, q # r PROVE Unpacked(q)'
  BY <1>1, <1>4 DEF UnpackInv, Unpacked
<1> QED BY <1>2, <1>3, <1>4 DEF UnpackInv

LEMMA UnpackStep == ASSUME InstallerInv, NEW r \in Run, RunStep(r) PROVE RunTypes' /\ UnpackInv'
<1> RunTypes /\ UnpackInv
  BY DEF InstallerInv
<1> USE DEF Steps, Undo, Early
<1>0. /\ at[r] \in {"idle"} \cup Steps \cup Undo /\ payload[r] \in SUBSET Content
      /\ next[r] \in 1..(Files + 1) /\ staging[r] \in {"none", "made", "payload"}
      /\ at = [at EXCEPT ![r] = @] /\ staging = [staging EXCEPT ![r] = @]
      /\ payload = [payload EXCEPT ![r] = @] /\ next = [next EXCEPT ![r] = @]
      /\ payload[r] # {} => staging[r] = "payload"
      /\ Unpacked(r)
  BY DEF RunTypes, UnpackInv
<1>1. ASSUME Start(r) \/ Plan(r) \/ Download(r) \/ WritePointer(r) PROVE RunTypes' /\ UnpackInv'
  <2>1. PICK s \in {"reading", "mkdir", "idle", "access", "switch"} :
          /\ Goto(r, s) /\ UNCHANGED <<area, swept>>
          /\ s = "access" => at[r] = "download"
    BY <1>1 DEF Start, Plan, Download, WritePointer, installGhosts
  <2> QED BY <2>1, UnpackKept
<1>2. ASSUME Access(r) \/ Fault(r) \/ RemovalFails(r) PROVE RunTypes' /\ UnpackInv'
  <2>1. PICK s \in {"unpack", "idle", "unpublish", "unstage"} :
          /\ Goto(r, s) /\ UNCHANGED <<area, swept>>
          /\ s = "unpack" => at[r] = "access"
    BY <1>2 DEF Access, Fault, RemovalFails, Caught, installGhosts
  <2> QED BY <2>1, UnpackKept
<1>3. ASSUME Switch(r) PROVE RunTypes' /\ UnpackInv'
  <2>1. PICK s \in {"sweep", "idle"} : Goto(r, s) /\ UNCHANGED <<area, swept>>
    BY <1>3 DEF Switch
  <2> QED BY <2>1, UnpackKept
<1>4. ASSUME Unpublish(r) PROVE RunTypes' /\ UnpackInv'
  <2>1. PICK s \in {"unpublish", "unstage"} : Goto(r, s) /\ UNCHANGED <<area, swept>>
    BY <1>0, <1>4, SMTT(60) DEF Unpublish, Goto, installGhosts
  <2> QED BY <2>1, UnpackKept
<1>5. ASSUME MakeStaging(r) PROVE RunTypes' /\ UnpackInv'
  <2>1. 1 \in 1..(Files + 1)
    BY Constants
  <2> QED BY <1>5, <2>1, UnpackOne DEF MakeStaging, Goto, installGhosts
<1>6. ASSUME Unpack(r) PROVE RunTypes' /\ UnpackInv'
  <2>1. CASE staging[r] = "none"
    <3>1. Goto(r, "unstage") /\ UNCHANGED <<area, swept>>
      BY <1>6, <2>1, SMTT(60) DEF Unpack, Caught, HasPublished, installGhosts, area
    <3> QED BY <3>1, UnpackKept
  <2>2. CASE staging[r] # "none"
    <3>1. /\ payload[r] = {} /\ next[r] = 1
          /\ at' = [at EXCEPT ![r] = "files"] /\ staging' = [staging EXCEPT ![r] = "payload"]
          /\ payload' = [payload EXCEPT ![r] = payload[r]] /\ next' = [next EXCEPT ![r] = next[r]]
          /\ swept' = swept
      BY <1>0, <1>6, <2>2 DEF Unpack, Goto, Unpacked, installGhosts
    <3>2. payload[r] = 1..(next[r] - 1)
      BY <3>1, SMTT(60)
    <3> QED BY <1>0, <3>1, <3>2, UnpackOne
  <2> QED BY <2>1, <2>2
<1>7. ASSUME UnpackFile(r) PROVE RunTypes' /\ UnpackInv'
  <2> DEFINE p == payload[r] \cup {next[r]}
             n == next[r] + 1
  <2>1. /\ at' = [at EXCEPT ![r] = "files"] /\ staging' = [staging EXCEPT ![r] = "payload"]
        /\ payload' = [payload EXCEPT ![r] = p] /\ next' = [next EXCEPT ![r] = n]
        /\ swept' = swept /\ next[r] <= Files /\ at[r] = "files"
    BY <1>0, <1>7 DEF UnpackFile, installGhosts
  <2>2. p \in SUBSET Content /\ n \in 1..(Files + 1)
    BY <1>0, <2>1, Constants
  <2>3. swept \/ p = 1..(n - 1)
    BY <1>0, <2>1, Constants, SMTT(60) DEF Unpacked
  <2> HIDE DEF p, n
  <2> QED BY <2>1, <2>2, <2>3, UnpackOne
<1>8. ASSUME WriteManifest(r) PROVE RunTypes' /\ UnpackInv'
  <2>1. CASE staging[r] # "payload"
    <3>1. Goto(r, "unstage") /\ UNCHANGED <<area, swept>>
      BY <1>8, <2>1, SMTT(60) DEF WriteManifest, Caught, HasPublished, installGhosts, area
    <3> QED BY <3>1, UnpackKept
  <2>2. CASE staging[r] = "payload"
    <3> DEFINE p == payload[r] \cup {Manifest}
    <3>1. /\ at' = [at EXCEPT ![r] = "publish"] /\ staging' = [staging EXCEPT ![r] = "payload"]
          /\ payload' = [payload EXCEPT ![r] = p] /\ next' = [next EXCEPT ![r] = next[r]]
          /\ swept' = swept /\ next[r] > Files /\ at[r] = "files"
      BY <1>0, <1>8, <2>2 DEF WriteManifest, Goto, installGhosts
    <3>2. next[r] = Files + 1
      BY <1>0, <3>1, Constants
    <3>3. p \in SUBSET Content /\ Manifest \in p /\ (swept \/ p = Content)
      BY <1>0, <3>1, <3>2, Constants DEF Unpacked, Manifest
    <3> HIDE DEF p
    <3> QED BY <1>0, <3>1, <3>3, UnpackOne
  <2> QED BY <2>1, <2>2
<1>9. ASSUME Publish(r) PROVE RunTypes' /\ UnpackInv'
  <2>1. CASE Publishes(r)
    <3>1. /\ at' = [at EXCEPT ![r] = "pointer"] /\ staging' = [staging EXCEPT ![r] = "made"]
          /\ payload' = [payload EXCEPT ![r] = {}] /\ next' = [next EXCEPT ![r] = next[r]]
          /\ swept' = swept
      BY <1>0, <1>9, <2>1 DEF Publish, Goto, installGhosts
    <3> QED BY <1>0, <3>1, UnpackOne
  <2>2. CASE ~Publishes(r)
    <3>1. Goto(r, "unstage") /\ UNCHANGED <<area, swept>>
      BY <1>9, <2>2 DEF Publish, Caught, HasPublished, installGhosts, area
    <3> QED BY <3>1, UnpackKept
  <2> QED BY <2>1, <2>2, SMTT(60)
<1>10. ASSUME Unstage(r) \/ Crash(r) PROVE RunTypes' /\ UnpackInv'
  <2>1. /\ at' = [at EXCEPT ![r] = "idle"] /\ staging' = [staging EXCEPT ![r] = "none"]
        /\ payload' = [payload EXCEPT ![r] = {}] /\ next' = [next EXCEPT ![r] = next[r]]
        /\ swept' = swept
    BY <1>0, <1>10 DEF Unstage, Crash, Goto, installGhosts
  <2> QED BY <1>0, <2>1, UnpackOne
<1>11. ASSUME Sweep(r) PROVE RunTypes' /\ UnpackInv'
  <2>1. /\ at'[r] = "idle" /\ next' = next
        /\ \A q \in Run : /\ q # r => at'[q] = at[q]
                          /\ payload'[q] = {} /\ staging'[q] = "none"
                          /\ swept \/ (q # r /\ payload[q] # {}) => swept'
    BY <1>11 DEF Sweep, Goto, RunTypes
  <2>2. RunTypes'
    BY <1>11, <2>1 DEF Sweep, Goto, RunTypes
  <2>3. ASSUME NEW q \in Run, q # r PROVE Unpacked(q)'
    <3>1. CASE payload[q] = {}
      BY <2>1, <2>3, <3>1 DEF Unpacked, UnpackInv
    <3>2. CASE payload[q] # {}
      BY <2>1, <2>3, <3>2 DEF Unpacked, UnpackInv
    <3> QED BY <3>1, <3>2
  <2>4. Unpacked(r)'
    BY <2>1 DEF Unpacked
  <2> QED BY <2>2, <2>3, <2>4 DEF UnpackInv
<1> QED
  BY <1>1, <1>2, <1>3, <1>4, <1>5, <1>6, <1>7, <1>8, <1>9, <1>10, <1>11 DEF RunStep, Advance
-----------------------------------------------------------------------------
\* What is on the disk.

\* A step that publishes, switches and removes nothing.
LEMMA DiskKept ==
  ASSUME DiskInv, RunTypes', UNCHANGED <<disk, wasCurrent>>,
         swept => swept', abandoned => abandoned',
         \A q \in Run : /\ Holds(q)' => Holds(q)
                        /\ Holds(q) => Holds(q)' \/ abandoned'
                        /\ at'[q] \in {"pointer", "switch"} => at[q] \in {"pointer", "switch"}
  PROVE  DiskInv'
<1>1. DiskTypes' /\ HoldInv' /\ CurrentInv'
  BY DEF DiskInv, disk, DiskTypes, HoldInv, CurrentInv, Sound
<1>2. LeftoversOnlyByCrash'
  BY DEF DiskInv, disk, LeftoversOnlyByCrash, Holds
<1> QED BY <1>1, <1>2 DEF DiskInv

\* A payload that is published was not there before, and nobody had held its name.
LEMMA PublishStep ==
  ASSUME InstallerInv, NEW r \in Run, Publish(r), Publishes(r)
  PROVE  DiskInv'
<1> DEFINE v == Release[r]
<1>1. /\ at[r] = "publish" /\ staging[r] = "payload" /\ v \in Version \ target
      /\ at'[r] = "pointer" /\ \A q \in Run : q # r => at'[q] = at[q]
      /\ target' = target \cup {v} /\ content'[v] = payload[r]
      /\ \A w \in Version : w # v => content'[w] = content[w]
      /\ UNCHANGED <<pointer, wasCurrent, swept, abandoned>>
  BY Constants DEF Publish, Publishes, Goto, InstallerInv, DiskInv, DiskTypes, RunTypes, installGhosts
<1>2. Manifest \in payload[r] /\ (swept \/ payload[r] = Content) /\ payload[r] \subseteq Content
  BY <1>1 DEF InstallerInv, UnpackInv, Unpacked, RunTypes
<1>3. content' \in [Version -> SUBSET Content]
  BY <1>2 DEF Publish, Publishes, InstallerInv, DiskInv, DiskTypes
<1> HIDE DEF v
<1>4. DiskTypes'
  BY <1>1, <1>2, <1>3 DEF InstallerInv, DiskInv, DiskTypes
<1>5. \A q \in Run : Holds(q) => Release[q] # v
  BY <1>1 DEF InstallerInv, DiskInv, HoldInv
<1>6. v \notin wasCurrent
  BY <1>1, Constants DEF InstallerInv, DiskInv, CurrentInv, Sound, DiskTypes
<1>7. HoldInv'
  BY <1>1, <1>2, <1>5, <1>6, Constants DEF InstallerInv, DiskInv, HoldInv, Holds, Sound, v
<1>8. CurrentInv'
  BY <1>1, <1>6 DEF InstallerInv, DiskInv, DiskTypes, CurrentInv, Sound
<1>9. LeftoversOnlyByCrash'
  BY <1>1 DEF InstallerInv, DiskInv, LeftoversOnlyByCrash, v
<1> QED BY <1>4, <1>7, <1>8, <1>9 DEF DiskInv

\* The pointer is switched to a version that is whole.
LEMMA SwitchStep ==
  ASSUME InstallerInv, NEW r \in Run, Switch(r)
  PROVE  DiskInv'
<1> DEFINE v == Release[r]
<1>1. /\ at[r] = "switch" /\ v \in Version /\ pointer' = v /\ wasCurrent' = wasCurrent \cup {v}
      /\ at'[r] \notin {"pointer", "switch", "unpublish"}
      /\ \A q \in Run : q # r => at'[q] = at[q]
      /\ UNCHANGED <<target, content, swept, abandoned>>
  BY Constants DEF Switch, Goto, InstallerInv, RunTypes
<1>2. Holds(r) /\ Sound(v)
  BY <1>1 DEF InstallerInv, DiskInv, HoldInv, Holds
<1>3. DiskTypes'
  BY <1>1 DEF InstallerInv, DiskInv, DiskTypes
<1>4. HoldInv'
  BY <1>1, <1>2 DEF InstallerInv, DiskInv, HoldInv, Holds, Sound
<1>5. CurrentInv'
  BY <1>1, <1>2 DEF InstallerInv, DiskInv, CurrentInv, Sound
<1>6. LeftoversOnlyByCrash'
  BY <1>1 DEF InstallerInv, DiskInv, LeftoversOnlyByCrash
<1> QED BY <1>3, <1>4, <1>5, <1>6 DEF DiskInv

\* What a failed run removes is what it holds.
LEMMA UnpublishStep ==
  ASSUME InstallerInv, NEW r \in Run, Unpublish(r)
  PROVE  DiskInv' /\ \A w \in wasCurrent : content'[w] = content[w]
<1> DEFINE v == Release[r]
<1>1. /\ at[r] = "unpublish" /\ Holds(r) /\ v \in target \ wasCurrent /\ v \in Version
      /\ UNCHANGED <<pointer, wasCurrent, swept, abandoned>>
  BY Constants DEF Unpublish, InstallerInv, DiskInv, HoldInv, Holds, installGhosts
<1>2. PICK e \in content[v] :
        /\ content' = [content EXCEPT ![v] = content[v] \ {e}]
        /\ IF content[v] = {e} THEN Goto(r, "unstage") /\ target' = target \ {v}
                               ELSE UNCHANGED <<at, target>>
  BY DEF Unpublish
<1>3. /\ content'[v] = content[v] \ {e} /\ content' \in [Version -> SUBSET Content]
      /\ \A w \in Version : w # v => content'[w] = content[w]
  BY <1>1, <1>2 DEF InstallerInv, DiskInv, DiskTypes
<1>4. \A q \in Run : q # r => at'[q] = at[q]
  BY <1>2 DEF Goto, InstallerInv, RunTypes
<1>5. \A q \in Run : Holds(q) /\ q # r => Release[q] # v
  BY <1>1 DEF InstallerInv, DiskInv, HoldInv
<1> HIDE DEF v
<1>6. DiskTypes'
  <2>1. CASE content[v] = {e}
    BY <1>1, <1>2, <1>3, <2>1 DEF InstallerInv, DiskInv, DiskTypes
  <2>2. CASE content[v] # {e}
    BY <1>1, <1>2, <1>3, <2>2 DEF InstallerInv, DiskInv, DiskTypes
  <2> QED BY <2>1, <2>2
<1>7. /\ \A q \in Run : Holds(q)' => Holds(q) /\ Release[q] \in target'
      /\ \A q \in Run : at'[q] \in {"pointer", "switch"} => q # r
  <2>1. CASE content[v] = {e}
    <3>1. at'[r] = "unstage" /\ target' = target \ {v}
      BY <1>2, <2>1 DEF Goto, InstallerInv, RunTypes
    <3> QED BY <1>4, <1>5, <3>1 DEF Holds, InstallerInv, DiskInv, HoldInv
  <2>2. CASE content[v] # {e}
    BY <1>1, <1>2, <2>2 DEF Holds, InstallerInv, DiskInv, HoldInv
  <2> QED BY <2>1, <2>2
<1>8. HoldInv'
  BY <1>1, <1>3, <1>4, <1>5, <1>7, Constants DEF InstallerInv, DiskInv, HoldInv, Holds, Sound
<1>9. \A w \in wasCurrent : content'[w] = content[w]
  BY <1>1, <1>3 DEF InstallerInv, DiskInv, DiskTypes
<1>10. CurrentInv'
  BY <1>1, <1>9 DEF InstallerInv, DiskInv, CurrentInv, Sound
<1>11. LeftoversOnlyByCrash'
  <2>1. CASE content[v] = {e}
    BY <1>1, <1>2, <1>4, <2>1 DEF InstallerInv, DiskInv, LeftoversOnlyByCrash, v
  <2>2. CASE content[v] # {e}
    BY <1>1, <1>2, <2>2 DEF InstallerInv, DiskInv, LeftoversOnlyByCrash
  <2> QED BY <2>1, <2>2
<1> QED BY <1>6, <1>8, <1>9, <1>10, <1>11 DEF DiskInv

\* Every step of a run: what is on the disk, and what those who read it can rely on.
LEMMA DiskStep ==
  ASSUME InstallerInv, NEW r \in Run, RunStep(r), RunTypes'
  PROVE  DiskInv' /\ (swept => swept')
         /\ \A w \in wasCurrent : w \in wasCurrent' /\ content'[w] = content[w]
<1> DEFINE Lasting == \A w \in wasCurrent : w \in wasCurrent' /\ content'[w] = content[w]
           Goal == DiskInv' /\ (swept => swept') /\ Lasting
<1> DiskInv /\ RunTypes
  BY DEF InstallerInv
<1>1. ASSUME UNCHANGED <<disk, wasCurrent>>, swept => swept', abandoned => abandoned',
             \A q \in Run : q # r => at'[q] = at[q],
             at'[r] \in {"pointer", "switch"} => at[r] \in {"pointer", "switch"},
             Holds(r)' => Holds(r),
             Holds(r) => Holds(r)' \/ abandoned'
      PROVE  Goal
  <2>2. \A q \in Run : /\ Holds(q)' => Holds(q)
                       /\ Holds(q) => Holds(q)' \/ abandoned'
                       /\ at'[q] \in {"pointer", "switch"} => at[q] \in {"pointer", "switch"}
    BY <1>1 DEF Holds
  <2>3. DiskInv'
    BY <1>1, <2>2, DiskKept
  <2> QED BY <1>1, <2>3 DEF disk
<1>2. ASSUME Start(r) \/ Plan(r) \/ MakeStaging(r) \/ Download(r) \/ WritePointer(r) \/ Unstage(r)
      PROVE  Goal
  <2>1. PICK s \in {"reading", "mkdir", "idle", "download", "access", "switch"} :
          /\ at' = [at EXCEPT ![r] = s]
          /\ Holds(r) => at[r] = "pointer"
          /\ (s = "switch") <=> (at[r] = "pointer")
    BY <1>2 DEF Start, Plan, MakeStaging, Download, WritePointer, Unstage, Goto, Holds
  <2>2. UNCHANGED <<disk, wasCurrent, swept, abandoned>>
    BY <1>2 DEF Start, Plan, MakeStaging, Download, WritePointer, Unstage, installGhosts
  <2>3. /\ \A q \in Run : q # r => at'[q] = at[q]
        /\ at'[r] \in {"pointer", "switch"} => at[r] \in {"pointer", "switch"}
        /\ Holds(r)' <=> Holds(r)
    BY <2>1 DEF Holds, RunTypes
  <2> QED BY <1>1, <2>1, <2>2, <2>3
<1>3. ASSUME Access(r) \/ Unpack(r) \/ WriteManifest(r) \/ Fault(r) \/ (Publish(r) /\ ~Publishes(r))
      PROVE  Goal
  <2>1. PICK s \in {"unpack", "files", "publish", "idle", "unpublish", "unstage"} :
          /\ at' = [at EXCEPT ![r] = s]
          /\ s = "unpublish" => Holds(r)
          /\ Holds(r) => s = "unpublish"
    BY <1>3 DEF Access, Unpack, WriteManifest, Fault, Publish, Caught, HasPublished, Goto, Holds, Steps
  <2>2. UNCHANGED <<disk, wasCurrent, swept, abandoned>>
    BY <1>3 DEF Access, Unpack, WriteManifest, Fault, Publish, disk, installGhosts
  <2>3. /\ \A q \in Run : q # r => at'[q] = at[q]
        /\ at'[r] \notin {"pointer", "switch"}
        /\ Holds(r)' <=> Holds(r)
    BY <2>1 DEF Holds, RunTypes
  <2> QED BY <1>1, <2>2, <2>3
<1>4. ASSUME UnpackFile(r) PROVE Goal
  BY <1>4, DiskKept DEF UnpackFile, disk, installGhosts, Holds
<1>5. ASSUME Sweep(r) \/ Crash(r) \/ RemovalFails(r) PROVE Goal
  <2>1. /\ at'[r] \in {"idle", "unstage"} /\ \A q \in Run : q # r => at'[q] = at[q]
        /\ UNCHANGED <<disk, wasCurrent>>
        /\ swept => swept'
        /\ abandoned => abandoned'
        /\ ~Holds(r) \/ abandoned'
        /\ ~Holds(r)'
    <3>1. /\ \E s \in {"idle", "unstage"} : at' = [at EXCEPT ![r] = s]
          /\ UNCHANGED <<disk, wasCurrent>>
      BY <1>5 DEF Sweep, Crash, RemovalFails, Goto
    <3>2. at'[r] \in {"idle", "unstage"} /\ \A q \in Run : q # r => at'[q] = at[q]
      BY <3>1 DEF RunTypes
    <3>3. CASE Sweep(r)
      BY <3>1, <3>2, <3>3 DEF Sweep, Holds
    <3>4. CASE Crash(r)
      BY <3>1, <3>2, <3>4 DEF Crash, Holds
    <3>5. CASE RemovalFails(r)
      BY <3>1, <3>2, <3>5 DEF RemovalFails, Holds
    <3> QED BY <1>5, <3>3, <3>4, <3>5
  <2> QED BY <1>1, <2>1
<1>6. ASSUME Publish(r), Publishes(r) PROVE Goal
  <2>1. /\ UNCHANGED <<wasCurrent, swept>>
        /\ \A w \in Version : w \in target => content'[w] = content[w]
    BY <1>6, Constants DEF Publish, Publishes, installGhosts, DiskInv, DiskTypes
  <2>2. \A w \in wasCurrent : w \in Version /\ w \in target
    BY DEF DiskInv, DiskTypes, CurrentInv, Sound
  <2> QED BY <1>6, <2>1, <2>2, PublishStep
<1>7. ASSUME Switch(r) PROVE Goal
  BY <1>7, SwitchStep DEF Switch
<1>8. ASSUME Unpublish(r) PROVE Goal
  BY <1>8, UnpublishStep DEF Unpublish, installGhosts
<1> QED
  BY <1>2, <1>3, <1>4, <1>5, <1>6, <1>7, <1>8 DEF RunStep, Advance
-----------------------------------------------------------------------------
\* Those who have read the pointer.

LEMMA ReadersStep == ASSUME InstallerInv, NEW r \in Run, RunStep(r) PROVE ReadersInv'
<1> ReadersInv /\ DiskTypes
  BY DEF InstallerInv, DiskInv
<1>1. ASSUME UNCHANGED <<pointer, seen, wasCurrent>> PROVE ReadersInv'
  BY <1>1 DEF ReadersInv
<1>2. ASSUME Start(r) PROVE ReadersInv'
  BY <1>2 DEF Start, ReadersInv, disk, DiskTypes
<1>3. ASSUME Plan(r) \/ Crash(r) PROVE ReadersInv'
  BY <1>3 DEF Plan, Crash, ReadersInv, disk, installGhosts
<1>4. ASSUME Switch(r) PROVE ReadersInv'
  BY <1>4 DEF Switch, ReadersInv
<1>5. ASSUME ~Start(r), ~Plan(r), ~Crash(r), ~Switch(r) PROVE ReadersInv'
  BY <1>1, <1>5
  DEF RunStep, Advance, MakeStaging, Download, Access, Unpack, UnpackFile, WriteManifest, Publish,
      WritePointer, Sweep, Unpublish, Unstage, Fault, RemovalFails, disk, installGhosts
<1> QED BY <1>2, <1>3, <1>4, <1>5

LEMMA FlagStep == ASSUME InstallerInv, NEW r \in Run, RunStep(r) PROVE FlagTypes'
<1> FlagTypes
  BY DEF InstallerInv
<1>1. ASSUME UNCHANGED <<faults, swept, abandoned>> PROVE FlagTypes'
  BY <1>1 DEF FlagTypes
<1>2. ASSUME Fault(r) \/ RemovalFails(r) \/ Crash(r) PROVE FlagTypes'
  <2>1. faults' = faults + 1 /\ faults < MaxFaults
    BY <1>2 DEF Fault, RemovalFails, Crash
  <2>2. faults' \in 0..MaxFaults
    BY <2>1, InstallerAssumption DEF FlagTypes
  <2>3. swept' = swept /\ abandoned' \in BOOLEAN
    BY <1>2 DEF Fault, RemovalFails, Crash, installGhosts, FlagTypes
  <2> QED BY <2>2, <2>3 DEF FlagTypes
<1>3. ASSUME Sweep(r) PROVE FlagTypes'
  BY <1>3 DEF Sweep, FlagTypes
<1>4. ASSUME ~Fault(r), ~RemovalFails(r), ~Crash(r), ~Sweep(r) PROVE FlagTypes'
  BY <1>1, <1>4
  DEF RunStep, Start, Advance, Plan, MakeStaging, Download, Access, Unpack, UnpackFile,
      WriteManifest, Publish, WritePointer, Switch, Unpublish, Unstage, installGhosts
<1> QED BY <1>2, <1>3, <1>4

\* What the agent has verified is not changed behind its back.
LEMMA ActivationKept ==
  ASSUME InstallerInv, UNCHANGED activation, swept => swept',
         \A w \in wasCurrent : w \in wasCurrent' /\ content'[w] = content[w]
  PROVE  ActivationInv'
<1>1. activation.step \in {"entries", "verified", "loaded"} =>
        content'[activation.version] = content[activation.version]
  BY DEF InstallerInv, ActivationInv
<1> QED BY <1>1 DEF InstallerInv, ActivationInv

\* And what it finds it can activate, unless files were swept away.
LEMMA ActivateStep == ASSUME InstallerInv, Activate, UNCHANGED <<disk, wasCurrent, swept>> PROVE ActivationInv'
<1> ActivationInv /\ ReadersInv /\ CurrentInv /\ DiskTypes
  BY DEF InstallerInv, DiskInv
<1> DEFINE v == activation.version
           a == activation.entry
<1>0. /\ Files \in Nat \ {0} /\ 1 \in 1..Files /\ Content = 0..Files /\ Manifest = 0
      /\ v \in Version \cup {None} /\ a \in 1..Files
      /\ activation.step # "idle" => v \in wasCurrent /\ v \in Version /\ Sound(v)
      /\ content' = content /\ wasCurrent' = wasCurrent /\ swept' = swept
  BY Constants DEF ActivationInv, CurrentInv, DiskTypes, disk, Manifest
<1>1. ASSUME NEW s \in {"entries", "verified", "loaded", "refused"}, At(s), activation.step # "idle",
             s = "entries" => a = 1,
             s \in {"verified", "loaded"} => content[v] = Content,
             s = "refused" => swept
      PROVE  ActivationInv'
  <2>1. /\ activation'.step = s /\ activation'.version = v /\ activation'.entry = a
        /\ activation' \in [step : {"idle", "manifest", "entries", "verified", "loaded", "refused"},
                            version : Version \cup {None}, entry : 1..Files]
    BY <1>0, <1>1 DEF At, ActivationInv
  <2>2. s = "entries" => 1..(a - 1) = {}
    BY <1>1
  <2> QED BY <1>0, <1>1, <2>1, <2>2 DEF ActivationInv
<1>2. ASSUME ReadPointer PROVE ActivationInv'
  BY <1>0, <1>2 DEF ReadPointer, ActivationInv, ReadersInv, DiskTypes
<1>3. ASSUME ReadManifest PROVE ActivationInv'
  <2>1. activation.step = "manifest" /\ Manifest \in content[v]
    BY <1>0, <1>3 DEF ReadManifest, Sound
  <2>2. a = 1
    BY <2>1 DEF ActivationInv
  <2> QED BY <1>1, <1>3, <2>1, <2>2 DEF ReadManifest
<1>4. ASSUME VerifyEntry PROVE ActivationInv'
  <2>1. activation.step = "entries" /\ 1..(a - 1) \subseteq content[v] /\ Sound(v)
    BY <1>0, <1>4 DEF VerifyEntry, ActivationInv
  <2>2. CASE a \notin content[v]
    <3>1. swept
      BY <1>0, <2>1, <2>2 DEF Sound
    <3> QED BY <1>1, <1>4, <2>1, <2>2, <3>1 DEF VerifyEntry
  <2>3. CASE a \in content[v] /\ a = Files
    <3>1. content[v] \subseteq Content
      BY <1>0, <2>1 DEF DiskTypes
    <3>2. \A i \in Content : i = Manifest \/ i \in 1..(a - 1) \/ i = a
      BY <1>0, <2>3
    <3>3. content[v] = Content
      BY <2>1, <2>3, <3>1, <3>2 DEF Sound
    <3> QED BY <1>1, <1>4, <2>1, <2>3, <3>3 DEF VerifyEntry
  <2>4. CASE a \in content[v] /\ a # Files
    <3>1. activation' = [activation EXCEPT !.entry = a + 1]
      BY <1>4, <2>4 DEF VerifyEntry
    <3>2. a + 1 \in 1..Files /\ 1..((a + 1) - 1) \subseteq content[v]
      BY <1>0, <2>1, <2>4
    <3>3. /\ activation'.step = "entries" /\ activation'.version = v /\ activation'.entry = a + 1
          /\ activation' \in [step : {"idle", "manifest", "entries", "verified", "loaded", "refused"},
                              version : Version \cup {None}, entry : 1..Files]
      BY <1>0, <2>1, <3>1, <3>2 DEF ActivationInv
    <3> QED BY <1>0, <2>1, <3>2, <3>3 DEF ActivationInv
  <2> QED BY <2>2, <2>3, <2>4
<1>5. ASSUME LoadModule PROVE ActivationInv'
  <2>1. activation.step = "verified" /\ content[v] = Content /\ Entrypoint \in content[v]
    BY <1>0, <1>5 DEF LoadModule, ActivationInv, Entrypoint
  <2> QED BY <1>1, <1>5, <2>1 DEF LoadModule
<1> QED BY <1>2, <1>3, <1>4, <1>5 DEF Activate
-----------------------------------------------------------------------------
LEMMA InstallerNextInv == InstallerInv /\ [InstallerNext]_installVars => InstallerInv'
<1> SUFFICES ASSUME InstallerInv, [InstallerNext]_installVars PROVE InstallerInv'
  OBVIOUS
<1>1. ASSUME NEW r \in Run, RunStep(r), UNCHANGED activation PROVE InstallerInv'
  <2>1. RunTypes' /\ UnpackInv'
    BY <1>1, UnpackStep
  <2>2. /\ DiskInv' /\ (swept => swept')
        /\ \A w \in wasCurrent : w \in wasCurrent' /\ content'[w] = content[w]
    BY <1>1, <2>1, DiskStep
  <2>3. ActivationInv'
    BY <1>1, <2>2, ActivationKept
  <2> QED BY <1>1, <2>1, <2>2, <2>3, ReadersStep, FlagStep DEF InstallerInv
<1>2. ASSUME UNCHANGED <<disk, area, at, seen, faults, installGhosts>> PROVE
        /\ RunTypes' /\ UnpackInv' /\ DiskInv' /\ ReadersInv' /\ FlagTypes'
        /\ UNCHANGED <<disk, wasCurrent, swept>>
  <2>1. UNCHANGED <<staging, payload, next, at, seen, faults, swept, abandoned, wasCurrent,
                    pointer, target, content>>
    BY <1>2 DEF disk, area, installGhosts
  <2>2. RunTypes' /\ UnpackInv'
    BY <2>1 DEF InstallerInv, RunTypes, UnpackInv, Unpacked
  <2>3. DiskInv'
    BY <2>1 DEF InstallerInv, DiskInv, DiskTypes, HoldInv, Holds, Sound, CurrentInv, LeftoversOnlyByCrash
  <2> QED BY <2>1, <2>2, <2>3 DEF InstallerInv, ReadersInv, FlagTypes, disk
<1>3. CASE Activate /\ UNCHANGED <<disk, area, at, seen, faults, installGhosts>>
  BY <1>2, <1>3, ActivateStep DEF InstallerInv
<1>4. CASE UNCHANGED installVars
  BY <1>2, <1>4, ActivationKept DEF installVars, InstallerInv, disk
<1> QED BY <1>1, <1>3, <1>4 DEF InstallerNext, RunStep

\* The inductive invariant holds in every reachable state.
THEOREM InstallerInvariance == InstallerSpec => []InstallerInv
  BY InstallerInitInv, InstallerNextInv, PTL DEF InstallerSpec

\* Every variable has its type.
THEOREM InstallerTypeCorrect == InstallerSpec => []InstallerTypeOK
<1>1. InstallerInv => InstallerTypeOK
  BY DEF InstallerInv, RunTypes, DiskInv, DiskTypes, ReadersInv, FlagTypes, InstallerTypeOK
<1> QED BY <1>1, InstallerInvariance, PTL

\* Any number of runs install, fail, are killed and start again while the agent activates what
\* is there: current.json names a version that is there and whole, a version that was never
\* current is left over only by a crash, and what the agent has verified and loaded is a whole
\* package - with the exceptions for a sweep that the property names.
THEOREM InstallsAreWhole == InstallerSpec => []InstallIsWhole
<1>1. InstallerInv => CurrentIsWhole
  BY DEF InstallerInv, DiskInv, CurrentInv, Sound, ReadersInv, CurrentIsWhole
<1>2. InstallerInv => ActivatedIsWhole
  BY DEF InstallerInv, ActivationInv, ActivatedIsWhole
<1>3. InstallerInv => InstallIsWhole
  BY <1>1, <1>2 DEF InstallerInv, DiskInv, InstallIsWhole
<1> QED BY <1>3, InstallerInvariance, PTL

-----------------------------------------------------------------------------
(***************************************************************************)
(* Settings pages side by side.                                            *)
(***************************************************************************)
LineRecord == [kind : {"all", "local", "desktop", "failed", "update", "imported"}, of : Nat]
PendingRecord == [of : Nat, how : {"desktop", "timer"}, here : BOOLEAN]
TabRecord ==
  [open : BOOLEAN, profile : Profile, state : Record, saves : Nat, updates : BOOLEAN,
   update : BOOLEAN, line : LineRecord, pending : SUBSET PendingRecord, restart : Nat]

\* What a page says about saving is of its last save; without a desktop it says nothing.
LineHolds(tab) ==
  /\ tab.line.kind \in {"desktop", "failed"} => tab.line.of = tab.saves
  /\ tab.restart <= tab.saves
  /\ Owned(tab) => tab.line.kind \in {"update", "imported"}
  /\ ~desktop => tab.line.kind = "all" /\ tab.pending = {} /\ ~tab.updates
TabHolds(tab) == tab \in TabRecord /\ LineHolds(tab) /\ (tab.open => tab.state.label = tab.profile)

SettingsInv ==
  /\ \A p \in DOMAIN records : p \in Profile /\ records[p] \in Record
  /\ active \in Profile \cup {NoProfile}
  /\ DOMAIN tabs = Tab /\ \A t \in Tab : TabHolds(tabs[t])

LEMMA NoTabHolds ==
  /\ TabHolds(NoTab)
  /\ \A n \in Nat : TabHolds([NoTab EXCEPT !.saves = n])
  /\ \A n \in Nat, rec \in Record : TabHolds([NoTab EXCEPT !.state = rec, !.saves = n])
<1>1. NoTab \in TabRecord
  BY DEF NoTab, TabRecord, LineRecord, Profile, Record, Defaults
<1>2. ~NoTab.open /\ NoTab.line.kind = "all" /\ NoTab.restart = 0 /\ NoTab.pending = {}
      /\ ~NoTab.updates /\ NoTab.saves = 0
  BY DEF NoTab
<1>3. TabHolds(NoTab)
  BY <1>1, <1>2 DEF TabHolds, LineHolds, Owned
<1>4. ASSUME NEW n \in Nat PROVE TabHolds([NoTab EXCEPT !.saves = n])
  <2> DEFINE tab == [NoTab EXCEPT !.saves = n]
  <2>1. tab \in TabRecord
    BY <1>1 DEF TabRecord
  <2>2. /\ ~tab.open /\ tab.line.kind = "all" /\ tab.restart = 0 /\ tab.pending = {}
        /\ ~tab.updates /\ tab.saves = n
    BY <1>1, <1>2 DEF TabRecord
  <2>3. TabHolds(tab)
    <3> HIDE DEF tab
    <3> QED BY <2>1, <2>2 DEF TabHolds, LineHolds, Owned
  <2> QED BY <2>3
<1>5. ASSUME NEW n \in Nat, NEW rec \in Record
      PROVE  TabHolds([NoTab EXCEPT !.state = rec, !.saves = n])
  <2> DEFINE tab == [NoTab EXCEPT !.state = rec, !.saves = n]
  <2>1. tab \in TabRecord
    BY <1>1 DEF TabRecord
  <2>2. /\ ~tab.open /\ tab.line.kind = "all" /\ tab.restart = 0 /\ tab.pending = {}
        /\ ~tab.updates /\ tab.saves = n
    BY <1>1, <1>2 DEF TabRecord
  <2>3. TabHolds(tab)
    <3> HIDE DEF tab
    <3> QED BY <2>1, <2>2 DEF TabHolds, LineHolds, Owned
  <2> QED BY <2>3
<1> QED BY <1>3, <1>4, <1>5

LEMMA SettingsBegin == SettingsInit => SettingsInv
<1> SUFFICES ASSUME SettingsInit PROVE SettingsInv
  OBVIOUS
<1>1. \A p \in Profile : [Defaults(p) EXCEPT !.look = 1] \in Record
  BY DEF Defaults, Record
<1>2. \A p \in DOMAIN records : p \in Profile /\ records[p] \in Record
  BY <1>1 DEF SettingsInit, Profile
<1> QED BY <1>2, NoTabHolds DEF SettingsInit, SettingsInv

\* What saving and drawing do to a page.
Same(tab, old) ==
  tab.open = old.open /\ tab.profile = old.profile /\ tab.state = old.state

LEMMA StateSet ==
  ASSUME NEW tab, TabHolds(tab), NEW rec \in Record, tab.open => rec.label = tab.profile
  PROVE  /\ TabHolds([tab EXCEPT !.state = rec])
         /\ [tab EXCEPT !.state = rec].open = tab.open
         /\ [tab EXCEPT !.state = rec].profile = tab.profile
         /\ [tab EXCEPT !.state = rec].state = rec
         /\ [tab EXCEPT !.state = rec].saves = tab.saves
<1> DEFINE new == [tab EXCEPT !.state = rec]
<1>1. tab \in TabRecord
  BY DEF TabHolds
<1>2. new \in TabRecord
  BY <1>1 DEF TabRecord
<1>3. /\ new.open = tab.open /\ new.profile = tab.profile /\ new.state = rec /\ new.saves = tab.saves
      /\ new.updates = tab.updates /\ new.update = tab.update /\ new.line = tab.line
      /\ new.pending = tab.pending /\ new.restart = tab.restart
  BY <1>1 DEF TabRecord
<1>4. TabHolds(new)
  <2> HIDE DEF new
  <2>1. LineHolds(new)
    BY <1>3 DEF TabHolds, LineHolds, Owned
  <2> QED BY <1>2, <1>3, <2>1 DEF TabHolds
<1> QED BY <1>3, <1>4

LEMMA RenderedHolds ==
  ASSUME NEW tab, TabHolds(tab)
  PROVE  TabHolds(Rendered(tab)) /\ Same(Rendered(tab), tab) /\ Rendered(tab).saves = tab.saves
<1>1. CASE ~desktop
  BY <1>1 DEF Rendered, Same
<1>2. CASE desktop
  <2> DEFINE waiting == {[p EXCEPT !.here = FALSE] : p \in tab.pending}
             line == IF Owned(tab) THEN [kind |-> "update", of |-> 0] ELSE tab.line
             new == [tab EXCEPT !.pending = waiting, !.line = line]
  <2>1. Rendered(tab) = new
    BY <1>2 DEF Rendered
  <2>2. tab \in TabRecord
    BY DEF TabHolds
  <2>3. waiting \in SUBSET PendingRecord /\ line \in LineRecord
    <3>1. tab.pending \in SUBSET PendingRecord /\ tab.line \in LineRecord
      BY <2>2 DEF TabRecord
    <3>2. \A p \in PendingRecord : [p EXCEPT !.here = FALSE] \in PendingRecord
      BY DEF PendingRecord
    <3>3. [kind |-> "update", of |-> 0] \in LineRecord
      BY DEF LineRecord
    <3>4. waiting \in SUBSET PendingRecord
      BY <3>1, <3>2
    <3> QED BY <3>1, <3>3, <3>4
  <2>4. /\ new \in TabRecord
        /\ new.open = tab.open /\ new.profile = tab.profile /\ new.state = tab.state
        /\ new.saves = tab.saves /\ new.restart = tab.restart /\ new.line = line
        /\ new.updates = tab.updates /\ new.update = tab.update
    <3> HIDE DEF waiting, line
    <3> QED BY <2>2, <2>3 DEF TabRecord
  <2>5. LineHolds(new)
    <3>1. Owned(new) <=> Owned(tab)
      <4> HIDE DEF new
      <4> QED BY <2>4 DEF Owned
    <3>2. line.kind \in {"desktop", "failed"} => line.of = tab.saves
      BY DEF TabHolds, LineHolds
    <3>3. Owned(tab) => line.kind = "update"
      OBVIOUS
    <3> HIDE DEF new, line
    <3> QED BY <1>2, <2>4, <3>1, <3>2, <3>3 DEF TabHolds, LineHolds
  <2>6. TabHolds(new) /\ Same(new, tab)
    <3> HIDE DEF new, line
    <3> QED BY <2>4, <2>5 DEF TabHolds, Same
  <2> QED BY <2>1, <2>4, <2>6
<1> QED BY <1>1, <1>2

LEMMA SaveShownHolds ==
  ASSUME NEW tab, TabHolds(tab)
  PROVE  TabHolds(SaveShown(tab)) /\ Same(SaveShown(tab), tab) /\ SaveShown(tab).saves = tab.saves + 1
<1>0. tab \in TabRecord /\ tab.saves \in Nat /\ tab.restart \in Nat
  BY DEF TabHolds, TabRecord
<1>1. CASE ~desktop
  <2> DEFINE new == [tab EXCEPT !.saves = tab.saves + 1]
  <2>1. SaveShown(tab) = new
    BY <1>1 DEF SaveShown
  <2>2. /\ new \in TabRecord
        /\ new.open = tab.open /\ new.profile = tab.profile /\ new.state = tab.state
        /\ new.saves = tab.saves + 1 /\ new.restart = tab.restart /\ new.line = tab.line
        /\ new.updates = tab.updates /\ new.update = tab.update /\ new.pending = tab.pending
    BY <1>0 DEF TabRecord
  <2>3. TabHolds(new) /\ Same(new, tab)
    <3> HIDE DEF new
    <3> QED BY <1>0, <1>1, <2>2 DEF TabHolds, LineHolds, Owned, Same
  <2> QED BY <2>1, <2>2, <2>3
<1>2. CASE desktop
  <2> DEFINE n == tab.saves + 1
             more == {[of |-> n, how |-> how, here |-> TRUE] : how \in {"desktop", "timer"}}
             waiting == IF Owned(tab) THEN tab.pending ELSE tab.pending \union more
             line == IF Owned(tab) THEN tab.line ELSE [kind |-> "local", of |-> n]
             new == [tab EXCEPT !.saves = n, !.line = line, !.pending = waiting]
  <2>1. SaveShown(tab) = new
    BY <1>2 DEF SaveShown
  <2>2. waiting \in SUBSET PendingRecord /\ line \in LineRecord /\ n \in Nat /\ tab.restart <= n
    <3>1. tab.pending \in SUBSET PendingRecord /\ tab.line \in LineRecord /\ tab.restart <= tab.saves
      BY <1>0 DEF TabRecord, TabHolds, LineHolds
    <3>2. n \in Nat /\ tab.restart <= n
      BY <1>0, <3>1
    <3>3. more \in SUBSET PendingRecord /\ [kind |-> "local", of |-> n] \in LineRecord
      <4> HIDE DEF n
      <4>1. \A how \in {"desktop", "timer"} :
              [of |-> n, how |-> how, here |-> TRUE] \in PendingRecord
        BY <3>2 DEF PendingRecord
      <4>2. [kind |-> "local", of |-> n] \in LineRecord
        BY <3>2 DEF LineRecord
      <4> QED BY <4>1, <4>2
    <3> QED BY <3>1, <3>2, <3>3
  <2>3. /\ new \in TabRecord
        /\ new.open = tab.open /\ new.profile = tab.profile /\ new.state = tab.state
        /\ new.saves = n /\ new.restart = tab.restart /\ new.line = line
        /\ new.updates = tab.updates /\ new.update = tab.update
    <3> HIDE DEF waiting, line, n
    <3> QED BY <1>0, <2>2 DEF TabRecord
  <2>4. LineHolds(new)
    <3>1. Owned(new) <=> Owned(tab)
      <4> HIDE DEF new
      <4> QED BY <2>3 DEF Owned
    <3>2. Owned(tab) => line.kind \in {"update", "imported"}
      BY DEF TabHolds, LineHolds
    <3>3. ~Owned(tab) => line.kind = "local"
      OBVIOUS
    <3> HIDE DEF new, line, n
    <3> QED BY <1>2, <2>2, <2>3, <3>1, <3>2, <3>3 DEF LineHolds
  <2>5. TabHolds(new) /\ Same(new, tab)
    <3> HIDE DEF new, line, n
    <3> QED BY <2>3, <2>4 DEF TabHolds, Same
  <2> QED BY <2>1, <2>3, <2>5
<1> QED BY <1>1, <1>2

\* What a step does to the profiles' records, as SettingsStayInProfile says.
SettingsScoped ==
  /\ \A p \in DOMAIN records' :
       \/ p \in DOMAIN records /\ records'[p] = records[p]
       \/ \E t \in Tab : tabs[t].open /\ tabs[t].profile = p /\ tabs'[t].state = records'[p]
       \/ p = "gaming" /\ p \notin DOMAIN records /\ records'[p] = records["default"]
  /\ active' # active =>
       \E t \in Tab : tabs[t].open /\ ~tabs'[t].open /\ tabs'[t].state.label = active'

LEMMA TabsKeep ==
  ASSUME SettingsInv, NEW t \in Tab, NEW tab, TabHolds(tab), desktop' = desktop,
         tabs' = [tabs EXCEPT ![t] = tab]
  PROVE  /\ tabs'[t] = tab /\ DOMAIN tabs' = Tab /\ \A u \in Tab : TabHolds(tabs[u])'
<1>1. tabs'[t] = tab /\ DOMAIN tabs' = Tab /\ \A u \in Tab : u # t => tabs'[u] = tabs[u]
  BY DEF SettingsInv
<1>2. \A u \in Tab : TabHolds(tabs'[u])
  BY <1>1 DEF SettingsInv
<1>3. \A u \in Tab : TabHolds(tabs[u])' <=> TabHolds(tabs'[u])
  BY DEF TabHolds, LineHolds, Owned
<1> QED BY <1>1, <1>2, <1>3

\* A page that writes what it shows.
LEMMA WriteKeeps ==
  ASSUME SettingsInv, NEW t \in Tab, NEW rec \in Record, Write(t, rec), tabs[t].open,
         NEW tab, TabHolds(tab), tabs' = [tabs EXCEPT ![t] = tab],
         tab.state = rec, ~tab.open \/ rec.label = tabs[t].profile
  PROVE  SettingsInv' /\ SettingsScoped
<1> DEFINE mine == tabs[t].profile
<1>1. /\ records' = With(mine, rec) /\ desktop' = desktop
      /\ active' = IF rec.label # mine THEN rec.label ELSE active
  BY DEF Write
<1>2. tabs'[t] = tab /\ DOMAIN tabs' = Tab /\ \A u \in Tab : TabHolds(tabs[u])'
  BY <1>1, TabsKeep
<1>3. mine \in Profile /\ rec.label \in Profile
  BY DEF SettingsInv, TabHolds, TabRecord, Record
<1>4. /\ DOMAIN records' = DOMAIN records \union {mine} /\ records'[mine] = rec
      /\ \A p \in DOMAIN records : p # mine => records'[p] = records[p]
  BY <1>1 DEF With
<1>5. SettingsInv'
  BY <1>1, <1>2, <1>3, <1>4 DEF SettingsInv
<1>6. SettingsScoped
  <2>1. ASSUME NEW p \in DOMAIN records'
        PROVE  \/ p \in DOMAIN records /\ records'[p] = records[p]
               \/ tabs[t].profile = p /\ tabs'[t].state = records'[p]
    BY <1>2, <1>4
  <2>2. ASSUME active' # active PROVE ~tabs'[t].open /\ tabs'[t].state.label = active'
    BY <1>1, <1>2, <2>2
  <2> QED BY <2>1, <2>2 DEF SettingsScoped
<1> QED BY <1>5, <1>6

\* Steps that write no record.
LEMMA ReadKeeps ==
  ASSUME SettingsInv, NEW t \in Tab, NEW tab, TabHolds(tab), tabs' = [tabs EXCEPT ![t] = tab],
         UNCHANGED <<desktop, active, records>>
  PROVE  SettingsInv' /\ SettingsScoped
<1>1. DOMAIN tabs' = Tab /\ \A u \in Tab : TabHolds(tabs[u])'
  BY TabsKeep
<1> QED BY <1>1 DEF SettingsInv, SettingsScoped

LEMMA ChangeKeeps ==
  ASSUME SettingsInv, NEW t \in Tab, Change(t) \/ Reset(t) \/ ClearCredentials(t)
  PROVE  SettingsInv' /\ SettingsScoped
<1>0. TabHolds(tabs[t]) /\ tabs[t] \in TabRecord /\ t \in DOMAIN tabs
  BY DEF SettingsInv, TabHolds
<1>1. CASE Change(t)
  <2>1. PICK rec \in Record, slider \in BOOLEAN :
          /\ rec.label = tabs[t].profile /\ Write(t, rec) /\ tabs[t].open
          /\ tabs' = [tabs EXCEPT ![t] =
               SaveShown(IF slider THEN [tabs[t] EXCEPT !.state = rec]
                         ELSE Rendered([tabs[t] EXCEPT !.state = rec]))]
    BY <1>1 DEF Change, Editable
  <2> DEFINE set == [tabs[t] EXCEPT !.state = rec]
             drawn == IF slider THEN set ELSE Rendered(set)
  <2>2. TabHolds(set) /\ set.state = rec
    BY <1>0, <2>1, StateSet
  <2>3. TabHolds(drawn) /\ drawn.state = rec
    <3> HIDE DEF set
    <3> QED BY <2>2, RenderedHolds DEF Same
  <2>4. TabHolds(SaveShown(drawn)) /\ SaveShown(drawn).state = rec
    <3> HIDE DEF drawn
    <3> QED BY <2>3, SaveShownHolds DEF Same
  <2> QED BY <2>1, <2>4, WriteKeeps
<1>2. CASE Reset(t)
  <2> DEFINE rec == Defaults(tabs[t].profile)
             set == [tabs[t] EXCEPT !.state = rec]
  <2>1. Write(t, rec) /\ tabs[t].open /\ tabs' = [tabs EXCEPT ![t] = SaveShown(Rendered(set))]
    BY <1>0, <1>2 DEF Reset, Editable
  <2>2. rec \in Record /\ rec.label = tabs[t].profile
    BY <1>0 DEF Defaults, Record, TabRecord
  <2> HIDE DEF rec
  <2>3. TabHolds(set) /\ set.state = rec
    BY <1>0, <2>2, StateSet
  <2> HIDE DEF set
  <2>4. TabHolds(Rendered(set)) /\ Rendered(set).state = rec
    BY <2>3, RenderedHolds DEF Same
  <2>5. TabHolds(SaveShown(Rendered(set))) /\ SaveShown(Rendered(set)).state = rec
    BY <2>4, SaveShownHolds DEF Same
  <2> QED BY <2>1, <2>2, <2>5, WriteKeeps
<1>3. CASE ClearCredentials(t)
  <2> DEFINE rec == [tabs[t].state EXCEPT !.secret = 0]
             set == [tabs[t] EXCEPT !.state = rec]
  <2>1. Write(t, rec) /\ tabs[t].open /\ tabs' = [tabs EXCEPT ![t] = Rendered(SaveShown(set))]
    BY <1>0, <1>3 DEF ClearCredentials, Editable
  <2>2. rec \in Record /\ rec.label = tabs[t].profile
    <3>1. tabs[t].state \in Record /\ tabs[t].state.label = tabs[t].profile
      BY <1>0, <2>1 DEF TabHolds, TabRecord
    <3> QED BY <3>1 DEF Record
  <2> HIDE DEF rec
  <2>3. TabHolds(set) /\ set.state = rec
    BY <1>0, <2>2, StateSet
  <2> HIDE DEF set
  <2>4. TabHolds(SaveShown(set)) /\ SaveShown(set).state = rec
    BY <2>3, SaveShownHolds DEF Same
  <2>5. TabHolds(Rendered(SaveShown(set))) /\ Rendered(SaveShown(set)).state = rec
    BY <2>4, RenderedHolds DEF Same
  <2> QED BY <2>1, <2>2, <2>5, WriteKeeps
<1> QED BY <1>1, <1>2, <1>3

LEMMA SwitchKeeps ==
  ASSUME SettingsInv, NEW t \in Tab, SwitchProfile(t) PROVE SettingsInv' /\ SettingsScoped
<1>0. tabs[t] \in TabRecord
  BY DEF SettingsInv, TabHolds
<1>1. PICK p \in Profile :
        /\ Write(t, [tabs[t].state EXCEPT !.label = p]) /\ tabs[t].open
        /\ tabs' = [tabs EXCEPT ![t] = [NoTab EXCEPT !.state = [tabs[t].state EXCEPT !.label = p],
                                                     !.saves = tabs[t].saves + 1]]
  BY DEF SwitchProfile, Editable
<1> DEFINE rec == [tabs[t].state EXCEPT !.label = p]
           tab == [NoTab EXCEPT !.state = rec, !.saves = tabs[t].saves + 1]
<1>2. rec \in Record /\ tabs[t].saves + 1 \in Nat
  BY <1>0 DEF TabRecord, Record
<1> HIDE DEF rec
<1>3. TabHolds(tab)
  BY <1>2, NoTabHolds
<1>4. tab.state = rec /\ ~tab.open
  BY DEF NoTab
<1> HIDE DEF tab
<1>5. Write(t, rec) /\ tabs' = [tabs EXCEPT ![t] = tab]
  BY <1>1 DEF rec, tab
<1> QED BY <1>1, <1>2, <1>3, <1>4, <1>5, WriteKeeps

LEMMA ImportKeeps ==
  ASSUME SettingsInv, NEW t \in Tab, Import(t) PROVE SettingsInv' /\ SettingsScoped
<1>0. TabHolds(tabs[t]) /\ tabs[t] \in TabRecord
  BY DEF SettingsInv, TabHolds
<1>1. PICK file \in Record :
        /\ Write(t, Imported(t, file)) /\ tabs[t].open
        /\ tabs' = [tabs EXCEPT ![t] =
             [Rendered([tabs[t] EXCEPT !.state = Imported(t, file)]) EXCEPT
                !.line = IF desktop THEN [kind |-> "imported", of |-> 0] ELSE @]]
  BY DEF Import, Editable
<1> DEFINE rec == Imported(t, file)
           set == [tabs[t] EXCEPT !.state = rec]
           drawn == Rendered(set)
           line == IF desktop THEN [kind |-> "imported", of |-> 0] ELSE drawn.line
           tab == [drawn EXCEPT !.line = line]
<1>2. rec \in Record /\ rec.label = tabs[t].profile
  BY <1>0 DEF Imported, Record, TabRecord
<1> HIDE DEF rec
<1>3. TabHolds(set) /\ set.state = rec
  BY <1>0, <1>2, StateSet
<1> HIDE DEF set
<1>4. TabHolds(drawn) /\ drawn.state = rec
  BY <1>3, RenderedHolds DEF Same
<1> HIDE DEF drawn
<1>5. drawn \in TabRecord /\ line \in LineRecord
  BY <1>4 DEF TabHolds, TabRecord, LineRecord
<1>6. desktop => line.kind = "imported"
  OBVIOUS
<1>7. ~desktop => line = drawn.line
  OBVIOUS
<1> HIDE DEF line
<1>8. /\ tab \in TabRecord /\ tab.state = rec /\ tab.open = drawn.open /\ tab.profile = drawn.profile
      /\ tab.saves = drawn.saves /\ tab.restart = drawn.restart /\ tab.line = line
      /\ tab.updates = drawn.updates /\ tab.update = drawn.update /\ tab.pending = drawn.pending
  BY <1>4, <1>5 DEF TabRecord
<1>9. tabs' = [tabs EXCEPT ![t] = tab] /\ Write(t, rec)
  BY <1>1 DEF rec, set, drawn, line
<1> HIDE DEF tab
<1>10. LineHolds(tab)
  BY <1>4, <1>6, <1>7, <1>8 DEF TabHolds, LineHolds, Owned
<1>11. TabHolds(tab)
  BY <1>4, <1>8, <1>10 DEF TabHolds
<1> QED BY <1>1, <1>2, <1>8, <1>9, <1>11, WriteKeeps

LEMMA OpenKeeps ==
  ASSUME SettingsInv, NEW t \in Tab, Open(t) PROVE SettingsInv' /\ SettingsScoped
<1>0. TabHolds(tabs[t]) /\ tabs[t] \in TabRecord /\ ~tabs[t].open
  BY DEF SettingsInv, TabHolds, Open
<1> DEFINE p == ActiveProfile
           now == Adopted(p)
           state == IF p \in DOMAIN now THEN [now[p] EXCEPT !.label = p] ELSE Defaults(p)
           tab == [NoTab EXCEPT !.open = TRUE, !.profile = p, !.saves = tabs[t].saves,
                                !.state = state]
<1>1. records' = now /\ tabs' = [tabs EXCEPT ![t] = tab] /\ UNCHANGED <<desktop, active>>
  BY DEF Open
<1>2. p \in Profile
  BY DEF SettingsInv, ActiveProfile, Profile, Record
<1>3. /\ \A q \in DOMAIN now : q \in Profile /\ now[q] \in Record
      /\ \A q \in DOMAIN now : \/ q \in DOMAIN records /\ now[q] = records[q]
                               \/ q = "gaming" /\ q \notin DOMAIN records /\ now[q] = records["default"]
  <2> HIDE DEF p
  <2> QED BY <1>2 DEF SettingsInv, Adopted, With
<1>4. state \in Record /\ state.label = p
  <2> HIDE DEF p, now
  <2> QED BY <1>2, <1>3 DEF Record, Defaults
<1>5. TabHolds(tab)
  <2> HIDE DEF p, now, state
  <2>1. NoTab \in TabRecord /\ NoTab.line.kind = "all" /\ NoTab.restart = 0 /\ NoTab.pending = {}
        /\ ~NoTab.updates
    BY NoTabHolds DEF TabHolds, NoTab
  <2>2. /\ tab \in TabRecord /\ tab.profile = p /\ tab.state = state /\ tab.line.kind = "all"
        /\ tab.restart = 0 /\ tab.pending = {} /\ ~tab.updates /\ tab.saves \in Nat
    BY <1>0, <1>2, <1>4, <2>1 DEF TabRecord
  <2> HIDE DEF tab
  <2> QED BY <1>4, <2>2 DEF TabHolds, LineHolds, Owned
<1> HIDE DEF p, now, state, tab
<1>6. DOMAIN tabs' = Tab /\ \A u \in Tab : TabHolds(tabs[u])'
  BY <1>1, <1>5, TabsKeep
<1> QED BY <1>1, <1>3, <1>6 DEF SettingsInv, SettingsScoped

LEMMA LaterKeeps ==
  ASSUME SettingsInv, NEW t \in Tab, Later(t) PROVE SettingsInv' /\ SettingsScoped
<1>0. TabHolds(tabs[t]) /\ tabs[t] \in TabRecord
  BY DEF SettingsInv, TabHolds
<1>1. PICK p \in tabs[t].pending :
        LET tab == [tabs[t] EXCEPT !.pending = @ \ {p}]
        IN  IF p.how = "timer" THEN tabs' = [tabs EXCEPT ![t] = TimedOut(tab, p)]
            ELSE \E kind \in {"desktop", "failed"} : tabs' = [tabs EXCEPT ![t] = Answered(tab, p, kind)]
  BY DEF Later
<1> DEFINE tab == [tabs[t] EXCEPT !.pending = @ \ {p}]
<1>2. p \in PendingRecord /\ desktop
  BY <1>0 DEF TabRecord, TabHolds, LineHolds
<1>3. /\ tab \in TabRecord /\ tab.open = tabs[t].open /\ tab.profile = tabs[t].profile
      /\ tab.state = tabs[t].state /\ tab.saves = tabs[t].saves /\ tab.restart = tabs[t].restart
      /\ tab.line = tabs[t].line /\ tab.updates = tabs[t].updates /\ tab.update = tabs[t].update
  BY <1>0 DEF TabRecord
<1>4. \/ tabs' = [tabs EXCEPT ![t] = TimedOut(tab, p)]
      \/ \E kind \in {"desktop", "failed"} : tabs' = [tabs EXCEPT ![t] = Answered(tab, p, kind)]
  BY <1>1
<1> HIDE DEF tab
<1>5. TabHolds(tab)
  BY <1>0, <1>2, <1>3 DEF TabHolds, LineHolds, Owned
\* What the line says instead.
<1>6. ASSUME NEW line \in LineRecord, NEW restart \in Nat, ~Owned(tab), restart <= tab.saves,
             line.kind \in {"desktop", "failed"} => line.of = tab.saves
      PROVE  TabHolds([tab EXCEPT !.restart = restart, !.line = line])
  <2> DEFINE new == [tab EXCEPT !.restart = restart, !.line = line]
  <2>1. /\ new \in TabRecord /\ new.open = tab.open /\ new.profile = tab.profile
        /\ new.state = tab.state /\ new.saves = tab.saves /\ new.restart = restart
        /\ new.line = line /\ new.updates = tab.updates /\ new.update = tab.update
    BY <1>3 DEF TabRecord
  <2>2. TabHolds(new)
    <3> HIDE DEF new
    <3> QED BY <1>2, <1>5, <1>6, <2>1 DEF TabHolds, LineHolds, Owned
  <2> QED BY <2>2
<1>7. TabHolds(TimedOut(tab, p))
  <2>1. CASE Owned(tab) \/ ~p.here
    BY <1>5, <2>1 DEF TimedOut
  <2>2. CASE ~(Owned(tab) \/ ~p.here)
    <3> DEFINE new == [tab EXCEPT !.line = [kind |-> "all", of |-> 0]]
    <3>1. TimedOut(tab, p) = new
      BY <2>2 DEF TimedOut
    <3>2. /\ new \in TabRecord /\ new.open = tab.open /\ new.profile = tab.profile
          /\ new.state = tab.state /\ new.saves = tab.saves /\ new.restart = tab.restart
          /\ new.line.kind = "all" /\ new.updates = tab.updates /\ new.update = tab.update
      BY <1>3 DEF TabRecord, LineRecord
    <3>3. TabHolds(new)
      <4> HIDE DEF new
      <4> QED BY <1>2, <1>5, <2>2, <3>2 DEF TabHolds, LineHolds, Owned
    <3> QED BY <3>1, <3>3
  <2> QED BY <2>1, <2>2
<1>8. ASSUME NEW kind \in {"desktop", "failed"} PROVE TabHolds(Answered(tab, p, kind))
  <2>1. CASE p.of # tab.saves \/ Owned(tab)
    BY <1>5, <2>1 DEF Answered
  <2>2. CASE ~(p.of # tab.saves \/ Owned(tab))
    <3> DEFINE restart == IF kind = "failed" THEN tab.restart ELSE p.of
               line == IF p.here THEN [kind |-> kind, of |-> p.of] ELSE tab.line
    <3>1. Answered(tab, p, kind) = [tab EXCEPT !.restart = restart, !.line = line]
      BY <2>2 DEF Answered
    <3>2. line \in LineRecord /\ restart \in Nat
      BY <1>2, <1>3 DEF PendingRecord, TabRecord, LineRecord
    <3>3. restart <= tab.saves
      BY <1>3, <1>5, <2>2 DEF TabHolds, LineHolds, TabRecord
    <3>4. line.kind \in {"desktop", "failed"} => line.of = tab.saves
      BY <1>5, <2>2 DEF TabHolds, LineHolds
    <3> HIDE DEF restart, line
    <3> QED BY <1>6, <2>2, <3>1, <3>2, <3>3, <3>4
  <2> QED BY <2>1, <2>2
<1>9. UNCHANGED <<desktop, active, records>>
  BY DEF Later
<1> QED BY <1>4, <1>7, <1>8, <1>9, ReadKeeps

LEMMA BrowseKeeps ==
  ASSUME SettingsInv, NEW t \in Tab, Browse(t) \/ UpdateNews(t) \/ Leave(t)
  PROVE  SettingsInv' /\ SettingsScoped
<1>0. TabHolds(tabs[t]) /\ tabs[t] \in TabRecord /\ t \in DOMAIN tabs
  BY DEF SettingsInv, TabHolds
<1>1. UNCHANGED <<desktop, active, records>>
  BY DEF Browse, UpdateNews, Leave
<1>2. CASE Browse(t)
  <2>1. PICK up \in BOOLEAN : tabs' = [tabs EXCEPT ![t] = Rendered([tabs[t] EXCEPT !.updates = up])]
    BY <1>0, <1>2 DEF Browse
  <2> DEFINE tab == [tabs[t] EXCEPT !.updates = up]
             waiting == {[p EXCEPT !.here = FALSE] : p \in tab.pending}
             line == IF Owned(tab) THEN [kind |-> "update", of |-> 0] ELSE tab.line
             new == [tab EXCEPT !.pending = waiting, !.line = line]
  <2>2. desktop
    BY <1>2 DEF Browse
  <2>3. /\ tab \in TabRecord /\ tab.open = tabs[t].open /\ tab.profile = tabs[t].profile
        /\ tab.state = tabs[t].state /\ tab.saves = tabs[t].saves /\ tab.restart = tabs[t].restart
        /\ tab.line = tabs[t].line /\ tab.pending = tabs[t].pending
    BY <1>0 DEF TabRecord
  <2>4. Rendered(tab) = new
    BY <2>2 DEF Rendered
  <2> HIDE DEF tab
  <2>5. waiting \in SUBSET PendingRecord
    <3>1. tab.pending \in SUBSET PendingRecord
      BY <2>3 DEF TabRecord
    <3>2. \A p \in PendingRecord : [p EXCEPT !.here = FALSE] \in PendingRecord
      BY DEF PendingRecord
    <3> QED BY <3>1, <3>2
  <2>6. line \in LineRecord
    BY <2>3 DEF TabRecord, LineRecord
  <2>7. Owned(tab) => line.kind = "update"
    OBVIOUS
  <2>8. line.kind \in {"desktop", "failed"} => line.of = tab.saves
    BY <1>0, <2>3 DEF TabHolds, LineHolds
  <2> HIDE DEF waiting, line
  <2>9. /\ new \in TabRecord /\ new.open = tab.open /\ new.profile = tab.profile
        /\ new.state = tab.state /\ new.saves = tab.saves /\ new.restart = tab.restart
        /\ new.line = line /\ new.updates = tab.updates /\ new.update = tab.update
    BY <2>3, <2>5, <2>6 DEF TabRecord
  <2>10. TabHolds(new)
    <3> HIDE DEF new
    <3> QED BY <1>0, <2>2, <2>3, <2>7, <2>8, <2>9 DEF TabHolds, LineHolds, Owned
  <2>11. tabs' = [tabs EXCEPT ![t] = Rendered(tab)]
    BY <2>1 DEF tab
  <2> QED BY <1>1, <2>4, <2>10, <2>11, ReadKeeps
<1>3. CASE UpdateNews(t)
  <2> DEFINE line == IF tabs[t].updates THEN [kind |-> "update", of |-> 0] ELSE tabs[t].line
             new == [tabs[t] EXCEPT !.update = TRUE, !.line = line]
  <2>1. tabs' = [tabs EXCEPT ![t] = new] /\ desktop
    BY <1>0, <1>3 DEF UpdateNews
  <2>2. /\ line \in LineRecord
        /\ line.kind \in {"desktop", "failed"} => line.of = tabs[t].saves
    BY <1>0 DEF TabRecord, LineRecord, TabHolds, LineHolds
  <2>3. tabs[t].updates => line.kind = "update"
    OBVIOUS
  <2> HIDE DEF line
  <2>4. /\ new \in TabRecord /\ new.open = tabs[t].open /\ new.profile = tabs[t].profile
        /\ new.state = tabs[t].state /\ new.saves = tabs[t].saves
        /\ new.restart = tabs[t].restart /\ new.line = line /\ new.updates = tabs[t].updates
    BY <1>0, <2>2 DEF TabRecord
  <2>5. TabHolds(new)
    <3> HIDE DEF new
    <3> QED BY <1>0, <2>1, <2>2, <2>3, <2>4 DEF TabHolds, LineHolds, Owned
  <2> HIDE DEF new
  <2> QED BY <1>1, <2>1, <2>5, ReadKeeps
<1>4. CASE Leave(t)
  <2>1. tabs' = [tabs EXCEPT ![t] = [NoTab EXCEPT !.saves = tabs[t].saves]]
    BY <1>4 DEF Leave
  <2>2. TabHolds([NoTab EXCEPT !.saves = tabs[t].saves])
    BY <1>0, NoTabHolds DEF TabRecord
  <2> QED BY <1>1, <2>1, <2>2, ReadKeeps
<1> QED BY <1>2, <1>3, <1>4

LEMMA SettingsGoOn ==
  SettingsInv /\ [SettingsNext]_settingsVars => SettingsInv' /\ (SettingsScoped \/ UNCHANGED settingsVars)
<1>1. ASSUME SettingsInv, UNCHANGED settingsVars PROVE SettingsInv'
  BY <1>1 DEF SettingsInv, settingsVars, TabHolds, LineHolds, Owned
<1>2. ASSUME SettingsInv, SettingsNext PROVE SettingsInv' /\ SettingsScoped
  BY <1>2, OpenKeeps, ChangeKeeps, SwitchKeeps, ImportKeeps, LaterKeeps, BrowseKeeps DEF SettingsNext
<1> QED BY <1>1, <1>2

LEMMA SaveLineHolds == SettingsInv => SaveLineIsCurrent
BY DEF SettingsInv, SaveLineIsCurrent, TabHolds, LineHolds

\* Whatever pages save, import, switch and show side by side over one storage: a profile's record
\* is written by a page of that profile, and the line about saving is of the last save (settings,
\* profile, storage).
THEOREM SettingsStayScoped == SettingsSpec => SettingsStayInProfile /\ []SaveLineIsCurrent
<1>1. SettingsScoped \/ UNCHANGED settingsVars =>
        [/\ \A p \in DOMAIN records' :
              \/ p \in DOMAIN records /\ records'[p] = records[p]
              \/ \E t \in Tab : tabs[t].open /\ tabs[t].profile = p /\ tabs'[t].state = records'[p]
              \/ p = "gaming" /\ p \notin DOMAIN records /\ records'[p] = records["default"]
         /\ active' # active =>
              \E t \in Tab : tabs[t].open /\ ~tabs'[t].open /\ tabs'[t].state.label = active']_settingsVars
  BY DEF SettingsScoped
<1> QED BY <1>1, SettingsBegin, SettingsGoOn, SaveLineHolds, PTL DEF SettingsSpec, SettingsStayInProfile

-----------------------------------------------------------------------------
(***************************************************************************)
(* Workspaces and favourites.                                              *)
(***************************************************************************)
LEMMA RemoveAtIs ==
  ASSUME NEW S, NEW s \in Seq(S), NEW i \in 1..Len(s)
  PROVE  /\ RemoveAt(s, i) \in Seq(S) /\ Len(RemoveAt(s, i)) = Len(s) - 1
         /\ \A k \in 1..Len(s) - 1 : RemoveAt(s, i)[k] = IF k < i THEN s[k] ELSE s[k + 1]
<1> DEFINE u == SubSeq(s, 1, i - 1)
           v == SubSeq(s, i + 1, Len(s))
<1>1. u \in Seq(S) /\ Len(u) = i - 1 /\ \A k \in 1..Len(u) : u[k] = s[k]
  OBVIOUS
<1>2. v \in Seq(S) /\ Len(v) = Len(s) - i /\ \A k \in 1..Len(v) : v[k] = s[i + k]
  OBVIOUS
<1>3. RemoveAt(s, i) = u \o v
  BY DEF RemoveAt
<1> HIDE DEF u, v
<1>4. u \o v \in Seq(S) /\ Len(u \o v) = Len(s) - 1
  BY <1>1, <1>2
<1>5. ASSUME NEW k \in 1..Len(s) - 1 PROVE (u \o v)[k] = IF k < i THEN s[k] ELSE s[k + 1]
  <2>1. (u \o v)[k] = IF k <= Len(u) THEN u[k] ELSE v[k - Len(u)]
    BY <1>1, <1>2, <1>4
  <2>2. CASE k < i
    BY <1>1, <2>1, <2>2
  <2>3. CASE ~(k < i)
    <3>1. k - Len(u) \in 1..Len(v) /\ ~(k <= Len(u)) /\ i + (k - Len(u)) = k + 1
      BY <1>1, <1>2, <2>3
    <3>2. v[k - Len(u)] = s[i + (k - Len(u))]
      BY <1>2, <3>1
    <3> QED BY <2>1, <2>3, <3>1, <3>2
  <2> QED BY <2>2, <2>3
<1> QED BY <1>3, <1>4, <1>5

\* What is left of a list without repetitions when one of its elements is removed.
LEMMA RemoveOne ==
  ASSUME NEW S, NEW s \in Seq(S), IsInjective(s), NEW i \in 1..Len(s)
  PROVE  /\ RemoveAt(s, i) \in Seq(S) /\ Len(RemoveAt(s, i)) = Len(s) - 1
         /\ IsInjective(RemoveAt(s, i))
         /\ ToSet(RemoveAt(s, i)) = ToSet(s) \ {s[i]}
<1> DEFINE r == RemoveAt(s, i)
           From(k) == IF k < i THEN k ELSE k + 1
<1>1. r \in Seq(S) /\ Len(r) = Len(s) - 1 /\ \A k \in 1..Len(s) - 1 : r[k] = s[From(k)]
  BY RemoveAtIs
<1> HIDE DEF r
<1>2. DOMAIN s = 1..Len(s) /\ DOMAIN r = 1..Len(s) - 1 /\ Len(s) \in Nat
  BY <1>1
<1>3. \A k \in 1..Len(s) - 1 : From(k) \in 1..Len(s) /\ From(k) # i
  BY <1>2
<1>4. \A k, l \in 1..Len(s) - 1 : From(k) = From(l) => k = l
  BY <1>2
<1>5. \A a, b \in 1..Len(s) : s[a] = s[b] => a = b
  BY <1>2 DEF IsInjective
<1>6. IsInjective(r)
  <2> SUFFICES ASSUME NEW k \in 1..Len(s) - 1, NEW l \in 1..Len(s) - 1, r[k] = r[l] PROVE k = l
    BY <1>2 DEF IsInjective
  <2>0. r[k] = s[From(k)] /\ r[l] = s[From(l)] /\ r[k] = r[l]
    BY <1>1
  <2> HIDE DEF From
  <2>1. s[From(k)] = s[From(l)] /\ From(k) \in 1..Len(s) /\ From(l) \in 1..Len(s)
    BY <1>3, <2>0
  <2>2. From(k) = From(l)
    BY <1>5, <2>1
  <2> QED BY <1>4, <2>2
<1>7. ToSet(r) = ToSet(s) \ {s[i]}
  <2>1. ASSUME NEW x \in ToSet(r) PROVE x \in ToSet(s) \ {s[i]}
    <3>1. PICK k \in 1..Len(s) - 1 : x = r[k]
      BY <1>2 DEF ToSet
    <3>2. x = s[From(k)] /\ From(k) \in 1..Len(s) /\ From(k) # i
      BY <1>1, <1>3, <3>1
    <3>3. x # s[i]
      BY <1>5, <3>2
    <3> QED BY <1>2, <3>2, <3>3 DEF ToSet
  <2>2. ASSUME NEW x \in ToSet(s) \ {s[i]} PROVE x \in ToSet(r)
    <3>1. PICK j \in 1..Len(s) : x = s[j]
      BY <1>2 DEF ToSet
    <3>2. j # i
      BY <3>1
    <3>3. PICK k \in 1..Len(s) - 1 : From(k) = j
      <4>1. CASE j < i
        <5>1. j \in 1..Len(s) - 1 /\ From(j) = j
          BY <1>2, <4>1
        <5> QED BY <5>1
      <4>2. CASE ~(j < i)
        <5>1. j - 1 \in 1..Len(s) - 1 /\ From(j - 1) = j
          BY <1>2, <3>2, <4>2
        <5> QED BY <5>1
      <4> QED BY <4>1, <4>2
    <3>4. x = r[k]
      BY <1>1, <3>1, <3>3
    <3> QED BY <1>2, <3>4 DEF ToSet
  <2> QED BY <2>1, <2>2
<1> QED BY <1>1, <1>6, <1>7 DEF r

LEMMA DroppedIs ==
  ASSUME NEW S, NEW s \in Seq(S), IsInjective(s), NEW w \in ToSet(s)
  PROVE  /\ Dropped(s, w) \in Seq(S) /\ Len(Dropped(s, w)) = Len(s) - 1
         /\ IsInjective(Dropped(s, w)) /\ ToSet(Dropped(s, w)) = ToSet(s) \ {w}
<1> DEFINE i == CHOOSE i \in DOMAIN s : s[i] = w
<1>1. \E j \in DOMAIN s : s[j] = w
  BY DEF ToSet
<1>2. i \in DOMAIN s /\ s[i] = w
  BY <1>1
<1>3. Dropped(s, w) = RemoveAt(s, i)
  BY DEF Dropped
<1> HIDE DEF i
<1>4. i \in 1..Len(s)
  BY <1>2
<1> QED BY <1>2, <1>3, <1>4, RemoveOne

LEMMA AppendIs ==
  ASSUME NEW S, NEW s \in Seq(S), IsInjective(s), NEW w \in S, w \notin ToSet(s)
  PROVE  /\ Append(s, w) \in Seq(S) /\ IsInjective(Append(s, w))
         /\ ToSet(Append(s, w)) = ToSet(s) \cup {w}
<1>1. /\ Append(s, w) \in Seq(S) /\ DOMAIN s = 1..Len(s) /\ Len(s) \in Nat
      /\ DOMAIN Append(s, w) = 1..Len(s) + 1
      /\ \A k \in 1..Len(s) : Append(s, w)[k] = s[k]
      /\ Append(s, w)[Len(s) + 1] = w
  OBVIOUS
<1>2. \A k \in 1..Len(s) + 1 : k \in 1..Len(s) \/ k = Len(s) + 1
  BY <1>1
<1>3. \A k \in 1..Len(s) : s[k] # w /\ s[k] \in ToSet(s)
  BY <1>1 DEF ToSet
<1>4. IsInjective(Append(s, w))
  BY <1>1, <1>2, <1>3 DEF IsInjective
<1>5. ToSet(Append(s, w)) = ToSet(s) \cup {w}
  <2>1. ASSUME NEW x \in ToSet(Append(s, w)) PROVE x \in ToSet(s) \cup {w}
    <3>1. PICK k \in 1..Len(s) + 1 : x = Append(s, w)[k]
      BY <1>1 DEF ToSet
    <3> QED BY <1>1, <1>2, <1>3, <3>1
  <2>2. ASSUME NEW x \in ToSet(s) PROVE x \in ToSet(Append(s, w))
    <3>1. PICK k \in 1..Len(s) : x = s[k]
      BY <1>1 DEF ToSet
    <3>2. k \in 1..Len(s) + 1 /\ Append(s, w)[k] = x
      BY <1>1, <3>1
    <3> QED BY <1>1, <3>2 DEF ToSet
  <2>3. w \in ToSet(Append(s, w))
    <3>1. Len(s) + 1 \in 1..Len(s) + 1
      BY <1>1
    <3> QED BY <1>1, <3>1 DEF ToSet
  <2> QED BY <2>1, <2>2, <2>3
<1> QED BY <1>1, <1>4, <1>5

LEMMA SetToSeqIs ==
  ASSUME NEW S, IsFiniteSet(S)
  PROVE  SetToSeq(S) \in Seq(S) /\ IsInjective(SetToSeq(S)) /\ ToSet(SetToSeq(S)) = S
<1> DEFINE n == Cardinality(S)
           f == SetToSeq(S)
<1>1. n \in Nat /\ ExistsBijection(1..n, S)
  BY FS_CardinalityType
<1>2. \E g \in [1..n -> S] : IsInjective(g)
  BY <1>1 DEF ExistsBijection, Bijection, Injection
<1>3. f \in [1..n -> S] /\ IsInjective(f)
  BY <1>2 DEF SetToSeq
<1>4. IsFiniteSet(1..n) /\ Cardinality(1..n) = n
  BY <1>1, FS_Interval
<1> HIDE DEF f, n
<1>5. f \in Injection(1..n, S)
  BY <1>3 DEF Injection
<1>6. f \in Surjection(1..n, S)
  BY <1>4, <1>5, FS_Injection DEF n
<1>7. ToSet(f) = S
  BY <1>3, <1>6 DEF Surjection, ToSet
<1>8. f \in Seq(S)
  BY <1>1, <1>3 DEF n
<1> QED BY <1>3, <1>7, <1>8 DEF f

\* A record of workspaces that a page can use.
WorkspaceRecord == [list : Seq(Id), active : Id]
Usable(record) ==
  /\ record \in WorkspaceRecord
  /\ record.list # <<>> => IsInjective(record.list) /\ record.active \in Ids(record)

PageTypes ==
  pages \in [Page -> [kind : {"closed", "dashboard", "workspaces"}, mine : WorkspaceRecord, shown : Id,
                      favorites : SUBSET Backend]]
FavoriteTypes ==
  legacy \subseteq Backend /\ \A w \in DOMAIN favs : favs[w] \subseteq Backend

\* What a page gets that reads the favourites of w, whether they have been taken over or not.
FavsOf(w) == IF w \in DOMAIN favs THEN favs[w] ELSE IF w = "gaming" THEN legacy ELSE {}

\* What a page shows in its picker is in use in its copy, with its favourites.
ShowsOwn(page) == page.shown = page.mine.active /\ page.favorites = FavsOf(page.shown)

\* A page's own copy always has a workspace, and a dashboard shows the one that is in use in it.
WorkspacesInv ==
  /\ Usable(stored) /\ PageTypes /\ FavoriteTypes
  /\ \A p \in Page :
       /\ Usable(pages[p].mine) /\ pages[p].mine.list # <<>>
       /\ Dashboard(p) => ShowsOwn(pages[p])

LEMMA FirstRecords ==
  Usable(NoRecord) /\ Usable(FirstList) /\ FirstList.list # <<>> /\ "gaming" \in Id
<1>1. FirstList.list = <<"gaming", "family">> /\ FirstList.active = "gaming" /\ FirstList \in WorkspaceRecord
  BY DEF FirstList, WorkspaceRecord, Id
<1>2. NoRecord \in WorkspaceRecord /\ NoRecord.list = <<>>
  BY DEF NoRecord, WorkspaceRecord, Id
<1>3. /\ DOMAIN FirstList.list = {1, 2} /\ FirstList.list[1] = "gaming" /\ FirstList.list[2] = "family"
  BY <1>1
<1>4. IsInjective(FirstList.list) /\ "gaming" \in ToSet(FirstList.list)
  BY <1>3 DEF IsInjective, ToSet
<1> QED BY <1>1, <1>2, <1>3, <1>4 DEF Usable, Ids, Id

LEMMA WorkspacesBegin == WorkspacesInit => WorkspacesInv
<1> SUFFICES ASSUME WorkspacesInit PROVE WorkspacesInv
  OBVIOUS
<1>1. Closed.kind = "closed" /\ Closed.mine = FirstList /\ Closed.shown = "gaming" /\ Closed.favorites = {}
  BY DEF Closed
<1>2. Closed \in [kind : {"closed", "dashboard", "workspaces"}, mine : WorkspaceRecord, shown : Id,
                  favorites : SUBSET Backend]
  BY FirstRecords DEF Closed, Usable
<1>3. PageTypes
  BY <1>2 DEF WorkspacesInit, PageTypes
<1>4. \A w \in DOMAIN favs : favs[w] \subseteq Backend
  <2>1. CASE favs = <<>>
    <3>1. DOMAIN favs = {}
      BY <2>1
    <3> QED BY <3>1
  <2>2. CASE favs \in [{"family"} -> SUBSET Backend]
    BY <2>2
  <2> QED BY <2>1, <2>2 DEF WorkspacesInit
<1>5. FavoriteTypes
  BY <1>4 DEF WorkspacesInit, FavoriteTypes
<1>6. \A p \in Page : pages[p] = Closed
  BY DEF WorkspacesInit
<1> QED BY <1>1, <1>3, <1>5, <1>6, FirstRecords DEF WorkspacesInv, WorkspacesInit, Dashboard

\* What the property says a step does to the favourites.
FavoritesScoped ==
  \A w \in DOMAIN favs \union DOMAIN favs' :
    /\ w \in DOMAIN favs'
    /\ favs'[w] = IF w \in DOMAIN favs THEN favs[w] ELSE IF w = "gaming" THEN legacy ELSE {}

LEMMA SettledIs ==
  ASSUME FavoriteTypes, NEW w
  PROVE  /\ FavoritesOf(w) = FavsOf(w) /\ FavsOf(w) \subseteq Backend
         /\ favs' = Settled(w) => FavoritesScoped
<1>0. FavsOf(w) \subseteq Backend
  BY DEF FavoriteTypes, FavsOf
<1>1. CASE TakesOver(w)
  <2>1. Settled(w) = Kept(w, legacy) /\ w = "gaming" /\ w \notin DOMAIN favs
    BY <1>1 DEF Settled, TakesOver
  <2>2. /\ DOMAIN Settled(w) = DOMAIN favs \cup {w} /\ Settled(w)[w] = legacy
        /\ \A v \in DOMAIN favs : v # w => Settled(w)[v] = favs[v]
    BY <2>1 DEF Kept
  <2>3. FavoritesOf(w) = legacy
    BY <2>1, <2>2 DEF FavoritesOf
  <2> QED BY <1>0, <2>1, <2>2, <2>3 DEF FavsOf, FavoritesScoped
<1>2. CASE ~TakesOver(w)
  <2>1. Settled(w) = favs
    BY <1>2 DEF Settled
  <2>2. FavoritesOf(w) = FavsOf(w)
    BY <1>2, <2>1 DEF FavoritesOf, FavsOf, TakesOver
  <2> QED BY <1>0, <2>1, <2>2 DEF FavoritesScoped
<1> QED BY <1>1, <1>2

LEMMA FavoritesUntouched == favs' = favs => FavoritesScoped
BY DEF FavoritesScoped

\* Such a step changes nothing of what a page gets, and keeps the favourites in the catalogue.
LEMMA FavsKept ==
  ASSUME FavoritesScoped, UNCHANGED legacy
  PROVE  \A w : FavsOf(w)' = FavsOf(w)
<1> SUFFICES ASSUME NEW w PROVE FavsOf(w)' = FavsOf(w)
  OBVIOUS
<1>1. CASE w \in DOMAIN favs
  <2>1. w \in DOMAIN favs' /\ favs'[w] = favs[w]
    BY <1>1 DEF FavoritesScoped
  <2> QED BY <1>1, <2>1 DEF FavsOf
<1>2. CASE w \notin DOMAIN favs /\ w \in DOMAIN favs'
  <2>1. favs'[w] = IF w = "gaming" THEN legacy ELSE {}
    BY <1>2 DEF FavoritesScoped
  <2> QED BY <1>2, <2>1 DEF FavsOf
<1>3. CASE w \notin DOMAIN favs /\ w \notin DOMAIN favs'
  BY <1>3 DEF FavsOf
<1> QED BY <1>1, <1>2, <1>3

LEMMA FavoriteTypesKept ==
  ASSUME FavoriteTypes, FavoritesScoped, UNCHANGED legacy
  PROVE  FavoriteTypes'
<1>1. ASSUME NEW w \in DOMAIN favs' PROVE favs'[w] \subseteq Backend
  <2>1. favs'[w] = IF w \in DOMAIN favs THEN favs[w] ELSE IF w = "gaming" THEN legacy ELSE {}
    BY DEF FavoritesScoped
  <2> QED BY <2>1 DEF FavoriteTypes
<1> QED BY <1>1 DEF FavoriteTypes

PageSet ==
  [kind : {"closed", "dashboard", "workspaces"}, mine : WorkspaceRecord, shown : Id, favorites : SUBSET Backend]

\* One page becomes another that keeps what the invariant says of it.
LEMMA PageKeeps ==
  ASSUME WorkspacesInv, NEW p \in Page, NEW page \in PageSet, pages' = [pages EXCEPT ![p] = page],
         Usable(page.mine), page.mine.list # <<>>, page.kind = "dashboard" => ShowsOwn(page),
         Usable(stored'), FavoritesScoped, UNCHANGED legacy
  PROVE  WorkspacesInv'
<1>1. PageTypes' /\ pages'[p] = page /\ \A q \in Page : q # p => pages'[q] = pages[q]
  BY DEF WorkspacesInv, PageTypes, PageSet
<1>2. FavoriteTypes'
  BY FavoriteTypesKept DEF WorkspacesInv
<1>3. ASSUME NEW q \in Page
      PROVE  /\ Usable(pages'[q].mine) /\ pages'[q].mine.list # <<>>
             /\ pages'[q].kind = "dashboard" => ShowsOwn(pages[q])'
  <2>1. PICK after : /\ after = pages'[q] /\ Usable(after.mine) /\ after.mine.list # <<>>
                     /\ after.kind = "dashboard" => ShowsOwn(after)
    <3>1. CASE q = p
      BY <1>1, <3>1
    <3>2. CASE q # p
      BY <1>1, <3>2 DEF WorkspacesInv, Dashboard
    <3> QED BY <3>1, <3>2
  <2>2. FavsOf(after.shown)' = FavsOf(after.shown)
    BY FavsKept
  <2> QED BY <2>1, <2>2 DEF ShowsOwn, FavsOf
<1> QED BY <1>1, <1>2, <1>3 DEF WorkspacesInv, Dashboard

\* The workspaces page writes its list.
Writes(p, record) ==
  /\ Manager(p) /\ Usable(record) /\ record.list # <<>>
  /\ stored' = record /\ pages' = [pages EXCEPT ![p].mine = record]
  /\ UNCHANGED <<favs, legacy>>

LEMMA WritesKeeps ==
  ASSUME WorkspacesInv, NEW p \in Page, \E record \in WorkspaceRecord : Writes(p, record)
  PROVE  WorkspacesInv' /\ FavoritesScoped
<1>1. PICK record \in WorkspaceRecord : Writes(p, record)
  OBVIOUS
<1> DEFINE page == [pages[p] EXCEPT !.mine = record]
<1>2. pages[p] \in PageSet /\ pages[p].kind = "workspaces"
  BY <1>1 DEF WorkspacesInv, PageTypes, PageSet, Writes, Manager
<1>3. page \in PageSet /\ page.mine = record /\ page.kind = "workspaces"
  BY <1>2 DEF PageSet
<1>4. pages' = [pages EXCEPT ![p] = page]
  BY <1>1 DEF Writes
<1>5. Usable(page.mine) /\ page.mine.list # <<>> /\ Usable(stored') /\ FavoritesScoped /\ UNCHANGED legacy
  BY <1>1, <1>3, FavoritesUntouched DEF Writes
<1> HIDE DEF page
<1>6. \E pg \in PageSet :
        /\ pages' = [pages EXCEPT ![p] = pg] /\ pg.kind = "workspaces"
        /\ Usable(pg.mine) /\ pg.mine.list # <<>>
  BY <1>3, <1>4, <1>5
<1>7. WorkspacesInv'
  BY <1>5, <1>6, PageKeeps
<1> QED BY <1>5, <1>7

LEMMA OpenPageKeeps == ASSUME WorkspacesInv, NEW p \in Page, OpenPage(p) PROVE WorkspacesInv' /\ FavoritesScoped
<1> DEFINE record == IF stored.list = <<>> THEN FirstList ELSE stored
           manager == [pages[p] EXCEPT !.kind = "workspaces", !.mine = record]
           dashboard == [kind |-> "dashboard", mine |-> record, shown |-> record.active,
                         favorites |-> FavoritesOf(record.active)]
<1>1. /\ \/ pages' = [pages EXCEPT ![p] = manager] /\ favs' = favs
         \/ pages' = [pages EXCEPT ![p] = dashboard] /\ favs' = Settled(record.active)
      /\ stored' = stored /\ legacy' = legacy
  BY DEF OpenPage
<1>2. Usable(record) /\ record.list # <<>> /\ record \in WorkspaceRecord
  BY FirstRecords DEF WorkspacesInv, Usable
<1>3. pages[p] \in PageSet /\ FavoriteTypes /\ Usable(stored)
  BY DEF WorkspacesInv, PageTypes, PageSet
<1> HIDE DEF record
<1>4. record.active \in Id
  BY <1>2 DEF WorkspaceRecord
<1>5. /\ FavoritesOf(record.active) \subseteq Backend
      /\ FavoritesOf(record.active) = FavsOf(record.active)
      /\ favs' = Settled(record.active) => FavoritesScoped
  BY <1>3, SettledIs
<1>6. dashboard \in PageSet /\ manager \in PageSet
  BY <1>2, <1>3, <1>4, <1>5 DEF PageSet
<1>7. manager.kind = "workspaces" /\ manager.mine = record
  BY <1>3 DEF PageSet
<1>8. dashboard.mine = record /\ ShowsOwn(dashboard)
  BY <1>5 DEF ShowsOwn
<1> HIDE DEF manager, dashboard
<1>9. Usable(stored')
  BY <1>1, <1>3
<1>10. CASE pages' = [pages EXCEPT ![p] = manager] /\ favs' = favs
  <2>1. FavoritesScoped
    BY <1>10, FavoritesUntouched
  <2>2. \E pg \in PageSet :
          /\ pages' = [pages EXCEPT ![p] = pg] /\ pg.kind = "workspaces"
          /\ Usable(pg.mine) /\ pg.mine.list # <<>>
    BY <1>2, <1>6, <1>7, <1>10
  <2>3. WorkspacesInv'
    BY <1>1, <1>9, <2>1, <2>2, PageKeeps
  <2> QED BY <2>1, <2>3
<1>11. CASE pages' = [pages EXCEPT ![p] = dashboard] /\ favs' = Settled(record.active)
  <2>1. \E pg \in PageSet :
          /\ pages' = [pages EXCEPT ![p] = pg] /\ ShowsOwn(pg)
          /\ Usable(pg.mine) /\ pg.mine.list # <<>>
    BY <1>2, <1>6, <1>8, <1>11
  <2>2. WorkspacesInv'
    BY <1>1, <1>5, <1>9, <1>11, <2>1, PageKeeps
  <2> QED BY <1>5, <1>11, <2>2
<1> QED BY <1>1, <1>10, <1>11

LEMMA LeavePageKeeps == ASSUME WorkspacesInv, NEW p \in Page, LeavePage(p) PROVE WorkspacesInv' /\ FavoritesScoped
<1>1. Closed \in PageSet /\ Closed.kind = "closed" /\ Closed.mine = FirstList
  BY FirstRecords DEF Closed, PageSet, Usable
<1>2. pages' = [pages EXCEPT ![p] = Closed] /\ UNCHANGED <<stored, favs, legacy>>
  BY DEF LeavePage
<1>3. Usable(stored') /\ FavoritesScoped
  BY <1>2, FavoritesUntouched DEF WorkspacesInv
<1>4. WorkspacesInv'
  BY <1>1, <1>2, <1>3, FirstRecords, PageKeeps
<1> QED BY <1>3, <1>4

\* The copy of a page, and the list in it.
LEMMA MineIs ==
  ASSUME WorkspacesInv, NEW p \in Page
  PROVE  /\ pages[p] \in PageSet /\ pages[p].mine \in WorkspaceRecord /\ Usable(pages[p].mine)
         /\ pages[p].mine.list \in Seq(Id) /\ pages[p].mine.list # <<>> /\ pages[p].mine.active \in Id
         /\ IsInjective(pages[p].mine.list) /\ pages[p].mine.active \in ToSet(pages[p].mine.list)
         /\ \A w \in Ids(pages[p].mine) :
              /\ w \in Id /\ w \in ToSet(pages[p].mine.list)
              /\ [pages[p].mine EXCEPT !.active = w] \in WorkspaceRecord
              /\ Usable([pages[p].mine EXCEPT !.active = w])
              /\ [pages[p].mine EXCEPT !.active = w].list # <<>>
<1>1. /\ pages[p] \in PageSet /\ pages[p].mine \in WorkspaceRecord /\ Usable(pages[p].mine)
      /\ pages[p].mine.list # <<>>
  BY DEF WorkspacesInv, PageTypes, PageSet
<1>2. /\ pages[p].mine.list \in Seq(Id) /\ pages[p].mine.active \in Id
      /\ IsInjective(pages[p].mine.list) /\ pages[p].mine.active \in ToSet(pages[p].mine.list)
  BY <1>1 DEF WorkspaceRecord, Usable, Ids
<1>3. ASSUME NEW w \in Ids(pages[p].mine)
      PROVE  /\ w \in Id /\ w \in ToSet(pages[p].mine.list)
             /\ [pages[p].mine EXCEPT !.active = w] \in WorkspaceRecord
             /\ [pages[p].mine EXCEPT !.active = w].list = pages[p].mine.list
             /\ [pages[p].mine EXCEPT !.active = w].active = w
  <2>1. w \in ToSet(pages[p].mine.list)
    BY DEF Ids
  <2>2. w \in Id
    BY <1>2, <2>1 DEF ToSet
  <2> QED BY <1>1, <2>1, <2>2 DEF WorkspaceRecord
<1>4. ASSUME NEW w \in Ids(pages[p].mine) PROVE Usable([pages[p].mine EXCEPT !.active = w])
  <2> DEFINE record == [pages[p].mine EXCEPT !.active = w]
  <2>1. record \in WorkspaceRecord /\ record.list = pages[p].mine.list /\ record.active = w
    BY <1>3
  <2>2. w \in ToSet(pages[p].mine.list)
    BY <1>3
  <2> HIDE DEF record
  <2>3. Usable(record)
    BY <1>2, <2>1, <2>2 DEF Usable, Ids
  <2> QED BY <2>3 DEF record
<1> QED BY <1>1, <1>2, <1>3, <1>4

LEMMA UseWorkspaceKeeps == ASSUME WorkspacesInv, NEW p \in Page, UseWorkspace(p) PROVE WorkspacesInv' /\ FavoritesScoped
<1>1. PICK w \in Ids(pages[p].mine) :
        /\ Manager(p) /\ stored' = [pages[p].mine EXCEPT !.active = w]
        /\ pages' = [pages EXCEPT ![p].mine = [pages[p].mine EXCEPT !.active = w]]
        /\ UNCHANGED <<favs, legacy>>
  BY DEF UseWorkspace, Persist
<1>2. Writes(p, [pages[p].mine EXCEPT !.active = w]) /\ [pages[p].mine EXCEPT !.active = w] \in WorkspaceRecord
  BY <1>1, MineIs DEF Writes
<1>3. \E record \in WorkspaceRecord : Writes(p, record)
  BY <1>2
<1> QED BY <1>3, WritesKeeps

LEMMA AssignControllerKeeps ==
  ASSUME WorkspacesInv, NEW p \in Page, AssignController(p) PROVE WorkspacesInv' /\ FavoritesScoped
<1>1. stored' = pages[p].mine /\ UNCHANGED <<pages, favs, legacy>>
  BY DEF AssignController, Persist
<1>2. Usable(stored')
  BY <1>1, MineIs
<1>3. WorkspacesInv'
  BY <1>1, <1>2 DEF WorkspacesInv, PageTypes, FavoriteTypes, Dashboard, ShowsOwn, FavsOf
<1> QED BY <1>1, <1>3, FavoritesUntouched

LEMMA ImportKeepsUsable ==
  ASSUME WorkspacesInv, NEW p \in Page, ImportWorkspaces(p) PROVE WorkspacesInv' /\ FavoritesScoped
<1>1. PICK ids \in SUBSET {"gaming", "family", "family-2"} \ {{}} : \E w \in ids :
        /\ Manager(p) /\ stored' = [list |-> SetToSeq(ids), active |-> w]
        /\ pages' = [pages EXCEPT ![p].mine = [list |-> SetToSeq(ids), active |-> w]]
        /\ UNCHANGED <<favs, legacy>>
  BY DEF ImportWorkspaces, Persist
<1>w. PICK w \in ids :
        /\ Manager(p) /\ stored' = [list |-> SetToSeq(ids), active |-> w]
        /\ pages' = [pages EXCEPT ![p].mine = [list |-> SetToSeq(ids), active |-> w]]
        /\ UNCHANGED <<favs, legacy>>
  BY <1>1
<1>2. IsFiniteSet({"gaming", "family", "family-2"})
  <2>1. IsFiniteSet({} \cup {"gaming"})
    BY FS_EmptySet, FS_AddElement
  <2>2. IsFiniteSet(({} \cup {"gaming"}) \cup {"family"})
    BY <2>1, FS_AddElement
  <2>3. IsFiniteSet((({} \cup {"gaming"}) \cup {"family"}) \cup {"family-2"})
    BY <2>2, FS_AddElement
  <2>4. (({} \cup {"gaming"}) \cup {"family"}) \cup {"family-2"} = {"gaming", "family", "family-2"}
    OBVIOUS
  <2> QED BY <2>3, <2>4
<1>3. IsFiniteSet(ids)
  BY <1>2, FS_Subset
<1> DEFINE list == SetToSeq(ids)
           record == [list |-> list, active |-> w]
<1>4. list \in Seq(ids) /\ IsInjective(list) /\ ToSet(list) = ids
  BY <1>3, SetToSeqIs
<1> HIDE DEF list
<1>5. list \in Seq(Id) /\ w \in Id
  <2>1. ids \subseteq Id
    BY DEF Id
  <2>2. ASSUME NEW k \in 1..Len(list) PROVE list[k] \in Id
    <3>1. list[k] \in ToSet(list)
      BY <1>4 DEF ToSet
    <3> QED BY <1>4, <2>1, <3>1
  <2>3. list \in Seq(Id)
    BY <1>4, <2>2
  <2> QED BY <1>w, <2>1, <2>3
<1>6. list # <<>>
  BY <1>4 DEF ToSet
<1>7. record \in WorkspaceRecord /\ record.list = list /\ record.active = w
  BY <1>5 DEF WorkspaceRecord
<1>8. stored' = record /\ pages' = [pages EXCEPT ![p].mine = record]
  BY <1>w DEF list
<1> HIDE DEF record
<1>9. Usable(record)
  BY <1>4, <1>7 DEF Usable, Ids
<1>10. Writes(p, record)
  BY <1>w, <1>6, <1>7, <1>8, <1>9 DEF Writes
<1> QED BY <1>7, <1>10, WritesKeeps

LEMMA CreateWorkspaceKeeps ==
  ASSUME WorkspacesInv, NEW p \in Page, CreateWorkspace(p) PROVE WorkspacesInv' /\ FavoritesScoped
<1> DEFINE list == pages[p].mine.list
           w == UniqueId(list)
           more == Append(list, w)
           record == [list |-> more, active |-> w]
<1>1. /\ Manager(p) /\ ~Contains(list, "family-3") /\ UNCHANGED <<favs, legacy>>
      /\ stored' = record /\ pages' = [pages EXCEPT ![p].mine = record]
  BY DEF CreateWorkspace, Persist
<1>2. list \in Seq(Id) /\ IsInjective(list)
  BY MineIs
<1> HIDE DEF list
<1>3. w \in Id /\ ~Contains(list, w)
  BY <1>1 DEF UniqueId, Id
<1>4. w \notin ToSet(list)
  BY <1>2, <1>3 DEF Contains, ToSet
<1> HIDE DEF w
<1>5. more \in Seq(Id) /\ IsInjective(more) /\ ToSet(more) = ToSet(list) \cup {w}
  BY <1>2, <1>3, <1>4, AppendIs
<1> HIDE DEF more
<1>6. more # <<>>
  BY <1>5 DEF ToSet
<1>7. record \in WorkspaceRecord /\ record.list = more /\ record.active = w
  BY <1>3, <1>5 DEF WorkspaceRecord
<1> HIDE DEF record
<1>8. Usable(record)
  BY <1>5, <1>7 DEF Usable, Ids
<1>9. Writes(p, record)
  BY <1>1, <1>6, <1>7, <1>8 DEF Writes
<1> QED BY <1>7, <1>9, WritesKeeps

LEMMA RemoveWorkspaceKeeps ==
  ASSUME WorkspacesInv, NEW p \in Page, RemoveWorkspace(p) PROVE WorkspacesInv' /\ FavoritesScoped
<1> DEFINE mine == pages[p].mine
           list == mine.list
<1>1. PICK w \in Ids(mine) :
        /\ Manager(p) /\ Len(list) > 1 /\ UNCHANGED <<favs, legacy>>
        /\ stored' = Without(mine, w) /\ pages' = [pages EXCEPT ![p].mine = Without(mine, w)]
  BY DEF RemoveWorkspace, Persist
<1> DEFINE rest == Dropped(list, w)
           active0 == IF mine.active = w THEN rest[1] ELSE mine.active
           record == [list |-> rest, active |-> active0]
<1>2. Without(mine, w) = record
  BY DEF Without
<1>3. /\ list \in Seq(Id) /\ IsInjective(list) /\ mine.active \in Id /\ mine.active \in ToSet(list)
      /\ w \in ToSet(list)
  BY MineIs
<1> HIDE DEF mine, list
<1>4. rest \in Seq(Id) /\ Len(rest) = Len(list) - 1 /\ IsInjective(rest) /\ ToSet(rest) = ToSet(list) \ {w}
  BY <1>3, DroppedIs
<1>5. 1 \in DOMAIN rest /\ rest # <<>>
  BY <1>1, <1>3, <1>4
<1> HIDE DEF rest
<1>6. rest[1] \in ToSet(rest) /\ rest[1] \in Id
  BY <1>4, <1>5 DEF ToSet
<1>7. active0 \in Id /\ active0 \in ToSet(rest)
  BY <1>3, <1>4, <1>6
<1> HIDE DEF active0
<1>8. record \in WorkspaceRecord /\ record.list = rest /\ record.active = active0
  BY <1>4, <1>7 DEF WorkspaceRecord
<1> HIDE DEF record
<1>9. Usable(record)
  BY <1>4, <1>7, <1>8 DEF Usable, Ids
<1>10. Writes(p, record)
  BY <1>1, <1>2, <1>5, <1>8, <1>9 DEF Writes
<1> QED BY <1>8, <1>10, WritesKeeps

LEMMA PickKeeps == ASSUME WorkspacesInv, NEW p \in Page, Pick(p) PROVE WorkspacesInv' /\ FavoritesScoped
<1>1. PICK w \in Ids(pages[p].mine) :
        /\ Dashboard(p) /\ stored' = [pages[p].mine EXCEPT !.active = w]
        /\ pages' = [pages EXCEPT ![p] = Picked(p, w)] /\ favs' = Settled(w) /\ UNCHANGED legacy
  BY DEF Pick, Persist
<1> DEFINE mine == pages[p].mine
           page == Picked(p, w)
           record == [mine EXCEPT !.active = w]
<1>2. /\ pages[p] \in PageSet /\ w \in Id /\ record \in WorkspaceRecord
      /\ Usable(record) /\ record.list # <<>>
  BY MineIs
<1>3. FavoriteTypes
  BY DEF WorkspacesInv
<1>4. FavoritesOf(w) = FavsOf(w) /\ FavoritesOf(w) \subseteq Backend /\ FavoritesScoped
  BY <1>1, <1>3, SettledIs
<1>5. /\ page.kind = "dashboard" /\ page.mine = record /\ page.shown = w /\ page.favorites = FavoritesOf(w)
      /\ record.active = w
  BY <1>1, <1>2 DEF Picked, PageSet, WorkspaceRecord, Dashboard
<1>6. page \in PageSet
  BY <1>2, <1>4 DEF Picked, PageSet, WorkspaceRecord
<1>7. stored' = record /\ pages' = [pages EXCEPT ![p] = page]
  BY <1>1
<1> HIDE DEF page, record
<1>8. \E pg \in PageSet :
        /\ pages' = [pages EXCEPT ![p] = pg] /\ ShowsOwn(pg)
        /\ Usable(pg.mine) /\ pg.mine.list # <<>>
  BY <1>2, <1>4, <1>5, <1>6, <1>7 DEF ShowsOwn
<1>9. Usable(stored')
  BY <1>2, <1>7
<1>10. WorkspacesInv'
  BY <1>1, <1>4, <1>8, <1>9, PageKeeps
<1> QED BY <1>4, <1>10

LEMMA ToggleKeeps == ASSUME WorkspacesInv, NEW p \in Page, Toggle(p) PROVE WorkspacesInv' /\ FavoritesScoped
<1> DEFINE u == pages[p].shown
           page == [pages[p] EXCEPT !.favorites = FavoritesOf(u)]
<1>1. /\ Dashboard(p) /\ favs' = Kept(u, FavoritesOf(u))
      /\ pages' = [pages EXCEPT ![p] = page] /\ UNCHANGED <<stored, legacy>>
  BY DEF Toggle
<1>2. /\ pages[p] \in PageSet /\ FavoriteTypes /\ pages[p].mine.active = u
      /\ Usable(pages[p].mine) /\ pages[p].mine.list # <<>> /\ Usable(stored)
  BY <1>1, MineIs DEF WorkspacesInv, ShowsOwn
<1>3. FavoritesOf(u) = FavsOf(u) /\ FavoritesOf(u) \subseteq Backend
  BY <1>2, SettledIs
<1>4. page \in PageSet /\ page.mine = pages[p].mine /\ ShowsOwn(page)
  BY <1>2, <1>3 DEF PageSet, ShowsOwn
<1>5. /\ DOMAIN favs' = DOMAIN favs \cup {u} /\ favs'[u] = FavsOf(u)
      /\ \A v \in DOMAIN favs : v # u => favs'[v] = favs[v]
  BY <1>1, <1>3 DEF Kept
<1>6. FavoritesScoped
  BY <1>5 DEF FavoritesScoped, FavsOf
<1> HIDE DEF page, u
<1>7. \E pg \in PageSet :
        /\ pages' = [pages EXCEPT ![p] = pg] /\ ShowsOwn(pg)
        /\ Usable(pg.mine) /\ pg.mine.list # <<>>
  BY <1>1, <1>2, <1>4
<1>8. Usable(stored')
  BY <1>1, <1>2
<1>9. WorkspacesInv'
  BY <1>1, <1>6, <1>7, <1>8, PageKeeps
<1> QED BY <1>6, <1>9

LEMMA WorkspacesGoOn ==
  WorkspacesInv /\ [WorkspacesNext]_workspaceVars => WorkspacesInv' /\ (FavoritesScoped \/ UNCHANGED workspaceVars)
<1>1. ASSUME WorkspacesInv, UNCHANGED workspaceVars PROVE WorkspacesInv'
  BY <1>1 DEF WorkspacesInv, workspaceVars, PageTypes, FavoriteTypes, Dashboard, ShowsOwn, FavsOf
<1>2. ASSUME WorkspacesInv, WorkspacesNext PROVE WorkspacesInv' /\ FavoritesScoped
  BY <1>2, OpenPageKeeps, LeavePageKeeps, UseWorkspaceKeeps, CreateWorkspaceKeeps, RemoveWorkspaceKeeps,
     ImportKeepsUsable, AssignControllerKeeps, PickKeeps, ToggleKeeps DEF WorkspacesNext
<1> QED BY <1>1, <1>2

LEMMA UsableHolds == WorkspacesInv => WorkspacesUsable
<1> SUFFICES ASSUME WorkspacesInv PROVE WorkspacesUsable
  OBVIOUS
<1>1. \A record \in {stored} \union {pages[p].mine : p \in Page} : Usable(record)
  BY DEF WorkspacesInv
<1>2. ASSUME NEW p \in Page, Dashboard(p)
      PROVE  pages[p].shown = pages[p].mine.active /\ pages[p].favorites = FavoritesOf(pages[p].shown)
  <2>1. ShowsOwn(pages[p]) /\ FavoriteTypes
    BY <1>2 DEF WorkspacesInv
  <2> QED BY <2>1, SettledIs DEF ShowsOwn
<1> QED BY <1>1, <1>2 DEF WorkspacesUsable, Usable

\* Whatever lists of workspaces the pages write over one another, the stored one and every page's
\* own can be used, a dashboard has the favourites of the workspace it shows, and no favourites
\* are changed or lost (workspaces, library-state, dashboard).
THEOREM WorkspacesStayUsable == WorkspacesSpec => []WorkspacesUsable /\ FavoritesStayScoped
<1>1. FavoritesScoped \/ UNCHANGED workspaceVars =>
        [\A w \in DOMAIN favs \union DOMAIN favs' :
           /\ w \in DOMAIN favs'
           /\ favs'[w] = IF w \in DOMAIN favs THEN favs[w]
                         ELSE IF w = "gaming" THEN legacy ELSE {}]_workspaceVars
  BY DEF FavoritesScoped
<1> QED BY <1>1, WorkspacesBegin, WorkspacesGoOn, UsableHolds, PTL DEF WorkspacesSpec, FavoritesStayScoped

-----------------------------------------------------------------------------
(***************************************************************************)
(* Dashboards: the games the user has added.                               *)
(***************************************************************************)
\* The forms that were the first for their game.
Firsts(s) == {s[i] : i \in {j \in DOMAIN s : \A k \in 1 .. j - 1 : s[k].game # s[j].game}}

LEMMA FirstsGrow ==
  ASSUME NEW s \in Seq(GameRecord), NEW g \in GameRecord
  PROVE  Firsts(Append(s, g)) =
           Firsts(s) \cup (IF \E k \in 1..Len(s) : s[k].game = g.game THEN {} ELSE {g})
<1> DEFINE n == Len(s)
           u == Append(s, g)
<1>1. /\ n \in Nat /\ DOMAIN s = 1..n /\ DOMAIN u = 1..(n + 1) /\ u[n + 1] = g
      /\ \A k \in 1..n : u[k] = s[k]
  OBVIOUS
<1> HIDE DEF n, u
<1>2. ASSUME NEW x \in Firsts(u)
      PROVE  x \in Firsts(s) \/ (x = g /\ \A k \in 1..n : s[k].game # g.game)
  <2>1. PICK j \in 1..(n + 1) : x = u[j] /\ \A k \in 1 .. j - 1 : u[k].game # u[j].game
    BY <1>1 DEF Firsts
  <2>2. CASE j \in 1..n
    <3>1. \A k \in 1 .. j - 1 : s[k].game # s[j].game
      BY <1>1, <2>1, <2>2
    <3> QED BY <1>1, <2>1, <2>2, <3>1 DEF Firsts
  <2>3. CASE j = n + 1
    <3>1. \A k \in 1..n : s[k].game # g.game
      BY <1>1, <2>1, <2>3
    <3> QED BY <1>1, <2>1, <2>3, <3>1
  <2> QED BY <1>1, <2>2, <2>3
<1>3. ASSUME NEW x \in Firsts(s) PROVE x \in Firsts(u)
  <2>1. PICK j \in 1..n : x = s[j] /\ \A k \in 1 .. j - 1 : s[k].game # s[j].game
    BY <1>1 DEF Firsts
  <2>2. j \in 1..(n + 1) /\ x = u[j] /\ \A k \in 1 .. j - 1 : u[k].game # u[j].game
    BY <1>1, <2>1
  <2> QED BY <1>1, <2>2 DEF Firsts
<1>4. ASSUME \A k \in 1..n : s[k].game # g.game PROVE g \in Firsts(u)
  <2>1. n + 1 \in 1..(n + 1) /\ g = u[n + 1] /\ \A k \in 1 .. (n + 1) - 1 : u[k].game # u[n + 1].game
    BY <1>1, <1>4
  <2> QED BY <1>1, <2>1 DEF Firsts
<1> QED BY <1>2, <1>3, <1>4 DEF n, u

Tab0 == [at : {"away", "dashboard", "player"}, handlers : SUBSET {"cards", "resume"}, resume : BOOLEAN,
         cards : Seq(GameRecord), queued : Link \cup {NoLink}, asked : Link \cup {NoLink}]

\* The games are the first forms; every form has its game.
GamesInv ==
  /\ games \in Seq(GameRecord) /\ entered \in Seq(GameRecord) /\ restore \in BOOLEAN
  /\ ToSet(games) = Firsts(entered)
  /\ \A i, j \in DOMAIN games : games[i].game = games[j].game => i = j
  /\ \A k \in DOMAIN entered : \E h \in ToSet(games) : h.game = entered[k].game

\* Every tab has its part of them.
TabsInv ==
  /\ dash \in [Window -> Tab0] /\ recovery \in [Window -> BOOLEAN]
  /\ \A t \in Window : ToSet(dash[t].cards) \subseteq ToSet(games) /\ (dash[t].resume => recovery[t])

DashboardInv == GamesInv /\ TabsInv

LEMMA GamesStay == GamesInv /\ UNCHANGED <<restore, games, entered>> => GamesInv'
<1> SUFFICES ASSUME GamesInv, UNCHANGED <<restore, games, entered>> PROVE GamesInv'
  OBVIOUS
<1>1. restore' = restore /\ games' = games /\ entered' = entered
  OBVIOUS
<1>2. ToSet(games') = Firsts(entered')
  BY <1>1 DEF GamesInv
<1>3. \A k \in DOMAIN entered' : \E h \in ToSet(games') : h.game = entered'[k].game
  BY <1>1, Zenon DEF GamesInv
<1>4. \A i, j \in DOMAIN games' : games'[i].game = games'[j].game => i = j
  BY <1>1, Zenon DEF GamesInv
<1> QED BY <1>1, <1>2, <1>3, <1>4 DEF GamesInv

LEMMA AwayIs ==
  /\ \A where \in {"away", "player"} : [Away EXCEPT !.at = where] \in Tab0
  /\ \A where : [Away EXCEPT !.at = where].cards = <<>> /\ ~[Away EXCEPT !.at = where].resume
  /\ Away \in Tab0 /\ Away.cards = <<>> /\ ~Away.resume
  /\ <<>> \in Seq(GameRecord) /\ DOMAIN <<>> = {} /\ ToSet(<<>>) = {}
<1>1. <<>> \in Seq(GameRecord) /\ DOMAIN <<>> = {}
  OBVIOUS
<1>2. ToSet(<<>>) = {}
  BY <1>1, Zenon DEF ToSet
<1> QED BY <1>1, <1>2 DEF Away, Tab0

LEMMA DashboardBegin == DashboardInit => DashboardInv
<1> SUFFICES ASSUME DashboardInit PROVE DashboardInv
  OBVIOUS
<1>1. games = <<>> /\ entered = <<>> /\ dash = [t \in Window |-> Away]
  BY DEF DashboardInit
<1>2. Firsts(entered) = {} /\ ToSet(games) = {} /\ DOMAIN games = {} /\ DOMAIN entered = {}
  BY <1>1, AwayIs, Zenon DEF Firsts
<1> QED BY <1>1, <1>2, AwayIs DEF DashboardInit, DashboardInv, GamesInv, TabsInv

\* One tab becomes another, with no more than there is.
LEMMA TabKeeps ==
  ASSUME DashboardInv, NEW t \in Window, NEW tab \in Tab0, dash' = [dash EXCEPT ![t] = tab],
         NEW left \in BOOLEAN, recovery' = [recovery EXCEPT ![t] = left],
         ToSet(tab.cards) \subseteq ToSet(games), tab.resume => left,
         UNCHANGED <<restore, games, entered>>
  PROVE  DashboardInv'
<1>1. dash' \in [Window -> Tab0] /\ recovery' \in [Window -> BOOLEAN]
  BY DEF DashboardInv, GamesInv, TabsInv
<1>2. ASSUME NEW v \in Window
      PROVE  ToSet(dash'[v].cards) \subseteq ToSet(games) /\ (dash'[v].resume => recovery'[v])
  <2>1. CASE v = t
    BY <2>1 DEF DashboardInv, GamesInv, TabsInv
  <2>2. CASE v # t
    <3>1. dash'[v] = dash[v] /\ recovery'[v] = recovery[v]
      BY <2>2 DEF DashboardInv, GamesInv, TabsInv
    <3> QED BY <3>1 DEF DashboardInv, GamesInv, TabsInv
  <2> QED BY <2>1, <2>2
<1> QED BY <1>1, <1>2, GamesStay DEF DashboardInv, TabsInv

LEMMA TabStays ==
  ASSUME DashboardInv, NEW t \in Window, NEW tab \in Tab0, dash' = [dash EXCEPT ![t] = tab],
         ToSet(tab.cards) \subseteq ToSet(games), tab.resume => recovery[t],
         UNCHANGED <<recovery, restore, games, entered>>
  PROVE  DashboardInv'
<1>1. recovery[t] \in BOOLEAN /\ recovery' = [recovery EXCEPT ![t] = recovery[t]]
  BY DEF DashboardInv, GamesInv, TabsInv
<1>2. \E left \in BOOLEAN : recovery' = [recovery EXCEPT ![t] = left] /\ (tab.resume => left)
  BY <1>1
<1> QED BY <1>2, TabKeeps

LEMMA LoadPageKeeps == ASSUME DashboardInv, NEW t \in Window, LoadPage(t) PROVE DashboardInv'
<1> DEFINE resume == restore /\ recovery[t]
<1>1. PICK where \in StartupRoutes(resume) :
        dash' = [dash EXCEPT ![t] =
          IF where = "player" THEN [Away EXCEPT !.at = where]
          ELSE [Away EXCEPT !.at = where, !.handlers = Registered, !.resume = resume]]
  BY DEF LoadPage
<1>2. UNCHANGED <<recovery, restore, games, entered>>
  BY DEF LoadPage
<1>3. CASE where = "player"
  <2>1. [Away EXCEPT !.at = "player"] \in Tab0
    BY AwayIs
  <2>2. [Away EXCEPT !.at = "player"].cards = <<>> /\ ~[Away EXCEPT !.at = "player"].resume
    BY DEF Away
  <2>3. ToSet(<<>>) \subseteq ToSet(games)
    BY AwayIs
  <2> QED BY <1>1, <1>2, <1>3, <2>1, <2>2, <2>3, TabStays
<1>4. CASE where # "player"
  <2> DEFINE tab == [Away EXCEPT !.at = "dashboard", !.handlers = Registered, !.resume = resume]
  <2>1. where = "dashboard" /\ resume \in BOOLEAN
    BY <1>4 DEF StartupRoutes, DashboardInv, GamesInv, TabsInv
  <2>2. tab \in Tab0
    <3>1. Registered \subseteq {"cards", "resume"}
      BY DEF Registered
    <3>2. Away \in Tab0
      BY AwayIs
    <3> QED BY <2>1, <3>1, <3>2 DEF Tab0
  <2>3. tab.cards = <<>> /\ (tab.resume => recovery[t])
    BY DEF Away
  <2>4. dash' = [dash EXCEPT ![t] = tab]
    BY <1>1, <1>4, <2>1
  <2> HIDE DEF tab
  <2> QED BY <1>2, <2>2, <2>3, <2>4, AwayIs, TabStays
<1> QED BY <1>3, <1>4

LEMMA GoKeeps ==
  ASSUME DashboardInv, NEW t \in Window, NEW where \in {"away", "player"}, dash' = Go(t, where),
         NEW left \in BOOLEAN, recovery' = [recovery EXCEPT ![t] = left],
         UNCHANGED <<restore, games, entered>>
  PROVE  DashboardInv'
<1> DEFINE tab == [Away EXCEPT !.at = where]
<1>1. tab \in Tab0 /\ dash' = [dash EXCEPT ![t] = tab]
  BY AwayIs DEF Go
<1>2. tab.cards = <<>> /\ ~tab.resume
  BY DEF Away
<1> HIDE DEF tab
<1> QED BY <1>1, <1>2, AwayIs, TabKeeps

LEMMA GoStays ==
  ASSUME DashboardInv, NEW t \in Window, NEW where \in {"away", "player"}, dash' = Go(t, where),
         UNCHANGED <<recovery, restore, games, entered>>
  PROVE  DashboardInv'
<1>1. \E left \in BOOLEAN : recovery' = [recovery EXCEPT ![t] = left]
  BY DEF DashboardInv, GamesInv, TabsInv
<1> QED BY <1>1, GoKeeps

LEMMA AddGameKeeps == ASSUME DashboardInv, NEW t \in Window, AddGame(t) PROVE DashboardInv'
<1>1. PICK g \in GameRecord :
        /\ games' = Added(g) /\ entered' = Append(entered, g)
        /\ \E cards \in {games', <<>>} : dash' = [dash EXCEPT ![t].cards = cards]
  BY DEF AddGame
<1>2. PICK cards \in {games', <<>>} : dash' = [dash EXCEPT ![t].cards = cards]
  BY <1>1
<1>3. UNCHANGED <<restore, recovery>> /\ DashboardInv
  BY DEF AddGame
<1> DEFINE known == \E h \in ToSet(games) : h.game = g.game
<1>4. known <=> \E k \in 1..Len(entered) : entered[k].game = g.game
  <2>1. ASSUME NEW h \in ToSet(games), h.game = g.game PROVE \E k \in 1..Len(entered) : entered[k].game = g.game
    <3>1. h \in Firsts(entered) /\ DOMAIN entered = 1..Len(entered)
      BY DEF DashboardInv, GamesInv, TabsInv
    <3> QED BY <2>1, <3>1 DEF Firsts
  <2>2. ASSUME NEW k \in 1..Len(entered), entered[k].game = g.game PROVE known
    BY <2>2 DEF DashboardInv, GamesInv, TabsInv
  <2> QED BY <2>1, <2>2
<1>5. /\ games' \in Seq(GameRecord)
      /\ ToSet(games') = ToSet(games) \cup (IF known THEN {} ELSE {g})
      /\ \A i, j \in DOMAIN games' : games'[i].game = games'[j].game => i = j
  <2>1. CASE known
    BY <1>1, <2>1 DEF Added, DashboardInv, GamesInv, TabsInv
  <2>2. CASE ~known
    <3>1. games' = Append(games, g) /\ games \in Seq(GameRecord)
      BY <1>1, <2>2 DEF Added, DashboardInv, GamesInv, TabsInv
    <3>2. /\ games' \in Seq(GameRecord) /\ DOMAIN games = 1..Len(games) /\ Len(games) \in Nat
          /\ DOMAIN games' = 1..Len(games) + 1
          /\ \A k \in 1..Len(games) : games'[k] = games[k]
          /\ games'[Len(games) + 1] = g
      BY <3>1
    <3>3. \A k \in 1..Len(games) + 1 : k \in 1..Len(games) \/ k = Len(games) + 1
      BY <3>2
    <3>4. \A k \in 1..Len(games) : games[k] \in ToSet(games) /\ games[k].game # g.game
      BY <2>2, <3>2 DEF ToSet
    <3>5. \A i, j \in DOMAIN games' : games'[i].game = games'[j].game => i = j
      BY <3>2, <3>3, <3>4 DEF DashboardInv, GamesInv, TabsInv
    <3>6. ToSet(games') = ToSet(games) \cup {g}
      <4>1. ASSUME NEW x \in ToSet(games') PROVE x \in ToSet(games) \cup {g}
        <5>1. PICK k \in 1..Len(games) + 1 : x = games'[k]
          BY <3>2 DEF ToSet
        <5> QED BY <3>2, <3>3, <3>4, <5>1
      <4>2. ASSUME NEW x \in ToSet(games) PROVE x \in ToSet(games')
        <5>1. PICK k \in 1..Len(games) : x = games[k]
          BY <3>2 DEF ToSet
        <5>2. k \in DOMAIN games' /\ games'[k] = x
          BY <3>2, <5>1
        <5> QED BY <5>2 DEF ToSet
      <4>3. g \in ToSet(games')
        <5>1. Len(games) + 1 \in DOMAIN games'
          BY <3>2
        <5> QED BY <3>2, <5>1 DEF ToSet
      <4> QED BY <4>1, <4>2, <4>3
    <3> QED BY <2>2, <3>2, <3>5, <3>6
  <2> QED BY <2>1, <2>2
<1>6. /\ entered' \in Seq(GameRecord) /\ DOMAIN entered' = 1..Len(entered) + 1
      /\ \A k \in 1..Len(entered) : entered'[k] = entered[k]
      /\ entered'[Len(entered) + 1] = g
      /\ DOMAIN entered = 1..Len(entered) /\ Len(entered) \in Nat
  BY <1>1 DEF DashboardInv, GamesInv, TabsInv
<1>7. ToSet(games') = Firsts(entered')
  <2>1. entered \in Seq(GameRecord) /\ ToSet(games) = Firsts(entered)
    BY DEF DashboardInv, GamesInv, TabsInv
  <2>2. Firsts(entered') = Firsts(entered) \cup (IF known THEN {} ELSE {g})
    BY <1>1, <1>4, <2>1, FirstsGrow
  <2> QED BY <1>5, <2>1, <2>2
<1>8. ASSUME NEW k \in DOMAIN entered' PROVE \E h \in ToSet(games') : h.game = entered'[k].game
  <2>1. CASE k \in 1..Len(entered)
    <3>1. PICK h \in ToSet(games) : h.game = entered[k].game
      BY <1>6, <2>1 DEF DashboardInv, GamesInv, TabsInv
    <3> QED BY <1>5, <1>6, <2>1, <3>1
  <2>2. CASE k = Len(entered) + 1
    <3>1. \E h \in ToSet(games') : h.game = g.game
      BY <1>5
    <3> QED BY <1>6, <2>2, <3>1
  <2> QED BY <1>6, <2>1, <2>2
<1>9. cards \in Seq(GameRecord) /\ ToSet(cards) \subseteq ToSet(games')
  BY <1>2, <1>5, AwayIs
<1>10. dash' \in [Window -> Tab0] /\ \A v \in Window :
         /\ dash'[v].resume = dash[v].resume
         /\ dash'[v].cards = IF v = t THEN cards ELSE dash[v].cards
  BY <1>2, <1>9, ZenonT(100) DEF DashboardInv, GamesInv, TabsInv, Tab0
<1>11. \A v \in Window : ToSet(dash'[v].cards) \subseteq ToSet(games') /\ (dash'[v].resume => recovery'[v])
  BY <1>3, <1>5, <1>9, <1>10 DEF DashboardInv, GamesInv, TabsInv
<1> QED BY <1>3, <1>5, <1>6, <1>7, <1>8, <1>10, <1>11 DEF DashboardInv, GamesInv, TabsInv, Firsts

LEMMA DashboardGoesOn == DashboardInv /\ [DashboardNext]_dashboardVars => DashboardInv'
<1> SUFFICES ASSUME DashboardInv, [DashboardNext]_dashboardVars PROVE DashboardInv'
  OBVIOUS
<1>0. \A t \in Window : dash[t] \in Tab0 /\ (dash[t].resume => recovery[t])
  BY DEF DashboardInv, GamesInv, TabsInv
<1>1. ASSUME NEW t \in Window, GoAway(t) \/ Resume(t) PROVE DashboardInv'
  <2>1. PICK where \in {"away", "player"} : dash' = Go(t, where)
    BY <1>1 DEF GoAway, Resume
  <2>2. UNCHANGED <<recovery, restore, games, entered>>
    BY <1>1 DEF GoAway, Resume
  <2> QED BY <2>1, <2>2, GoStays
<1>2. ASSUME NEW t \in Window, LeavePlayer(t) PROVE DashboardInv'
  <2>1. PICK left \in BOOLEAN : recovery' = [recovery EXCEPT ![t] = left]
    BY <1>2 DEF LeavePlayer
  <2>2. dash' = Go(t, "away") /\ UNCHANGED <<restore, games, entered>>
    BY <1>2 DEF LeavePlayer
  <2> QED BY <2>1, <2>2, GoKeeps
<1>3. ASSUME NEW t \in Window, Draw(t) PROVE DashboardInv'
  <2>1. PICK cards \in {games, <<>>} : dash' = [dash EXCEPT ![t].cards = cards]
    BY <1>3 DEF Draw
  <2> DEFINE tab == [dash[t] EXCEPT !.cards = cards]
  <2>2. cards \in Seq(GameRecord) /\ ToSet(cards) \subseteq ToSet(games)
    BY AwayIs DEF DashboardInv, GamesInv, TabsInv
  <2>3. tab \in Tab0 /\ tab.cards = cards /\ tab.resume = dash[t].resume
    BY <1>0, <2>2 DEF Tab0
  <2>4. dash' = [dash EXCEPT ![t] = tab] /\ UNCHANGED <<recovery, restore, games, entered>>
    BY <1>3, <2>1 DEF Draw
  <2> HIDE DEF tab
  <2> QED BY <1>0, <2>2, <2>3, <2>4, TabStays
<1>4. ASSUME NEW t \in Window, LinkArrives(t) PROVE DashboardInv'
  <2>1. PICK e \in Link :
          dash' = [dash EXCEPT ![t].asked = e,
                               ![t].queued = IF "link" \in dash[t].handlers THEN e ELSE @]
    BY <1>4 DEF LinkArrives
  <2> DEFINE tab == [dash[t] EXCEPT !.asked = e,
                                    !.queued = IF "link" \in dash[t].handlers THEN e ELSE dash[t].queued]
  <2>2. /\ tab \in Tab0 /\ tab.cards = dash[t].cards /\ tab.resume = dash[t].resume
        /\ ToSet(dash[t].cards) \subseteq ToSet(games)
    BY <1>0, ZenonT(80) DEF Tab0, DashboardInv, GamesInv, TabsInv
  <2>3. dash' = [dash EXCEPT ![t] = tab] /\ UNCHANGED <<recovery, restore, games, entered>>
    BY <1>0, <1>4, <2>1, ZenonT(30) DEF LinkArrives, DashboardInv, GamesInv, TabsInv, Tab0
  <2> HIDE DEF tab
  <2> QED BY <1>0, <2>2, <2>3, TabStays
<1>5. ASSUME UNCHANGED dashboardVars PROVE DashboardInv'
  <2>1. UNCHANGED <<restore, games, entered>> /\ UNCHANGED <<dash, recovery>>
    BY <1>5 DEF dashboardVars
  <2> QED BY <2>1, GamesStay DEF DashboardInv, TabsInv
<1> QED BY <1>1, <1>2, <1>3, <1>4, <1>5, LoadPageKeeps, AddGameKeeps DEF DashboardNext

LEMMA DashboardHolds == DashboardInv => GamesAreKept
BY DEF DashboardInv, GamesInv, TabsInv, GamesAreKept, Firsts

\* Whichever dashboards add games, the library has the first form for each game and none twice;
\* their cards are of its games; and a session is offered only where its record is (library-state,
\* dashboard).
THEOREM GamesStayKept == DashboardSpec => []GamesAreKept
<1> QED BY DashboardBegin, DashboardGoesOn, DashboardHolds, PTL DEF DashboardSpec

-----------------------------------------------------------------------------
(***************************************************************************)
(* The parts together.                                                     *)
(***************************************************************************)
PagesInv == SettingsInv /\ WorkspacesInv /\ DashboardInv

LEMMA PagesBegin == DesktopPartsInit => PagesInv
<1>1. DesktopPartsInit => SettingsInit /\ WorkspacesInit /\ DashboardInit
  BY DEF DesktopPartsInit, NoSettings, NoWorkspaces, NoDashboard
<1> QED BY <1>1, SettingsBegin, WorkspacesBegin, DashboardBegin DEF PagesInv

LEMMA PagesGoOn ==
  PagesInv /\ [DesktopPartsNext]_desktopPartsVars =>
    /\ PagesInv'
    /\ SettingsScoped \/ UNCHANGED settingsVars
    /\ FavoritesScoped \/ UNCHANGED workspaceVars
<1> SUFFICES ASSUME PagesInv, [DesktopPartsNext]_desktopPartsVars
             PROVE  /\ PagesInv'
                    /\ SettingsScoped \/ UNCHANGED settingsVars
                    /\ FavoritesScoped \/ UNCHANGED workspaceVars
  OBVIOUS
<1>1. /\ SettingsNext \/ UNCHANGED settingsVars
      /\ WorkspacesNext \/ UNCHANGED workspaceVars
      /\ DashboardNext \/ UNCHANGED dashboardVars
  BY DEF DesktopPartsNext, desktopPartsVars
<1> QED BY <1>1, SettingsGoOn, WorkspacesGoOn, DashboardGoesOn DEF PagesInv

LEMMA PagesHold == PagesInv => PagesAreCurrent
BY SaveLineHolds, UsableHolds, DashboardHolds DEF PagesInv, PagesAreCurrent

\* Whatever the pages of the desktop and of the tabs write over one another, what each shows and
\* stores is up to date: the line about saving, the workspaces, the games and the session that
\* waits (settings, workspaces, dashboard, library-state).
THEOREM PagesStayCurrent == DesktopPartsSpec => []PagesAreCurrent
BY PagesBegin, PagesGoOn, PagesHold, PTL DEF DesktopPartsSpec

\* And each page writes the records of its own profile, and the favourites of no workspace are
\* changed or lost, but that those of an older version become those of `gaming' (settings,
\* library-state, dashboard).
THEOREM PagesWriteTheirOwn == DesktopPartsSpec => WritesStayScoped
<1>1. SettingsScoped \/ UNCHANGED settingsVars =>
        [/\ \A p \in DOMAIN records' :
              \/ p \in DOMAIN records /\ records'[p] = records[p]
              \/ \E t \in Tab : tabs[t].open /\ tabs[t].profile = p /\ tabs'[t].state = records'[p]
              \/ p = "gaming" /\ p \notin DOMAIN records /\ records'[p] = records["default"]
         /\ active' # active =>
              \E t \in Tab : tabs[t].open /\ ~tabs'[t].open /\ tabs'[t].state.label = active']_settingsVars
  BY DEF SettingsScoped
<1>2. FavoritesScoped \/ UNCHANGED workspaceVars =>
        [\A w \in DOMAIN favs \union DOMAIN favs' :
           /\ w \in DOMAIN favs'
           /\ favs'[w] = IF w \in DOMAIN favs THEN favs[w]
                         ELSE IF w = "gaming" THEN legacy ELSE {}]_workspaceVars
  BY DEF FavoritesScoped
<1> QED BY <1>1, <1>2, PagesBegin, PagesGoOn, PTL
    DEF DesktopPartsSpec, WritesStayScoped, SettingsStayInProfile, FavoritesStayScoped
=============================================================================
