--------------------------- MODULE BrowserEmulation ---------------------------
(***************************************************************************)
(* A game in a browser emulator: the runtime of                            *)
(* emulation/browser-runtime.mjs, the bridge that brings it the keys       *)
(* (emulation/browser-input.mjs) and the buttons of the emulation page.    *)
(*                                                                         *)
(* The page keeps the newest runtime and bridge in two variables, which    *)
(* every handler reads when it runs, those of an older plan included; the  *)
(* adapter behind the runtimes of one core is the same.                    *)
(***************************************************************************)
EXTENDS Integers, FiniteSets

CONSTANTS MaxPlans,  \* bound: launch plans the page renders
          MaxClicks  \* bound: calls to the adapter

VARIABLES plan,          \* the newest plan: activeBrowserRuntime and activeBrowserInput
          runtimeState,  \* [plan -> state of its runtime]
          listening,     \* [plan -> its bridge is active]
          emulator,      \* what the adapter does: "off", "loaded", "running", "paused"
          calls,         \* calls to the adapter that have not settled: [id, kind, plan]
          clicks,
          autosave,      \* preferences.autoSaveStates
          asides         \* why the page may not show what the adapter does
emulationVars == <<plan, runtimeState, listening, emulator, calls, clicks, autosave, asides>>

ASSUME EmulationAssumption == MaxPlans \in Nat \ {0}

Plan == 1..MaxPlans

EmulationInit ==
  /\ plan = 1 /\ runtimeState = [p \in Plan |-> "idle"]
  /\ listening = [p \in Plan |-> p = 1]
  /\ emulator = "off" /\ calls = {} /\ clicks = 0 /\ autosave \in BOOLEAN /\ asides = {}
-----------------------------------------------------------------------------
\* setState() and fail(): the page's listener closes the newest bridge, whose ever the event is.
Becomes(p, to) ==
  /\ runtimeState' = [runtimeState EXCEPT ![p] = to]
  /\ listening' = IF to \in {"stopped", "error"} THEN [listening EXCEPT ![plan] = FALSE]
                  ELSE listening

\* A call to the adapter on behalf of the newest runtime, instead of those in `over'.
Ask(kind, over) ==
  /\ clicks < MaxClicks /\ clicks' = clicks + 1
  /\ calls' = (calls \ over) \cup {[id |-> clicks + 1, kind |-> kind, plan |-> plan]}
  /\ asides' = IF \E c \in calls \ over : "stop" \in {kind, c.kind} THEN asides \cup {"overlap"}
               ELSE asides

NewPlan ==
  /\ plan < MaxPlans /\ plan' = plan + 1
  /\ listening' = [listening EXCEPT ![plan + 1] = TRUE]
  /\ asides' = IF calls # {} \/ runtimeState[plan] \in {"running", "paused"}
               THEN asides \cup {"replaced"} ELSE asides
  /\ UNCHANGED <<runtimeState, emulator, calls, clicks, autosave>>

ClickStart ==
  /\ \/ runtimeState[plan] \in {"idle", "stopped"} /\ Ask("load", {}) /\ Becomes(plan, "loading")
     \/ /\ runtimeState[plan] \in {"ready", "paused"}
        /\ Ask("start", {}) /\ UNCHANGED <<runtimeState, listening>>
  /\ UNCHANGED <<plan, emulator, autosave>>

ClickPause ==
  /\ \/ runtimeState[plan] = "running" /\ Ask("pause", {})
     \/ runtimeState[plan] = "paused" /\ Ask("resume", {})
  /\ UNCHANGED <<plan, runtimeState, listening, emulator, autosave>>

\* stop() of the newest runtime; the bridge is closed by its event and once more by the handler.
Stop(over) ==
  IF runtimeState[plan] \in {"stopped", "idle"}
  THEN Becomes(plan, "stopped") /\ calls' = calls \ over /\ UNCHANGED <<clicks, asides>>
  ELSE Ask("stop", over) /\ UNCHANGED <<runtimeState, listening>>

ClickStop ==
  /\ IF autosave /\ runtimeState[plan] \in {"ready", "running", "paused"}
     THEN Ask("save", {}) /\ UNCHANGED <<runtimeState, listening>>
     ELSE Stop({})
  /\ UNCHANGED <<plan, emulator, autosave>>

\* saveState() settles, either way; the runtime is stopped whatever happened meanwhile.
Saved(c) ==
  /\ c \in calls /\ c.kind = "save" /\ Stop({c})
  /\ UNCHANGED <<plan, emulator, autosave>>

\* Mutant: the bridge is not started again with a new game.
Loaded_Deaf(c) ==
  /\ c \in calls /\ c.kind = "load" /\ emulator' = "loaded"
  /\ runtimeState' = [runtimeState EXCEPT ![c.plan] = "ready"]
  /\ UNCHANGED listening
  /\ IF runtimeState'[plan] \in {"ready", "paused"} THEN Ask("start", {c})
     ELSE calls' = calls \ {c} /\ UNCHANGED <<clicks, asides>>
  /\ UNCHANGED <<plan, autosave>>

\* load() resolves: the handler goes on with the newest bridge and the newest runtime.
Loaded(c) ==
  /\ c \in calls /\ c.kind = "load" /\ emulator' = "loaded"
  /\ runtimeState' = [runtimeState EXCEPT ![c.plan] = "ready"]
  /\ listening' = [listening EXCEPT ![plan] = TRUE]
  /\ IF runtimeState'[plan] \in {"ready", "paused"} THEN Ask("start", {c})
     ELSE calls' = calls \ {c} /\ UNCHANGED <<clicks, asides>>
  /\ UNCHANGED <<plan, autosave>>

Outcome == [start |-> "running", pause |-> "paused", resume |-> "running", stop |-> "stopped"]

\* start(), pause(), resume() or stop() resolves, whatever the state has become since.
Settles(c) ==
  /\ c \in calls /\ c.kind \in DOMAIN Outcome /\ calls' = calls \ {c}
  /\ emulator' = IF c.kind = "stop" THEN "off" ELSE Outcome[c.kind]
  /\ Becomes(c.plan, Outcome[c.kind])
  /\ UNCHANGED <<plan, clicks, autosave, asides>>

\* A call rejects.
Rejects(c) ==
  /\ c \in calls /\ c.kind # "save" /\ calls' = calls \ {c}
  /\ Becomes(c.plan, "error")
  /\ asides' = IF calls # {c} THEN asides \cup {"overlap"} ELSE asides
  /\ UNCHANGED <<plan, emulator, clicks, autosave>>

EmulationNext ==
  \/ NewPlan \/ ClickStart \/ ClickPause \/ ClickStop
  \/ \E c \in calls : Saved(c) \/ Loaded(c) \/ Settles(c) \/ Rejects(c)

EmulationSpec == EmulationInit /\ [][EmulationNext]_emulationVars
-----------------------------------------------------------------------------
\* With no call under way the page shows what the adapter does, the keys reach a game that runs
\* or is paused and no other, through any order of starts, pauses, failures, stops and new
\* plans; unless a stop met another call under way (the later answer wins), a call failed while
\* another was under way, or a plan was rendered over a game that had not been stopped.
PageShowsGame ==
  calls = {} /\ asides = {} =>
    /\ runtimeState[plan] \in {"running", "paused"} => emulator = runtimeState[plan] /\ listening[plan]
    /\ runtimeState[plan] = "stopped" => ~listening[plan]
    /\ runtimeState[plan] = "error" => ~listening[plan]
    /\ emulator \in {"running", "paused"} =>
         \/ runtimeState[plan] = emulator
         \/ \E p \in Plan : runtimeState[p] = "error"
=============================================================================
