--------------------------- MODULE ManagedProcess ---------------------------
(***************************************************************************)
(* createManagedProcess of host/process.mjs, for every process of Proc.    *)
(*                                                                         *)
(* The wrapper's `state' is driven by three sources that interleave: the   *)
(* one start() call, any number of stop() calls (the members of Caller)    *)
(* and the events of the operating-system child.  os[p] is that child:     *)
(*   none -> spawning -> alive -> exited -> gone   with events spawn, close *)
(*           spawning -> refused -> gone            with events error, close *)
(* "gone" means that its close event has been delivered.                   *)
(***************************************************************************)
EXTENDS Integers

CONSTANTS Proc, Caller

State == {"idle", "starting", "running", "stopping", "stopped", "failed"}
Ended == {"stopped", "failed"}

VARIABLES
  state,    \* [Proc -> State]
  os,       \* [Proc -> the operating-system child]
  signal,   \* [Proc -> the strongest signal sent: "none", "SIGTERM", "SIGKILL"]
  stopping  \* [Proc -> [Caller -> where a stop() call is]]

processVars == <<state, os, signal, stopping>>

OsState == {"none", "spawning", "refused", "alive", "exited", "gone"}

\* "idle": not called.  "awaitStart" and "awaitExit": the two awaits of stop().
StopStep == {"idle", "awaitStart", "awaitExit", "returned"}

ProcessInit ==
  /\ state = [p \in Proc |-> "idle"]
  /\ os = [p \in Proc |-> "none"]
  /\ signal = [p \in Proc |-> "none"]
  /\ stopping = [p \in Proc |-> [c \in Caller |-> "idle"]]

\* start(): rejected unless idle.  spawnImpl may throw, which leaves no child.
Start(p) ==
  /\ state[p] = "idle"
  /\ \/ /\ state' = [state EXCEPT ![p] = "starting"]
        /\ os' = [os EXCEPT ![p] = "spawning"]
     \/ /\ state' = [state EXCEPT ![p] = "failed"]
        /\ UNCHANGED os
  /\ UNCHANGED <<signal, stopping>>

\* The child's `spawn' event.
Spawned(p) ==
  /\ os[p] = "spawning"
  /\ os' = [os EXCEPT ![p] = "alive"]
  /\ state' = [state EXCEPT ![p] = "running"]
  /\ UNCHANGED <<signal, stopping>>

\* The child's `error' event before `spawn' (no such executable, ...).
SpawnError(p) ==
  /\ os[p] = "spawning"
  /\ os' = [os EXCEPT ![p] = "refused"]
  /\ state' = [state EXCEPT ![p] = "failed"]
  /\ UNCHANGED <<signal, stopping>>

\* The program ends, by itself or because of a signal; no handler has run yet.
Exit(p) ==
  /\ os[p] = "alive"
  /\ os' = [os EXCEPT ![p] = "exited"]
  /\ UNCHANGED <<state, signal, stopping>>

(***************************************************************************)
(* finish(): the child's `close' event, whatever the state by then.  The   *)
(* exit listeners resolve every stop() that is waiting.  A child that was  *)
(* refused closes with a negative exit code.                               *)
(***************************************************************************)
Finish(p) ==
  /\ os[p] \in {"exited", "refused"}
  /\ os' = [os EXCEPT ![p] = "gone"]
  /\ \E ok \in BOOLEAN :
       /\ ok => os[p] = "exited"
       /\ state' = [state EXCEPT ![p] =
                      IF @ = "stopping" \/ ok THEN "stopped" ELSE "failed"]
  /\ stopping' = [stopping EXCEPT ![p] =
       [c \in Caller |-> IF @[c] = "awaitExit" THEN "returned" ELSE @[c]]]
  /\ UNCHANGED signal

Strongest(old, new) == IF old = "SIGKILL" THEN old ELSE new

\* The part of stop() between its awaits: nothing to do, or signal and wait.
Terminate(p, c) ==
  IF os[p] = "none" \/ state[p] \in Ended
  THEN /\ stopping' = [stopping EXCEPT ![p][c] = "returned"]
       /\ UNCHANGED <<state, signal>>
  ELSE /\ state' = [state EXCEPT ![p] = "stopping"]
       /\ signal' = [signal EXCEPT ![p] = Strongest(@, "SIGTERM")]
       /\ stopping' = [stopping EXCEPT ![p][c] = "awaitExit"]

\* stop(): while the process is starting, wait for start() to settle first.
Stop(p, c) ==
  /\ stopping[p][c] \in {"idle", "returned"}
  /\ IF state[p] = "starting"
     THEN /\ stopping' = [stopping EXCEPT ![p][c] = "awaitStart"]
          /\ UNCHANGED <<state, signal>>
     ELSE Terminate(p, c)
  /\ UNCHANGED os

\* startPromise has settled: stop() goes on.
StopResumed(p, c) ==
  /\ stopping[p][c] = "awaitStart"
  /\ state[p] # "starting"
  /\ Terminate(p, c)
  /\ UNCHANGED os

\* Mutants: stop() gives up without killing; stop() reports a kill as an exit.
StopTimeout_GivesUp(p, c) ==
  /\ stopping[p][c] = "awaitExit"
  /\ stopping' = [stopping EXCEPT ![p][c] = "returned"]
  /\ UNCHANGED <<state, os, signal>>

StopTimeout_AssumesExit(p, c) ==
  /\ stopping[p][c] = "awaitExit"
  /\ signal' = [signal EXCEPT ![p] = IF state[p] \in Ended THEN @ ELSE "SIGKILL"]
  /\ state' = [state EXCEPT ![p] = IF @ \in Ended THEN @ ELSE "stopped"]
  /\ stopping' = [stopping EXCEPT ![p][c] = "returned"]
  /\ UNCHANGED os

\* stopTimeoutMs is over: kill, and return without waiting for the exit.
StopTimeout(p, c) ==
  /\ stopping[p][c] = "awaitExit"
  /\ signal' = [signal EXCEPT ![p] = IF state[p] \in Ended THEN @ ELSE "SIGKILL"]
  /\ stopping' = [stopping EXCEPT ![p][c] = "returned"]
  /\ UNCHANGED <<state, os>>

ChildStep(p) == Spawned(p) \/ SpawnError(p) \/ Exit(p) \/ Finish(p)

StopStepOf(p, c) == StopResumed(p, c) \/ StopTimeout(p, c)

ProcessNext ==
  \E p \in Proc :
    \/ Start(p)
    \/ ChildStep(p)
    \/ \E c \in Caller : Stop(p, c) \/ StopStepOf(p, c)

ProcessSpec == ProcessInit /\ [][ProcessNext]_processVars
-----------------------------------------------------------------------------
ProcessTypeOK ==
  /\ state \in [Proc -> State]
  /\ os \in [Proc -> OsState]
  /\ signal \in [Proc -> {"none", "SIGTERM", "SIGKILL"}]
  /\ stopping \in [Proc -> [Caller -> StopStep]]

\* The state the wrapper reports is true of the child: a process reported as
\* ended has no living child, one reported as running has been spawned, and
\* one reported as stopping has been sent a signal.
ReportsTruth ==
  \A p \in Proc :
    /\ state[p] \in Ended => os[p] \notin {"spawning", "alive", "exited"}
    /\ state[p] = "running" => os[p] \in {"alive", "exited"}
    /\ state[p] = "stopping" => signal[p] # "none" /\ os[p] \in {"alive", "exited"}
    /\ os[p] = "alive" => state[p] \in {"running", "stopping"}

Rank == [idle |-> 0, starting |-> 1, running |-> 2, stopping |-> 3,
         stopped |-> 4, failed |-> 4]

\* A process goes through its life once: no event and no late stop() ever takes
\* it back to an earlier state, and the way it ended is final.
ForwardOnly ==
  [][\A p \in Proc :
       /\ Rank[state'[p]] >= Rank[state[p]]
       /\ state[p] \in Ended => state'[p] = state[p]]_processVars

\* When a stop() call returns, the child it was called for is dead or has been
\* sent a signal it cannot ignore; it is never left running untouched.
StopLeavesNoSurvivor ==
  [][\A p \in Proc, c \in Caller :
       /\ stopping[p][c] # "returned" /\ stopping'[p][c] = "returned"
       /\ os'[p] \in {"spawning", "alive"}
       => signal'[p] = "SIGKILL"]_processVars

=============================================================================
