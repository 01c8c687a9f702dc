------------------------ MODULE ManagedProcessProofs ------------------------
(***************************************************************************)
(* Proofs about ManagedProcess, for any set of processes and any number of *)
(* concurrent stop() calls.                                                *)
(***************************************************************************)
EXTENDS ManagedProcess, TLAPS

\* How far the child got decides which states the wrapper can report.
ChildInv ==
  \A p \in Proc :
    /\ os[p] = "none" => state[p] \in {"idle", "failed"}
    /\ os[p] = "spawning" => state[p] = "starting"
    /\ os[p] = "refused" => state[p] = "failed"
    /\ os[p] \in {"alive", "exited"} => state[p] \in {"running", "stopping"}
    /\ os[p] = "gone" => state[p] \in Ended
    /\ state[p] = "stopping" => signal[p] # "none"

ProcessInv == ProcessTypeOK /\ ChildInv

LEMMA ProcessInitInv == ProcessInit => ProcessInv
  BY DEF ProcessInit, ProcessInv, ProcessTypeOK, ChildInv, State, OsState, StopStep, Ended

LEMMA TerminateInv ==
  ASSUME ProcessInv, NEW p \in Proc, NEW c \in Caller, state[p] # "starting",
         os[p] # "none" => state[p] # "idle",
         Terminate(p, c), os' = os
  PROVE  ProcessInv'
  <1>1. CASE os[p] = "none" \/ state[p] \in Ended
    <2>1. /\ state' = state /\ signal' = signal
          /\ stopping' = [stopping EXCEPT ![p][c] = "returned"]
      BY <1>1 DEF Terminate
    <2>2. ProcessTypeOK'
      BY <2>1 DEF ProcessInv, ProcessTypeOK, StopStep
    <2>3. ChildInv'
      BY <2>1 DEF ProcessInv, ChildInv
    <2>4. QED
      BY <2>2, <2>3 DEF ProcessInv
  <1>2. CASE ~(os[p] = "none" \/ state[p] \in Ended)
    <2>1. /\ state' = [state EXCEPT ![p] = "stopping"]
          /\ signal' = [signal EXCEPT ![p] = Strongest(@, "SIGTERM")]
          /\ stopping' = [stopping EXCEPT ![p][c] = "awaitExit"]
      BY <1>2 DEF Terminate
    <2>2. ProcessTypeOK'
      BY <2>1 DEF ProcessInv, ProcessTypeOK, StopStep, State, Strongest
    <2>3. os[p] \in {"alive", "exited"}
      BY <1>2 DEF ProcessInv, ProcessTypeOK, ChildInv, OsState, Ended
    <2>4. ChildInv'
      BY <2>1, <2>3 DEF ProcessInv, ProcessTypeOK, ChildInv, Strongest
    <2>5. QED
      BY <2>2, <2>4 DEF ProcessInv
  <1>3. QED
    BY <1>1, <1>2

LEMMA ProcessNextInv == ProcessInv /\ [ProcessNext]_processVars => ProcessInv'
  <1> SUFFICES ASSUME ProcessInv, [ProcessNext]_processVars PROVE ProcessInv'
    OBVIOUS
  <1> USE DEF ProcessInv
  <1>1. ASSUME NEW p \in Proc, Start(p) PROVE ProcessInv'
    BY <1>1, SMTT(60) DEF Start, ProcessTypeOK, ChildInv, State, OsState, Ended
  <1>2. ASSUME NEW p \in Proc, Spawned(p) \/ SpawnError(p) \/ Exit(p) PROVE ProcessInv'
    <2>1. CASE Spawned(p)
      BY <2>1, SMTT(60) DEF Spawned, ProcessTypeOK, ChildInv, State, OsState, Ended
    <2>2. CASE SpawnError(p)
      BY <2>2, SMTT(60) DEF SpawnError, ProcessTypeOK, ChildInv, State, OsState, Ended
    <2>3. CASE Exit(p)
      BY <2>3, SMTT(60) DEF Exit, ProcessTypeOK, ChildInv, State, OsState, Ended
    <2> QED
      BY <1>2, <2>1, <2>2, <2>3
  <1>3. ASSUME NEW p \in Proc, Finish(p) PROVE ProcessInv'
    <2>1. ProcessTypeOK'
      BY <1>3 DEF Finish, ProcessTypeOK, State, OsState, StopStep
    <2>2. ChildInv'
      BY <1>3 DEF Finish, ProcessTypeOK, ChildInv, Ended
    <2>3. QED
      BY <2>1, <2>2
  <1>4. ASSUME NEW p \in Proc, NEW c \in Caller, Stop(p, c) PROVE ProcessInv'
    <2>1. CASE state[p] = "starting"
      <3>1. /\ state' = state /\ signal' = signal /\ os' = os
            /\ stopping' = [stopping EXCEPT ![p][c] = "awaitStart"]
        BY <1>4, <2>1 DEF Stop
      <3>2. QED
        BY <3>1 DEF ProcessTypeOK, StopStep, ChildInv
    <2>2. CASE state[p] # "starting"
      BY <1>4, <2>2, TerminateInv DEF Stop, ChildInv, ProcessTypeOK, OsState, Ended
    <2>3. QED
      BY <2>1, <2>2
  <1>5. ASSUME NEW p \in Proc, NEW c \in Caller, StopResumed(p, c) PROVE ProcessInv'
    BY <1>5, TerminateInv DEF StopResumed, ChildInv, ProcessTypeOK, OsState, Ended
  <1>6. ASSUME NEW p \in Proc, NEW c \in Caller, StopTimeout(p, c) PROVE ProcessInv'
    BY <1>6 DEF StopTimeout, ProcessTypeOK, StopStep, ChildInv, Ended
  <1>7. CASE UNCHANGED processVars
    BY <1>7 DEF processVars, ProcessTypeOK, ChildInv
  <1>8. QED
    BY <1>1, <1>2, <1>3, <1>4, <1>5, <1>6, <1>7 DEF ProcessNext, ChildStep, StopStepOf

THEOREM ProcessInvariance == ProcessSpec => []ProcessInv
  BY ProcessInitInv, ProcessNextInv, PTL DEF ProcessSpec

\* What the wrapper of host/process.mjs reports is true of the child.
THEOREM ProcessReportsTruth == ProcessSpec => []ReportsTruth
  <1>1. ProcessInv => ReportsTruth
    BY DEF ProcessInv, ProcessTypeOK, ChildInv, ReportsTruth, OsState, Ended
  <1>2. QED
    BY <1>1, ProcessInvariance, PTL

\* No event and no late stop() takes a process back, and its end is final.
THEOREM ProcessForwardOnly == ProcessSpec => ForwardOnly
  <1> DEFINE Forward ==
        \A p \in Proc : /\ Rank[state'[p]] >= Rank[state[p]]
                        /\ state[p] \in Ended => state'[p] = state[p]
  <1>1. ASSUME ProcessInv, ProcessNext
        PROVE  Forward
    <2>1. \A p \in Proc : state[p] \in State /\ Rank[state[p]] \in Nat
      BY <1>1 DEF ProcessInv, ProcessTypeOK, State, Rank
    <2>2. PICK p \in Proc :
            \/ Start(p) \/ ChildStep(p)
            \/ \E c \in Caller : Stop(p, c) \/ StopStepOf(p, c)
      BY <1>1 DEF ProcessNext
    <2>3. \A q \in Proc : q # p => state'[q] = state[q]
      BY <1>1, <2>2
      DEF Start, ChildStep, Spawned, SpawnError, Exit, Finish, Stop, StopStepOf,
          StopResumed, StopTimeout, Terminate, ProcessInv, ProcessTypeOK
    <2>4. \/ state'[p] = state[p]
          \/ state[p] = "idle" /\ state'[p] \in {"starting", "failed"}
          \/ state[p] = "starting" /\ state'[p] \in {"running", "failed"}
          \/ /\ state[p] \in {"running", "stopping"}
             /\ state'[p] \in {"stopping", "stopped", "failed"}
      <3>1. CASE Start(p)
        BY <1>1, <3>1 DEF Start, ProcessInv, ProcessTypeOK
      <3>2. CASE Spawned(p) \/ SpawnError(p) \/ Exit(p)
        BY <1>1, <3>2 DEF Spawned, SpawnError, Exit, ProcessInv, ProcessTypeOK, ChildInv
      <3>3. CASE Finish(p)
        BY <1>1, <3>3 DEF Finish, ProcessInv, ProcessTypeOK, ChildInv
      <3>4. ASSUME NEW c \in Caller, Terminate(p, c), state[p] # "starting"
            PROVE  \/ state'[p] = state[p]
                   \/ /\ state[p] \in {"running", "stopping"}
                      /\ state'[p] = "stopping"
        <4>1. CASE os[p] = "none" \/ state[p] \in Ended
          BY <3>4, <4>1 DEF Terminate
        <4>2. CASE ~(os[p] = "none" \/ state[p] \in Ended)
          <5>1. state' = [state EXCEPT ![p] = "stopping"]
            BY <3>4, <4>2 DEF Terminate
          <5>2. state[p] \in {"running", "stopping"}
            BY <1>1, <3>4, <4>2 DEF ProcessInv, ProcessTypeOK, ChildInv, OsState, Ended
          <5>3. QED
            BY <1>1, <5>1, <5>2 DEF ProcessInv, ProcessTypeOK
        <4>3. QED
          BY <4>1, <4>2
      <3>5. CASE \E c \in Caller : Stop(p, c) \/ StopStepOf(p, c)
        <4>1. PICK c \in Caller : Stop(p, c) \/ StopResumed(p, c) \/ StopTimeout(p, c)
          BY <3>5 DEF StopStepOf
        <4>2. CASE (Stop(p, c) /\ state[p] = "starting") \/ StopTimeout(p, c)
          BY <4>2 DEF Stop, StopTimeout
        <4>3. CASE Terminate(p, c) /\ state[p] # "starting"
          BY <3>4, <4>3
        <4>4. QED
          BY <4>1, <4>2, <4>3 DEF Stop, StopResumed
      <3>6. QED
        BY <2>2, <3>1, <3>2, <3>3, <3>5 DEF ChildStep
    <2>5. Rank[state'[p]] >= Rank[state[p]]
          /\ (state[p] \in Ended => state'[p] = state[p])
      BY <2>1, <2>4 DEF Rank, Ended, State
    <2>6. QED
      BY <2>1, <2>3, <2>5
  <1>2. ProcessInv /\ [ProcessNext]_processVars => [Forward]_processVars
    BY <1>1
  <1>3. QED
    BY <1>2, ProcessInvariance, PTL DEF ProcessSpec, ForwardOnly

\* A stop() call that returns leaves the child dead or killed.
THEOREM ProcessNoSurvivor == ProcessSpec => StopLeavesNoSurvivor
  <1> DEFINE NoSurvivor ==
        \A p \in Proc, c \in Caller :
          /\ stopping[p][c] # "returned" /\ stopping'[p][c] = "returned"
          /\ os'[p] \in {"spawning", "alive"}
          => signal'[p] = "SIGKILL"
  <1>1. ASSUME ProcessInv, ProcessNext, NEW p \in Proc, NEW c \in Caller,
               stopping[p][c] # "returned", stopping'[p][c] = "returned",
               os'[p] \in {"spawning", "alive"}
        PROVE  signal'[p] = "SIGKILL"
    <2>1. PICK q \in Proc :
            \/ Start(q) \/ ChildStep(q)
            \/ \E d \in Caller : Stop(q, d) \/ StopStepOf(q, d)
      BY <1>1 DEF ProcessNext
    <2>2. CASE Start(q) \/ Spawned(q) \/ SpawnError(q) \/ Exit(q)
      BY <1>1, <2>2 DEF Start, Spawned, SpawnError, Exit
    <2>3. CASE Finish(q)
      <3>1. p = q
        BY <1>1, <2>3 DEF Finish, ProcessInv, ProcessTypeOK
      <3>2. QED
        BY <1>1, <2>3, <3>1 DEF Finish, ProcessInv, ProcessTypeOK
    <2>4. ASSUME NEW d \in Caller, Terminate(q, d), os' = os
          PROVE  signal'[p] = "SIGKILL"
      <3>1. CASE os[q] = "none" \/ state[q] \in Ended
        <4>1. stopping' = [stopping EXCEPT ![q][d] = "returned"]
          BY <2>4, <3>1 DEF Terminate
        <4>2. p = q
          BY <1>1, <4>1 DEF ProcessInv, ProcessTypeOK
        <4>3. QED
          BY <1>1, <2>4, <3>1, <4>2 DEF ProcessInv, ProcessTypeOK, ChildInv, Ended, OsState
      <3>2. CASE ~(os[q] = "none" \/ state[q] \in Ended)
        <4>1. stopping' = [stopping EXCEPT ![q][d] = "awaitExit"]
          BY <2>4, <3>2 DEF Terminate
        <4>2. QED
          BY <1>1, <4>1 DEF ProcessInv, ProcessTypeOK
      <3>3. QED
        BY <3>1, <3>2
    <2>5. ASSUME NEW d \in Caller, StopTimeout(q, d)
          PROVE  signal'[p] = "SIGKILL"
      <3>1. p = q
        BY <1>1, <2>5 DEF StopTimeout, ProcessInv, ProcessTypeOK
      <3>2. state[p] \notin Ended
        BY <1>1, <2>5 DEF StopTimeout, ProcessInv, ProcessTypeOK, ChildInv, Ended
      <3>3. QED
        BY <1>1, <2>5, <3>1, <3>2 DEF StopTimeout, ProcessInv, ProcessTypeOK
    <2>6. ASSUME NEW d \in Caller, Stop(q, d), state[q] = "starting"
          PROVE  FALSE
      <3>1. stopping' = [stopping EXCEPT ![q][d] = "awaitStart"]
        BY <2>6 DEF Stop
      <3>2. QED
        BY <1>1, <3>1 DEF ProcessInv, ProcessTypeOK
    <2>7. QED
      BY <2>1, <2>2, <2>3, <2>4, <2>5, <2>6 DEF ChildStep, StopStepOf, Stop, StopResumed
  <1>2. ProcessInv /\ [ProcessNext]_processVars => [NoSurvivor]_processVars
    BY <1>1
  <1>3. QED
    BY <1>2, ProcessInvariance, PTL DEF ProcessSpec, StopLeavesNoSurvivor
=============================================================================
