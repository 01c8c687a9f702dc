------------------------ MODULE HostAndBrokerProofs -------------------------
(***************************************************************************)
(* Proofs about what a session hangs on: the host agent that plays it, the *)
(* broker of signaling servers that share a Redis, what the host takes for *)
(* held of a player's keys and controllers, the tools of an operator, and  *)
(* the sockets that the application's host ties to the agent's.            *)
(* They share no state.                                                    *)
(***************************************************************************)
EXTENDS RedisBroker, MCHostParts, ManagedProcessProofs, FiniteSetTheorems,
        SequenceTheorems, WellFoundedInduction

-----------------------------------------------------------------------------
(***************************************************************************)
(* Proofs about HostAgent for any set of connections, outbound ones among  *)
(* them, and any limit: its types, that it uses the game's process as the  *)
(* specification of ManagedProcess allows, and who owns the game.          *)
(***************************************************************************)
(***************************************************************************)
(* The inductive invariant.                                                *)
(***************************************************************************)
AgentTypes ==
  /\ socket \in [Conn -> {"new", "open", "ending", "closed"}]
  /\ connections \subseteq Conn /\ detached \subseteq Conn /\ sessions \subseteq Conn
  /\ accepted \subseteq Conn /\ gameStarted \subseteq Conn
  /\ launching \subseteq Conn /\ closing \subseteq Conn /\ overtaken \subseteq Conn
  /\ pairingUsed \in BOOLEAN
  /\ host \in {"up", "shutting down", "exited"}

\* Nobody is let in before the code is used, and nobody beside the one it let in.
PairedInv ==
  /\ ~pairingUsed => accepted = {} /\ launching = {}
  /\ \A c, d \in accepted \cup launching : c = d

\* Past the offer that started it, the game has been spawned; once a session.close
\* waits for its end, it is not running any more.
GameInv ==
  /\ gameStarted # {} => state[Game] \notin {"idle", "starting"}
  /\ closing # {} => state[Game] \in {"stopping"} \cup Ended

\* Whoever waits for the game, or has started it, has a connection, or was overtaken by its end.
AnswerInv == \A c \in launching \cup gameStarted : socket[c] # "closed" \/ c \in overtaken

OwnerInv ==
  /\ state[Game] = "running" => launching \cup gameStarted # {}
  /\ state[Game] = "running" /\ host = "up" => launching # {} \/ gameStarted \cap sessions # {}
  /\ state[Game] = "starting" => launching # {}

AgentInv == ProcessInv /\ AgentTypes /\ PairedInv /\ GameInv /\ OwnerInv /\ AnswerInv

USE AgentAssumption

LEMMA AgentInitInv == Init => AgentInv
<1> SUFFICES ASSUME Init PROVE AgentInv
  OBVIOUS
<1>1. ProcessInv
  BY ProcessInitInv DEF Init
<1>2. state[Game] = "idle"
  BY DEF Init, ProcessInit
<1> QED BY <1>1, <1>2 DEF Init, AgentInv, AgentTypes, PairedInv, GameInv, OwnerInv, AnswerInv

-----------------------------------------------------------------------------
(***************************************************************************)
(* What the steps of the process do to the state of the game.              *)
(***************************************************************************)
\* stop() of a game that was spawned leaves it stopping, or ended.
LEMMA StopEnds ==
  ASSUME ProcessInv, NEW k \in Caller, Stop(Game, k), state[Game] \notin {"idle", "starting"}
  PROVE  state'[Game] \in {"stopping"} \cup Ended
<1>1. Terminate(Game, k)
  BY DEF Stop
<1>2. CASE state[Game] \in Ended
  BY <1>1, <1>2 DEF Terminate
<1>3. CASE state[Game] \notin Ended
  <2>1. os[Game] # "none"
    BY <1>3 DEF ProcessInv, ProcessTypeOK, ChildInv, Ended
  <2> QED BY <1>1, <1>3, <2>1 DEF Terminate, ProcessInv, ProcessTypeOK
<1> QED BY <1>2, <1>3

\* An event of the child, or a stop() that goes on, starts nothing, and does not
\* make a game that is stopping run again.
LEMMA EventMoves ==
  ASSUME ProcessInv,
         \/ Spawned(Game) \/ SpawnError(Game) \/ Exit(Game) \/ Finish(Game)
         \/ \E k \in Caller : StopStepOf(Game, k)
  PROVE  \/ state'[Game] = state[Game]
         \/ state[Game] = "starting" /\ state'[Game] = "running"
         \/ state'[Game] \in {"stopping"} \cup Ended /\ state[Game] # "idle"
<1> USE DEF ProcessInv, ProcessTypeOK
<1>1. CASE Spawned(Game) \/ SpawnError(Game) \/ Exit(Game)
  BY <1>1 DEF Spawned, SpawnError, Exit, ChildInv, Ended
<1>2. CASE Finish(Game)
  <2>1. state'[Game] \in Ended
    BY <1>2 DEF Finish, Ended
  <2> QED BY <1>2, <2>1 DEF Finish, ChildInv
<1>3. ASSUME NEW k \in Caller, StopResumed(Game, k)
      PROVE  \/ state'[Game] = state[Game]
             \/ state'[Game] = "stopping" /\ state[Game] # "idle"
  <2>1. Terminate(Game, k)
    BY <1>3 DEF StopResumed
  <2>2. CASE os[Game] = "none" \/ state[Game] \in Ended
    BY <2>1, <2>2 DEF Terminate
  <2>3. CASE ~(os[Game] = "none" \/ state[Game] \in Ended)
    <3>1. state[Game] # "idle"
      BY <2>3 DEF ChildInv, OsState, Ended
    <3> QED BY <2>1, <2>3, <3>1 DEF Terminate
  <2> QED BY <2>2, <2>3
<1>4. ASSUME NEW k \in Caller, StopTimeout(Game, k) PROVE state'[Game] = state[Game]
  BY <1>4 DEF StopTimeout
<1> QED BY <1>1, <1>2, <1>3, <1>4 DEF StopStepOf

\* The agent uses the process as its specification allows.
LEMMA AgentProcessStep == [Next]_vars => [ProcessNext]_processVars
<1> SUFFICES ASSUME [Next]_vars PROVE [ProcessNext]_processVars
  OBVIOUS
<1> USE DEF ProcessNext, ChildStep
<1>1. ASSUME NEW c \in Conn, Connect(c) \/ Frame(c) \/ SocketClosed(c)
      PROVE  [ProcessNext]_processVars
  <2>1. CASE Connect(c) \/ OfferRejected(c) \/ LaunchRefused(c) \/ OfferAccepted(c) \/ StrayFrame(c)
    BY <2>1 DEF Connect, OfferRejected, LaunchRefused, OfferAccepted, StrayFrame
  <2>2. CASE LaunchGame(c)
    BY <2>2 DEF LaunchGame
  <2>3. CASE CloseFrame(c)
    BY <2>3 DEF CloseFrame
  <2>4. CASE SocketClosed(c)
    BY <2>4 DEF SocketClosed
  <2> QED BY <1>1, <2>1, <2>2, <2>3, <2>4 DEF Frame
<1>2. CASE Continuation
  BY <1>2 DEF Continuation, Launched, CloseFrameStopped
<1>3. CASE Shutdown \/ ProcessExit
  BY <1>3 DEF Shutdown, ProcessExit
<1>4. CASE WrapperEvent
  BY <1>4 DEF WrapperEvent
<1>5. CASE ProgramEnds
  BY <1>5 DEF ProgramEnds
<1>6. CASE UNCHANGED vars
  BY <1>6 DEF vars
<1> QED BY <1>1, <1>2, <1>3, <1>4, <1>5, <1>6 DEF Next

-----------------------------------------------------------------------------
(***************************************************************************)
(* One lemma per action.                                                   *)
(***************************************************************************)
\* The rest of the invariant, when ProcessInv is known to be kept.
AgentRest == AgentTypes /\ PairedInv /\ GameInv /\ OwnerInv /\ AnswerInv

LEMMA QuietKeeps ==
  ASSUME AgentInv, NEW c \in Conn,
         Connect(c) \/ OfferRejected(c) \/ LaunchRefused(c) \/ StrayFrame(c)
  PROVE  AgentRest'
<1>1. /\ UNCHANGED <<processVars, sessions, accepted, gameStarted, launching, closing, host,
                     overtaken>>
      /\ pairingUsed => pairingUsed'
      /\ pairingUsed' \in BOOLEAN
  BY DEF Connect, OfferRejected, LaunchRefused, StrayFrame, PairedOffer, AgentInv, AgentTypes
<1>2. /\ socket' \in [Conn -> {"new", "open", "ending", "closed"}]
      /\ connections' \subseteq Conn /\ detached' = detached
      /\ \A d \in Conn : socket[d] # "closed" => socket'[d] # "closed"
  <2>1. CASE Connect(c)
    BY <2>1 DEF Connect, AgentInv, AgentTypes
  <2>2. CASE OfferRejected(c) \/ LaunchRefused(c) \/ StrayFrame(c)
    <3>1. CloseSocket(c) /\ UNCHANGED <<connections, detached>>
      BY <2>2 DEF OfferRejected, LaunchRefused, StrayFrame
    <3> QED BY <3>1 DEF CloseSocket, AgentInv, AgentTypes
  <2> QED BY <2>1, <2>2
<1>3. AgentTypes'
  BY <1>1, <1>2 DEF AgentInv, AgentTypes
<1>4. PairedInv'
  BY <1>1 DEF AgentInv, PairedInv
<1>5. GameInv' /\ OwnerInv'
  BY <1>1 DEF AgentInv, GameInv, OwnerInv, processVars
<1>6. AnswerInv'
  BY <1>1, <1>2 DEF AgentInv, AgentTypes, AnswerInv
<1> QED BY <1>3, <1>4, <1>5, <1>6 DEF AgentRest

LEMMA AcceptedKeeps ==
  ASSUME AgentInv, NEW c \in Conn, OfferAccepted(c)
  PROVE  AgentRest'
<1>1. /\ ~pairingUsed /\ pairingUsed' = TRUE
      /\ accepted' = accepted \cup {c} /\ sessions' = sessions \cup {c}
      /\ UNCHANGED <<processVars, socket, connections, detached, gameStarted, launching,
                     closing, host, overtaken>>
  BY DEF OfferAccepted, PairedOffer, Matches
<1>2. AgentTypes'
  BY <1>1 DEF AgentInv, AgentTypes
<1>3. PairedInv'
  BY <1>1 DEF AgentInv, PairedInv
<1>4. GameInv' /\ OwnerInv' /\ AnswerInv'
  BY <1>1 DEF AgentInv, GameInv, OwnerInv, AnswerInv, processVars
<1> QED BY <1>2, <1>3, <1>4 DEF AgentRest

LEMMA LaunchKeeps ==
  ASSUME AgentInv, NEW c \in Conn, LaunchGame(c)
  PROVE  AgentRest'
<1>1. /\ ~pairingUsed /\ pairingUsed' = TRUE /\ Start(Game)
      /\ launching' = launching \cup {c} /\ socket[c] # "closed"
      /\ UNCHANGED <<socket, connections, detached, sessions, accepted, gameStarted,
                     closing, host, overtaken>>
  BY DEF LaunchGame, PairedOffer, Matches, Readable
<1>2. state[Game] = "idle" /\ state'[Game] \in {"starting", "failed"}
  BY <1>1 DEF Start, AgentInv, ProcessInv, ProcessTypeOK
<1>3. AgentTypes'
  BY <1>1 DEF AgentInv, AgentTypes
<1>4. PairedInv'
  BY <1>1 DEF AgentInv, PairedInv
<1>5. GameInv' /\ OwnerInv' /\ AnswerInv'
  BY <1>1, <1>2 DEF AgentInv, GameInv, OwnerInv, AnswerInv, Ended
<1> QED BY <1>3, <1>4, <1>5 DEF AgentRest

\* The offer goes on: with a running game it has a session that owns it.
LEMMA LaunchedKeeps ==
  ASSUME AgentInv, NEW c \in Conn, Launched(c)
  PROVE  AgentRest'
<1>1. /\ c \in launching /\ state[Game] # "starting" /\ launching' = launching \ {c}
      /\ host' \in {host, "exited"}
      /\ UNCHANGED <<processVars, connections, detached, pairingUsed, closing, overtaken>>
  BY DEF Launched
<1>2. UNCHANGED state
  BY <1>1 DEF processVars
<1>3. CASE os[Game] \in {"alive", "exited"}
  <2>1. /\ gameStarted' = gameStarted \cup {c}
        /\ accepted' = accepted \cup {c} /\ sessions' = sessions \cup {c}
        /\ UNCHANGED socket
    BY <1>3 DEF Launched
  <2>2. AgentTypes'
    BY <1>1, <2>1 DEF AgentInv, AgentTypes
  <2>3. PairedInv'
    BY <1>1, <2>1 DEF AgentInv, PairedInv
  <2>4. state[Game] \in {"running", "stopping"}
    BY <1>3 DEF AgentInv, ProcessInv, ChildInv
  <2>5. GameInv' /\ OwnerInv'
    BY <1>1, <1>2, <2>1, <2>4 DEF AgentInv, GameInv, OwnerInv
  <2>6. AnswerInv'
    BY <1>1, <2>1 DEF AgentInv, AnswerInv
  <2> QED BY <2>2, <2>3, <2>5, <2>6 DEF AgentRest
<1>4. CASE os[Game] \notin {"alive", "exited"}
  <2>1. /\ socket' = [socket EXCEPT ![c] = IF @ = "open" THEN "ending" ELSE @]
        /\ UNCHANGED <<gameStarted, accepted, sessions>>
    BY <1>4 DEF Launched
  <2>2. AgentTypes'
    BY <1>1, <2>1 DEF AgentInv, AgentTypes
  <2>3. PairedInv'
    BY <1>1, <2>1 DEF AgentInv, PairedInv
  <2>4. state[Game] # "running"
    BY <1>4 DEF AgentInv, ProcessInv, ProcessTypeOK, ChildInv, OsState, Ended
  <2>5. GameInv' /\ OwnerInv'
    BY <1>1, <1>2, <2>1, <2>4 DEF AgentInv, GameInv, OwnerInv
  <2>6. AnswerInv'
    BY <1>1, <2>1 DEF AgentInv, AgentTypes, AnswerInv
  <2> QED BY <2>2, <2>3, <2>5, <2>6 DEF AgentRest
<1> QED BY <1>3, <1>4

LEMMA CloseFrameKeeps ==
  ASSUME AgentInv, NEW c \in Conn, CloseFrame(c)
  PROVE  AgentRest'
<1>1. /\ sessions' = sessions \ {c}
      /\ UNCHANGED <<connections, detached, accepted, gameStarted, pairingUsed, launching, host,
                     overtaken>>
  BY DEF CloseFrame
<1>2. PairedInv'
  BY <1>1 DEF AgentInv, PairedInv
<1>3. CASE c \in gameStarted
  <2>1. Stop(Game, "frame") /\ closing' = closing \cup {c} /\ UNCHANGED socket
    BY <1>3 DEF CloseFrame
  <2>2. AgentTypes'
    BY <1>1, <2>1 DEF AgentInv, AgentTypes
  <2>3. state'[Game] \in {"stopping"} \cup Ended
    BY <1>3, <2>1, StopEnds DEF AgentInv, GameInv
  <2>4. GameInv' /\ OwnerInv'
    BY <2>3 DEF GameInv, OwnerInv, Ended
  <2>5. AnswerInv'
    BY <1>1, <2>1 DEF AgentInv, AnswerInv
  <2> QED BY <1>2, <2>2, <2>4, <2>5 DEF AgentRest
<1>4. CASE c \notin gameStarted
  <2>1. CloseSocket(c) /\ UNCHANGED <<processVars, closing>>
    BY <1>4 DEF CloseFrame
  <2>2. AgentTypes'
    BY <1>1, <2>1 DEF AgentInv, AgentTypes, CloseSocket
  <2>3. GameInv' /\ OwnerInv'
    BY <1>1, <1>4, <2>1 DEF AgentInv, GameInv, OwnerInv, processVars
  <2>4. AnswerInv'
    BY <1>1, <2>1 DEF AgentInv, AgentTypes, AnswerInv, CloseSocket
  <2> QED BY <1>2, <2>2, <2>3, <2>4 DEF AgentRest
<1> QED BY <1>3, <1>4

LEMMA CloseFrameStoppedKeeps ==
  ASSUME AgentInv, NEW c \in Conn, CloseFrameStopped(c)
  PROVE  AgentRest'
<1>1. /\ c \in closing /\ closing' = closing \ {c} /\ gameStarted' = gameStarted \ {c}
      /\ socket' = [socket EXCEPT ![c] = IF @ = "open" THEN "ending" ELSE @]
      /\ UNCHANGED <<processVars, connections, detached, sessions, accepted, pairingUsed,
                     launching, host, overtaken>>
  BY DEF CloseFrameStopped
<1>2. AgentTypes'
  BY <1>1 DEF AgentInv, AgentTypes
<1>3. PairedInv'
  BY <1>1 DEF AgentInv, PairedInv
<1>4. state' = state /\ state[Game] \in {"stopping"} \cup Ended
  BY <1>1 DEF AgentInv, GameInv, processVars
<1>5. GameInv' /\ OwnerInv'
  BY <1>4 DEF GameInv, OwnerInv, Ended
<1>6. AnswerInv'
  BY <1>1 DEF AgentInv, AgentTypes, AnswerInv
<1> QED BY <1>2, <1>3, <1>5, <1>6 DEF AgentRest

LEMMA SocketClosedKeeps ==
  ASSUME AgentInv, NEW c \in Conn, SocketClosed(c)
  PROVE  AgentRest'
<1>1. /\ socket' = [socket EXCEPT ![c] = "closed"]
      /\ overtaken' = IF c \in launching \cup Outbound THEN overtaken \cup {c} ELSE overtaken
      /\ UNCHANGED <<accepted, pairingUsed, launching, closing, host>>
  BY DEF SocketClosed
<1>2. /\ connections' \subseteq Conn /\ detached' \subseteq Conn
      /\ sessions' \subseteq Conn /\ gameStarted' \subseteq gameStarted
      /\ c \in gameStarted' => c \in Outbound
  <2>1. CASE c \in Outbound
    BY <2>1 DEF SocketClosed, AgentInv, AgentTypes
  <2>2. CASE c \notin Outbound
    <3>1. /\ detached' = detached \cup {c} /\ connections' = connections \ {c}
          /\ sessions' = sessions \ {c} /\ gameStarted' = gameStarted \ {c}
      BY <2>2 DEF SocketClosed
    <3> QED BY <3>1 DEF AgentInv, AgentTypes
  <2> QED BY <2>1, <2>2
<1>3. AgentTypes'
  BY <1>1, <1>2 DEF AgentInv, AgentTypes
<1>4. PairedInv'
  BY <1>1 DEF AgentInv, PairedInv
<1>7. AnswerInv'
  <2> SUFFICES ASSUME NEW d \in (launching \cup gameStarted)' PROVE socket'[d] # "closed" \/ d \in overtaken'
    BY DEF AnswerInv
  <2>1. d \in launching \cup gameStarted /\ d \in Conn
    BY <1>1, <1>2 DEF AgentInv, AgentTypes
  <2>2. CASE d = c
    BY <1>1, <1>2, <2>2
  <2>3. CASE d # c
    BY <1>1, <2>1, <2>3 DEF AgentInv, AgentTypes, AnswerInv
  <2> QED BY <2>2, <2>3
<1>5. CASE c \notin Outbound /\ c \in gameStarted
  <2>1. Stop(Game, "cleanup")
    BY <1>5 DEF SocketClosed
  <2>2. state'[Game] \in {"stopping"} \cup Ended
    BY <1>5, <2>1, StopEnds DEF AgentInv, GameInv
  <2>3. GameInv' /\ OwnerInv'
    BY <2>2 DEF GameInv, OwnerInv, Ended
  <2> QED BY <1>3, <1>4, <1>7, <2>3 DEF AgentRest
<1>6. CASE ~(c \notin Outbound /\ c \in gameStarted)
  <2>1. /\ UNCHANGED <<processVars, gameStarted>>
        /\ gameStarted' \cap sessions' = gameStarted \cap sessions
    BY <1>6 DEF SocketClosed
  <2>2. GameInv' /\ OwnerInv'
    BY <1>1, <2>1 DEF AgentInv, GameInv, OwnerInv, processVars
  <2> QED BY <1>3, <1>4, <1>7, <2>2 DEF AgentRest
<1> QED BY <1>5, <1>6

LEMMA ShutdownKeeps ==
  ASSUME AgentInv, Shutdown
  PROVE  AgentRest'
<1>1. /\ gameStarted' = gameStarted \ sessions /\ sessions' = {} /\ connections' = {}
      /\ host' = "shutting down"
      /\ UNCHANGED <<detached, accepted, pairingUsed, launching, closing, overtaken>>
  BY DEF Shutdown
<1>2. /\ socket' \in [Conn -> {"new", "open", "ending", "closed"}]
      /\ \A d \in Conn : socket[d] # "closed" => socket'[d] # "closed"
  BY DEF Shutdown, AgentInv, AgentTypes
<1>3. AgentTypes'
  BY <1>1, <1>2 DEF AgentInv, AgentTypes
<1>4. PairedInv'
  BY <1>1 DEF AgentInv, PairedInv
<1>7. AnswerInv'
  BY <1>1, <1>2 DEF AgentInv, AgentTypes, AnswerInv
<1>5. CASE sessions \cap gameStarted # {}
  <2>1. Stop(Game, "shutdown")
    BY <1>5 DEF Shutdown
  <2>2. state'[Game] \in {"stopping"} \cup Ended
    BY <1>5, <2>1, StopEnds DEF AgentInv, GameInv
  <2>3. GameInv' /\ OwnerInv'
    BY <2>2 DEF GameInv, OwnerInv, Ended
  <2> QED BY <1>3, <1>4, <1>7, <2>3 DEF AgentRest
<1>6. CASE sessions \cap gameStarted = {}
  <2>1. gameStarted' = gameStarted /\ UNCHANGED processVars
    BY <1>1, <1>6 DEF Shutdown
  <2>2. GameInv' /\ OwnerInv'
    BY <1>1, <2>1 DEF AgentInv, GameInv, OwnerInv, processVars
  <2> QED BY <1>3, <1>4, <1>7, <2>2 DEF AgentRest
<1> QED BY <1>5, <1>6

LEMMA EventKeeps ==
  ASSUME AgentInv, WrapperEvent \/ ProgramEnds
  PROVE  AgentRest'
<1>1. UNCHANGED agentVars
  BY DEF WrapperEvent, ProgramEnds
<1>2. \/ state'[Game] = state[Game]
      \/ state[Game] = "starting" /\ state'[Game] = "running"
      \/ state'[Game] \in {"stopping"} \cup Ended /\ state[Game] # "idle"
  BY EventMoves DEF WrapperEvent, ProgramEnds, AgentInv
<1>3. AgentTypes' /\ PairedInv'
  BY <1>1 DEF AgentInv, AgentTypes, PairedInv, agentVars
<1>4. GameInv' /\ OwnerInv'
  BY <1>1, <1>2 DEF AgentInv, GameInv, OwnerInv, agentVars, Ended
<1>5. AnswerInv'
  BY <1>1 DEF AgentInv, AnswerInv, agentVars
<1> QED BY <1>3, <1>4, <1>5 DEF AgentRest

LEMMA AgentNextInv == AgentInv /\ [Next]_vars => AgentInv'
<1> SUFFICES ASSUME AgentInv, [Next]_vars PROVE AgentInv'
  OBVIOUS
<1>1. ProcessInv'
  BY AgentProcessStep, ProcessNextInv DEF AgentInv
<1>2. ASSUME NEW c \in Conn, Connect(c) \/ Frame(c) \/ SocketClosed(c) PROVE AgentRest'
  BY <1>2, QuietKeeps, AcceptedKeeps, LaunchKeeps, CloseFrameKeeps, SocketClosedKeeps DEF Frame
<1>3. ASSUME Continuation PROVE AgentRest'
  BY <1>3, LaunchedKeeps, CloseFrameStoppedKeeps DEF Continuation
<1>4. ASSUME Shutdown PROVE AgentRest'
  BY <1>4, ShutdownKeeps
<1>5. ASSUME ProcessExit PROVE AgentRest'
  BY <1>5 DEF ProcessExit, AgentInv, AgentRest, AgentTypes, PairedInv, GameInv, OwnerInv,
     AnswerInv, processVars
<1>6. ASSUME WrapperEvent \/ ProgramEnds PROVE AgentRest'
  BY <1>6, EventKeeps
<1>7. ASSUME UNCHANGED vars PROVE AgentRest'
  BY <1>7 DEF vars, AgentInv, AgentRest, AgentTypes, PairedInv, GameInv, OwnerInv,
     AnswerInv, processVars, agentVars
<1>8. AgentRest'
  BY <1>2, <1>3, <1>4, <1>5, <1>6, <1>7 DEF Next
<1> QED BY <1>1, <1>8 DEF AgentInv, AgentRest

\* The inductive invariant holds in every reachable state.
THEOREM AgentInvariance == Spec => []AgentInv
  BY AgentInitInv, AgentNextInv, PTL DEF Spec

\* Every variable has its type.
THEOREM AgentTypeCorrect == Spec => []TypeOK
<1>1. AgentInv => TypeOK
  BY DEF AgentInv, AgentTypes, TypeOK, ProcessInv
<1> QED BY <1>1, AgentInvariance, PTL

\* The agent uses the game's process as ManagedProcess allows: what is proved of
\* that holds of the game, whatever frames, sockets and signals interleave.
THEOREM AgentUsesProcess == Spec => ProcessSpec
  BY AgentProcessStep, PTL DEF Spec, Init, ProcessSpec

\* No stop() of the game, be it for a frame, a closed connection or a signal,
\* leaves it alive without having killed it.
COROLLARY AgentLeavesNoSurvivor == Spec => []ReportsTruth /\ ForwardOnly /\ StopLeavesNoSurvivor
  BY AgentUsesProcess, ProcessReportsTruth, ProcessForwardOnly, ProcessNoSurvivor, PTL

\* The agent beside the other parts of a host, as the runs check it.
PartInv == part = "agent" => AgentInv

LEMMA PartBegins == HostPartsInit => PartInv
  BY AgentInitInv DEF HostPartsInit, PartInv

LEMMA PartGoesOn == PartInv /\ [HostPartsNext]_hostPartsVars => PartInv'
<1> SUFFICES ASSUME PartInv, [HostPartsNext]_hostPartsVars, part' = "agent" PROVE AgentInv'
  BY DEF PartInv
<1>1. part = "agent" /\ [Next]_vars
  <2>1. CASE UNCHANGED hostPartsVars
    BY <2>1 DEF hostPartsVars, vars
  <2>2. CASE part = "agent" /\ Next /\ Others("agent")
    BY <2>2
  <2>3. CASE \E p : part = p /\ p # "agent" /\ Others(p)
    BY <2>3 DEF Others
  <2> QED BY <2>1, <2>2, <2>3 DEF HostPartsNext
<1> QED BY <1>1, AgentNextInv DEF PartInv

\* The pairing code of host/pairing.mjs lets one connection in, whatever offers
\* are in flight, and a game that runs has an owner with a connection, the offer
\* that waits for it or the session that started it, but for one whose connection
\* was lost while it was started, and for the outbound one; the end of the host
\* finds the game of every session.
THEOREM AgentPlayIsOwned ==
  /\ Spec => []PlayIsOwned
  /\ HostPartsSpec => []AgentOwnsPlay
<1>1. AgentInv => OnePairedSession
  <2> SUFFICES ASSUME AgentInv PROVE Cardinality(accepted \cup launching) <= 1
    BY DEF OnePairedSession
  <2>1. CASE accepted \cup launching = {}
    BY <2>1, FS_EmptySet
  <2>2. CASE accepted \cup launching # {}
    <3>1. PICK c : accepted \cup launching = {c}
      BY <2>2 DEF AgentInv, PairedInv
    <3> QED BY <3>1, FS_Singleton
  <2> QED BY <2>1, <2>2
<1>2. AgentInv => GameHasOwner
  BY DEF AgentInv, OwnerInv, AnswerInv, GameHasOwner
<1>3. AgentInv => PlayIsOwned
  BY <1>1, <1>2 DEF PlayIsOwned
<1>4. PartInv => AgentOwnsPlay
  BY <1>3 DEF PartInv, AgentOwnsPlay
<1>5. Spec => []PlayIsOwned
  BY <1>3, AgentInvariance, PTL
<1>6. HostPartsSpec => []AgentOwnsPlay
  BY <1>4, PartBegins, PartGoesOn, PTL DEF HostPartsSpec
<1> QED BY <1>5, <1>6
-----------------------------------------------------------------------------
(***************************************************************************)
(* Proofs about RedisBroker for any number of instances, sessions and      *)
(* participants: the type invariant, what the keys and the channels say of *)
(* the participants, and the refinement of Rendezvous.                     *)
(***************************************************************************)
(***************************************************************************)
(* The inductive invariant.                                                *)
(***************************************************************************)
Phase == {"new", "claiming", "subscribing", "attached", "leaving", "releasing", "gone"}

RedisTypes ==
  /\ lock \in [Seat -> Handle \cup {None}]
  /\ local \in [Instance -> [Seat -> Handle \cup {None}]]
  /\ mode \in [Instance -> {"open", "closed", "quit", "crashed"}]
  /\ listeners \in [Instance -> SUBSET Handle]
  /\ pipe \in [Instance -> Seq(Handle)]
  /\ phase \in [Handle -> Phase]
  /\ seatOf \in [Handle -> Seat \cup {None}]
  /\ at \in [Handle -> Instance \cup {None}]
  /\ lapsed \subseteq Handle
  /\ failed \subseteq Handle

\* A participant has a seat and an instance exactly from its attach() on.
PlaceInv ==
  \A h \in Handle :
    /\ phase[h] = "new" => seatOf[h] = None /\ at[h] = None
    /\ phase[h] # "new" => seatOf[h] \in Seat /\ at[h] \in Instance

Entries(q) == {q[n] : n \in 1 .. Len(q)}
Distinct(q) == \A m, n \in 1 .. Len(q) : q[m] = q[n] => m = n

\* A command waits for each participant that awaits one, and for nobody twice.
PipeInv ==
  \A i \in Instance :
    /\ Distinct(pipe[i])
    /\ \A h \in Entries(pipe[i]) : at[h] = i /\ phase[h] \in {"subscribing", "leaving"}

\* A key names somebody who claimed this very seat; one who has left leaves no
\* key behind, unless a command about it failed or its instance has crashed.
KeyInv ==
  \A x \in Seat : lock[x] # None =>
    /\ seatOf[lock[x]] = x
    /\ phase[lock[x]] \notin {"new", "claiming"}
    /\ phase[lock[x]] = "gone" => mode[at[lock[x]]] = "crashed" \/ lock[x] \in failed

\* Only one who had a key can have outlived it.
LapsedInv == \A h \in lapsed : phase[h] \notin {"new", "claiming"}

\* The key stays with its participant up to the end of release(), as long as no
\* key of that seat ran out too early.  RoleExclusive asks this of those who
\* are entered; a predecessor that is still releasing must be covered too, or
\* it could delete the key of its successor in the same instance.
OwnInv ==
  \A h \in Handle :
    phase[h] \in {"subscribing", "attached", "leaving", "releasing"} /\ Unlapsed(seatOf[h])
      => lock[seatOf[h]] = h

\* The instance listens for an attached participant, unless a neighbour of its
\* session was unsubscribed.
Neighbour(n, g) ==
  phase[n] \in {"releasing", "gone"} /\ at[n] = at[g] /\ seatOf[n][1] = seatOf[g][1]

ListenInv ==
  \A g \in Handle : phase[g] = "attached" =>
    g \in listeners[at[g]] \/ \E n \in Handle : Neighbour(n, g)

RedisInv ==
  RedisTypes /\ PlaceInv /\ PipeInv /\ KeyInv /\ LapsedInv /\ OwnInv /\ ListenInv

-----------------------------------------------------------------------------
\* What Append adds to a sequence without repetitions.
LEMMA Appended ==
  ASSUME NEW S, NEW q \in Seq(S), NEW h \in S, Distinct(q), h \notin Entries(q)
  PROVE  /\ Append(q, h) \in Seq(S)
         /\ Distinct(Append(q, h))
         /\ Entries(Append(q, h)) = Entries(q) \cup {h}
<1> DEFINE r == Append(q, h)
<1>1. /\ r \in Seq(S) /\ Len(r) = Len(q) + 1 /\ Len(q) \in Nat /\ r[Len(q) + 1] = h
      /\ \A n \in 1 .. Len(q) : r[n] = q[n]
  OBVIOUS
<1> HIDE DEF r
<1>2. \A n \in 1 .. Len(q) : q[n] # h
  BY DEF Entries
<1>3. Distinct(r)
  BY <1>1, <1>2 DEF Distinct
<1>4. Entries(r) = Entries(q) \cup {h}
  <2>1. \A n \in 1 .. Len(r) : n \in 1 .. Len(q) \/ n = Len(q) + 1
    BY <1>1
  <2>2. Len(q) + 1 \in 1 .. Len(r) /\ \A n \in 1 .. Len(q) : n \in 1 .. Len(r)
    BY <1>1
  <2> QED BY <1>1, <2>1, <2>2 DEF Entries
<1> QED BY <1>1, <1>3, <1>4 DEF r

\* What Tail leaves of one.
LEMMA Shifted ==
  ASSUME NEW S, NEW q \in Seq(S), q # <<>>, Distinct(q)
  PROVE  /\ Tail(q) \in Seq(S) /\ Head(q) \in Entries(q)
         /\ Distinct(Tail(q))
         /\ Entries(Tail(q)) = Entries(q) \ {Head(q)}
<1> DEFINE r == Tail(q)
<1>1. /\ r \in Seq(S) /\ Len(q) \in Nat /\ Len(q) > 0 /\ Len(r) = Len(q) - 1 /\ Head(q) = q[1]
      /\ \A n \in 1 .. Len(r) : r[n] = q[n + 1]
  OBVIOUS
<1> HIDE DEF r
<1>2. Distinct(r)
  BY <1>1 DEF Distinct
<1>3. Head(q) \in Entries(q)
  BY <1>1 DEF Entries
<1>4. ASSUME NEW n \in 1 .. Len(r) PROVE r[n] \in Entries(q) /\ r[n] # Head(q)
  <2>1. n + 1 \in 1 .. Len(q) /\ 1 \in 1 .. Len(q) /\ n + 1 # 1
    BY <1>1
  <2> QED BY <1>1, <2>1 DEF Entries, Distinct
<1>5. ASSUME NEW n \in 1 .. Len(q), q[n] # Head(q) PROVE q[n] \in Entries(r)
  <2>1. n - 1 \in 1 .. Len(r) /\ r[n - 1] = q[n]
    BY <1>1, <1>5
  <2> QED BY <2>1 DEF Entries
<1>6. Entries(r) = Entries(q) \ {Head(q)}
  BY <1>4, <1>5 DEF Entries
<1> QED BY <1>1, <1>2, <1>3, <1>6 DEF r

LEMMA RedisInitInv == RedisInit => RedisInv
<1> SUFFICES ASSUME RedisInit PROVE RedisInv
  OBVIOUS
<1>1. RedisTypes
  <2>1. NoSeats \in [Seat -> Handle \cup {None}]
    BY DEF NoSeats
  <2> QED BY <2>1 DEF RedisInit, RedisTypes, Phase
<1>2. PipeInv
  BY DEF RedisInit, PipeInv, Entries, Distinct
<1>3. PlaceInv /\ KeyInv /\ LapsedInv /\ OwnInv /\ ListenInv
  BY DEF RedisInit, PlaceInv, KeyInv, LapsedInv, OwnInv, ListenInv, NoSeats
<1> QED BY <1>1, <1>2, <1>3 DEF RedisInv

-----------------------------------------------------------------------------
(***************************************************************************)
(* The pipes.  A step either leaves them alone, issues a command for       *)
(* somebody who awaited none, or executes the head.                        *)
(***************************************************************************)
LEMMA PipesKept ==
  ASSUME PipeInv, RedisTypes, UNCHANGED pipe,
         \A g \in Handle : phase[g] \in {"subscribing", "leaving"} =>
           phase'[g] = phase[g] /\ at'[g] = at[g]
  PROVE  PipeInv'
<1>1. \A i \in Instance : Entries(pipe[i]) \subseteq Handle
  BY DEF RedisTypes, Entries
<1> QED BY <1>1 DEF PipeInv

LEMMA PipesIssued ==
  ASSUME PipeInv, RedisTypes, NEW h \in Handle, at[h] \in Instance, Issue(h),
         phase[h] \notin {"subscribing", "leaving"},
         phase'[h] \in {"subscribing", "leaving"}, UNCHANGED at,
         \A g \in Handle \ {h} : phase'[g] = phase[g]
  PROVE  PipeInv' /\ pipe' \in [Instance -> Seq(Handle)]
<1>1. h \notin Entries(pipe[at[h]])
  BY DEF PipeInv
<1>2. pipe[at[h]] \in Seq(Handle) /\ Distinct(pipe[at[h]])
  BY DEF PipeInv, RedisTypes
<1>3. /\ Append(pipe[at[h]], h) \in Seq(Handle)
      /\ Distinct(Append(pipe[at[h]], h))
      /\ Entries(Append(pipe[at[h]], h)) = Entries(pipe[at[h]]) \cup {h}
  BY <1>1, <1>2, Appended
<1>4. /\ pipe'[at[h]] = Append(pipe[at[h]], h)
      /\ \A i \in Instance : i # at[h] => pipe'[i] = pipe[i]
  BY DEF Issue, RedisTypes
<1>5. pipe' \in [Instance -> Seq(Handle)]
  BY <1>3 DEF Issue, RedisTypes
<1>6. \A i \in Instance : Entries(pipe[i]) \subseteq Handle
  BY DEF RedisTypes, Entries
<1>7. ASSUME NEW i \in Instance
      PROVE  /\ Distinct(pipe'[i])
             /\ \A g \in Entries(pipe'[i]) : at'[g] = i /\ phase'[g] \in {"subscribing", "leaving"}
  <2>1. CASE i = at[h]
    BY <2>1, <1>1, <1>3, <1>4, <1>6 DEF PipeInv
  <2>2. CASE i # at[h]
    <3>1. h \notin Entries(pipe[i])
      BY DEF PipeInv
    <3> QED BY <2>2, <3>1, <1>4, <1>6 DEF PipeInv
  <2> QED BY <2>1, <2>2
<1> QED BY <1>5, <1>7 DEF PipeInv

LEMMA PipesExecuted ==
  ASSUME PipeInv, RedisTypes, NEW h \in Handle, at[h] \in Instance, Heads(h), Executed(h),
         UNCHANGED at, \A g \in Handle \ {h} : phase'[g] = phase[g]
  PROVE  PipeInv' /\ pipe' \in [Instance -> Seq(Handle)]
<1>1. /\ pipe[at[h]] \in Seq(Handle) /\ Distinct(pipe[at[h]])
      /\ pipe[at[h]] # <<>> /\ Head(pipe[at[h]]) = h
  BY DEF PipeInv, RedisTypes, Heads
<1>2. /\ Tail(pipe[at[h]]) \in Seq(Handle)
      /\ Distinct(Tail(pipe[at[h]]))
      /\ Entries(Tail(pipe[at[h]])) = Entries(pipe[at[h]]) \ {h}
  BY <1>1, Shifted
<1>3. /\ pipe'[at[h]] = Tail(pipe[at[h]])
      /\ \A i \in Instance : i # at[h] => pipe'[i] = pipe[i]
  BY DEF Executed, RedisTypes
<1>4. pipe' \in [Instance -> Seq(Handle)]
  BY <1>2 DEF Executed, RedisTypes
<1>5. \A i \in Instance : Entries(pipe[i]) \subseteq Handle
  BY DEF RedisTypes, Entries
<1>6. ASSUME NEW i \in Instance
      PROVE  /\ Distinct(pipe'[i])
             /\ \A g \in Entries(pipe'[i]) : at'[g] = i /\ phase'[g] \in {"subscribing", "leaving"}
  <2>1. CASE i = at[h]
    BY <2>1, <1>2, <1>3, <1>5 DEF PipeInv
  <2>2. CASE i # at[h]
    <3>1. h \notin Entries(pipe[i])
      BY <2>2 DEF PipeInv
    <3> QED BY <2>2, <3>1, <1>3, <1>5 DEF PipeInv
  <2> QED BY <2>1, <2>2
<1> QED BY <1>4, <1>6 DEF PipeInv
-----------------------------------------------------------------------------
(***************************************************************************)
(* One lemma per action.                                                   *)
(***************************************************************************)
LEMMA KeysKept ==
  ASSUME RedisInv, UNCHANGED <<lock, mode, failed>>,
         \A g \in Handle : phase[g] \notin {"new", "claiming"} =>
           /\ seatOf'[g] = seatOf[g] /\ at'[g] = at[g] /\ phase'[g] \notin {"new", "claiming"}
           /\ phase'[g] = "gone" => phase[g] = "gone"
  PROVE  KeyInv'
<1>1. ASSUME NEW x \in Seat, lock[x] # None
      PROVE  lock[x] \in Handle
  BY <1>1 DEF RedisInv, RedisTypes
<1> QED BY <1>1 DEF RedisInv, KeyInv

LEMMA AttachInv ==
  ASSUME RedisInv, NEW h \in Handle, NEW i \in Instance, NEW x \in Seat, Attach(h, i, x)
  PROVE  RedisInv'
<1> USE DEF RedisInv, Attach, Goto
<1>1. /\ phase[h] = "new" /\ phase'[h] = "claiming" /\ seatOf'[h] = x /\ at'[h] = i
      /\ \A g \in Handle \ {h} : phase'[g] = phase[g] /\ seatOf'[g] = seatOf[g] /\ at'[g] = at[g]
      /\ UNCHANGED <<lock, local, mode, listeners, pipe, lapsed, failed>>
  BY DEF RedisTypes
<1>2. RedisTypes'
  BY DEF RedisTypes, Phase
<1>3. PlaceInv'
  BY <1>1 DEF PlaceInv
<1>4. PipeInv'
  BY <1>1, PipesKept
<1>5. KeyInv'
  BY <1>1, KeysKept
<1>6. LapsedInv'
  BY <1>1 DEF LapsedInv, RedisTypes
<1>7. OwnInv'
  BY <1>1 DEF OwnInv, Unlapsed, LapsedInv, RedisTypes
<1>8. ListenInv'
  BY <1>1 DEF ListenInv, Neighbour
<1> QED BY <1>2, <1>3, <1>4, <1>5, <1>6, <1>7, <1>8

LEMMA ClaimedInv ==
  ASSUME RedisInv, NEW h \in Handle, Claimed(h)
  PROVE  RedisInv'
<1> USE DEF RedisInv, Claimed, Goto
<1>0. seatOf[h] \in Seat /\ at[h] \in Instance
  BY DEF PlaceInv
<1>1. /\ phase[h] = "claiming" /\ phase'[h] = "subscribing" /\ lock[seatOf[h]] = None
      /\ lock'[seatOf[h]] = h /\ \A x \in Seat : x # seatOf[h] => lock'[x] = lock[x]
      /\ \A g \in Handle \ {h} : phase'[g] = phase[g]
      /\ UNCHANGED <<mode, listeners, seatOf, at, lapsed, failed>>
  BY <1>0 DEF RedisTypes, KeyFree
<1>2. PipeInv' /\ pipe' \in [Instance -> Seq(Handle)]
  BY <1>0, <1>1, PipesIssued
<1>3. RedisTypes'
  BY <1>0, <1>2 DEF RedisTypes, Phase
<1>4. PlaceInv'
  BY <1>1 DEF PlaceInv
<1>5. KeyInv'
  <2>1. ASSUME NEW x \in Seat, x # seatOf[h], lock[x] # None
        PROVE  lock[x] \in Handle \ {h}
    BY <2>1, <1>1 DEF KeyInv, RedisTypes
  <2> QED BY <1>1, <2>1 DEF KeyInv
<1>6. LapsedInv'
  BY <1>1 DEF LapsedInv, RedisTypes
<1>7. OwnInv'
  <2>1. ASSUME NEW g \in Handle \ {h},
               phase[g] \in {"subscribing", "attached", "leaving", "releasing"},
               Unlapsed(seatOf[g])
        PROVE  lock'[seatOf[g]] = g
    <3>1. lock[seatOf[g]] = g /\ seatOf[g] \in Seat
      BY <2>1 DEF OwnInv, PlaceInv
    <3> QED BY <3>1, <1>1, RedisAssumption
  <2> QED BY <2>1, <1>1 DEF OwnInv, Unlapsed
<1>8. ListenInv'
  BY <1>1 DEF ListenInv, Neighbour
<1> QED BY <1>2, <1>3, <1>4, <1>5, <1>6, <1>7, <1>8

\* The answer is lost: the key is there, and its participant is not.
LEMMA ClaimLostInv ==
  ASSUME RedisInv, NEW h \in Handle, ClaimLost(h)
  PROVE  RedisInv'
<1> USE DEF RedisInv, ClaimLost, Goto
<1>0. seatOf[h] \in Seat /\ at[h] \in Instance
  BY DEF PlaceInv
<1>1. /\ phase[h] = "claiming" /\ phase'[h] = "gone" /\ lock[seatOf[h]] = None
      /\ lock'[seatOf[h]] = h /\ \A x \in Seat : x # seatOf[h] => lock'[x] = lock[x]
      /\ \A g \in Handle \ {h} : phase'[g] = phase[g]
      /\ failed' = failed \cup {h}
      /\ UNCHANGED <<local, mode, listeners, pipe, seatOf, at, lapsed>>
  BY <1>0 DEF RedisTypes, KeyFree
<1>2. PipeInv'
  BY <1>1, PipesKept
<1>3. RedisTypes'
  BY <1>0 DEF RedisTypes, Phase
<1>4. PlaceInv'
  BY <1>1 DEF PlaceInv
<1>5. KeyInv'
  <2>1. ASSUME NEW x \in Seat, x # seatOf[h], lock[x] # None
        PROVE  lock[x] \in Handle \ {h}
    BY <2>1, <1>1 DEF KeyInv, RedisTypes
  <2> QED BY <1>1, <2>1 DEF KeyInv
<1>6. LapsedInv'
  BY <1>1 DEF LapsedInv, RedisTypes
<1>7. OwnInv'
  <2>1. ASSUME NEW g \in Handle \ {h},
               phase[g] \in {"subscribing", "attached", "leaving", "releasing"},
               Unlapsed(seatOf[g])
        PROVE  lock'[seatOf[g]] = g
    <3>1. lock[seatOf[g]] = g /\ seatOf[g] \in Seat
      BY <2>1 DEF OwnInv, PlaceInv
    <3> QED BY <3>1, <1>1, RedisAssumption
  <2> QED BY <2>1, <1>1 DEF OwnInv, Unlapsed
<1>8. ListenInv'
  BY <1>1 DEF ListenInv, Neighbour
<1> QED BY <1>2, <1>3, <1>4, <1>5, <1>6, <1>7, <1>8

LEMMA ClaimRefusedInv ==
  ASSUME RedisInv, NEW h \in Handle, ClaimRefused(h)
  PROVE  RedisInv'
<1> USE DEF RedisInv, ClaimRefused, Goto
<1>1. /\ phase[h] = "claiming" /\ phase'[h] = "new" /\ seatOf'[h] = None /\ at'[h] = None
      /\ \A g \in Handle \ {h} : phase'[g] = phase[g] /\ seatOf'[g] = seatOf[g] /\ at'[g] = at[g]
      /\ UNCHANGED <<lock, local, mode, listeners, pipe, lapsed, failed>>
  BY DEF RedisTypes
<1>2. RedisTypes'
  BY DEF RedisTypes, Phase
<1>3. PlaceInv'
  BY <1>1 DEF PlaceInv
<1>4. PipeInv'
  BY <1>1, PipesKept
<1>5. KeyInv'
  BY <1>1, KeysKept
<1>6. LapsedInv'
  BY <1>1 DEF LapsedInv, RedisTypes
<1>7. OwnInv'
  BY <1>1 DEF OwnInv, Unlapsed, LapsedInv, RedisTypes
<1>8. ListenInv'
  BY <1>1 DEF ListenInv, Neighbour
<1> QED BY <1>2, <1>3, <1>4, <1>5, <1>6, <1>7, <1>8

LEMMA SubscribedInv ==
  ASSUME RedisInv, NEW h \in Handle, Subscribed(h)
  PROVE  RedisInv'
<1> USE DEF RedisInv, Subscribed, Goto
<1>0. seatOf[h] \in Seat /\ at[h] \in Instance
  BY DEF PlaceInv
<1>1. /\ phase[h] = "subscribing" /\ phase'[h] = "attached"
      /\ \A g \in Handle \ {h} : phase'[g] = phase[g]
      /\ listeners'[at[h]] = listeners[at[h]] \cup {h}
      /\ \A i \in Instance : i # at[h] => listeners'[i] = listeners[i]
      /\ UNCHANGED <<lock, local, mode, seatOf, at, lapsed, failed>>
  BY <1>0 DEF RedisTypes
<1>2. PipeInv' /\ pipe' \in [Instance -> Seq(Handle)]
  BY <1>0, <1>1, PipesExecuted
<1>3. RedisTypes'
  BY <1>2 DEF RedisTypes, Phase
<1>4. PlaceInv'
  BY <1>1 DEF PlaceInv
<1>5. KeyInv'
  BY <1>1, KeysKept
<1>6. LapsedInv'
  BY <1>1 DEF LapsedInv, RedisTypes
<1>7. OwnInv'
  BY <1>1 DEF OwnInv, Unlapsed
<1>8. ListenInv'
  <2>1. \A g \in Handle : phase[g] = "attached" => at[g] \in Instance
    BY DEF PlaceInv
  <2> QED BY <1>0, <1>1, <2>1 DEF ListenInv, Neighbour
<1> QED BY <1>2, <1>3, <1>4, <1>5, <1>6, <1>7, <1>8

LEMMA SubscribeFailsInv ==
  ASSUME RedisInv, NEW h \in Handle, SubscribeFails(h)
  PROVE  RedisInv'
<1> USE DEF RedisInv, SubscribeFails, Goto
<1>0. seatOf[h] \in Seat /\ at[h] \in Instance
  BY DEF PlaceInv
<1>1. /\ phase[h] = "subscribing" /\ phase'[h] = "releasing"
      /\ \A g \in Handle \ {h} : phase'[g] = phase[g]
      /\ UNCHANGED <<lock, mode, listeners, seatOf, at, lapsed, failed>>
  BY DEF RedisTypes
<1>2. PipeInv' /\ pipe' \in [Instance -> Seq(Handle)]
  BY <1>0, <1>1, PipesExecuted
<1>3. RedisTypes'
  <2>1. local' \in [Instance -> [Seat -> Handle \cup {None}]]
    BY <1>0 DEF RedisTypes, Forgotten
  <2> QED BY <1>1, <1>2, <2>1 DEF RedisTypes, Phase
<1>4. PlaceInv'
  BY <1>1 DEF PlaceInv
<1>5. KeyInv'
  BY <1>1, KeysKept
<1>6. LapsedInv'
  BY <1>1 DEF LapsedInv, RedisTypes
<1>7. OwnInv'
  BY <1>1 DEF OwnInv, Unlapsed
<1>8. ListenInv'
  BY <1>1 DEF ListenInv, Neighbour
<1> QED BY <1>2, <1>3, <1>4, <1>5, <1>6, <1>7, <1>8

LEMMA DetachInv ==
  ASSUME RedisInv, NEW h \in Handle, Detach(h)
  PROVE  RedisInv'
<1> USE DEF RedisInv, Detach, Goto
<1>0. seatOf[h] \in Seat /\ at[h] \in Instance
  BY DEF PlaceInv
<1>1. /\ phase[h] = "attached" /\ phase'[h] = "leaving"
      /\ \A g \in Handle \ {h} : phase'[g] = phase[g]
      /\ UNCHANGED <<lock, mode, listeners, seatOf, at, lapsed, failed>>
  BY DEF RedisTypes
<1>2. PipeInv' /\ pipe' \in [Instance -> Seq(Handle)]
  BY <1>0, <1>1, PipesIssued
<1>3. RedisTypes'
  <2>1. local' \in [Instance -> [Seat -> Handle \cup {None}]]
    BY <1>0 DEF RedisTypes, Forgotten
  <2> QED BY <1>1, <1>2, <2>1 DEF RedisTypes, Phase
<1>4. PlaceInv'
  BY <1>1 DEF PlaceInv
<1>5. KeyInv'
  BY <1>1, KeysKept
<1>6. LapsedInv'
  BY <1>1 DEF LapsedInv, RedisTypes
<1>7. OwnInv'
  BY <1>1 DEF OwnInv, Unlapsed
<1>8. ListenInv'
  BY <1>1 DEF ListenInv, Neighbour
<1> QED BY <1>2, <1>3, <1>4, <1>5, <1>6, <1>7, <1>8

\* The listeners that go with a participant's are those of its neighbours,
\* which have one from then on that is on its way out.
LEMMA UnsubscribedInv ==
  ASSUME RedisInv, NEW h \in Handle, Unsubscribed(h)
  PROVE  RedisInv'
<1> USE DEF RedisInv, Unsubscribed, Goto
<1>0. seatOf[h] \in Seat /\ at[h] \in Instance
  BY DEF PlaceInv
<1>1. /\ phase[h] = "leaving" /\ phase'[h] = "releasing"
      /\ \A g \in Handle \ {h} : phase'[g] = phase[g]
      /\ UNCHANGED <<lock, local, mode, seatOf, at, lapsed, failed>>
  BY DEF RedisTypes
<1>2. PipeInv' /\ pipe' \in [Instance -> Seq(Handle)]
  BY <1>0, <1>1, PipesExecuted
<1>3. RedisTypes'
  <2>1. listeners' \in [Instance -> SUBSET Handle]
    BY DEF RedisTypes
  <2>2. phase' \in [Handle -> Phase]
    BY DEF RedisTypes, Phase
  <2> QED BY <1>1, <1>2, <2>1, <2>2 DEF RedisTypes
<1>4. PlaceInv'
  BY <1>1 DEF PlaceInv
<1>5. KeyInv'
  BY <1>1, KeysKept
<1>6. LapsedInv'
  BY <1>1 DEF LapsedInv, RedisTypes
<1>7. OwnInv'
  BY <1>1 DEF OwnInv, Unlapsed
<1>8. ListenInv'
  <2>1. ASSUME NEW g \in Handle, phase'[g] = "attached"
        PROVE  g \in listeners'[at[g]] \/ Neighbour(h, g)'
               \/ \E n \in Handle : Neighbour(n, g)'
    <3>1. g # h /\ phase[g] = "attached" /\ at[g] \in Instance
      BY <2>1, <1>1 DEF PlaceInv
    <3>2. CASE g \in listeners[at[g]]
      BY <2>1, <3>1, <3>2, <1>0, <1>1, SMTT(60) DEF OfChannel, Neighbour, RedisTypes
    <3>3. CASE \E n \in Handle : Neighbour(n, g)
      BY <3>3, <1>1 DEF Neighbour
    <3> QED BY <3>1, <3>2, <3>3 DEF ListenInv
  <2> QED BY <2>1, <1>1 DEF ListenInv
<1> QED BY <1>2, <1>3, <1>4, <1>5, <1>6, <1>7, <1>8

LEMMA ReleasedInv ==
  ASSUME RedisInv, NEW h \in Handle, Released(h)
  PROVE  RedisInv'
<1> USE DEF RedisInv, Released, Goto
<1>0. seatOf[h] \in Seat /\ at[h] \in Instance
  BY DEF PlaceInv
<1>1. /\ phase[h] = "releasing" /\ phase'[h] = "gone"
      /\ \A g \in Handle \ {h} : phase'[g] = phase[g]
      /\ lock'[seatOf[h]] \in {lock[seatOf[h]], None} /\ failed \subseteq failed'
      /\ lock'[seatOf[h]] # h \/ h \in failed'
      /\ \A x \in Seat : x # seatOf[h] => lock'[x] = lock[x]
      /\ UNCHANGED <<local, mode, listeners, pipe, seatOf, at, lapsed>>
  BY <1>0, RedisAssumption DEF RedisTypes, Mine
<1>2. PipeInv'
  BY <1>1, PipesKept
<1>3. RedisTypes'
  BY <1>0 DEF RedisTypes, Phase
<1>4. PlaceInv'
  BY <1>1 DEF PlaceInv
<1>5. KeyInv'
  BY <1>1, SMTT(60) DEF KeyInv, RedisTypes
<1>6. LapsedInv'
  BY <1>1 DEF LapsedInv, RedisTypes
<1>7. OwnInv'
  <2>1. ASSUME NEW g \in Handle \ {h},
               phase[g] \in {"subscribing", "attached", "leaving", "releasing"},
               Unlapsed(seatOf[g])
        PROVE  lock'[seatOf[g]] = g
    <3>1. lock[seatOf[g]] = g /\ seatOf[g] \in Seat
      BY <2>1 DEF OwnInv, PlaceInv
    <3>2. seatOf[g] # seatOf[h]
      BY <2>1, <3>1, <1>1 DEF OwnInv
    <3> QED BY <3>1, <3>2, <1>1
  <2> QED BY <2>1, <1>1 DEF OwnInv, Unlapsed
<1>8. ListenInv'
  BY <1>1 DEF ListenInv, Neighbour
<1> QED BY <1>2, <1>3, <1>4, <1>5, <1>6, <1>7, <1>8

LEMMA CloseInv ==
  ASSUME RedisInv, NEW i \in Instance, Close(i)
  PROVE  RedisInv'
<1> USE DEF RedisInv, Close
<1>1. /\ mode' \in [Instance -> {"open", "closed", "quit", "crashed"}]
      /\ \A j \in Instance : mode[j] = "crashed" => mode'[j] = "crashed"
      /\ UNCHANGED <<lock, local, listeners, pipe, phase, seatOf, at, lapsed, failed>>
  BY DEF RedisTypes
<1>2. RedisTypes'
  BY <1>1 DEF RedisTypes
<1>3. PlaceInv' /\ LapsedInv'
  BY <1>1 DEF PlaceInv, LapsedInv
<1>4. PipeInv'
  BY <1>1, PipesKept
<1>5. KeyInv'
  BY <1>1 DEF KeyInv, PlaceInv, RedisTypes
<1>6. OwnInv' /\ ListenInv'
  BY <1>1 DEF OwnInv, ListenInv, Unlapsed, Neighbour
<1> QED BY <1>2, <1>3, <1>4, <1>5, <1>6

LEMMA ExpireInv ==
  ASSUME RedisInv, NEW x \in Seat, Expire(x)
  PROVE  RedisInv'
<1> USE DEF RedisInv, Expire
<1>1. /\ lock[x] # None /\ lock'[x] = None /\ \A y \in Seat : y # x => lock'[y] = lock[y]
      /\ UNCHANGED <<local, mode, listeners, pipe, phase, seatOf, at, failed>>
  BY DEF RedisTypes
<1>2. lock[x] \in Handle /\ seatOf[lock[x]] = x /\ phase[lock[x]] \notin {"new", "claiming"}
  BY <1>1 DEF KeyInv, RedisTypes
<1>3. RedisTypes'
  BY <1>2 DEF RedisTypes
<1>4. PlaceInv'
  BY <1>1 DEF PlaceInv
<1>5. PipeInv'
  BY <1>1, PipesKept
<1>6. KeyInv'
  BY <1>1 DEF KeyInv
<1>7. LapsedInv'
  BY <1>1, <1>2 DEF LapsedInv
<1>8. OwnInv'
  <2>1. ASSUME NEW g \in Handle,
               phase[g] \in {"subscribing", "attached", "leaving", "releasing"},
               Unlapsed(seatOf[g])'
        PROVE  lock'[seatOf[g]] = g
    <3>1. Unlapsed(seatOf[g])
      BY <2>1, <1>1 DEF Unlapsed
    <3>2. lock[seatOf[g]] = g /\ seatOf[g] \in Seat
      BY <2>1, <3>1 DEF OwnInv, PlaceInv
    <3>3. CASE seatOf[g] = x
      <4>1. g \in lapsed'
        BY <3>2, <3>3, <2>1 DEF Gone
      <4> QED BY <4>1, <3>3, <2>1, <1>1 DEF Unlapsed
    <3> QED BY <3>2, <3>3, <1>1
  <2> QED BY <2>1, <1>1 DEF OwnInv
<1>9. ListenInv'
  BY <1>1 DEF ListenInv, Neighbour
<1> QED BY <1>3, <1>4, <1>5, <1>6, <1>7, <1>8, <1>9

\* A crash takes everybody of the instance along, its keys stay.
LEMMA CrashInv ==
  ASSUME RedisInv, NEW i \in Instance, Crash(i)
  PROVE  RedisInv'
<1> USE DEF RedisInv, Crash
<1>1. /\ mode'[i] = "crashed" /\ \A j \in Instance : j # i => mode'[j] = mode[j]
      /\ listeners'[i] = {} /\ \A j \in Instance : j # i => listeners'[j] = listeners[j]
      /\ pipe'[i] = <<>> /\ \A j \in Instance : j # i => pipe'[j] = pipe[j]
      /\ UNCHANGED <<lock, lapsed, failed>>
  BY DEF RedisTypes
<1>2. \A h \in Handle : at[h] # i =>
        phase'[h] = phase[h] /\ seatOf'[h] = seatOf[h] /\ at'[h] = at[h]
  OBVIOUS
<1>3. \A h \in Handle : at[h] = i /\ phase[h] = "claiming" =>
        phase'[h] = "new" /\ seatOf'[h] = None /\ at'[h] = None
  OBVIOUS
<1>4. \A h \in Handle : at[h] = i /\ phase[h] # "claiming" =>
        phase'[h] = "gone" /\ seatOf'[h] = seatOf[h] /\ at'[h] = i
  OBVIOUS
<1>5. \A h \in Handle : phase[h] = "new" => at[h] # i
  BY RedisAssumption DEF PlaceInv
<1>6. RedisTypes'
  <2>1. /\ phase' \in [Handle -> Phase] /\ seatOf' \in [Handle -> Seat \cup {None}]
        /\ at' \in [Handle -> Instance \cup {None}]
    BY DEF RedisTypes, Phase
  <2>2. local' \in [Instance -> [Seat -> Handle \cup {None}]]
    BY DEF RedisTypes, NoSeats
  <2>3. /\ mode' \in [Instance -> {"open", "closed", "quit", "crashed"}]
        /\ listeners' \in [Instance -> SUBSET Handle]
        /\ pipe' \in [Instance -> Seq(Handle)]
    BY DEF RedisTypes
  <2> QED BY <2>1, <2>2, <2>3, <1>1 DEF RedisTypes
<1>7. PlaceInv'
  BY <1>2, <1>3, <1>4, <1>5 DEF PlaceInv
<1>8. PipeInv'
  <2>1. Entries(pipe'[i]) = {} /\ Distinct(pipe'[i])
    BY <1>1 DEF Entries, Distinct
  <2>2. \A j \in Instance : Entries(pipe[j]) \subseteq Handle
    BY DEF RedisTypes, Entries
  <2> QED BY <2>1, <2>2, <1>1, <1>2 DEF PipeInv
<1>9. KeyInv'
  <2>1. ASSUME NEW x \in Seat, lock[x] # None
        PROVE  /\ lock[x] \in Handle /\ at[lock[x]] \in Instance
               /\ seatOf[lock[x]] = x /\ phase[lock[x]] \notin {"new", "claiming"}
               /\ phase[lock[x]] = "gone" => mode[at[lock[x]]] = "crashed" \/ lock[x] \in failed
    BY <2>1 DEF KeyInv, PlaceInv, RedisTypes
  <2> QED BY <2>1, <1>1, <1>2, <1>4 DEF KeyInv
<1>10. LapsedInv'
  BY <1>1, <1>2, <1>4 DEF LapsedInv, RedisTypes
<1>11. OwnInv'
  <2>1. ASSUME NEW g \in Handle,
               phase'[g] \in {"subscribing", "attached", "leaving", "releasing"},
               Unlapsed(seatOf[g])'
        PROVE  lock'[seatOf'[g]] = g
    <3>1. at[g] # i
      BY <2>1, <1>3, <1>4
    <3>2. Unlapsed(seatOf[g])
      <4>1. \A h \in lapsed : seatOf'[h] = seatOf[h]
        BY <1>2, <1>4 DEF LapsedInv, RedisTypes
      <4> QED BY <2>1, <3>1, <4>1, <1>1, <1>2, ZenonT(60) DEF Unlapsed
    <3> QED BY <2>1, <3>1, <3>2, <1>1, <1>2 DEF OwnInv
  <2>2. ASSUME NEW g \in Handle,
               phase'[g] \in {"subscribing", "attached", "leaving", "releasing"}
        PROVE  seatOf'[g] = seatOf[g]
    BY <2>2, <1>2, <1>3
  <2> QED BY <2>1, <2>2 DEF OwnInv, Unlapsed
<1>12. ListenInv'
  <2>1. ASSUME NEW g \in Handle, phase'[g] = "attached"
        PROVE  g \in listeners'[at'[g]] \/ \E n \in Handle : Neighbour(n, g)'
    <3>1. at[g] # i /\ at[g] \in Instance /\ phase[g] = "attached"
      BY <2>1, <1>2, <1>3, <1>4 DEF PlaceInv
    <3>2. CASE g \in listeners[at[g]]
      BY <3>1, <3>2, <1>1, <1>2
    <3>3. CASE \E n \in Handle : Neighbour(n, g)
      <4>1. PICK n \in Handle : Neighbour(n, g)
        BY <3>3
      <4>2. Neighbour(n, g)'
        BY <4>1, <3>1, <1>2 DEF Neighbour
      <4> QED BY <4>2
    <3> QED BY <3>1, <3>2, <3>3 DEF ListenInv
  <2> QED BY <2>1 DEF ListenInv
<1> QED BY <1>6, <1>7, <1>8, <1>9, <1>10, <1>11, <1>12

LEMMA RedisNextInv == RedisInv /\ [RedisNext]_redisVars => RedisInv'
<1> SUFFICES ASSUME RedisInv, [RedisNext]_redisVars PROVE RedisInv'
  OBVIOUS
<1>1. ASSUME NEW h \in Handle, NEW i \in Instance, NEW x \in Seat, Attach(h, i, x)
      PROVE  RedisInv'
  BY <1>1, AttachInv
<1>2. ASSUME NEW h \in Handle, Progress(h) PROVE RedisInv'
  BY <1>2, ClaimedInv, ClaimLostInv, ClaimRefusedInv, SubscribedInv, SubscribeFailsInv, UnsubscribedInv,
     ReleasedInv DEF Progress
<1>3. ASSUME NEW h \in Handle, Detach(h) PROVE RedisInv'
  BY <1>3, DetachInv
<1>4. ASSUME NEW i \in Instance, Close(i) PROVE RedisInv'
  BY <1>4, CloseInv
<1>5. ASSUME NEW i \in Instance, Crash(i) PROVE RedisInv'
  BY <1>5, CrashInv
<1>6. ASSUME NEW x \in Seat, Expire(x) PROVE RedisInv'
  BY <1>6, ExpireInv
<1>7. ASSUME UNCHANGED redisVars PROVE RedisInv'
  <2> USE <1>7 DEF redisVars
  <2>1. RedisTypes' /\ PlaceInv' /\ KeyInv' /\ LapsedInv'
    BY DEF RedisInv, RedisTypes, PlaceInv, KeyInv, LapsedInv
  <2>2. PipeInv'
    BY PipesKept DEF RedisInv
  <2>3. OwnInv' /\ ListenInv'
    BY DEF RedisInv, OwnInv, Unlapsed, ListenInv, Neighbour
  <2> QED BY <2>1, <2>2, <2>3 DEF RedisInv
<1> QED BY <1>1, <1>2, <1>3, <1>4, <1>5, <1>6, <1>7 DEF RedisNext

\* The inductive invariant holds in every reachable state.
THEOREM RedisInvariance == RedisSpec => []RedisInv
  BY RedisInitInv, RedisNextInv, PTL DEF RedisSpec

\* Every variable has its type, and nobody awaits two commands of a connection.
THEOREM RedisTypeCorrect == RedisSpec => []RedisTypeOK
<1>1. RedisInv => RedisTypeOK
  <2> SUFFICES ASSUME RedisInv PROVE RedisTypeOK
    OBVIOUS
  <2>1. ASSUME NEW i \in Instance, NEW m \in 1 .. Len(pipe[i]), NEW n \in 1 .. Len(pipe[i])
        PROVE  /\ pipe[i][m] \in Handle /\ at[pipe[i][m]] = i
               /\ pipe[i][m] = pipe[i][n] => m = n
    <3>1. pipe[i] \in Seq(Handle)
      BY DEF RedisInv, RedisTypes
    <3>2. pipe[i][m] \in Handle /\ pipe[i][m] \in Entries(pipe[i])
      BY <3>1 DEF Entries
    <3> QED BY <3>2 DEF RedisInv, PipeInv, Distinct
  <2> QED BY <2>1 DEF RedisInv, RedisTypes, RedisTypeOK, Phase
<1> QED BY <1>1, RedisInvariance, PTL

\* A role of a session is one participant's over all instances for as long as
\* no key runs out under its owner (attach(), SET NX), every key has an owner
\* that will ask for its deletion (release()) unless its instance has crashed,
\* that request has failed or the answer to SET was lost, and an attached
\* participant hears its peers unless a neighbour has unsubscribed.
THEOREM RedisRolesAreSound == RedisSpec => []RolesAreSound
<1>1. RedisInv => RoleExclusive
  BY DEF RedisInv, OwnInv, RoleExclusive, Entered
<1>2. RedisInv => KeyHasOwner
  BY DEF RedisInv, KeyInv, KeyHasOwner
<1>3. RedisInv => DeafOnlyByNeighbour
  <2> SUFFICES ASSUME RedisInv, NEW g \in Handle, NEW h \in Handle,
                      phase[g] = "attached", phase[h] = "attached", Opposite(g, h)
               PROVE  \/ g \in Reached(h)
                      \/ \E n \in Handle \ {g} :
                           /\ phase[n] \in {"releasing", "gone"}
                           /\ at[n] = at[g] /\ seatOf[n][1] = seatOf[g][1]
    BY DEF DeafOnlyByNeighbour
  <2>1. g \in listeners[at[g]] \/ \E n \in Handle : Neighbour(n, g)
    BY DEF RedisInv, ListenInv
  <2>2. CASE g \in listeners[at[g]]
    <3>1. at[g] \in Instance
      BY DEF RedisInv, PlaceInv
    <3> QED BY <2>2, <3>1 DEF Reached
  <2>3. CASE \E n \in Handle : Neighbour(n, g)
    BY <2>3 DEF Neighbour
  <2> QED BY <2>1, <2>2, <2>3
<1>4. RedisInv => RolesAreSound
  BY <1>1, <1>2, <1>3 DEF RolesAreSound
<1> QED BY <1>4, RedisInvariance, PTL

-----------------------------------------------------------------------------
(***************************************************************************)
(* The refinement: the seats of the Rendezvous are the keys.               *)
(***************************************************************************)
\* A step that gives no key to anybody and takes none is a stutter.
LEMMA NoKeyMoves ==
  ASSUME UNCHANGED lock, EverHadKey' = EverHadKey
  PROVE  UNCHANGED Promise!rvars
  BY DEF Promise!rvars, Keys

\* One key that is deleted is one seat that is released.
LEMMA KeyDeleted ==
  ASSUME RedisInv, NEW x \in Seat, lock' = [lock EXCEPT ![x] = None], EverHadKey' = EverHadKey
  PROVE  Promise!RNext
<1>1. PICK s \in Session, r \in Role : x = <<s, r>>
  BY DEF Seat
<1>2. ASSUME NEW t \in Session, NEW q \in Role
      PROVE  lock'[<<t, q>>] = IF t = s /\ q = r THEN None ELSE lock[<<t, q>>]
  BY <1>1 DEF RedisInv, RedisTypes, Seat
<1>3. Keys' = [Keys EXCEPT ![s] = [q \in Role |-> IF q \in {r} THEN None ELSE @[q]]]
  <2> DEFINE Freed == [q \in Role |-> IF q \in {r} THEN None ELSE Keys[s][q]]
  <2>1. ASSUME NEW t \in Session PROVE Keys'[t] = IF t = s THEN Freed ELSE Keys[t]
    BY <1>2, ZenonT(60) DEF Keys
  <2>2. Keys' = [t \in Session |-> Keys'[t]] /\ Keys = [t \in Session |-> Keys[t]]
    BY DEF Keys
  <2> HIDE DEF Freed
  <2>3. Keys' = [Keys EXCEPT ![s] = Freed]
    BY <2>1, <2>2
  <2> QED BY <2>3 DEF Freed
<1>4. Promise!Release(s, {r})
  BY <1>3 DEF Promise!Release
<1> QED BY <1>4 DEF Promise!RNext

LEMMA KeyClaimed ==
  ASSUME RedisInv, NEW h \in Handle, Claimed(h) \/ ClaimLost(h)
  PROVE  Promise!RNext
<1>0. seatOf[h] \in Seat /\ phase[h] = "claiming" /\ lock[seatOf[h]] = None
  BY DEF RedisInv, PlaceInv, Claimed, ClaimLost, KeyFree
<1>1. PICK s \in Session, r \in Role : seatOf[h] = <<s, r>>
  BY <1>0 DEF Seat
<1>2. ASSUME NEW t \in Session, NEW q \in Role
      PROVE  lock'[<<t, q>>] = IF t = s /\ q = r THEN h ELSE lock[<<t, q>>]
  <2>1. lock' = [lock EXCEPT ![seatOf[h]] = h]
    BY DEF Claimed, ClaimLost
  <2> QED BY <1>1, <2>1 DEF RedisInv, RedisTypes, Seat
<1>3. Promise!Cleared({}) = Keys
  BY DEF Promise!Cleared, Keys
<1>4. Keys' = [Keys EXCEPT ![s][r] = h]
  BY <1>2, ZenonT(60) DEF Keys
<1>5. h \notin EverHadKey /\ EverHadKey' = EverHadKey \cup {h}
  <2>1. /\ phase'[h] \in {"subscribing", "gone"}
        /\ \A g \in Handle \ {h} : phase'[g] = phase[g]
    BY DEF RedisInv, RedisTypes, Claimed, ClaimLost, Goto
  <2> QED BY <1>0, <2>1 DEF EverHadKey
<1>6. Keys[s][r] = None
  BY <1>0, <1>1 DEF Keys
<1>7. Promise!Join(h, s, r)
  <2>1. {} \in SUBSET {}
    OBVIOUS
  <2> QED BY <2>1, <1>3, <1>4, <1>5, <1>6 DEF Promise!Join
<1> QED BY <1>7 DEF Promise!RNext

\* Every step is a step of the Rendezvous or leaves it alone.
LEMMA RedisStepKept ==
  RedisInv /\ [RedisNext]_redisVars => [Promise!RNext]_(Promise!rvars)
<1> SUFFICES ASSUME RedisInv, [RedisNext]_redisVars
             PROVE  Promise!RNext \/ UNCHANGED Promise!rvars
  OBVIOUS
<1>1. ASSUME NEW h \in Handle, NEW i \in Instance, NEW x \in Seat, Attach(h, i, x)
      PROVE  UNCHANGED Promise!rvars
  <2>1. phase[h] = "new" /\ phase'[h] = "claiming" /\ \A g \in Handle \ {h} : phase'[g] = phase[g]
    BY <1>1 DEF Attach, Goto, RedisInv, RedisTypes
  <2> QED BY <1>1, <2>1, NoKeyMoves DEF Attach, EverHadKey
<1>2. ASSUME NEW h \in Handle, ClaimRefused(h) PROVE UNCHANGED Promise!rvars
  <2>1. phase[h] = "claiming" /\ phase'[h] = "new" /\ \A g \in Handle \ {h} : phase'[g] = phase[g]
    BY <1>2 DEF ClaimRefused, Goto, RedisInv, RedisTypes
  <2> QED BY <1>2, <2>1, NoKeyMoves DEF ClaimRefused, EverHadKey
<1>3. ASSUME NEW h \in Handle,
             Subscribed(h) \/ SubscribeFails(h) \/ Detach(h) \/ Unsubscribed(h)
      PROVE  UNCHANGED Promise!rvars
  <2>1. /\ UNCHANGED lock /\ phase[h] \notin {"new", "claiming"}
        /\ \E p \in Phase \ {"new", "claiming"} : phase' = [phase EXCEPT ![h] = p]
    BY <1>3 DEF Subscribed, SubscribeFails, Detach, Unsubscribed, Goto, Phase
  <2>2. phase'[h] \notin {"new", "claiming"} /\ \A g \in Handle \ {h} : phase'[g] = phase[g]
    BY <2>1 DEF RedisInv, RedisTypes
  <2> QED BY <2>1, <2>2, NoKeyMoves DEF EverHadKey
<1>4. ASSUME NEW h \in Handle, Released(h) PROVE Promise!RNext \/ UNCHANGED Promise!rvars
  <2>1. phase[h] = "releasing" /\ phase'[h] = "gone" /\ \A g \in Handle \ {h} : phase'[g] = phase[g]
    BY <1>4 DEF Released, Goto, RedisInv, RedisTypes
  <2>2. EverHadKey' = EverHadKey
    BY <2>1 DEF EverHadKey
  <2>3. seatOf[h] \in Seat
    BY <2>1 DEF RedisInv, PlaceInv
  <2>4. CASE lock' = [lock EXCEPT ![seatOf[h]] = None]
    BY <2>2, <2>3, <2>4, KeyDeleted
  <2>5. CASE lock' = lock
    BY <2>2, <2>5, NoKeyMoves
  <2>6. lock' = [lock EXCEPT ![seatOf[h]] = None] \/ lock' = lock
    BY <1>4, <2>3 DEF Released, RedisInv, RedisTypes
  <2> QED BY <2>4, <2>5, <2>6
<1>5. ASSUME NEW i \in Instance, Close(i) PROVE UNCHANGED Promise!rvars
  BY <1>5, NoKeyMoves DEF Close, EverHadKey
<1>6. ASSUME NEW x \in Seat, Expire(x) PROVE Promise!RNext
  <2>1. EverHadKey' = EverHadKey
    BY <1>6 DEF Expire, EverHadKey
  <2> QED BY <1>6, <2>1, KeyDeleted DEF Expire
<1>7. ASSUME NEW i \in Instance, Crash(i) PROVE UNCHANGED Promise!rvars
  <2>1. \A h \in Handle : phase[h] = "new" => at[h] # i
    BY RedisAssumption DEF RedisInv, PlaceInv
  <2>2. \A h \in Handle : phase'[h] = IF at[h] # i THEN phase[h]
                                      ELSE IF phase[h] = "claiming" THEN "new" ELSE "gone"
    BY <1>7 DEF Crash
  <2>3. \A h \in Handle : phase[h] \in {"new", "claiming"} <=> phase'[h] \in {"new", "claiming"}
    BY <2>1, <2>2
  <2> QED BY <1>7, <2>3, NoKeyMoves DEF Crash, EverHadKey
<1>8. ASSUME UNCHANGED redisVars PROVE UNCHANGED Promise!rvars
  BY <1>8, NoKeyMoves DEF redisVars, EverHadKey
<1> QED BY <1>1, <1>2, <1>3, <1>4, <1>5, <1>6, <1>7, <1>8, KeyClaimed DEF RedisNext, Progress

\* The keys in Redis keep the promise of a signaling broker: a role is given to
\* one participant at a time, and to each at most once.
THEOREM RedisIsRendezvous == RedisSpec => RedisKeepsPromise
<1>1. RedisInit => Promise!RInit
  BY DEF RedisInit, Promise!RInit, Promise!Empty, Keys, EverHadKey, NoSeats, Seat
<1> QED BY <1>1, RedisStepKept, RedisInvariance, PTL DEF RedisSpec, RedisKeepsPromise, Promise!RSpec
-----------------------------------------------------------------------------
(***************************************************************************)
(* Controllers and touches.                                                *)
(***************************************************************************)
Pad == PadState \union {NoPad}
Buttons == {"confirm", "button-0"}
HostPad == [held : SUBSET (Buttons \union {"moveUp", "moveDown"}), axis : -1..1]

PadTypes ==
  /\ pads \in [Slot -> Pad] /\ previous \in [Slot -> Pad] /\ atHost \in [Slot -> HostPad]
  /\ linked \in BOOLEAN

\* Before the host has answered, nothing was told.
PadInv == PadTypes /\ PadsFollow /\ (~linked => \A i \in Slot : atHost[i].axis = 0)

LEMMA PadIs ==
  ASSUME NEW new \in Pad
  PROVE  /\ new.pressed \in BOOLEAN /\ new.axis \in -1..1 /\ Name(new) \subseteq Buttons
         /\ new = NoPad => Name(new) = {} /\ ~new.pressed /\ new.axis = 0
<1>1. CASE new = NoPad
  BY <1>1 DEF NoPad, Name
<1>2. CASE new \in PadState /\ new # NoPad
  <2>1. Button["named"] = "confirm" /\ Button["plain"] = "button-0" /\ DOMAIN Button = {"named", "plain"}
    BY DEF Button
  <2>2. new.model \in DOMAIN Button /\ new.pressed \in BOOLEAN /\ new.axis \in -1..1
    BY <1>2 DEF PadState
  <2>3. Name(new) \subseteq Buttons
    BY <1>2, <2>1, <2>2 DEF Name, Buttons
  <2> QED BY <1>2, <2>2, <2>3
<1> QED BY <1>1, <1>2 DEF Pad

LEMMA DirectionIs ==
  ASSUME NEW axis \in -1..1
  PROVE  /\ Direction(axis) \subseteq {"moveUp", "moveDown"}
         /\ "moveUp" \in Direction(axis) <=> axis < 0
         /\ "moveDown" \in Direction(axis) <=> axis > 0
BY DEF Direction

LEMMA HeldIs ==
  ASSUME NEW new \in Pad
  PROVE  /\ \A c \in Buttons : c \in Held(new) <=> new.pressed /\ c \in Name(new)
         /\ "moveUp" \in Held(new) <=> new.axis < 0
         /\ "moveDown" \in Held(new) <=> new.axis > 0
         /\ "axis" \in Held(new) <=> new.axis # 0
<1>1. Direction(new.axis) \subseteq {"moveUp", "moveDown"} /\ Name(new) \subseteq Buttons
  BY PadIs, DirectionIs
<1>2. \A c \in Buttons : c \in Held(new) <=> new.pressed /\ c \in Name(new)
  BY <1>1, PadIs DEF Held, Buttons
<1>3. ("moveUp" \in Held(new) <=> new.axis < 0) /\ ("moveDown" \in Held(new) <=> new.axis > 0)
  BY <1>1, PadIs, DirectionIs DEF Held, Buttons
<1>4. "axis" \in Held(new) <=> new.axis # 0
  BY <1>1, PadIs DEF Held, Buttons
<1> QED BY <1>2, <1>3, <1>4

\* What the events of a poll leave held.
LEMMA ToldIs ==
  ASSUME NEW h \in HostPad, NEW was \in Pad, NEW new \in Pad
  PROVE  /\ Told(h, was, new) \in HostPad
         /\ Told(h, was, new).axis = IF was.axis = new.axis THEN h.axis ELSE new.axis
         /\ \A c \in Buttons :
              c \in Told(h, was, new).held <=>
                IF was # NoPad /\ was.pressed = new.pressed THEN c \in h.held
                ELSE IF new.pressed THEN c \in h.held \/ c \in Name(new)
                ELSE c \in h.held /\ c \notin Name(new)
         /\ "moveUp" \in Told(h, was, new).held <=>
              IF was.axis = new.axis THEN "moveUp" \in h.held
              ELSE new.axis < 0 \/ ("moveUp" \in h.held /\ ~(was.axis < 0))
         /\ "moveDown" \in Told(h, was, new).held <=>
              IF was.axis = new.axis THEN "moveDown" \in h.held
              ELSE new.axis > 0 \/ ("moveDown" \in h.held /\ ~(was.axis > 0))
<1> DEFINE button == IF was # NoPad /\ was.pressed = new.pressed THEN h.held
                     ELSE IF new.pressed THEN h.held \union Name(new) ELSE h.held \ Name(new)
           all == Buttons \union {"moveUp", "moveDown"}
<1>1. h.held \in SUBSET all /\ h.axis \in -1..1 /\ Name(new) \subseteq Buttons
  BY PadIs DEF HostPad
<1>2. button \in SUBSET all
  BY <1>1
<1>3. /\ \A c \in Buttons :
           c \in button <=>
             IF was # NoPad /\ was.pressed = new.pressed THEN c \in h.held
             ELSE IF new.pressed THEN c \in h.held \/ c \in Name(new)
             ELSE c \in h.held /\ c \notin Name(new)
      /\ "moveUp" \in button <=> "moveUp" \in h.held
      /\ "moveDown" \in button <=> "moveDown" \in h.held
  BY <1>1 DEF Buttons
<1> HIDE DEF button
<1>4. /\ Direction(was.axis) \subseteq {"moveUp", "moveDown"}
      /\ Direction(new.axis) \subseteq {"moveUp", "moveDown"}
      /\ "moveUp" \in Direction(was.axis) <=> was.axis < 0
      /\ "moveDown" \in Direction(was.axis) <=> was.axis > 0
      /\ "moveUp" \in Direction(new.axis) <=> new.axis < 0
      /\ "moveDown" \in Direction(new.axis) <=> new.axis > 0
      /\ was.axis \in -1..1 /\ new.axis \in -1..1
  BY PadIs, DirectionIs
<1>5. Told(h, was, new) = IF was.axis = new.axis THEN [h EXCEPT !.held = button]
                          ELSE [held |-> AxisTold(button, was.axis, new.axis), axis |-> new.axis]
  BY DEF Told, button
<1>6. CASE was.axis = new.axis
  <2>1. Told(h, was, new) = [held |-> button, axis |-> h.axis]
    BY <1>5, <1>6 DEF HostPad
  <2> QED BY <1>1, <1>2, <1>3, <1>6, <2>1 DEF HostPad
<1>7. CASE was.axis # new.axis
  <2> DEFINE both == AxisTold(button, was.axis, new.axis)
  <2>1. Told(h, was, new) = [held |-> both, axis |-> new.axis]
    BY <1>5, <1>7
  <2>2. /\ both \in SUBSET all
        /\ \A c \in Buttons : c \in both <=> c \in button
        /\ "moveUp" \in both <=> new.axis < 0 \/ ("moveUp" \in button /\ ~(was.axis < 0))
        /\ "moveDown" \in both <=> new.axis > 0 \/ ("moveDown" \in button /\ ~(was.axis > 0))
    BY <1>2, <1>4 DEF AxisTold, Buttons
  <2> HIDE DEF both
  <2> QED BY <1>1, <1>3, <1>4, <1>7, <2>1, <2>2 DEF HostPad
<1> QED BY <1>6, <1>7
LEMMA PadBegins == PadInit => PadInv
<1> SUFFICES ASSUME PadInit PROVE PadInv
  OBVIOUS
<1>1. PadTypes
  <2>1. [held |-> {}, axis |-> 0] \in HostPad
    BY DEF HostPad
  <2>2. linked \in BOOLEAN
    BY Zenon DEF PadInit
  <2> QED BY <2>1, <2>2 DEF PadInit, PadTypes, Pad
<1>2. ~linked /\ \A i \in Slot : atHost[i] = [held |-> {}, axis |-> 0]
  BY DEF PadInit
<1>3. PadsFollow
  BY <1>2 DEF PadsFollow
<1> QED BY <1>1, <1>2, <1>3 DEF PadInv

LEMMA TouchedIs == Touched \subseteq {"confirm"}
BY DEF Touched

LEMMA PollKeeps == ASSUME PadInv, Poll PROVE PadInv'
<1>1. /\ atHost' = IF ~linked THEN atHost
                   ELSE [i \in Slot |-> IF Polled(i) THEN Told(atHost[i], previous[i], pads[i]) ELSE atHost[i]]
      /\ previous' = [i \in Slot |-> IF Polled(i) THEN pads[i] ELSE NoPad]
      /\ padAmiss' = IF ~linked THEN padAmiss ELSE padAmiss \union UNION {{i} \X Wronged(i) : i \in Slot}
      /\ UNCHANGED <<pads, touching, linked, limit, allows, moves>>
  BY DEF Poll
<1>2. PadTypes /\ PadsFollow
  BY DEF PadInv
<1>3. \A i \in Slot : pads[i] \in Pad /\ previous[i] \in Pad /\ atHost[i] \in HostPad
  BY <1>2 DEF PadTypes
<1>4. \A i \in Slot : Told(atHost[i], previous[i], pads[i]) \in HostPad
  BY <1>3, ToldIs
<1>5. NoPad \in Pad
  BY DEF Pad
<1>6. PadTypes'
  BY <1>1, <1>2, <1>4, <1>5 DEF PadTypes
<1>7. Touched' = Touched
  BY <1>1 DEF Touched
<1>8. ASSUME ~linked PROVE PadsFollow' /\ (\A i \in Slot : atHost'[i].axis = 0)
  <2>1. atHost' = atHost /\ padAmiss' = padAmiss /\ ~linked'
    BY <1>1, <1>8, Zenon
  <2> QED BY <1>8, <2>1 DEF PadInv, PadsFollow
<1>9. ASSUME linked PROVE PadsFollow'
  <2>1. /\ \A i \in Slot : atHost'[i] = IF Polled(i) THEN Told(atHost[i], previous[i], pads[i]) ELSE atHost[i]
        /\ \A i \in Slot : previous'[i] = IF Polled(i) THEN pads[i] ELSE NoPad
        /\ padAmiss' = padAmiss \union UNION {{i} \X Wronged(i) : i \in Slot}
        /\ linked'
    BY <1>1, <1>9
  <2>2. ASSUME NEW i \in Slot
        PROVE  \A c : <<i, c>> \notin padAmiss' => <<i, c>> \notin padAmiss /\ c \notin Wronged(i)
    BY <2>1
  <2>3. ASSUME NEW i \in Slot, NEW c \in Buttons, <<i, c>> \notin padAmiss'
        PROVE  c \in atHost'[i].held <=> c \in Source(i)'
    <3>1. c \notin Wronged(i) /\ (c \in atHost[i].held <=> c \in Source(i))
      BY <1>2, <1>9, <2>2, <2>3 DEF PadsFollow, Buttons
    <3>2. CASE ~Polled(i)
      <4>1. c \notin Held(previous[i]) /\ atHost'[i] = atHost[i] /\ previous'[i] = NoPad
        BY <2>1, <3>1, <3>2 DEF Wronged
      <4>2. c \notin Held(NoPad)
        BY <1>5, HeldIs, PadIs
      <4> QED BY <1>7, <3>1, <4>1, <4>2 DEF Source
    <3>3. CASE Polled(i)
      <4> DEFINE was == previous[i]
                 new == pads[i]
      <4>1. was \in Pad /\ new \in Pad /\ previous'[i] = new /\ new # NoPad
            /\ atHost'[i] = Told(atHost[i], was, new)
        BY <1>3, <2>1, <3>3 DEF Polled
      <4>2. c \in atHost'[i].held <=>
               IF was # NoPad /\ was.pressed = new.pressed THEN c \in atHost[i].held
               ELSE IF new.pressed THEN c \in atHost[i].held \/ c \in Name(new)
               ELSE c \in atHost[i].held /\ c \notin Name(new)
        <5>1. atHost[i] \in HostPad
          BY <1>3
        <5> HIDE DEF was, new
        <5> QED BY <4>1, <5>1, ToldIs, SMTT(60)
      <4>3. /\ (c \in Held(was) <=> was.pressed /\ c \in Name(was)) /\ was.pressed \in BOOLEAN
            /\ (c \in Held(new) <=> new.pressed /\ c \in Name(new)) /\ new.pressed \in BOOLEAN
            /\ (was = NoPad => ~was.pressed)
        BY <4>1, HeldIs, PadIs
      <4>4. was = NoPad \/ was.model = new.model \/ (c \notin Name(was) /\ c \notin Name(new))
        BY <3>1, <3>3 DEF Wronged
      <4>5. i = 0 /\ (was = NoPad \/ was.pressed) /\ c \in Touched => c \in Held(new)
        BY <3>1, <3>3 DEF Wronged
      <4>6. was = NoPad \/ (c \in Name(was) <=> c \in Name(new))
        BY <4>1, <4>4 DEF Name
      <4>7. c \in Source(i) <=> c \in Held(was) \/ (i = 0 /\ c \in Touched)
        BY DEF Source
      <4>8. c \in Source(i)' <=> c \in Held(new) \/ (i = 0 /\ c \in Touched)
        BY <1>7, <4>1 DEF Source
      <4> HIDE DEF was, new
      <4> QED BY <3>1, <4>2, <4>3, <4>5, <4>6, <4>7, <4>8
    <3> QED BY <3>2, <3>3
  <2>4. ASSUME NEW i \in Slot, NEW c \in {"moveUp", "moveDown"}, <<i, c>> \notin padAmiss'
        PROVE  c \in atHost'[i].held <=> c \in Source(i)'
    <3>1. c \notin Wronged(i) /\ (c \in atHost[i].held <=> c \in Source(i))
      BY <1>2, <1>9, <2>2, <2>4 DEF PadsFollow
    <3>2. (c \in Source(i) <=> c \in Held(previous[i])) /\ (c \in Source(i)' <=> c \in Held(previous'[i]))
      BY <1>7, TouchedIs DEF Source
    <3>3. CASE ~Polled(i)
      <4>1. c \notin Held(previous[i]) /\ atHost'[i] = atHost[i] /\ previous'[i] = NoPad
        BY <2>1, <3>1, <3>3 DEF Wronged
      <4>2. c \notin Held(NoPad)
        BY <1>5, HeldIs, PadIs
      <4> QED BY <3>1, <3>2, <4>1, <4>2
    <3>4. CASE Polled(i)
      <4> DEFINE was == previous[i]
                 new == pads[i]
      <4>1. was \in Pad /\ new \in Pad /\ previous'[i] = new /\ atHost'[i] = Told(atHost[i], was, new)
        BY <1>3, <2>1, <3>4 DEF Polled
      <4>2. was.axis \in -1..1 /\ new.axis \in -1..1
        BY <4>1, PadIs
      <4>3. atHost[i] \in HostPad /\ (c \in atHost[i].held <=> c \in Held(was))
        BY <1>3, <3>1, <3>2
      <4>4. c \in Source(i)' <=> c \in Held(new)
        BY <3>2, <4>1
      <4> HIDE DEF was, new
      <4>5. CASE c = "moveUp"
        <5>1. ("moveUp" \in Held(was) <=> was.axis < 0) /\ ("moveUp" \in Held(new) <=> new.axis < 0)
          BY <4>1, HeldIs
        <5>2. "moveUp" \in Told(atHost[i], was, new).held <=>
                IF was.axis = new.axis THEN "moveUp" \in atHost[i].held
                ELSE new.axis < 0 \/ ("moveUp" \in atHost[i].held /\ ~(was.axis < 0))
          BY <4>1, <4>3, ToldIs
        <5> QED BY <4>1, <4>2, <4>3, <4>4, <4>5, <5>1, <5>2
      <4>6. CASE c = "moveDown"
        <5>1. ("moveDown" \in Held(was) <=> was.axis > 0) /\ ("moveDown" \in Held(new) <=> new.axis > 0)
          BY <4>1, HeldIs
        <5>2. "moveDown" \in Told(atHost[i], was, new).held <=>
                IF was.axis = new.axis THEN "moveDown" \in atHost[i].held
                ELSE new.axis > 0 \/ ("moveDown" \in atHost[i].held /\ ~(was.axis > 0))
          BY <4>1, <4>3, ToldIs, ZenonT(60)
        <5> QED BY <4>1, <4>2, <4>3, <4>4, <4>6, <5>1, <5>2
      <4> QED BY <4>5, <4>6
    <3> QED BY <3>3, <3>4
  <2>5. ASSUME NEW i \in Slot, <<i, "axis">> \notin padAmiss' PROVE atHost'[i].axis = previous'[i].axis
    <3>1. "axis" \notin Wronged(i) /\ atHost[i].axis = previous[i].axis
      BY <1>2, <1>9, <2>2, <2>5 DEF PadsFollow
    <3>2. CASE ~Polled(i)
      <4>1. "axis" \notin Held(previous[i]) /\ atHost'[i] = atHost[i] /\ previous'[i] = NoPad
        BY <2>1, <3>1, <3>2 DEF Wronged
      <4>2. previous[i].axis = 0 /\ NoPad.axis = 0
        BY <1>3, <4>1, HeldIs DEF NoPad
      <4> QED BY <3>1, <4>1, <4>2
    <3>3. CASE Polled(i)
      BY <1>3, <2>1, <3>1, <3>3, ToldIs, SMTT(60)
    <3> QED BY <3>2, <3>3
  <2> QED BY <2>1, <2>3, <2>4, <2>5, ZenonT(60) DEF PadsFollow, Buttons
<1>10. ~linked' => \A i \in Slot : atHost'[i].axis = 0
  BY <1>1, <1>8
<1>11. PadsFollow'
  BY <1>8, <1>9
<1> QED BY <1>6, <1>10, <1>11 DEF PadInv

LEMMA TouchKeeps == ASSUME PadInv, NEW f \in Finger, Touch(f) PROVE PadInv'
<1>1. /\ touching' = IF f \in touching THEN touching \ {f} ELSE touching \union {f}
      /\ UNCHANGED <<pads, previous, linked, limit, allows>>
  BY DEF Touch
<1>2. PadTypes /\ PadsFollow /\ DOMAIN atHost = Slot /\ 0 \in Slot
      /\ \A i \in Slot : atHost[i] \in HostPad
  BY DEF PadInv, PadTypes, Slot
<1>3. \A c : c # "confirm" => \A i \in Slot : c \in Source(i)' <=> c \in Source(i)
  BY <1>1 DEF Source, Touched
<1>4. \A i \in Slot : i # 0 => Source(i)' = Source(i)
  BY <1>1 DEF Source
<1>5. CASE ~linked \/ "touch" \notin allows
  <2>1. atHost' = atHost /\ padAmiss' = padAmiss
    BY <1>5 DEF Touch
  <2>2. PadTypes'
    BY <1>1, <1>2, <2>1 DEF PadTypes
  <2>3. linked => \A i \in Slot : Source(i)' = Source(i)
    BY <1>1, <1>5 DEF Source, Touched
  <2>4. PadsFollow'
    BY <1>1, <1>2, <2>1, <2>3, ZenonT(60) DEF PadsFollow
  <2> QED BY <1>1, <2>1, <2>2, <2>4 DEF PadInv
<1>6. CASE linked /\ "touch" \in allows /\ f \notin touching
  <2>1. atHost' = [atHost EXCEPT ![0].held = @ \union {"confirm"}] /\ padAmiss' = padAmiss
    BY <1>6 DEF Touch
  <2>2. /\ atHost'[0] = [atHost[0] EXCEPT !.held = @ \union {"confirm"}]
        /\ \A i \in Slot : i # 0 => atHost'[i] = atHost[i]
    BY <1>2, <2>1
  <2>3. /\ atHost'[0].held = atHost[0].held \union {"confirm"} /\ atHost'[0].axis = atHost[0].axis
        /\ atHost'[0] \in HostPad
    BY <1>2, <2>2 DEF HostPad, Buttons
  <2>4. PadTypes'
    BY <1>1, <1>2, <2>1, <2>2, <2>3 DEF PadTypes
  <2>5. "confirm" \in Source(0)'
    BY <1>1, <1>6 DEF Source, Touched
  <2>6. ASSUME NEW i \in Slot, NEW c \in {"confirm", "button-0", "moveUp", "moveDown"}, <<i, c>> \notin padAmiss'
        PROVE  c \in atHost'[i].held <=> c \in Source(i)'
    <3>1. c \in atHost[i].held <=> c \in Source(i)
      BY <1>2, <1>6, <2>1, <2>6 DEF PadsFollow
    <3>2. CASE i = 0 /\ c = "confirm"
      BY <2>3, <2>5, <3>2
    <3>3. CASE i # 0 \/ c # "confirm"
      <4>1. c \in Source(i)' <=> c \in Source(i)
        BY <1>3, <1>4, <3>3
      <4>2. c \in atHost'[i].held <=> c \in atHost[i].held
        BY <2>2, <2>3, <3>3
      <4> QED BY <3>1, <4>1, <4>2
    <3> QED BY <3>2, <3>3
  <2>7. \A i \in Slot : <<i, "axis">> \notin padAmiss' => atHost'[i].axis = previous'[i].axis
    BY <1>1, <1>2, <1>6, <2>1, <2>2, <2>3 DEF PadsFollow
  <2>8. PadsFollow'
    BY <1>1, <1>6, <2>6, <2>7 DEF PadsFollow
  <2> QED BY <1>1, <1>6, <2>4, <2>8 DEF PadInv
<1>7. CASE linked /\ "touch" \in allows /\ f \in touching
  <2>1. /\ atHost' = [atHost EXCEPT ![0].held = @ \ {"confirm"}]
        /\ padAmiss' = IF touching = {f} /\ "confirm" \notin Held(previous[0]) THEN padAmiss
                       ELSE padAmiss \union {<<0, "confirm">>}
    BY <1>7 DEF Touch
  <2>2. /\ atHost'[0] = [atHost[0] EXCEPT !.held = @ \ {"confirm"}]
        /\ \A i \in Slot : i # 0 => atHost'[i] = atHost[i]
    BY <1>2, <2>1
  <2>3. atHost'[0].held = atHost[0].held \ {"confirm"} /\ atHost'[0].axis = atHost[0].axis /\ atHost'[0] \in HostPad
    BY <1>2, <2>2 DEF HostPad
  <2>4. PadTypes'
    BY <1>1, <1>2, <2>1, <2>2, <2>3 DEF PadTypes
  <2>5. <<0, "confirm">> \notin padAmiss' => "confirm" \notin Source(0)'
    <3> SUFFICES ASSUME <<0, "confirm">> \notin padAmiss' PROVE "confirm" \notin Source(0)'
      OBVIOUS
    <3>1. touching = {f} /\ "confirm" \notin Held(previous[0])
      BY <2>1
    <3>2. touching' = {}
      BY <1>1, <3>1
    <3> QED BY <1>1, <3>1, <3>2 DEF Source, Touched
  <2>6. padAmiss \subseteq padAmiss'
    BY <2>1
  <2>8. ASSUME NEW i \in Slot, NEW c \in {"confirm", "button-0", "moveUp", "moveDown"}, <<i, c>> \notin padAmiss'
        PROVE  c \in atHost'[i].held <=> c \in Source(i)'
    <3>1. c \in atHost[i].held <=> c \in Source(i)
      BY <1>2, <1>7, <2>6, <2>8 DEF PadsFollow
    <3>2. CASE i = 0 /\ c = "confirm"
      BY <2>3, <2>5, <2>8, <3>2
    <3>3. CASE i # 0 \/ c # "confirm"
      <4>1. c \in Source(i)' <=> c \in Source(i)
        BY <1>3, <1>4, <3>3
      <4>2. c \in atHost'[i].held <=> c \in atHost[i].held
        BY <2>2, <2>3, <3>3
      <4> QED BY <3>1, <4>1, <4>2
    <3> QED BY <3>2, <3>3
  <2>9. \A i \in Slot : <<i, "axis">> \notin padAmiss' => atHost'[i].axis = previous'[i].axis
    BY <1>1, <1>2, <1>7, <2>2, <2>3, <2>6 DEF PadsFollow
  <2>7. PadsFollow'
    BY <1>1, <1>7, <2>8, <2>9 DEF PadsFollow
  <2> QED BY <1>1, <1>7, <2>4, <2>7 DEF PadInv
<1> QED BY <1>5, <1>6, <1>7

LEMMA AnsweredKeeps == ASSUME PadInv, NEW slots, NEW policy, Answered(slots, policy) PROVE PadInv'
<1>1. /\ linked' = TRUE /\ allows' = policy /\ UNCHANGED <<pads, previous, touching, atHost>>
      /\ padAmiss' = padAmiss \union (IF linked THEN {} ELSE UNION {{i} \X Source(i) : i \in Slot})
                     \union (IF touching = {} THEN {} ELSE {<<0, "confirm">>})
  BY DEF Answered
<1>2. PadTypes'
  <2>1. linked' \in BOOLEAN
    BY <1>1, Zenon
  <2> QED BY <1>1, <2>1 DEF PadInv, PadTypes
<1>3. padAmiss \subseteq padAmiss' /\ (touching # {} => <<0, "confirm">> \in padAmiss')
      /\ \A i \in Slot : \A c : ~linked /\ c \in Source(i) => <<i, c>> \in padAmiss'
  BY <1>1
<1>4. \A i \in Slot : \A c : (i = 0 /\ c = "confirm" /\ touching # {}) \/ (c \in Source(i)' <=> c \in Source(i))
  BY <1>1 DEF Source, Touched
<1>5. ASSUME NEW i \in Slot, NEW c \in {"confirm", "button-0", "moveUp", "moveDown"}, <<i, c>> \notin padAmiss'
      PROVE  c \in atHost'[i].held <=> c \in Source(i)'
  <2>1. <<i, c>> \notin padAmiss /\ (c \in Source(i)' <=> c \in Source(i)) /\ (~linked => c \notin Source(i))
    BY <1>3, <1>4, <1>5
  <2>2. c \in atHost[i].held <=> linked /\ c \in Source(i)
    BY <2>1 DEF PadInv, PadsFollow
  <2> QED BY <1>1, <2>1, <2>2
<1>6. ASSUME NEW i \in Slot, <<i, "axis">> \notin padAmiss' PROVE atHost'[i].axis = previous'[i].axis
  <2>1. <<i, "axis">> \notin padAmiss /\ (~linked => "axis" \notin Held(previous[i])) /\ previous[i] \in Pad
    BY <1>3, <1>6 DEF Source, PadInv, PadTypes
  <2>2. CASE linked
    BY <1>1, <2>1, <2>2 DEF PadInv, PadsFollow
  <2>3. CASE ~linked
    <3>1. previous[i].axis = 0
      BY <2>1, <2>3, HeldIs
    <3> QED BY <1>1, <2>3, <3>1 DEF PadInv
  <2> QED BY <2>2, <2>3
<1>7. PadsFollow'
  BY <1>1, <1>5, <1>6 DEF PadsFollow
<1> QED BY <1>1, <1>2, <1>7 DEF PadInv

LEMMA MovePadKeeps == ASSUME PadInv, (\E i \in Slot : MovePad(i)) \/ UNCHANGED padVars PROVE PadInv'
<1>1. UNCHANGED <<previous, touching, linked, limit, allows, atHost, padAmiss>>
  BY DEF MovePad, padVars
<1>2. pads' \in [Slot -> Pad]
  BY DEF PadInv, PadTypes, MovePad, padVars, Pad
<1>3. PadsFollow'
  BY <1>1, ZenonT(60) DEF PadInv, PadsFollow, Source, Touched
<1> QED BY <1>1, <1>2, <1>3 DEF PadInv, PadTypes

LEMMA PadsGoOn == PadInv /\ [PadNext]_padVars => PadInv'
BY PollKeeps, TouchKeeps, AnsweredKeeps, MovePadKeeps DEF PadNext

\* However controllers and fingers move between polls and answers, for any fingers and moves.
THEOREM PadsStayFollowed == PadSpec => []PadsFollow
<1>1. PadInv => PadsFollow
  BY DEF PadInv
<1> QED BY <1>1, PadBegins, PadsGoOn, PTL DEF PadSpec
-----------------------------------------------------------------------------
(***************************************************************************)
(* Keys.  The last event of a key says what the player means by it; it is  *)
(* under way, was executed, or the key is amiss.                           *)
(***************************************************************************)
KeyEvent == [key : Key, pressed : BOOLEAN, number : Nat]
UnderWay == running \union {wire[i] : i \in DOMAIN wire}

\* The page has seen how the player holds it.
Looked(k) == k \notin unseen \/ (sticky /\ k \in Modifier)

KeyTypes ==
  /\ sticky \in BOOLEAN /\ latched \subseteq Modifier /\ IsFiniteSet(latched)
  /\ ~sticky \/ focus = "away" => latched = {}
  /\ wire \in Seq(KeyEvent) /\ running \subseteq KeyEvent
  /\ number \in Nat /\ latest \in [Key -> Nat] /\ done \in [Key -> Nat]

OrderInv ==
  /\ \A k \in Key : done[k] <= latest[k] /\ latest[k] <= number
  /\ \A e \in UnderWay : e.number <= latest[e.key]

MeantInv ==
  \A e \in UnderWay : e.number = latest[e.key] /\ Looked(e.key) => (e.pressed <=> Meant(e.key))

LastInv ==
  \A k \in Key \ amiss :
    done[k] = latest[k] \/ \E e \in UnderWay : e.key = k /\ e.number = latest[k]

HeldInv ==
  \A k \in Key \ amiss : done[k] = latest[k] /\ Looked(k) => (k \in held <=> Meant(k))

\* While a modifier is latched, the letters that moved after it are still down.
ChordInv ==
  \A k \in latched, l \in Letter \ unseen : latest[l] > latest[k] => l \in down

EventsInv == OrderInv /\ MeantInv /\ LastInv /\ HeldInv
KeysInv == KeyTypes /\ EventsInv /\ ChordInv

\* A bounded set of numbers has a greatest one.
LEMMA MaxIs ==
  ASSUME NEW T \in SUBSET Nat, T # {}, NEW b \in Nat, \A t \in T : t <= b
  PROVE  Max(T) \in T /\ \A t \in T : t <= Max(T)
<1> DEFINE U == {n \in Nat : \A t \in T : t <= n}
<1>1. U \in SUBSET Nat /\ U # {}
  OBVIOUS
<1>2. PICK i \in U : \A j \in U : ~(<<j, i>> \in OpToRel(<, Nat))
  BY <1>1, WFMin, NatLessThanWellFounded, Zenon
<1>3. \A j \in U : ~(j < i)
  BY <1>2 DEF OpToRel
<1>4. i \in T
  <2> SUFFICES ASSUME i \notin T PROVE FALSE
    OBVIOUS
  <2>1. \A t \in T : t < i /\ t \in Nat
    OBVIOUS
  <2>2. PICK t \in T : TRUE
    OBVIOUS
  <2>3. i \in Nat /\ t \in Nat /\ t < i
    BY <2>1
  <2>4. i - 1 \in Nat
    BY <2>3
  <2>5. \A u \in T : u <= i - 1
    BY <2>1, <2>3
  <2>6. i - 1 \in U
    BY <2>4, <2>5
  <2>7. ~(i - 1 < i)
    BY <1>3, <2>6
  <2> QED BY <2>3, <2>7
<1>5. \E x \in T : \A y \in T : x >= y
  BY <1>4
<1>6. Max(T) \in T /\ \A y \in T : Max(T) >= y
  BY <1>5 DEF Max
<1> QED BY <1>6

LEMMA ReleasesAre ==
  ASSUME KeyTypes
  PROVE  /\ Releases \in Seq([key : Key, pressed : BOOLEAN]) /\ KeysOf(Releases) = latched
         /\ \A i \in DOMAIN Releases : ~Releases[i].pressed
<1> DEFINE n == Cardinality(latched)
           s == SetToSeq(latched)
<1>1. IsFiniteSet(latched) /\ n \in Nat /\ Bijection(1..n, latched) # {}
  BY FS_CardinalityType DEF KeyTypes, ExistsBijection
<1>2. \E f \in [1..n -> latched] : IsInjective(f)
  BY <1>1 DEF Bijection, Injection
<1>3. s \in [1..n -> latched] /\ IsInjective(s)
  BY <1>2 DEF SetToSeq
<1>4. s \in Injection(1..n, latched)
  BY <1>3 DEF Injection
<1>5. s \in Surjection(1..n, latched)
  <2>1. IsFiniteSet(1..n) /\ Cardinality(1..n) = n
    BY <1>1, FS_Interval
  <2> QED BY <1>1, <1>4, <2>1, FS_Injection
<1>6. \A k \in latched : \E i \in 1..n : s[i] = k
  BY <1>5 DEF Surjection
<1> HIDE DEF s
<1>7. Releases = [i \in 1..n |-> [key |-> s[i], pressed |-> FALSE]]
  BY DEF Releases, Event, s
<1> HIDE DEF n
<1>8. latched \subseteq Key
  BY DEF KeyTypes, Key
<1>9. \A i \in 1..n : [key |-> s[i], pressed |-> FALSE] \in [key : Key, pressed : BOOLEAN]
  BY <1>3, <1>8
<1>10. Releases \in Seq([key : Key, pressed : BOOLEAN])
  BY <1>1, <1>7, <1>9
<1>11. DOMAIN Releases = 1..n /\ \A i \in 1..n : Releases[i].key = s[i] /\ ~Releases[i].pressed
  BY <1>7
<1>12. KeysOf(Releases) = latched
  BY <1>3, <1>6, <1>11 DEF KeysOf
<1> QED BY <1>10, <1>11, <1>12

\* What is sent are the events, numbered on; the last one of each key is its latest.
LEMMA EmitIs ==
  ASSUME KeyTypes, OrderInv, NEW events \in Seq([key : Key, pressed : BOOLEAN]), Emit(events)
  PROVE  /\ number' \in Nat /\ number <= number' /\ latest' \in [Key -> Nat]
         /\ \A k \in Key : latest'[k] <= number'
         /\ \A k \in Key \ KeysOf(events) : latest'[k] = latest[k]
         /\ \A k \in KeysOf(events) : latest'[k] > number
         /\ ~connected => wire' = wire /\ amiss' = amiss \union KeysOf(events)
         /\ connected =>
              /\ wire' \in Seq(KeyEvent) /\ amiss' = amiss
              /\ \A i \in DOMAIN wire : \E j \in DOMAIN wire' : wire'[j] = wire[i]
              /\ \A j \in DOMAIN wire' :
                   \/ \E i \in DOMAIN wire : wire'[j] = wire[i]
                   \/ \E i \in DOMAIN events :
                        /\ wire'[j].key = events[i].key /\ wire'[j].pressed = events[i].pressed
                        /\ wire'[j].number <= latest'[events[i].key]
              /\ \A k \in KeysOf(events) : \E j \in DOMAIN wire' : wire'[j].key = k /\ wire'[j].number = latest'[k]
<1> DEFINE m == Len(events)
           numbered == [i \in DOMAIN events |->
                         [key |-> events[i].key, pressed |-> events[i].pressed, number |-> number + i]]
           of(k) == {numbered[i].number : i \in {j \in DOMAIN events : events[j].key = k}}
           top(k) == {latest[k]} \union of(k)
<1>1. /\ number' = number + m
      /\ latest' = [k \in Key |-> Max(top(k))]
      /\ IF connected THEN wire' = wire \o numbered /\ amiss' = amiss
         ELSE amiss' = amiss \union KeysOf(events) /\ wire' = wire
  BY DEF Emit
<1>2. /\ number \in Nat /\ m \in Nat /\ DOMAIN events = 1..m /\ latest \in [Key -> Nat] /\ wire \in Seq(KeyEvent)
      /\ \A i \in 1..m : events[i].key \in Key /\ events[i].pressed \in BOOLEAN
      /\ \A k \in Key : latest[k] <= number
  <2>1. number \in Nat /\ latest \in [Key -> Nat] /\ wire \in Seq(KeyEvent)
    BY DEF KeyTypes
  <2>2. \A k \in Key : latest[k] <= number
    BY DEF OrderInv
  <2>3. m \in Nat /\ DOMAIN events = 1..m
    OBVIOUS
  <2>4. \A i \in 1..m : events[i] \in [key : Key, pressed : BOOLEAN]
    BY ElementOfSeq
  <2> HIDE DEF m
  <2> QED BY <2>1, <2>2, <2>3, <2>4
<1> HIDE DEF m
<1>3. DOMAIN numbered = 1..m /\ \A i \in 1..m : /\ numbered[i].key = events[i].key
        /\ numbered[i].pressed = events[i].pressed /\ numbered[i].number = number + i
        /\ numbered[i] \in KeyEvent
  BY <1>2 DEF KeyEvent
<1>4. numbered \in Seq(KeyEvent) /\ Len(numbered) = m
  <2>1. numbered \in [1..m -> KeyEvent] /\ DOMAIN numbered = 1..m
    BY <1>2, <1>3
  <2>2. m \in Nat
    BY <1>2
  <2> HIDE DEF numbered
  <2>3. numbered \in Seq(KeyEvent)
    BY <2>1, <2>2
  <2> QED BY <2>1, <2>2, <2>3
<1> HIDE DEF numbered
<1>5. \A k : \A n : n \in of(k) <=> \E i \in 1..m : events[i].key = k /\ n = number + i
  BY <1>2, <1>3
<1> HIDE DEF of
<1>6. ASSUME NEW k \in Key
      PROVE  /\ Max(top(k)) \in top(k) /\ (\A t \in top(k) : t <= Max(top(k))) /\ top(k) \in SUBSET Nat
             /\ \A t \in top(k) : t <= number + m
  <2>4. latest[k] \in Nat /\ latest[k] <= number /\ number \in Nat /\ m \in Nat
    BY <1>2
  <2>5. ASSUME NEW t \in of(k) PROVE t \in Nat /\ t <= number + m
    <3>1. PICK i \in 1..m : t = number + i
      BY <1>5
    <3> QED BY <2>4, <3>1
  <2>6. \A t \in top(k) : t = latest[k] \/ t \in of(k)
    OBVIOUS
  <2>1. \A t \in top(k) : t \in Nat /\ t <= number + m
    BY <2>4, <2>5, <2>6
  <2>7. latest[k] \in top(k)
    OBVIOUS
  <2>8. number + m \in Nat
    BY <2>4
  <2>2. top(k) \in SUBSET Nat /\ top(k) # {} /\ number + m \in Nat
    BY <2>1, <2>7, <2>8, Zenon
  <2> HIDE DEF top
  <2>3. Max(top(k)) \in top(k) /\ (\A t \in top(k) : t <= Max(top(k)))
    BY <2>1, <2>2, MaxIs
  <2> QED BY <2>1, <2>2, <2>3
<1>7. \A k \in Key : latest'[k] = Max(top(k))
  BY <1>1
<1>8. number' \in Nat /\ number <= number'
  BY <1>1, <1>2
<1>9. \A k \in Key : latest'[k] \in Nat /\ latest'[k] <= number'
  BY <1>1, <1>6, <1>7
<1>10. latest' \in [Key -> Nat]
  BY <1>1, <1>6
<1>11. KeysOf(events) = {events[i].key : i \in 1..m}
  BY <1>2 DEF KeysOf
<1>12. ASSUME NEW k \in Key \ KeysOf(events) PROVE latest'[k] = latest[k]
  <2>1. top(k) = {latest[k]}
    BY <1>5, <1>11, <1>12
  <2> QED BY <1>6, <1>7, <2>1
<1>13. ASSUME NEW k \in KeysOf(events)
       PROVE  k \in Key /\ latest'[k] > number /\ \E i \in 1..m : events[i].key = k /\ latest'[k] = number + i
  <2>1. PICK i \in 1..m : events[i].key = k
    BY <1>11
  <2>2. k \in Key
    BY <1>2, <2>1
  <2>3. number + i \in top(k)
    BY <1>5, <2>1
  <2>4. latest'[k] >= number + i /\ latest'[k] \in top(k)
    BY <1>6, <1>7, <2>2, <2>3
  <2>5. latest'[k] > number
    BY <1>2, <1>9, <2>2, <2>4
  <2>6. latest'[k] \in of(k)
    BY <1>2, <2>2, <2>4, <2>5
  <2> QED BY <1>5, <2>2, <2>5, <2>6
<1>14. ASSUME NEW i \in 1..m PROVE numbered[i].number <= latest'[events[i].key]
  <2>1. events[i].key \in Key /\ number + i \in top(events[i].key)
    BY <1>2, <1>5
  <2> QED BY <1>3, <1>6, <1>7, <2>1
<1>15. ASSUME connected
       PROVE  /\ wire' \in Seq(KeyEvent) /\ amiss' = amiss
              /\ \A i \in DOMAIN wire : \E j \in DOMAIN wire' : wire'[j] = wire[i]
              /\ \A j \in DOMAIN wire' :
                   \/ \E i \in DOMAIN wire : wire'[j] = wire[i]
                   \/ \E i \in DOMAIN events :
                        /\ wire'[j].key = events[i].key /\ wire'[j].pressed = events[i].pressed
                        /\ wire'[j].number <= latest'[events[i].key]
              /\ \A k \in KeysOf(events) : \E j \in DOMAIN wire' : wire'[j].key = k /\ wire'[j].number = latest'[k]
  <2>9. wire' = wire \o numbered /\ amiss' = amiss
    BY <1>1, <1>15, Zenon
  <2>1. wire' = wire \o numbered /\ amiss' = amiss /\ wire' \in Seq(KeyEvent)
    BY <1>2, <1>4, <2>9
  <2>11. Len(wire \o numbered) = Len(wire) + Len(numbered)
    BY <1>2, <1>4, ConcatProperties
  <2>10. Len(wire \o numbered) = Len(wire) + m /\ Len(wire) \in Nat
    BY <1>2, <1>4, <2>11
  <2>2. Len(wire) \in Nat /\ Len(wire') = Len(wire) + m
        /\ DOMAIN wire = 1..Len(wire) /\ DOMAIN wire' = 1..Len(wire')
    BY <1>2, <2>1, <2>10
  <2>3. \A j \in 1..Len(wire) : wire'[j] = wire[j]
    BY <1>2, <1>4, <2>1
  <2>4. \A i \in 1..m : wire'[Len(wire) + i] = numbered[i] /\ Len(wire) + i \in DOMAIN wire'
    BY <1>2, <1>4, <2>1, <2>2
  <2>5. \A j \in DOMAIN wire' : j \in 1..Len(wire) \/ (j - Len(wire) \in 1..m /\ wire'[j] = numbered[j - Len(wire)])
    <3> SUFFICES ASSUME NEW j \in DOMAIN wire', j \notin 1..Len(wire)
                 PROVE  j - Len(wire) \in 1..m /\ wire'[j] = numbered[j - Len(wire)]
      OBVIOUS
    <3>1. m \in Nat /\ j \in 1..(Len(wire) + m)
      BY <1>2, <2>2
    <3>2. j - Len(wire) \in 1..m /\ Len(wire) + (j - Len(wire)) = j
      BY <2>2, <3>1
    <3> QED BY <2>4, <3>2
  <2>6. \A i \in DOMAIN wire : \E j \in DOMAIN wire' : wire'[j] = wire[i]
    BY <1>2, <2>2, <2>3
  <2>7. ASSUME NEW j \in DOMAIN wire'
        PROVE  \/ \E i \in DOMAIN wire : wire'[j] = wire[i]
               \/ \E i \in DOMAIN events :
                    /\ wire'[j].key = events[i].key /\ wire'[j].pressed = events[i].pressed
                    /\ wire'[j].number <= latest'[events[i].key]
    <3>1. CASE j \in 1..Len(wire)
      BY <2>2, <2>3, <3>1
    <3>2. CASE j - Len(wire) \in 1..m /\ wire'[j] = numbered[j - Len(wire)]
      <4> DEFINE i == j - Len(wire)
      <4>1. i \in 1..m /\ wire'[j] = numbered[i]
        BY <3>2
      <4> HIDE DEF i
      <4> QED BY <1>2, <1>3, <1>14, <4>1
    <3> QED BY <2>5, <3>1, <3>2
  <2>8. ASSUME NEW k \in KeysOf(events)
        PROVE  \E j \in DOMAIN wire' : wire'[j].key = k /\ wire'[j].number = latest'[k]
    <3>1. PICK i \in 1..m : events[i].key = k /\ latest'[k] = number + i
      BY <1>13
    <3> QED BY <1>3, <2>4, <3>1
  <2> QED BY <2>1, <2>6, <2>7, <2>8
<1> QED BY <1>1, <1>8, <1>9, <1>10, <1>12, <1>13, <1>15
LEMMA KeysBegin == KeysInit => KeysInv
<1> SUFFICES ASSUME KeysInit PROVE KeysInv
  OBVIOUS
<1>1. /\ sticky \in BOOLEAN /\ latched = {} /\ wire = <<>> /\ running = {} /\ number = 0 /\ down = {} /\ held = {}
      /\ latest = [k \in Key |-> 0] /\ done = [k \in Key |-> 0]
  BY DEF KeysInit
<1>2. KeyTypes
  BY <1>1, FS_EmptySet DEF KeyTypes
<1>3. UnderWay = {}
  BY <1>1 DEF UnderWay
<1>4. OrderInv /\ MeantInv
  BY <1>1, <1>3 DEF OrderInv, MeantInv
<1>5. LastInv
  BY <1>1 DEF LastInv
<1>6. HeldInv
  BY <1>1 DEF HeldInv, Meant
<1>7. ChordInv
  BY <1>1 DEF ChordInv
<1> QED BY <1>2, <1>4, <1>5, <1>6, <1>7 DEF KeysInv, EventsInv

\* Events that say what the player means keep the host's idea of it right.
LEMMA EmitKeeps ==
  ASSUME KeyTypes, EventsInv, NEW events \in Seq([key : Key, pressed : BOOLEAN]), Emit(events),
         UNCHANGED <<running, held, done, sticky>>,
         \A i \in DOMAIN events : events[i].pressed <=> Meant(events[i].key)',
         \A k \in Key \ KeysOf(events) : Looked(k)' => Looked(k) /\ (Meant(k)' <=> Meant(k))
  PROVE  /\ EventsInv' /\ wire' \in Seq(KeyEvent) /\ number' \in Nat /\ latest' \in [Key -> Nat]
         /\ \A k \in Key \ KeysOf(events) : latest'[k] = latest[k]
         /\ \A k \in KeysOf(events) : latest'[k] > number
<1>1. OrderInv /\ MeantInv /\ LastInv /\ HeldInv
  BY DEF EventsInv
<1>2. /\ number' \in Nat /\ number <= number' /\ latest' \in [Key -> Nat]
      /\ \A k \in Key : latest'[k] <= number'
      /\ \A k \in Key \ KeysOf(events) : latest'[k] = latest[k]
      /\ \A k \in KeysOf(events) : latest'[k] > number
      /\ ~connected => wire' = wire /\ amiss' = amiss \union KeysOf(events)
      /\ connected =>
           /\ wire' \in Seq(KeyEvent) /\ amiss' = amiss
           /\ \A i \in DOMAIN wire : \E j \in DOMAIN wire' : wire'[j] = wire[i]
           /\ \A j \in DOMAIN wire' :
                \/ \E i \in DOMAIN wire : wire'[j] = wire[i]
                \/ \E i \in DOMAIN events :
                     /\ wire'[j].key = events[i].key /\ wire'[j].pressed = events[i].pressed
                     /\ wire'[j].number <= latest'[events[i].key]
           /\ \A k \in KeysOf(events) : \E j \in DOMAIN wire' : wire'[j].key = k /\ wire'[j].number = latest'[k]
  BY <1>1, EmitIs
<1>3. /\ number \in Nat /\ latest \in [Key -> Nat] /\ done \in [Key -> Nat] /\ wire \in Seq(KeyEvent)
      /\ running \subseteq KeyEvent
      /\ \A k \in Key : done[k] <= latest[k] /\ latest[k] <= number
  BY <1>1 DEF KeyTypes, OrderInv
<1>4. \A i \in DOMAIN wire : wire[i] \in KeyEvent
  BY <1>3
<1>5. \A e \in UnderWay : e.key \in Key /\ e.number \in Nat
  BY <1>3, <1>4 DEF UnderWay, KeyEvent
<1>6. KeysOf(events) \subseteq Key
  <2>1. DOMAIN events = 1..Len(events)
    OBVIOUS
  <2>2. \A i \in DOMAIN events : events[i] \in [key : Key, pressed : BOOLEAN]
    BY <2>1, ElementOfSeq
  <2> QED BY <2>2 DEF KeysOf
<1>7. \A e \in UnderWay' :
        \/ e \in UnderWay
        \/ \E i \in DOMAIN events :
             e.key = events[i].key /\ e.pressed = events[i].pressed /\ e.number <= latest'[e.key]
  <2> SUFFICES ASSUME NEW e \in UnderWay'
               PROVE  \/ e \in UnderWay
                      \/ \E i \in DOMAIN events :
                           e.key = events[i].key /\ e.pressed = events[i].pressed /\ e.number <= latest'[e.key]
    OBVIOUS
  <2>1. CASE e \in running
    BY <2>1 DEF UnderWay
  <2>2. CASE e \notin running
    <3>1. PICK j \in DOMAIN wire' : e = wire'[j]
      BY <2>2 DEF UnderWay
    <3>2. CASE ~connected
      BY <1>2, <3>1, <3>2 DEF UnderWay
    <3>3. CASE connected
      <4>1. CASE \E i \in DOMAIN wire : wire'[j] = wire[i]
        BY <3>1, <4>1 DEF UnderWay
      <4>2. CASE \E i \in DOMAIN events :
                   /\ wire'[j].key = events[i].key /\ wire'[j].pressed = events[i].pressed
                   /\ wire'[j].number <= latest'[events[i].key]
        BY <3>1, <4>2
      <4> QED BY <1>2, <3>3, <4>1, <4>2
    <3> QED BY <3>2, <3>3
  <2> QED BY <2>1, <2>2
<1>8. UnderWay \subseteq UnderWay'
  <2>1. CASE ~connected
    BY <1>2, <2>1 DEF UnderWay
  <2>2. CASE connected
    BY <1>2, <2>2 DEF UnderWay
  <2> QED BY <2>1, <2>2
<1>9. \A e \in UnderWay : e.number <= latest[e.key]
  BY <1>1 DEF OrderInv
<1>10. ASSUME NEW k \in Key PROVE latest[k] <= latest'[k]
  <2>1. latest[k] \in Nat /\ latest'[k] \in Nat /\ latest[k] <= number
    BY <1>2, <1>3
  <2>2. latest'[k] = latest[k] \/ latest'[k] > number
    BY <1>2
  <2> QED BY <1>3, <2>1, <2>2
<1>11. OrderInv'
  <2>1. \A k \in Key : done'[k] <= latest'[k] /\ latest'[k] <= number'
    BY <1>2, <1>3, <1>10
  <2>2. ASSUME NEW e \in UnderWay' PROVE e.number <= latest'[e.key]
    <3>1. CASE e \in UnderWay
      BY <1>2, <1>3, <1>5, <1>9, <1>10, <3>1
    <3> QED BY <1>7, <3>1
  <2> QED BY <2>1, <2>2 DEF OrderInv
<1>12. MeantInv'
  <2> SUFFICES ASSUME NEW e \in UnderWay', e.number = latest'[e.key], Looked(e.key)'
               PROVE  e.pressed <=> Meant(e.key)'
    BY DEF MeantInv
  <2>1. CASE e \in UnderWay
    <3>1. e.key \in Key /\ e.number \in Nat /\ e.number <= latest[e.key] /\ latest[e.key] <= number
      BY <1>3, <1>5, <1>9, <2>1
    <3>2. e.key \notin KeysOf(events)
      BY <1>2, <1>3, <3>1
    <3>3. e.number = latest[e.key] /\ Looked(e.key) /\ (Meant(e.key)' <=> Meant(e.key))
      BY <1>2, <3>1, <3>2
    <3> QED BY <1>1, <2>1, <3>3 DEF MeantInv
  <2>2. CASE \E i \in DOMAIN events : e.key = events[i].key /\ e.pressed = events[i].pressed
    <3>1. PICK i \in DOMAIN events : e.key = events[i].key /\ e.pressed = events[i].pressed
      BY <2>2
    <3>2. events[i].pressed <=> Meant(events[i].key)'
      OBVIOUS
    <3> QED BY <3>1, <3>2
  <2> QED BY <1>7, <2>1, <2>2
<1>13. \A k \in Key \ amiss' : k \notin amiss /\ (k \in KeysOf(events) => connected)
  BY <1>2
<1>14. LastInv'
  <2> SUFFICES ASSUME NEW k \in Key \ amiss', done'[k] # latest'[k]
               PROVE  \E e \in UnderWay' : e.key = k /\ e.number = latest'[k]
    BY DEF LastInv
  <2>1. CASE k \in KeysOf(events)
    <3>1. PICK j \in DOMAIN wire' : wire'[j].key = k /\ wire'[j].number = latest'[k]
      BY <1>2, <1>13, <2>1
    <3> QED BY <3>1 DEF UnderWay
  <2>2. CASE k \notin KeysOf(events)
    <3>1. latest'[k] = latest[k] /\ done[k] # latest[k] /\ k \in Key \ amiss
      BY <1>2, <1>13, <2>2
    <3>2. \E e \in UnderWay : e.key = k /\ e.number = latest[k]
      BY <1>1, <3>1 DEF LastInv
    <3> QED BY <1>8, <3>1, <3>2
  <2> QED BY <2>1, <2>2
<1>15. HeldInv'
  <2> SUFFICES ASSUME NEW k \in Key \ amiss', done'[k] = latest'[k], Looked(k)'
               PROVE  k \in held' <=> Meant(k)'
    BY DEF HeldInv
  <2>1. k \notin KeysOf(events)
    BY <1>2, <1>3
  <2>2. k \in Key \ amiss /\ done[k] = latest[k] /\ Looked(k) /\ (Meant(k)' <=> Meant(k))
    BY <1>2, <1>13, <2>1
  <2> QED BY <1>1, <2>2 DEF HeldInv
<1>16. wire' \in Seq(KeyEvent)
  BY <1>2, <1>3
<1> QED BY <1>2, <1>11, <1>12, <1>14, <1>15, <1>16 DEF EventsInv

\* So does a step that sends nothing and changes nothing of what is meant.
LEMMA StillKeeps ==
  ASSUME EventsInv, UNCHANGED <<running, wire, number, latest, done, held, amiss>>,
         \A k \in Key : Looked(k)' => Looked(k) /\ (Meant(k)' <=> Meant(k)),
         \A e \in UnderWay : e.key \in Key
  PROVE  EventsInv'
<1>1. UnderWay' = UnderWay
  BY DEF UnderWay
<1>2. OrderInv' /\ LastInv'
  BY <1>1 DEF EventsInv, OrderInv, LastInv
<1>3. MeantInv'
  BY <1>1 DEF EventsInv, MeantInv
<1>4. HeldInv'
  BY DEF EventsInv, HeldInv
<1> QED BY <1>2, <1>3, <1>4 DEF EventsInv

\* An event that is lost or refused leaves its key amiss.
LEMMA LossKeeps ==
  ASSUME EventsInv, UNCHANGED <<number, latest, done, held, sticky, unseen, down, latched>>,
         UnderWay' \subseteq UnderWay, amiss \subseteq amiss',
         \A e \in UnderWay : e \in UnderWay' \/ e.key \in amiss'
  PROVE  EventsInv'
<1>1. \A k : (Looked(k)' <=> Looked(k)) /\ (Meant(k)' <=> Meant(k))
  BY DEF Looked, Meant
<1>2. OrderInv'
  BY DEF EventsInv, OrderInv
<1>3. MeantInv'
  BY <1>1 DEF EventsInv, MeantInv
<1>4. LastInv'
  BY DEF EventsInv, LastInv
<1>5. HeldInv'
  BY <1>1 DEF EventsInv, HeldInv
<1> QED BY <1>2, <1>3, <1>4, <1>5 DEF EventsInv

LEMMA UnderWayIs ==
  ASSUME KeyTypes
  PROVE  UnderWay \subseteq KeyEvent /\ \A e \in UnderWay : e.key \in Key /\ e.number \in Nat
<1>1. wire \in Seq(KeyEvent) /\ running \subseteq KeyEvent
  BY DEF KeyTypes
<1>2. \A i \in DOMAIN wire : wire[i] \in KeyEvent
  BY <1>1
<1>3. UnderWay \subseteq KeyEvent
  BY <1>1, <1>2 DEF UnderWay
<1> QED BY <1>3 DEF KeyEvent
\* What is sent says what is latched after it, and how the other keys are held.
ProcessRight(k, press, after, events) ==
  /\ after \subseteq Modifier /\ IsFiniteSet(after) /\ (~sticky => after = {})
  /\ events \in Seq([key : Key, pressed : BOOLEAN])
  /\ \A i \in DOMAIN events :
       IF sticky /\ events[i].key \in Modifier THEN events[i].pressed <=> events[i].key \in after
       ELSE events[i].key = k /\ (events[i].pressed <=> press)
  /\ k \in KeysOf(events) \/ (sticky /\ k \in Modifier)
  /\ \A m \in Modifier \ KeysOf(events) : m \in after <=> m \in latched
  /\ \A m \in KeysOf(events) : m = k \/ m \in Modifier
  /\ k \in Letter /\ ~press => after = {}

\* What the sticky keys make of a key that goes down or up.
LEMMA ProcessIs ==
  ASSUME KeyTypes, NEW k \in Key, NEW press \in BOOLEAN
  PROVE  ProcessRight(k, press, Process(k, press)[1], Process(k, press)[2])
<1> DEFINE after == Process(k, press)[1]
           events == Process(k, press)[2]
<1>0. after = Process(k, press)[1] /\ events = Process(k, press)[2]
  OBVIOUS
<1> HIDE DEF after, events
<1> SUFFICES
      /\ after \subseteq Modifier /\ IsFiniteSet(after) /\ (~sticky => after = {})
      /\ events \in Seq([key : Key, pressed : BOOLEAN])
      /\ \A i \in DOMAIN events :
           IF sticky /\ events[i].key \in Modifier THEN events[i].pressed <=> events[i].key \in after
           ELSE events[i].key = k /\ (events[i].pressed <=> press)
      /\ k \in KeysOf(events) \/ (sticky /\ k \in Modifier)
      /\ \A m \in Modifier \ KeysOf(events) : m \in after <=> m \in latched
      /\ \A m \in KeysOf(events) : m = k \/ m \in Modifier
      /\ k \in Letter /\ ~press => after = {}
  BY <1>0 DEF ProcessRight
<1> DEFINE Ev == [key : Key, pressed : BOOLEAN]
<1>1. latched \subseteq Modifier /\ IsFiniteSet(latched) /\ (~sticky => latched = {}) /\ Modifier \cap Letter = {}
  BY KeyAssumption DEF KeyTypes
<1>2. ASSUME NEW e \in Ev
      PROVE  /\ <<e>> \in Seq(Ev) /\ DOMAIN <<e>> = {1} /\ <<e>>[1] = e /\ KeysOf(<<e>>) = {e.key}
  <2>1. DOMAIN <<e>> = {1} /\ <<e>>[1] = e
    OBVIOUS
  <2> QED BY <2>1 DEF KeysOf
<1>3. Event(k, press) \in Ev /\ Event(k, TRUE) \in Ev /\ Event(k, FALSE) \in Ev
  BY DEF Event
<1>4. Event(k, press).key = k /\ Event(k, TRUE).key = k /\ Event(k, FALSE).key = k
      /\ (Event(k, press).pressed <=> press) /\ Event(k, TRUE).pressed /\ ~Event(k, FALSE).pressed
  BY DEF Event
<1> HIDE DEF Ev
<1>5. CASE ~sticky
  <2>1. after = latched /\ events = <<Event(k, press)>>
    BY <1>0, <1>5 DEF Process
  <2> QED BY <1>1, <1>2, <1>3, <1>4, <1>5, <2>1 DEF Ev
<1>6. CASE sticky /\ k \in Letter /\ press
  <2>1. after = latched /\ events = <<Event(k, TRUE)>>
    BY <1>0, <1>6 DEF Process
  <2>2. events \in Seq(Ev) /\ DOMAIN events = {1} /\ events[1] = Event(k, TRUE) /\ KeysOf(events) = {k}
    BY <1>2, <1>3, <1>4, <2>1
  <2>3. k \notin Modifier
    BY <1>1, <1>6
  <2>4. \A i \in DOMAIN events : events[i].key = k /\ events[i].pressed
    BY <1>4, <2>2
  <2> QED BY <1>1, <1>6, <2>1, <2>2, <2>3, <2>4 DEF Ev
<1>7. CASE sticky /\ k \in Letter /\ ~press
  <2>1. after = {} /\ events = <<Event(k, FALSE)>> \o Releases
    BY <1>0, <1>7 DEF Process
  <2> DEFINE n == Len(Releases)
  <2>2. /\ Releases \in Seq(Ev) /\ KeysOf(Releases) = latched /\ n \in Nat /\ DOMAIN Releases = 1..n
        /\ \A i \in 1..n : ~Releases[i].pressed
    <3>1. Releases \in Seq(Ev) /\ KeysOf(Releases) = latched /\ \A i \in DOMAIN Releases : ~Releases[i].pressed
      BY ReleasesAre DEF Ev
    <3> QED BY <3>1
  <2> DEFINE first == <<Event(k, FALSE)>>
  <2>10. first \in Seq(Ev) /\ Len(first) = 1 /\ first[1] = Event(k, FALSE)
    BY <1>2, <1>3
  <2>11. events = first \o Releases
    BY <2>1
  <2> HIDE DEF first, n
  <2>12. events \in Seq(Ev)
    BY <2>2, <2>10, <2>11
  <2>20. Releases \in Seq(Ev)
    BY <2>2
  <2>13. /\ Len(events) = Len(first) + Len(Releases)
         /\ \A i \in 1..(Len(first) + Len(Releases)) :
              events[i] = IF i <= Len(first) THEN first[i] ELSE Releases[i - Len(first)]
    <3> HIDE DEF Ev
    <3>1. Len(first \o Releases) = Len(first) + Len(Releases)
      BY <2>20, <2>10, ConcatProperties, Zenon
    <3>2. \A i \in 1..(Len(first) + Len(Releases)) :
            (first \o Releases)[i] = IF i <= Len(first) THEN first[i] ELSE Releases[i - Len(first)]
      BY <2>20, <2>10, ConcatProperties, Zenon
    <3> QED BY <2>11, <3>1, <3>2
  <2>14. DOMAIN events = 1..Len(events)
    BY <2>12
  <2>15. Len(Releases) = n
    BY DEF n
  <2>3. /\ events \in Seq(Ev) /\ DOMAIN events = 1..(1 + n)
        /\ events[1] = Event(k, FALSE)
        /\ \A i \in 2..(1 + n) : events[i] = Releases[i - 1]
    <3>1. n \in Nat /\ Len(first) = 1 /\ Len(Releases) = n
      BY <2>2, <2>10, <2>15
    <3>2. DOMAIN events = 1..(1 + n)
      BY <2>13, <2>14, <3>1
    <3>3. \A i \in 1..(1 + n) : events[i] = IF i <= 1 THEN first[i] ELSE Releases[i - 1]
      BY <2>13, <3>1
    <3>4. events[1] = first[1]
      BY <3>1, <3>3
    <3>5. \A i \in 2..(1 + n) : events[i] = Releases[i - 1]
      BY <3>1, <3>3
    <3> QED BY <2>10, <2>12, <3>2, <3>4, <3>5
  <2>4. \A i \in 1..n : Releases[i].key \in latched
    BY <2>2 DEF KeysOf
  <2>5. ASSUME NEW i \in DOMAIN events
        PROVE  \/ events[i].key = k /\ ~events[i].pressed
               \/ events[i].key \in latched /\ ~events[i].pressed
    <3>1. CASE i = 1
      BY <1>4, <2>3, <3>1
    <3>2. CASE i # 1
      <4>1. i - 1 \in 1..n /\ events[i] = Releases[i - 1]
        BY <2>2, <2>3, <3>2
      <4> QED BY <2>2, <2>4, <4>1
    <3> QED BY <3>1, <3>2
  <2>6. k \in KeysOf(events)
    <3>1. 1 \in DOMAIN events /\ events[1].key = k
      <4>1. n \in Nat
        BY <2>2
      <4>2. 1 \in DOMAIN events
        BY <2>3, <4>1
      <4>3. events[1] = Event(k, FALSE) /\ Event(k, FALSE).key = k
        BY <1>4, <2>3
      <4> QED BY <4>2, <4>3, Zenon
    <3> QED BY <3>1 DEF KeysOf
  <2>7. ASSUME NEW m \in latched PROVE m \in KeysOf(events)
    <3>1. PICK i \in 1..n : Releases[i].key = m
      BY <2>2 DEF KeysOf
    <3>2. i + 1 \in DOMAIN events /\ events[i + 1] = Releases[i]
      BY <2>2, <2>3
    <3> QED BY <3>1, <3>2 DEF KeysOf
  <2>8. \A m \in KeysOf(events) : m = k \/ m \in latched
    BY <2>5 DEF KeysOf
  <2>9. IsFiniteSet({})
    BY FS_EmptySet
  <2>16. k \notin Modifier /\ latched \subseteq Modifier
    BY <1>1, <1>7
  <2>17. \A i \in DOMAIN events :
           IF sticky /\ events[i].key \in Modifier THEN events[i].pressed <=> events[i].key \in after
           ELSE events[i].key = k /\ (events[i].pressed <=> press)
    BY <1>7, <2>1, <2>5, <2>16
  <2>18. events \in Seq([key : Key, pressed : BOOLEAN])
    BY <2>3 DEF Ev
  <2> QED BY <1>7, <2>1, <2>6, <2>7, <2>8, <2>9, <2>16, <2>17, <2>18
<1>8. CASE sticky /\ k \in Modifier /\ ~press
  <2>1. k \notin Letter
    BY <1>1, <1>8
  <2>2. after = latched /\ events = <<>>
    BY <1>0, <1>8, <2>1 DEF Process
  <2>3. DOMAIN events = {} /\ KeysOf(events) = {} /\ events \in Seq(Ev)
    BY <2>2 DEF KeysOf
  <2> QED BY <1>1, <1>8, <2>1, <2>2, <2>3 DEF Ev
<1>9. CASE sticky /\ k \in Modifier /\ press /\ k \in latched
  <2>1. k \notin Letter
    BY <1>1, <1>9
  <2>2. after = latched \ {k} /\ events = <<Event(k, FALSE)>>
    BY <1>0, <1>9, <2>1 DEF Process
  <2>3. IsFiniteSet(after)
    BY <1>1, <2>2, FS_RemoveElement
  <2>4. events \in Seq(Ev) /\ DOMAIN events = {1} /\ events[1] = Event(k, FALSE) /\ KeysOf(events) = {k}
    BY <1>2, <1>3, <1>4, <2>2
  <2>5. \A i \in DOMAIN events : events[i].key = k /\ ~events[i].pressed
    BY <1>4, <2>4
  <2> QED BY <1>1, <1>9, <2>1, <2>2, <2>3, <2>4, <2>5 DEF Ev
<1>10. CASE sticky /\ k \in Modifier /\ press /\ k \notin latched
  <2>1. k \notin Letter
    BY <1>1, <1>10
  <2>2. after = latched \union {k} /\ events = <<Event(k, TRUE)>>
    BY <1>0, <1>10, <2>1 DEF Process
  <2>3. IsFiniteSet(after)
    BY <1>1, <2>2, FS_AddElement
  <2>4. events \in Seq(Ev) /\ DOMAIN events = {1} /\ events[1] = Event(k, TRUE) /\ KeysOf(events) = {k}
    BY <1>2, <1>3, <1>4, <2>2
  <2>5. \A i \in DOMAIN events : events[i].key = k /\ events[i].pressed
    BY <1>4, <2>4
  <2> QED BY <1>1, <1>10, <2>1, <2>2, <2>3, <2>4, <2>5 DEF Ev
<1> QED BY <1>5, <1>6, <1>7, <1>8, <1>9, <1>10 DEF Key

LEMMA StrokeKeeps ==
  ASSUME KeysInv, NEW k \in Key, NEW press \in BOOLEAN, Stroke(k, press)
  PROVE  KeysInv'
<1>1. KeyTypes /\ EventsInv /\ ChordInv
  BY DEF KeysInv
<1>2. /\ k \in down' <=> press
      /\ \A m : m # k => (m \in down' <=> m \in down)
      /\ UNCHANGED <<focus, sticky, running, done, held>>
  BY DEF Stroke
<1>3. sticky \in BOOLEAN /\ latched \subseteq Modifier /\ Modifier \cap Letter = {}
  BY <1>1, KeyAssumption DEF KeyTypes
<1>4. CASE focus = "page"
  <2>0. PICK events : events = Process(k, press)[2]
    OBVIOUS
  <2>1. latched' = Process(k, press)[1] /\ Emit(events) /\ unseen' = unseen \ {k}
    BY <1>4, <2>0 DEF Stroke
  <2>12. ProcessRight(k, press, latched', events)
    BY <1>1, <2>0, <2>1, ProcessIs
  <2>2. latched' \subseteq Modifier /\ IsFiniteSet(latched') /\ (~sticky => latched' = {})
    BY <2>12 DEF ProcessRight
  <2>3. events \in Seq([key : Key, pressed : BOOLEAN])
    BY <2>12 DEF ProcessRight
  <2>4. \A i \in DOMAIN events :
          IF sticky /\ events[i].key \in Modifier THEN events[i].pressed <=> events[i].key \in latched'
          ELSE events[i].key = k /\ (events[i].pressed <=> press)
    BY <2>12 DEF ProcessRight
  <2>5. /\ k \in KeysOf(events) \/ (sticky /\ k \in Modifier)
        /\ \A m \in Modifier \ KeysOf(events) : m \in latched' <=> m \in latched
    BY <2>12 DEF ProcessRight
  <2>6. /\ \A m \in KeysOf(events) : m = k \/ m \in Modifier
        /\ k \in Letter /\ ~press => latched' = {}
    BY <2>12 DEF ProcessRight
  <2>7. \A i \in DOMAIN events : events[i].pressed <=> Meant(events[i].key)'
    BY <1>2, <2>4 DEF Meant
  <2>8. ASSUME NEW m \in Key \ KeysOf(events), Looked(m)'
        PROVE  Looked(m) /\ (Meant(m)' <=> Meant(m))
    <3>1. CASE sticky /\ m \in Modifier
      BY <1>2, <2>5, <3>1 DEF Looked, Meant
    <3>2. CASE ~(sticky /\ m \in Modifier)
      <4>1. m # k
        BY <2>5, <3>2
      <4> QED BY <1>2, <2>1, <2>8, <3>2, <4>1 DEF Looked, Meant
    <3> QED BY <3>1, <3>2
  <2>9. /\ EventsInv' /\ wire' \in Seq(KeyEvent) /\ number' \in Nat /\ latest' \in [Key -> Nat]
        /\ \A m \in Key \ KeysOf(events) : latest'[m] = latest[m]
        /\ \A m \in KeysOf(events) : latest'[m] > number
    BY <1>1, <1>2, <2>1, <2>3, <2>7, <2>8, EmitKeeps
  <2>10. KeyTypes'
    <3>1. ~sticky' \/ focus' = "away" => latched' = {}
      BY <1>2, <1>4, <2>2
    <3> QED BY <1>1, <1>2, <2>2, <2>9, <3>1 DEF KeyTypes
  <2>11. ASSUME NEW m \in latched', NEW l \in Letter \ unseen', latest'[l] > latest'[m]
         PROVE  l \in down'
    <3>1. CASE l = k
      BY <1>2, <2>6, <3>1
    <3>2. CASE l # k
      <4>1. l \in Key /\ m \in Key /\ m \in Modifier /\ l \notin KeysOf(events) /\ l \notin unseen
        BY <1>3, <2>1, <2>2, <2>6, <3>2 DEF Key
      <4>2. latest'[l] = latest[l] /\ latest[l] \in Nat /\ latest[l] <= number /\ number \in Nat
        BY <1>1, <2>9, <4>1 DEF EventsInv, OrderInv, KeyTypes
      <4>3. latest'[m] \in Nat
        BY <2>9, <4>1
      <4>4. m \notin KeysOf(events)
        BY <2>9, <2>11, <4>2, <4>3
      <4>5. m \in latched /\ latest'[m] = latest[m]
        BY <2>5, <2>9, <4>1, <4>4
      <4>6. l \in down
        BY <1>1, <2>11, <4>1, <4>2, <4>5 DEF ChordInv
      <4> QED BY <1>2, <3>2, <4>6
    <3> QED BY <3>1, <3>2
  <2> QED BY <2>9, <2>10, <2>11 DEF KeysInv, ChordInv
<1>5. CASE focus # "page"
  <2>1. unseen' = unseen \union {k} /\ UNCHANGED <<latched, number, latest, wire, amiss>>
    BY <1>5 DEF Stroke
  <2>2. \A m \in Key : Looked(m)' => Looked(m) /\ (Meant(m)' <=> Meant(m))
    BY <1>2, <2>1 DEF Looked, Meant
  <2>3. \A e \in UnderWay : e.key \in Key
    BY <1>1, UnderWayIs
  <2>4. EventsInv'
    BY <1>1, <1>2, <2>1, <2>2, <2>3, StillKeeps
  <2>5. KeyTypes'
    BY <1>1, <1>2, <2>1 DEF KeyTypes
  <2>6. ChordInv'
    BY <1>1, <1>2, <2>1 DEF ChordInv
  <2> QED BY <2>4, <2>5, <2>6 DEF KeysInv
<1> QED BY <1>4, <1>5

LEMMA FocusKeeps ==
  ASSUME KeysInv, NEW to \in {"page", "control", "away"}, Focus(to)
  PROVE  KeysInv'
<1>1. KeyTypes /\ EventsInv /\ ChordInv
  BY DEF KeysInv
<1>2. focus' = to /\ UNCHANGED <<down, sticky, running, done, held, unseen>>
  BY DEF Focus
<1>3. CASE to = "away"
  <2>0. PICK events : events = Releases
    OBVIOUS
  <2>1. latched' = {} /\ Emit(events)
    BY <1>3, <2>0 DEF Focus
  <2>2. /\ events \in Seq([key : Key, pressed : BOOLEAN]) /\ KeysOf(events) = latched
        /\ \A i \in DOMAIN events : ~events[i].pressed
    BY <1>1, <2>0, ReleasesAre
  <2>3. latched \subseteq Modifier /\ (latched # {} => sticky)
    BY <1>1 DEF KeyTypes
  <2>4. \A i \in DOMAIN events : events[i].key \in latched
    BY <2>2 DEF KeysOf
  <2>5. \A i \in DOMAIN events : ~Meant(events[i].key)'
    BY <1>2, <2>1, <2>3, <2>4 DEF Meant
  <2>6. \A i \in DOMAIN events : events[i].pressed <=> Meant(events[i].key)'
    BY <2>2, <2>5
  <2>7. \A k \in Key \ KeysOf(events) : Looked(k)' => Looked(k) /\ (Meant(k)' <=> Meant(k))
    BY <1>2, <2>1, <2>2 DEF Looked, Meant
  <2>8. EventsInv' /\ wire' \in Seq(KeyEvent) /\ number' \in Nat /\ latest' \in [Key -> Nat]
    BY <1>1, <1>2, <2>1, <2>2, <2>6, <2>7, EmitKeeps
  <2>9. KeyTypes'
    BY <1>1, <1>2, <2>1, <2>8, FS_EmptySet DEF KeyTypes
  <2>10. ChordInv'
    BY <2>1 DEF ChordInv
  <2> QED BY <2>8, <2>9, <2>10 DEF KeysInv
<1>4. CASE to # "away"
  <2>1. UNCHANGED <<latched, number, latest, wire, amiss>>
    BY <1>4 DEF Focus
  <2>2. \A m \in Key : Looked(m)' => Looked(m) /\ (Meant(m)' <=> Meant(m))
    BY <1>2, <2>1 DEF Looked, Meant
  <2>3. \A e \in UnderWay : e.key \in Key
    BY <1>1, UnderWayIs
  <2>4. EventsInv'
    BY <1>1, <1>2, <2>1, <2>2, <2>3, StillKeeps
  <2>5. KeyTypes'
    BY <1>1, <1>2, <1>4, <2>1 DEF KeyTypes
  <2>6. ChordInv'
    BY <1>1, <1>2, <2>1 DEF ChordInv
  <2> QED BY <2>4, <2>5, <2>6 DEF KeysInv
<1> QED BY <1>3, <1>4

\* What is neither sent nor executed in a step stays as it was typed.
LEMMA RestKeeps ==
  ASSUME KeyTypes, ChordInv, UNCHANGED <<down, focus, sticky, latched, number, latest, unseen>>,
         wire' \in Seq(KeyEvent), running' \subseteq KeyEvent, done' \in [Key -> Nat]
  PROVE  KeyTypes' /\ ChordInv'
<1>1. KeyTypes'
  BY DEF KeyTypes
<1>2. ChordInv'
  BY DEF ChordInv
<1> QED BY <1>1, <1>2

LEMMA DispatchKeeps == KeysInv /\ Dispatch => KeysInv'
<1> SUFFICES ASSUME KeysInv, Dispatch PROVE KeysInv'
  OBVIOUS
<1>1. KeyTypes /\ EventsInv /\ ChordInv
  BY DEF KeysInv
<1>2. /\ wire # <<>> /\ wire' = Tail(wire)
      /\ UNCHANGED <<down, focus, sticky, latched, held, number, latest, done, unseen>>
  BY DEF Dispatch
<1>3. \/ running' = running \union {Head(wire)} /\ amiss' = amiss
      \/ running' = running /\ amiss' = amiss \union {Head(wire).key}
  BY DEF Dispatch
<1>4. wire \in Seq(KeyEvent) /\ running \subseteq KeyEvent
  BY <1>1 DEF KeyTypes
<1>5. wire' \in Seq(KeyEvent) /\ Head(wire) = wire[1] /\ 1 \in DOMAIN wire /\ Head(wire) \in KeyEvent
  <2>1. Len(wire) \in Nat /\ DOMAIN wire = 1..Len(wire) /\ Len(wire) # 0
    BY <1>2, <1>4
  <2>2. 1 \in DOMAIN wire
    BY <2>1
  <2> QED BY <1>2, <1>4, <2>2
<1>6. \A j \in DOMAIN wire' : j + 1 \in DOMAIN wire /\ wire'[j] = wire[j + 1]
  BY <1>2, <1>4
<1>7. \A i \in DOMAIN wire : i = 1 \/ (i - 1 \in DOMAIN wire' /\ wire'[i - 1] = wire[i])
  BY <1>2, <1>4
<1>8. UnderWay' \subseteq UnderWay
  <2>1. \A j \in DOMAIN wire' : wire'[j] \in UnderWay
    BY <1>6 DEF UnderWay
  <2>2. running' \subseteq UnderWay
    BY <1>3, <1>5 DEF UnderWay
  <2> QED BY <2>1, <2>2 DEF UnderWay
<1>9. ASSUME NEW e \in UnderWay PROVE e \in UnderWay' \/ e.key \in amiss'
  <2>1. CASE e \in running
    BY <1>3, <2>1 DEF UnderWay
  <2>2. CASE e \notin running
    <3>1. PICK i \in DOMAIN wire : e = wire[i]
      BY <2>2 DEF UnderWay
    <3>2. CASE i = 1
      BY <1>3, <1>5, <3>1, <3>2 DEF UnderWay
    <3>3. CASE i # 1
      BY <1>7, <3>1, <3>3 DEF UnderWay
    <3> QED BY <3>2, <3>3
  <2> QED BY <2>1, <2>2
<1>10. EventsInv'
  BY <1>1, <1>2, <1>3, <1>8, <1>9, LossKeeps
<1>11. KeyTypes' /\ ChordInv'
  <2>1. running' \subseteq KeyEvent /\ done' \in [Key -> Nat]
    BY <1>1, <1>2, <1>3, <1>4, <1>5 DEF KeyTypes
  <2> QED BY <1>1, <1>2, <1>5, <2>1, RestKeeps
<1> QED BY <1>10, <1>11 DEF KeysInv

LEMMA BreakKeeps == KeysInv /\ Break => KeysInv'
<1> SUFFICES ASSUME KeysInv, Break PROVE KeysInv'
  OBVIOUS
<1>1. KeyTypes /\ EventsInv /\ ChordInv
  BY DEF KeysInv
<1>2. /\ wire' = <<>> /\ amiss' = amiss \union KeysOf(wire)
      /\ UNCHANGED <<down, focus, sticky, latched, running, held, number, latest, done, unseen>>
  BY DEF Break
<1>3. UnderWay' \subseteq UnderWay /\ \A e \in UnderWay : e \in UnderWay' \/ e.key \in amiss'
  BY <1>2 DEF UnderWay, KeysOf
<1>4. EventsInv'
  BY <1>1, <1>2, <1>3, LossKeeps
<1>5. wire' \in Seq(KeyEvent) /\ running' \subseteq KeyEvent /\ done' \in [Key -> Nat]
  BY <1>1, <1>2 DEF KeyTypes
<1>6. KeyTypes' /\ ChordInv'
  BY <1>1, <1>2, <1>5, RestKeeps
<1> QED BY <1>4, <1>6 DEF KeysInv

LEMMA BrokenKeeps ==
  ASSUME KeysInv, NEW e \in running, ExecutionFails(e)
  PROVE  KeysInv'
<1>1. KeyTypes /\ EventsInv /\ ChordInv
  BY DEF KeysInv
<1>2. /\ running' = running \ {e} /\ amiss' = amiss \union {e.key}
      /\ UNCHANGED <<down, focus, sticky, latched, wire, held, number, latest, done, unseen>>
  BY DEF ExecutionFails
<1>3. UnderWay' \subseteq UnderWay /\ \A d \in UnderWay : d \in UnderWay' \/ d.key \in amiss'
  BY <1>2 DEF UnderWay
<1>4. EventsInv'
  BY <1>1, <1>2, <1>3, LossKeeps
<1>5. wire' \in Seq(KeyEvent) /\ running' \subseteq KeyEvent /\ done' \in [Key -> Nat]
  BY <1>1, <1>2 DEF KeyTypes
<1>6. KeyTypes' /\ ChordInv'
  BY <1>1, <1>2, <1>5, RestKeeps
<1> QED BY <1>4, <1>6 DEF KeysInv

\* An event that was executed is the key's last, or overtook none, or leaves it amiss.
LEMMA ExecutionKeeps ==
  ASSUME KeysInv, NEW e \in running, ExecutionEnds(e)
  PROVE  KeysInv'
<1>1. KeyTypes /\ EventsInv /\ ChordInv /\ OrderInv /\ MeantInv /\ LastInv /\ HeldInv
  BY DEF KeysInv, EventsInv
<1> DEFINE c == e.key
<1>2. /\ running' = running \ {e} /\ done' = [done EXCEPT ![c] = Max({done[c], e.number})]
      /\ held' = IF e.pressed THEN held \union {c} ELSE held \ {c}
      /\ amiss' = IF e.number < done[c] THEN amiss \union {c}
                  ELSE IF e.number = latest[c] THEN amiss \ {c} ELSE amiss
      /\ UNCHANGED <<down, focus, sticky, latched, wire, number, latest, unseen>>
  BY DEF ExecutionEnds
<1>3. e \in UnderWay /\ UnderWay' \subseteq UnderWay /\ \A d \in UnderWay : d = e \/ d \in UnderWay'
  BY <1>2 DEF UnderWay
<1>4. c \in Key /\ e.number \in Nat /\ e.number <= latest[c] /\ done[c] <= latest[c]
  BY <1>1, <1>3, UnderWayIs DEF OrderInv
<1>5. done[c] \in Nat /\ latest[c] \in Nat /\ done \in [Key -> Nat]
  BY <1>1, <1>4 DEF KeyTypes
<1> HIDE DEF c
<1> DEFINE top == Max({done[c], e.number})
<1>6. top = done[c] \/ top = e.number
  <2>1. {done[c], e.number} \in SUBSET Nat /\ {done[c], e.number} # {}
    BY <1>4, <1>5
  <2>2. latest[c] \in Nat /\ \A t \in {done[c], e.number} : t <= latest[c]
    BY <1>4, <1>5
  <2>3. top \in {done[c], e.number}
    BY <2>1, <2>2, MaxIs
  <2> QED BY <2>3
<1>7. top >= done[c] /\ top >= e.number
  <2>1. {done[c], e.number} \in SUBSET Nat /\ {done[c], e.number} # {}
    BY <1>4, <1>5
  <2>2. latest[c] \in Nat /\ \A t \in {done[c], e.number} : t <= latest[c]
    BY <1>4, <1>5
  <2>3. \A t \in {done[c], e.number} : t <= top
    BY <2>1, <2>2, MaxIs
  <2>4. top \in Nat
    BY <1>4, <1>5, <1>6
  <2> QED BY <1>4, <1>5, <2>3, <2>4
<1>8. top \in Nat /\ top <= latest[c]
  BY <1>4, <1>5, <1>6
<1>9. done' \in [Key -> Nat] /\ done'[c] = top /\ \A k \in Key \ {c} : done'[k] = done[k]
  BY <1>2, <1>4, <1>5, <1>8
<1> HIDE DEF top
<1>10. \A k : (Looked(k)' <=> Looked(k)) /\ (Meant(k)' <=> Meant(k))
  BY <1>2 DEF Looked, Meant
<1>11. OrderInv'
  <2>1. \A k \in Key : done'[k] <= latest'[k] /\ latest'[k] <= number'
    BY <1>1, <1>2, <1>8, <1>9 DEF OrderInv
  <2>2. \A d \in UnderWay' : d.number <= latest'[d.key]
    BY <1>1, <1>2, <1>3 DEF OrderInv
  <2> QED BY <2>1, <2>2 DEF OrderInv
<1>12. MeantInv'
  BY <1>1, <1>2, <1>3, <1>10 DEF MeantInv
<1>13. c \notin amiss' => e.number >= done[c] /\ (e.number = latest[c] \/ c \notin amiss)
  BY <1>2, <1>4, <1>5
<1>14. \A k \in Key \ {c} : (k \in amiss' <=> k \in amiss) /\ (k \in held' <=> k \in held)
  BY <1>2
<1>15. LastInv'
  <2> SUFFICES ASSUME NEW k \in Key \ amiss', done'[k] # latest'[k]
               PROVE  \E d \in UnderWay' : d.key = k /\ d.number = latest'[k]
    BY DEF LastInv
  <2>1. k \notin amiss /\ done[k] # latest[k] /\ (k = c => e.number # latest[k])
    <3>1. CASE k = c
      BY <1>2, <1>4, <1>5, <1>6, <1>7, <1>8, <1>9, <1>13, <3>1
    <3>2. CASE k # c
      BY <1>2, <1>9, <1>14, <3>2
    <3> QED BY <3>1, <3>2
  <2>2. PICK d \in UnderWay : d.key = k /\ d.number = latest[k]
    BY <1>1, <2>1 DEF LastInv
  <2>3. d # e
    BY <2>1, <2>2 DEF c
  <2> QED BY <1>2, <1>3, <2>2, <2>3
<1>16. HeldInv'
  <2> SUFFICES ASSUME NEW k \in Key \ amiss', done'[k] = latest'[k], Looked(k)'
               PROVE  k \in held' <=> Meant(k)'
    BY DEF HeldInv
  <2>1. CASE k = c
    <3>1. e.number = latest[c]
      BY <1>2, <1>4, <1>5, <1>6, <1>9, <1>13, <2>1
    <3>2. e.pressed <=> Meant(c)
      BY <1>1, <1>3, <1>10, <2>1, <3>1 DEF MeantInv, c
    <3>3. c \in held' <=> e.pressed
      BY <1>2
    <3> QED BY <1>10, <2>1, <3>2, <3>3
  <2>2. CASE k # c
    BY <1>1, <1>2, <1>9, <1>10, <1>14, <2>2 DEF HeldInv
  <2> QED BY <2>1, <2>2
<1>17. wire' \in Seq(KeyEvent) /\ running' \subseteq KeyEvent
  BY <1>1, <1>2 DEF KeyTypes
<1>18. KeyTypes' /\ ChordInv'
  BY <1>1, <1>2, <1>9, <1>17, RestKeeps
<1> QED BY <1>11, <1>12, <1>15, <1>16, <1>18 DEF KeysInv, EventsInv

LEMMA KeysGoOn == KeysInv /\ [KeysNext]_keyVars => KeysInv'
<1> SUFFICES ASSUME KeysInv, [KeysNext]_keyVars PROVE KeysInv'
  OBVIOUS
<1>1. ASSUME NEW k \in Key, NEW press \in BOOLEAN, Stroke(k, press) PROVE KeysInv'
  BY <1>1, StrokeKeeps
<1>2. ASSUME NEW to \in {"page", "control", "away"}, Focus(to) PROVE KeysInv'
  BY <1>2, FocusKeeps
<1>3. ASSUME NEW e \in running, ExecutionEnds(e) PROVE KeysInv'
  BY <1>3, ExecutionKeeps
<1>4. ASSUME NEW e \in running, ExecutionFails(e) PROVE KeysInv'
  BY <1>4, BrokenKeeps
<1>5. CASE SecondPasses \/ Reconnect \/ UNCHANGED keyVars
  <2>1. UNCHANGED <<down, focus, sticky, latched, wire, running, held, number, latest, done, unseen, amiss>>
    BY <1>5 DEF SecondPasses, Reconnect, keyVars
  <2>2. KeyTypes /\ EventsInv /\ ChordInv
    BY DEF KeysInv
  <2>3. \A k \in Key : Looked(k)' => Looked(k) /\ (Meant(k)' <=> Meant(k))
    BY <2>1 DEF Looked, Meant
  <2>4. \A e \in UnderWay : e.key \in Key
    BY <2>2, UnderWayIs
  <2>5. EventsInv'
    BY <2>1, <2>2, <2>3, <2>4, StillKeeps
  <2>6. KeyTypes' /\ ChordInv'
    BY <2>1, <2>2 DEF KeyTypes, ChordInv
  <2> QED BY <2>5, <2>6 DEF KeysInv
<1> QED BY <1>1, <1>2, <1>3, <1>4, <1>5, DispatchKeeps, BreakKeeps DEF KeysNext

LEMMA KeysInvFollows == KeysInv => KeysFollow
<1> SUFFICES ASSUME KeysInv, wire = <<>>, running = {}, NEW k \in Key \ amiss
             PROVE  /\ done[k] = latest[k]
                    /\ k \notin unseen => (k \in held) = Meant(k)
                    /\ sticky /\ k \in Modifier /\ k \in held =>
                         /\ focus # "away"
                         /\ \A l \in Letter \ (amiss \cup unseen) : done[l] > done[k] => l \in down
  BY DEF KeysFollow
<1>1. KeyTypes /\ LastInv /\ HeldInv /\ ChordInv
  BY DEF KeysInv, EventsInv
<1>2. UnderWay = {}
  BY DEF UnderWay
<1>3. \A m \in Key \ amiss : done[m] = latest[m]
  BY <1>1, <1>2 DEF LastInv
<1>4. Looked(k) => (k \in held <=> Meant(k))
  BY <1>1, <1>3 DEF HeldInv
<1>5. k \notin unseen => (k \in held) = Meant(k)
  BY <1>4 DEF Looked, Meant
<1>6. ASSUME sticky, k \in Modifier, k \in held
      PROVE  /\ focus # "away"
             /\ \A l \in Letter \ (amiss \cup unseen) : done[l] > done[k] => l \in down
  <2>1. k \in latched
    BY <1>4, <1>6 DEF Looked, Meant
  <2>2. focus # "away"
    BY <1>1, <2>1 DEF KeyTypes
  <2>3. ASSUME NEW l \in Letter \ (amiss \cup unseen), done[l] > done[k] PROVE l \in down
    <3>1. latest[l] > latest[k]
      BY <1>3, <2>3 DEF Key
    <3> QED BY <1>1, <2>1, <3>1 DEF ChordInv
  <2> QED BY <2>2, <2>3
<1> QED BY <1>3, <1>5, <1>6

\* However keys go down and up, whatever is refused, lost or overtaken, for any keys and rate.
THEOREM KeysStayFollowed == KeysSpec => []KeysFollow
<1>1. KeysInit => KeysInv
  BY KeysBegin
<1>2. KeysInv /\ [KeysNext]_keyVars => KeysInv'
  BY KeysGoOn
<1> QED BY <1>1, <1>2, KeysInvFollows, PTL DEF KeysSpec
-----------------------------------------------------------------------------
(***************************************************************************)
(* The rotation.  Each file goes through the same steps, the certificate   *)
(* one after the key; the invariant says for each what is under its names  *)
(* as long as nothing has failed, and after one failure.                   *)
(***************************************************************************)
Turn(f) == IF f = "key" THEN 1 ELSE 2
Steps == {"stage", "put aside", "publish", "drop", "unpublish", "restore", "unstage", "forget"} \X File

RotationTypes ==
  /\ live \in [File -> {"old", "new", "none"}] /\ backup \in [File -> {"old", "none"}]
  /\ staged \in SUBSET File /\ backedUp \in SUBSET File /\ published \in SUBSET File
  /\ step \in 1..17 /\ errors \in Seq(Steps) /\ (step <= 8 => errors = <<>>)

\* The await c of a file is behind, where the stage is 0, the put aside 2 and so on.
Past(c, f) == step > c + Turn(f)

GoesWell ==
  /\ step \notin 9..12
  /\ \A f \in File :
       /\ f \in published <=> Past(4, f)
       /\ Past(4, f) => live[f] = "new" /\ f \notin staged
       /\ ~Past(4, f) => live[f] # "new"
       /\ Past(2, f) /\ ~Past(4, f) => live[f] = "none"
       /\ f \in backedUp => Past(2, f)
       /\ backup[f] = "old" <=> f \in backedUp /\ ~Past(6, f)

GoesBack ==
  /\ step >= 9 /\ errors[1][1] \notin {"unstage", "forget"}
  /\ "cert" \in published => "key" \in published
  /\ "key" \in published /\ "cert" \notin published /\ ~Past(10, "cert") => live["cert"] = "none"
  /\ \A f \in File :
       /\ f \in published /\ ~Past(8, f) => live[f] = "new"
       /\ f \in published /\ Past(8, f) /\ ~Past(10, f) => live[f] = "none"
       /\ f \notin published \/ Past(8, f) => live[f] # "new"
       /\ ~LateError /\ f \in backedUp => IF Past(10, f) THEN live[f] = "old" ELSE backup[f] = "old"

RotationInv ==
  /\ RotationTypes
  /\ errors = <<>> => GoesWell
  /\ Len(errors) = 1 => GoesBack

\* Which step is which operation, of which file.
LEMMA OpIs ==
  ASSUME RotationTypes
  PROVE  /\ Over <=> step = 17
         /\ ~Over => <<Operating, Subject>> \in Steps /\ Subject \in File
         /\ Op("stage") => step = Turn(Subject)
         /\ Op("put aside") => step = 2 + Turn(Subject)
         /\ Op("publish") => step = 4 + Turn(Subject)
         /\ Op("drop") => step = 6 + Turn(Subject)
         /\ Op("unpublish") => step = 8 + Turn(Subject)
         /\ Op("restore") => step = 10 + Turn(Subject)
         /\ Op("unstage") => step = 12 + Turn(Subject)
         /\ Op("forget") => step = 14 + Turn(Subject)
         /\ ~Over => (step > 12 <=> Operating \in {"unstage", "forget"})
<1>1. Len(Await) = 8
  BY DEF Await
<1>2. Over <=> step = 17
  BY <1>1 DEF Over, RotationTypes
<1> DEFINE k == (step + 1) \div 2
<1>3. step \in 1..16 => k \in 1..8 /\ step = 2 * (k - 1) + Turn(Subject) /\ Subject \in File
  BY DEF Turn, Subject, File
<1>4. Operating = Await[k]
  BY DEF Operating
<1> HIDE DEF k
<1>5. /\ Await[1] = "stage" /\ Await[2] = "put aside" /\ Await[3] = "publish"
      /\ Await[4] = "drop" /\ Await[5] = "unpublish" /\ Await[6] = "restore"
      /\ Await[7] = "unstage" /\ Await[8] = "forget"
  BY DEF Await
<1>6. ~Over <=> step \in 1..16
  BY <1>2 DEF RotationTypes
<1>7. Turn(Subject) \in {1, 2}
  BY DEF Turn
<1>8. ASSUME ~Over
      PROVE  \/ k = 1 /\ Operating = "stage"
             \/ k = 2 /\ Operating = "put aside"
             \/ k = 3 /\ Operating = "publish"
             \/ k = 4 /\ Operating = "drop"
             \/ k = 5 /\ Operating = "unpublish"
             \/ k = 6 /\ Operating = "restore"
             \/ k = 7 /\ Operating = "unstage"
             \/ k = 8 /\ Operating = "forget"
  <2>1. k = 1 \/ k = 2 \/ k = 3 \/ k = 4 \/ k = 5 \/ k = 6 \/ k = 7 \/ k = 8
    BY <1>3, <1>6, <1>8
  <2> QED BY <1>4, <1>5, <2>1
<1>9. ~Over => <<Operating, Subject>> \in Steps
  BY <1>3, <1>6, <1>8 DEF Steps
<1>10. Op("stage") => ~Over /\ k = 1
  BY <1>8 DEF Op
<1>11. Op("put aside") => ~Over /\ k = 2
  BY <1>8 DEF Op
<1>12. Op("publish") => ~Over /\ k = 3
  BY <1>8 DEF Op
<1>13. Op("drop") => ~Over /\ k = 4
  BY <1>8 DEF Op
<1>14. Op("unpublish") => ~Over /\ k = 5
  BY <1>8 DEF Op
<1>15. Op("restore") => ~Over /\ k = 6
  BY <1>8 DEF Op
<1>16. Op("unstage") => ~Over /\ k = 7
  BY <1>8 DEF Op
<1>17. Op("forget") => ~Over /\ k = 8
  BY <1>8 DEF Op
<1>18. ~Over => (step > 12 <=> k \in {7, 8})
  BY <1>3, <1>6, <1>7
<1>19. ASSUME ~Over PROVE Operating \in {"unstage", "forget"} <=> k \in {7, 8}
  <2>1. CASE k \in {7, 8}
    BY <1>4, <1>5, <2>1
  <2>2. CASE k \in 1..6
    <3>1. k = 1 \/ k = 2 \/ k = 3 \/ k = 4 \/ k = 5 \/ k = 6
      BY <2>2
    <3> QED BY <1>4, <1>5, <2>2, <3>1
  <2> QED BY <1>3, <1>6, <1>19, <2>1, <2>2
<1>20. ~Over => (step > 12 <=> Operating \in {"unstage", "forget"})
  BY <1>18, <1>19
<1>21. Op("stage") => step = Turn(Subject)
  BY <1>3, <1>6, <1>7, <1>10
<1>22. Op("put aside") => step = 2 + Turn(Subject)
  <2>1. k = 2 => 2 * (k - 1) = 2
    OBVIOUS
  <2> QED BY <1>3, <1>6, <1>7, <1>11, <2>1
<1>23. Op("publish") => step = 4 + Turn(Subject)
  BY <1>3, <1>6, <1>7, <1>12
<1>24. Op("drop") => step = 6 + Turn(Subject)
  BY <1>3, <1>6, <1>7, <1>13
<1>25. Op("unpublish") => step = 8 + Turn(Subject)
  BY <1>3, <1>6, <1>7, <1>14
<1>26. Op("restore") => step = 10 + Turn(Subject)
  BY <1>3, <1>6, <1>7, <1>15
<1>27. Op("unstage") => step = 12 + Turn(Subject)
  BY <1>3, <1>6, <1>7, <1>16
<1>28. Op("forget") => step = 14 + Turn(Subject)
  BY <1>3, <1>6, <1>7, <1>17
<1> QED BY <1>2, <1>3, <1>6, <1>9, <1>20, <1>21, <1>22, <1>23, <1>24, <1>25, <1>26, <1>27, <1>28

LEMMA TurnIs ==
  /\ File = {"key", "cert"} /\ Turn("key") = 1 /\ Turn("cert") = 2
  /\ \A f \in File : Turn(f) \in {1, 2}
  /\ \A f, g \in File : Turn(f) = Turn(g) => f = g
BY DEF File, Turn

Offset == {0, 2, 4, 6, 8, 10, 12, 14}

\* A step that goes on leaves one await of one file behind.
LEMMA OnwardIs ==
  ASSUME RotationTypes, Onward, ~Over, Subject \in File, NEW b \in Offset, step = b + Turn(Subject)
  PROVE  /\ step' \in 1..17
         /\ step \notin 9..12 => step' \notin 9..12
         /\ step >= 9 => step' >= 9
         /\ \A c \in {2, 4, 6}, f \in File : Past(c, f)' <=> Past(c, f) \/ (c = b /\ f = Subject)
         /\ step >= 9 =>
              \A c \in {8, 10}, f \in File : Past(c, f)' <=> Past(c, f) \/ (c = b /\ f = Subject)
         /\ \A c \in Offset : ~Past(c, Subject) <=> b <= c
<1>1. step \in 1..16 /\ step' = IF step = 8 THEN 13 ELSE step + 1
  <2>1. Over <=> step = 17
    BY OpIs
  <2>2. step \in 1..17
    BY DEF RotationTypes
  <2> QED BY <2>1, <2>2 DEF Onward, FirstUndo, FirstClean
<1>2. Turn(Subject) \in {1, 2} /\ \A f \in File : Turn(f) \in {1, 2} /\ (f = Subject <=> Turn(f) = Turn(Subject))
  BY TurnIs
<1>3. ASSUME NEW c \in Offset, NEW f \in File PROVE step = c + Turn(f) <=> c = b /\ f = Subject
  BY <1>2 DEF Offset
<1>4. ASSUME NEW c \in {2, 4, 6}, NEW f \in File PROVE Past(c, f)' <=> Past(c, f) \/ step = c + Turn(f)
  BY <1>1, <1>2 DEF Past
<1>5. ASSUME step >= 9, NEW c \in {8, 10}, NEW f \in File
      PROVE  Past(c, f)' <=> Past(c, f) \/ step = c + Turn(f)
  BY <1>1, <1>2, <1>5 DEF Past
<1>6. \A c \in Offset : ~Past(c, Subject) <=> b <= c
  BY <1>1, <1>2 DEF Past, Offset
<1>7. {2, 4, 6} \subseteq Offset /\ {8, 10} \subseteq Offset
  BY DEF Offset
<1>8. \A c \in {2, 4, 6}, f \in File : Past(c, f)' <=> Past(c, f) \/ (c = b /\ f = Subject)
  BY <1>3, <1>4, <1>7
<1>9. step >= 9 => \A c \in {8, 10}, f \in File : Past(c, f)' <=> Past(c, f) \/ (c = b /\ f = Subject)
  BY <1>3, <1>5, <1>7
<1>10. step' \in 1..17 /\ (step \notin 9..12 => step' \notin 9..12) /\ (step >= 9 => step' >= 9)
  BY <1>1
<1> QED BY <1>6, <1>8, <1>9, <1>10

LEMMA StageKeeps == ASSUME RotationInv, Stage PROVE RotationInv'
<1>1. RotationTypes /\ ~Over /\ Subject \in File /\ Onward /\ step = 0 + Turn(Subject) /\ 0 \in Offset
  <2>1. RotationTypes /\ ~Over /\ Onward /\ Op("stage")
    BY DEF RotationInv, Stage, Op
  <2>2. Subject \in File /\ step = Turn(Subject)
    BY <2>1, OpIs
  <2>3. step = 0 + Turn(Subject)
    BY <2>2, TurnIs
  <2> QED BY <2>1, <2>2, <2>3 DEF Offset
<1>2. step <= 8 /\ errors = <<>> /\ errors' = <<>> /\ GoesWell
  BY <1>1, TurnIs DEF RotationInv, RotationTypes, Stage
<1>3. RotationTypes'
  <2>1. step' \in 1..17
    BY <1>1, OnwardIs
  <2> QED BY <1>1, <1>2, <2>1 DEF RotationTypes, Stage
<1>4. GoesWell'
  <2>1. step' \notin 9..12
    BY <1>1, <1>2, OnwardIs DEF GoesWell, RotationInv
  <2>2. ASSUME NEW f \in File
        PROVE  /\ (f \in published <=> Past(4, f))'
               /\ (Past(4, f) => live[f] = "new" /\ f \notin staged)'
               /\ (~Past(4, f) => live[f] # "new")'
               /\ (Past(2, f) /\ ~Past(4, f) => live[f] = "none")'
               /\ (f \in backedUp => Past(2, f))'
               /\ (backup[f] = "old" <=> f \in backedUp /\ ~Past(6, f))'
    <3>1. /\ Past(2, f)' <=> Past(2, f) \/ (2 = 0 /\ f = Subject)
          /\ Past(4, f)' <=> Past(4, f) \/ (4 = 0 /\ f = Subject)
          /\ Past(6, f)' <=> Past(6, f) \/ (6 = 0 /\ f = Subject)
      BY <1>1, OnwardIs
    <3>2. /\ ~Past(2, Subject) <=> 0 <= 2
          /\ ~Past(4, Subject) <=> 0 <= 4
          /\ ~Past(6, Subject) <=> 0 <= 6
      BY <1>1, OnwardIs DEF Offset
    <3>3. CASE f = Subject
      BY <1>1, <1>2, <3>1, <3>2, <3>3 DEF GoesWell, Stage, RotationTypes
    <3>4. CASE f # Subject
      <4>1. live'[f] = live[f] /\ backup'[f] = backup[f]
        BY <1>1, <3>4 DEF Stage, RotationTypes
      <4>2. /\ f \in staged' <=> f \in staged
            /\ f \in published' <=> f \in published
            /\ f \in backedUp' <=> f \in backedUp
        BY <1>1, <3>4 DEF Stage
      <4> QED BY <1>1, <1>2, <3>1, <3>4, <4>1, <4>2 DEF GoesWell
    <3> QED BY <3>3, <3>4
  <2> QED BY <2>1, <2>2 DEF GoesWell
<1> QED BY <1>2, <1>3, <1>4 DEF RotationInv

LEMMA PutAsideKeeps == ASSUME RotationInv, PutAside PROVE RotationInv'
<1>1. RotationTypes /\ ~Over /\ Subject \in File /\ Onward /\ step = 2 + Turn(Subject) /\ 2 \in Offset
  <2>1. RotationTypes /\ ~Over /\ Onward /\ Op("put aside")
    BY DEF RotationInv, PutAside, Op
  <2> QED BY <2>1, OpIs, TurnIs DEF Offset
<1>2. step <= 8 /\ errors = <<>> /\ errors' = <<>> /\ GoesWell
  <2>1. step <= 8
    BY <1>1, TurnIs
  <2>2. errors = <<>> /\ errors' = errors
    BY <1>1, <2>1 DEF RotationTypes, PutAside
  <2> QED BY <2>1, <2>2 DEF RotationInv
<1>3. RotationTypes'
  <2>1. step' \in 1..17
    BY <1>1, OnwardIs
  <2>2. live[Subject] \in {"old", "none"}
    BY <1>1, <1>2, OnwardIs DEF GoesWell, RotationTypes, Offset
  <2> QED BY <1>1, <1>2, <2>1, <2>2 DEF RotationTypes, PutAside
<1>4. GoesWell'
  <2>1. step' \notin 9..12
    BY <1>1, <1>2, OnwardIs DEF GoesWell, RotationInv
  <2>2. ASSUME NEW f \in File
        PROVE  /\ (f \in published <=> Past(4, f))'
               /\ (Past(4, f) => live[f] = "new" /\ f \notin staged)'
               /\ (~Past(4, f) => live[f] # "new")'
               /\ (Past(2, f) /\ ~Past(4, f) => live[f] = "none")'
               /\ (f \in backedUp => Past(2, f))'
               /\ (backup[f] = "old" <=> f \in backedUp /\ ~Past(6, f))'
    <3>1. /\ Past(2, f)' <=> Past(2, f) \/ (2 = 2 /\ f = Subject)
          /\ Past(4, f)' <=> Past(4, f) \/ (4 = 2 /\ f = Subject)
          /\ Past(6, f)' <=> Past(6, f) \/ (6 = 2 /\ f = Subject)
      BY <1>1, OnwardIs
    <3>2. /\ ~Past(2, Subject) <=> 2 <= 2
          /\ ~Past(4, Subject) <=> 2 <= 4
          /\ ~Past(6, Subject) <=> 2 <= 6
      BY <1>1, OnwardIs DEF Offset
    <3>3. CASE f = Subject
      <4>1. live[f] \in {"old", "none"} /\ f \notin backedUp /\ backup[f] # "old"
        BY <1>1, <1>2, <3>2, <3>3 DEF GoesWell, RotationTypes
      <4>2. f \notin published /\ f \notin published' /\ Past(2, f)' /\ ~Past(4, f)' /\ ~Past(6, f)'
        <5>1. published' = published
          BY DEF PutAside
        <5>2. Past(2, f)' /\ ~Past(4, f)' /\ ~Past(6, f)' /\ ~Past(4, f)
          BY <3>1, <3>2, <3>3
        <5> QED BY <1>2, <5>1, <5>2 DEF GoesWell
      <4>3. CASE live[f] = "none"
        <5>1. live' = live /\ backup' = backup /\ backedUp' = backedUp
          BY <3>3, <4>3 DEF PutAside
        <5> QED BY <4>1, <4>2, <4>3, <5>1
      <4>4. CASE live[f] = "old"
        <5>1. live'[f] = "none" /\ backup'[f] = "old" /\ f \in backedUp'
          BY <1>1, <3>3, <4>4 DEF PutAside, RotationTypes
        <5> QED BY <4>1, <4>2, <4>4, <5>1
      <4> QED BY <4>1, <4>3, <4>4
    <3>4. CASE f # Subject
      <4>1. live'[f] = live[f] /\ backup'[f] = backup[f]
        BY <1>1, <3>4 DEF PutAside, RotationTypes
      <4>2. /\ f \in staged' <=> f \in staged
            /\ f \in published' <=> f \in published
            /\ f \in backedUp' <=> f \in backedUp
        BY <1>1, <3>4 DEF PutAside
      <4> QED BY <1>1, <1>2, <3>1, <3>4, <4>1, <4>2 DEF GoesWell
    <3> QED BY <3>3, <3>4
  <2> QED BY <2>1, <2>2 DEF GoesWell
<1> QED BY <1>2, <1>3, <1>4 DEF RotationInv

LEMMA PublishKeeps == ASSUME RotationInv, Publish PROVE RotationInv'
<1>1. RotationTypes /\ ~Over /\ Subject \in File /\ Onward /\ step = 4 + Turn(Subject) /\ 4 \in Offset
  <2>1. RotationTypes /\ ~Over /\ Onward /\ Op("publish")
    BY DEF RotationInv, Publish, Op
  <2> QED BY <2>1, OpIs, TurnIs DEF Offset
<1>2. step <= 8 /\ errors = <<>> /\ errors' = <<>> /\ GoesWell
  BY <1>1, TurnIs DEF RotationInv, RotationTypes, Publish
<1>3. RotationTypes'
  <2>1. step' \in 1..17
    BY <1>1, OnwardIs
  <2> QED BY <1>1, <1>2, <2>1 DEF RotationTypes, Publish
<1>4. GoesWell'
  <2>1. step' \notin 9..12
    BY <1>1, <1>2, OnwardIs DEF GoesWell, RotationInv
  <2>2. ASSUME NEW f \in File
        PROVE  /\ (f \in published <=> Past(4, f))'
               /\ (Past(4, f) => live[f] = "new" /\ f \notin staged)'
               /\ (~Past(4, f) => live[f] # "new")'
               /\ (Past(2, f) /\ ~Past(4, f) => live[f] = "none")'
               /\ (f \in backedUp => Past(2, f))'
               /\ (backup[f] = "old" <=> f \in backedUp /\ ~Past(6, f))'
    <3>1. /\ Past(2, f)' <=> Past(2, f) \/ (2 = 4 /\ f = Subject)
          /\ Past(4, f)' <=> Past(4, f) \/ (4 = 4 /\ f = Subject)
          /\ Past(6, f)' <=> Past(6, f) \/ (6 = 4 /\ f = Subject)
      BY <1>1, OnwardIs
    <3>2. /\ ~Past(2, Subject) <=> 4 <= 2
          /\ ~Past(4, Subject) <=> 4 <= 4
          /\ ~Past(6, Subject) <=> 4 <= 6
      BY <1>1, OnwardIs DEF Offset
    <3>3. CASE f = Subject
      BY <1>1, <1>2, <3>1, <3>2, <3>3 DEF GoesWell, Publish, RotationTypes
    <3>4. CASE f # Subject
      <4>1. live'[f] = live[f] /\ backup'[f] = backup[f]
        BY <1>1, <3>4 DEF Publish, RotationTypes
      <4>2. /\ f \in staged' <=> f \in staged
            /\ f \in published' <=> f \in published
            /\ f \in backedUp' <=> f \in backedUp
        BY <1>1, <3>4 DEF Publish
      <4> QED BY <1>1, <1>2, <3>1, <3>4, <4>1, <4>2 DEF GoesWell
    <3> QED BY <3>3, <3>4
  <2> QED BY <2>1, <2>2 DEF GoesWell
<1> QED BY <1>2, <1>3, <1>4 DEF RotationInv

LEMMA DropKeeps == ASSUME RotationInv, Drop, Op("drop") PROVE RotationInv'
<1>1. RotationTypes /\ ~Over /\ Subject \in File /\ Onward /\ step = 6 + Turn(Subject) /\ 6 \in Offset
  <2>1. RotationTypes /\ ~Over /\ Onward
    BY DEF RotationInv, Drop, Op
  <2> QED BY <2>1, OpIs DEF Offset
<1>0. ~Op("unstage")
  BY DEF Op
<1>2. step <= 8 /\ errors = <<>> /\ errors' = <<>> /\ GoesWell
  BY <1>1, TurnIs DEF RotationInv, RotationTypes, Drop
<1>3. RotationTypes'
  <2>1. step' \in 1..17 /\ (step' <= 8 => errors' = <<>>)
    BY <1>1, <1>2, OnwardIs
  <2> QED BY <1>0, <1>1, <1>2, <2>1 DEF RotationTypes, Drop
<1>4. GoesWell'
  <2>1. step' \notin 9..12
    BY <1>1, <1>2, OnwardIs DEF GoesWell, RotationInv
  <2>2. ASSUME NEW f \in File
        PROVE  /\ (f \in published <=> Past(4, f))'
               /\ (Past(4, f) => live[f] = "new" /\ f \notin staged)'
               /\ (~Past(4, f) => live[f] # "new")'
               /\ (Past(2, f) /\ ~Past(4, f) => live[f] = "none")'
               /\ (f \in backedUp => Past(2, f))'
               /\ (backup[f] = "old" <=> f \in backedUp /\ ~Past(6, f))'
    <3>1. /\ Past(2, f)' <=> Past(2, f) \/ (2 = 6 /\ f = Subject)
          /\ Past(4, f)' <=> Past(4, f) \/ (4 = 6 /\ f = Subject)
          /\ Past(6, f)' <=> Past(6, f) \/ (6 = 6 /\ f = Subject)
      BY <1>1, OnwardIs
    <3>2. /\ ~Past(2, Subject) <=> 6 <= 2
          /\ ~Past(4, Subject) <=> 6 <= 4
          /\ ~Past(6, Subject) <=> 6 <= 6
      BY <1>1, OnwardIs DEF Offset
    <3>3. CASE f = Subject
      BY <1>0, <1>1, <1>2, <3>1, <3>2, <3>3 DEF GoesWell, Drop, RotationTypes
    <3>4. CASE f # Subject
      <4>1. live'[f] = live[f] /\ backup'[f] = backup[f]
        BY <1>0, <1>1, <3>4 DEF Drop, RotationTypes
      <4>2. /\ f \in staged' <=> f \in staged
            /\ f \in published' <=> f \in published
            /\ f \in backedUp' <=> f \in backedUp
        BY <1>0, <1>1, <3>4 DEF Drop
      <4> QED BY <1>1, <1>2, <3>1, <3>4, <4>1, <4>2 DEF GoesWell
    <3> QED BY <3>3, <3>4
  <2> QED BY <2>1, <2>2 DEF GoesWell
<1> QED BY <1>2, <1>3, <1>4 DEF RotationInv

\* What the finally block removes.
LEMMA CleanKeeps ==
  ASSUME RotationInv, Drop, ~Op("drop")
  PROVE  RotationInv'
<1>1. RotationTypes /\ ~Over /\ Subject \in File /\ Onward /\ step > 12
  <2>1. RotationTypes /\ ~Over /\ Onward /\ (Op("unstage") \/ Op("forget"))
    BY DEF RotationInv, Drop, Op
  <2>2. Subject \in File /\ Operating \in {"unstage", "forget"}
    BY <2>1, OpIs DEF Op
  <2> QED BY <2>1, <2>2, OpIs
<1>2. /\ live' = live /\ published' = published /\ backedUp' = backedUp /\ errors' = errors
      /\ staged' \subseteq staged /\ backup' \in [File -> {"old", "none"}]
      /\ \A f \in File : backup'[f] = "old" => backup[f] = "old"
  <2>1. backup' = backup \/ backup' = [backup EXCEPT ![Subject] = "none"]
    BY DEF Drop
  <2> QED BY <1>1, <2>1 DEF Drop, RotationTypes
<1>3. step \in 13..16 /\ step' = step + 1
  <2>1. (Over <=> step = 17) /\ step \in 1..17
    BY <1>1, OpIs DEF RotationTypes
  <2> QED BY <1>1, <2>1 DEF Onward, FirstUndo
<1>4. RotationTypes'
  BY <1>2, <1>3 DEF RotationInv, RotationTypes
<1>5. \A c \in {2, 4, 6, 8, 10}, f \in File : Past(c, f) /\ Past(c, f)'
  BY <1>3, TurnIs DEF Past
<1>6. ASSUME errors = <<>> PROVE GoesWell'
  <2>1. GoesWell
    BY <1>6 DEF RotationInv
  <2> QED BY <1>2, <1>3, <1>5, <2>1 DEF GoesWell
<1>7. ASSUME Len(errors) = 1 PROVE GoesBack'
  <2>1. GoesBack /\ (LateError' <=> LateError) /\ step' >= 9
    BY <1>2, <1>3, <1>7 DEF RotationInv, LateError
  <2>2. "cert" \in File
    BY DEF File
  <2> QED BY <1>2, <1>5, <2>1, <2>2 DEF GoesBack
<1> QED BY <1>2, <1>4, <1>6, <1>7 DEF RotationInv

\* The steps of the catch block follow an error.
LEMMA UndoIs ==
  ASSUME RotationInv, step \in 9..12
  PROVE  errors # <<>> /\ (Len(errors) = 1 => GoesBack)
BY DEF RotationInv, GoesWell

LEMMA UnpublishKeeps == ASSUME RotationInv, Unpublish PROVE RotationInv'
<1>1. RotationTypes /\ ~Over /\ Subject \in File /\ Onward /\ step = 8 + Turn(Subject) /\ 8 \in Offset
  <2>1. RotationTypes /\ ~Over /\ Onward /\ Op("unpublish")
    BY DEF RotationInv, Unpublish, Op
  <2> QED BY <2>1, OpIs DEF Offset
<1>2. errors' = errors /\ errors # <<>> /\ (Len(errors) = 1 => GoesBack) /\ (LateError' <=> LateError)
  <2>1. step \in 9..12
    BY <1>1, TurnIs
  <2> QED BY <2>1, UndoIs DEF Unpublish, LateError
<1>3. step' \in 1..17 /\ step' >= 9 /\ step >= 9
  BY <1>1, TurnIs, OnwardIs
<1>4. RotationTypes'
  BY <1>1, <1>2, <1>3 DEF RotationTypes, Unpublish
<1>5. /\ \A f \in File : f # Subject => live'[f] = live[f]
      /\ live'[Subject] = IF Subject \in published THEN "none" ELSE live[Subject]
      /\ backup' = backup /\ published' = published /\ backedUp' = backedUp
  BY <1>1 DEF Unpublish, RotationTypes
<1>6. /\ \A f \in File : Past(8, f)' <=> Past(8, f) \/ f = Subject
      /\ \A f \in File : Past(10, f)' <=> Past(10, f)
      /\ ~Past(8, Subject) /\ ~Past(10, Subject)
  BY <1>1, <1>3, OnwardIs DEF Offset
<1>7. ASSUME Len(errors) = 1 PROVE GoesBack'
  <2>1. GoesBack
    BY <1>2, <1>7
  <2>2. ASSUME NEW f \in File
        PROVE  /\ (f \in published /\ ~Past(8, f) => live[f] = "new")'
               /\ (f \in published /\ Past(8, f) /\ ~Past(10, f) => live[f] = "none")'
               /\ (f \notin published \/ Past(8, f) => live[f] # "new")'
               /\ (~LateError /\ f \in backedUp => IF Past(10, f) THEN live[f] = "old" ELSE backup[f] = "old")'
    <3>1. CASE f = Subject
      BY <1>2, <1>5, <1>6, <2>1, <3>1 DEF GoesBack
    <3>2. CASE f # Subject
      BY <1>2, <1>5, <1>6, <2>1, <3>2 DEF GoesBack
    <3> QED BY <3>1, <3>2
  <2>3. ("key" \in published /\ "cert" \notin published /\ ~Past(10, "cert") => live["cert"] = "none")'
    BY <1>5, <1>6, <2>1, TurnIs DEF GoesBack
  <2> QED BY <1>2, <1>3, <1>5, <2>1, <2>2, <2>3 DEF GoesBack
<1> QED BY <1>2, <1>4, <1>7 DEF RotationInv

LEMMA RestoreKeeps == ASSUME RotationInv, Restore PROVE RotationInv'
<1>1. RotationTypes /\ ~Over /\ Subject \in File /\ Onward /\ step = 10 + Turn(Subject) /\ 10 \in Offset
  <2>1. RotationTypes /\ ~Over /\ Onward /\ Op("restore")
    BY DEF RotationInv, Restore, Op
  <2> QED BY <2>1, OpIs DEF Offset
<1>2. errors' = errors /\ errors # <<>> /\ (Len(errors) = 1 => GoesBack) /\ (LateError' <=> LateError)
  <2>1. step \in 9..12
    BY <1>1, TurnIs
  <2> QED BY <2>1, UndoIs DEF Restore, LateError
<1>3. step' \in 1..17 /\ step' >= 9 /\ step >= 9
  BY <1>1, TurnIs, OnwardIs
<1>4. backup[Subject] \in {"old", "none"} /\ backup \in [File -> {"old", "none"}]
      /\ live \in [File -> {"old", "new", "none"}]
  BY <1>1 DEF RotationTypes
<1>5. /\ \A f \in File : f # Subject => live'[f] = live[f] /\ backup'[f] = backup[f]
      /\ live'[Subject] = IF backup[Subject] = "old" THEN "old" ELSE live[Subject]
      /\ live' \in [File -> {"old", "new", "none"}] /\ backup' \in [File -> {"old", "none"}]
      /\ published' = published /\ backedUp' = backedUp /\ staged' = staged
  <2>1. published' = published /\ backedUp' = backedUp /\ staged' = staged
    BY DEF Restore
  <2>2. CASE backup[Subject] = "none"
    BY <1>4, <2>1, <2>2 DEF Restore
  <2>3. CASE backup[Subject] = "old"
    <3>1. live' = [live EXCEPT ![Subject] = "old"] /\ backup' = [backup EXCEPT ![Subject] = "none"]
      BY <2>3 DEF Restore
    <3> QED BY <1>1, <1>4, <2>1, <2>3, <3>1
  <2> QED BY <1>4, <2>2, <2>3
<1>6. RotationTypes'
  BY <1>1, <1>2, <1>3, <1>5 DEF RotationTypes
<1>7. /\ \A f \in File : Past(8, f)' <=> Past(8, f)
      /\ \A f \in File : Past(10, f)' <=> Past(10, f) \/ f = Subject
      /\ Past(8, Subject) /\ ~Past(10, Subject)
  BY <1>1, <1>3, OnwardIs DEF Offset
<1>8. ASSUME Len(errors) = 1 PROVE GoesBack'
  <2>1. GoesBack
    BY <1>2, <1>8
  <2>2. ASSUME NEW f \in File
        PROVE  /\ (f \in published /\ ~Past(8, f) => live[f] = "new")'
               /\ (f \in published /\ Past(8, f) /\ ~Past(10, f) => live[f] = "none")'
               /\ (f \notin published \/ Past(8, f) => live[f] # "new")'
               /\ (~LateError /\ f \in backedUp => IF Past(10, f) THEN live[f] = "old" ELSE backup[f] = "old")'
    <3>1. CASE f = Subject
      BY <1>2, <1>5, <1>7, <2>1, <3>1 DEF GoesBack
    <3>2. CASE f # Subject
      BY <1>2, <1>5, <1>7, <2>1, <3>2 DEF GoesBack
    <3> QED BY <3>1, <3>2
  <2>3. ("key" \in published /\ "cert" \notin published /\ ~Past(10, "cert") => live["cert"] = "none")'
    BY <1>5, <1>7, <2>1, TurnIs DEF GoesBack
  <2> QED BY <1>2, <1>3, <1>5, <2>1, <2>2, <2>3 DEF GoesBack
<1> QED BY <1>2, <1>6, <1>8 DEF RotationInv

LEMMA FailKeeps == ASSUME RotationInv, StepFails PROVE RotationInv'
<1> DEFINE op == <<Operating, Subject>>
<1>1. RotationTypes /\ ~Over /\ Subject \in File /\ op \in Steps
  <2>1. RotationTypes /\ ~Over
    BY DEF RotationInv, StepFails, Calls
  <2> QED BY <2>1, OpIs
<1>2. step \in 1..16 /\ (step > 12 <=> Operating \in {"unstage", "forget"})
  <2>1. (Over <=> step = 17) /\ step \in 1..17
    BY <1>1, OpIs DEF RotationTypes
  <2>2. step > 12 <=> Operating \in {"unstage", "forget"}
    BY <1>1, OpIs
  <2> QED BY <1>1, <2>1, <2>2
<1>3. errors' = Append(errors, op) /\ step' = IF step >= 9 THEN step + 1 ELSE 9
  BY DEF StepFails, FirstUndo
<1>4. /\ live' = live /\ backup' = backup /\ backedUp' = backedUp /\ published' = published
      /\ staged' = staged \/ staged' = staged \cup {Subject}
  BY DEF StepFails
<1> HIDE DEF op
<1>5. errors \in Seq(Steps) /\ errors' \in Seq(Steps) /\ Len(errors') = Len(errors) + 1
  BY <1>1, <1>3 DEF RotationTypes
<1>6. step' \in 9..17
  BY <1>2, <1>3
<1>7. RotationTypes'
  BY <1>1, <1>4, <1>5, <1>6 DEF RotationTypes
<1>8. errors' # <<>> /\ (Len(errors') = 1 => errors = <<>> /\ errors' = <<op>>)
  <2>1. Append(<<>>, op) = <<op>>
    OBVIOUS
  <2>2. Len(errors) \in Nat /\ (Len(errors) = 0 => errors = <<>>) /\ Len(<<>>) = 0
    BY <1>5
  <2>3. errors' # <<>>
    BY <1>5, <2>2
  <2>4. Len(errors') = 1 => errors = <<>>
    BY <1>5, <2>2
  <2> QED BY <1>3, <2>1, <2>3, <2>4
<1>9. ASSUME errors = <<>> PROVE step <= 8 /\ GoesWell
  <2>1. GoesWell
    BY <1>9 DEF RotationInv
  <2>2. ASSUME step > 12 PROVE FALSE
    <3>1. Past(4, Subject) /\ Past(6, Subject)
      BY <1>1, <1>2, <2>2, TurnIs DEF Past
    <3>2. Subject \notin staged /\ backup[Subject] = "none"
      BY <1>1, <2>1, <3>1 DEF GoesWell, RotationTypes
    <3>3. Op("unstage") \/ Op("forget")
      BY <1>2, <2>2 DEF Op, StepFails, Calls
    <3> QED BY <3>2, <3>3 DEF StepFails, Calls
  <2> QED BY <1>2, <2>1, <2>2 DEF GoesWell
<1>10. ASSUME errors = <<>>, errors' = <<op>> PROVE GoesBack'
  <2>1. GoesWell /\ step \in 1..8 /\ step' = 9
    BY <1>2, <1>3, <1>9, <1>10
  <2>2. \A f \in File : ~Past(8, f)' /\ ~Past(10, f)'
    BY <2>1, TurnIs DEF Past
  <2>3. errors'[1][1] \notin {"unstage", "forget"}
    BY <1>2, <1>10, <2>1 DEF op
  <2>4. ASSUME ~LateError', NEW f \in File PROVE ~Past(6, f)
    <3>1. CASE step = 8
      <4>1. Operating = "drop" /\ Subject = "cert"
        BY <3>1 DEF Operating, Subject, Await
      <4> QED BY <1>10, <2>4, <4>1 DEF LateError, op
    <3>2. CASE step < 8
      BY <2>1, <3>2, TurnIs DEF Past
    <3> QED BY <2>1, <3>1, <3>2
  <2>5. /\ Past(4, "cert") => Past(4, "key")
        /\ Past(4, "key") => Past(2, "cert")
    BY <2>1, TurnIs DEF Past
  <2>6. ASSUME NEW f \in File
        PROVE  /\ (f \in published /\ ~Past(8, f) => live[f] = "new")'
               /\ (f \in published /\ Past(8, f) /\ ~Past(10, f) => live[f] = "none")'
               /\ (f \notin published \/ Past(8, f) => live[f] # "new")'
               /\ (~LateError /\ f \in backedUp => IF Past(10, f) THEN live[f] = "old" ELSE backup[f] = "old")'
    BY <1>4, <2>1, <2>2, <2>4 DEF GoesWell
  <2>7. ("cert" \in published => "key" \in published)'
    BY <1>4, <2>1, <2>5, TurnIs DEF GoesWell
  <2>8. ("key" \in published /\ "cert" \notin published /\ ~Past(10, "cert") => live["cert"] = "none")'
    BY <1>4, <2>1, <2>5, TurnIs DEF GoesWell
  <2>9. step' >= 9
    BY <2>1
  <2> QED BY <2>3, <2>6, <2>7, <2>8, <2>9 DEF GoesBack
<1> QED BY <1>7, <1>8, <1>10 DEF RotationInv

LEMMA RotationBegins == RotationInit => RotationInv
<1> SUFFICES ASSUME RotationInit PROVE RotationInv
  OBVIOUS
<1>1. /\ live \in [File -> {"old", "none"}] /\ backup = [f \in File |-> "none"] /\ staged = {}
      /\ backedUp = {} /\ published = {} /\ step = 1 /\ errors = <<>>
  BY DEF RotationInit
<1>2. errors \in Seq(Steps)
  BY <1>1
<1>3. RotationTypes
  BY <1>1, <1>2 DEF RotationTypes
<1>4. \A f \in File : ~Past(2, f) /\ ~Past(4, f)
  BY <1>1, TurnIs DEF Past
<1>5. \A f \in File : live[f] # "new" /\ backup[f] # "old"
  BY <1>1
<1>6. GoesWell
  BY <1>1, <1>4, <1>5 DEF GoesWell
<1>7. Len(errors) # 1
  BY <1>1
<1> QED BY <1>3, <1>6, <1>7 DEF RotationInv

LEMMA RotationGoesOn == RotationInv /\ [RotationNext]_tlsVars => RotationInv'
<1> SUFFICES ASSUME RotationInv, [RotationNext]_tlsVars PROVE RotationInv'
  OBVIOUS
<1>1. CASE Killed \/ UNCHANGED tlsVars
  <2>1. UNCHANGED <<live, backup, staged, backedUp, published, step, errors>>
    BY <1>1 DEF Killed, tlsVars
  <2> QED BY <2>1 DEF RotationInv, RotationTypes, GoesWell, GoesBack, LateError, Past
<1>2. CASE RotationNext /\ ~Killed
  BY <1>2, StageKeeps, PutAsideKeeps, PublishKeeps, DropKeeps, CleanKeeps, UnpublishKeeps, RestoreKeeps,
     FailKeeps DEF RotationNext
<1> QED BY <1>1, <1>2

\* The invariant says what is found at any instant, and in the end.
LEMMA RotationIsSafe == RotationInv => PairIsSafe
<1> SUFFICES ASSUME RotationInv PROVE PairIsSafe
  OBVIOUS
<1>1. RotationTypes /\ Len(errors) \in Nat /\ (Len(errors) = 0 <=> errors = <<>>)
  BY DEF RotationInv, RotationTypes
<1>2. step \in 1..17 /\ (Over <=> step = 17)
  BY <1>1, OpIs DEF RotationTypes
<1>3. "key" \in File /\ "cert" \in File /\ File = {"key", "cert"}
  BY DEF File
<1>4. ASSUME Mixed PROVE Len(errors) > 1
  <2>1. \/ live["key"] = "new" /\ live["cert"] = "old"
        \/ live["key"] = "old" /\ live["cert"] = "new"
    <3>1. /\ live["key"] \in {"old", "new"} /\ live["cert"] \in {"old", "new"}
          /\ "old" \in {live["key"], live["cert"]} /\ "new" \in {live["key"], live["cert"]}
      BY <1>4 DEF Mixed
    <3> QED BY <3>1
  <2>2. ~GoesWell
    <3>1. (Past(4, "key") => Past(2, "cert")) /\ (Past(4, "cert") => Past(4, "key"))
      BY <1>2, TurnIs DEF Past
    <3> QED BY <1>3, <2>1, <3>1 DEF GoesWell
  <2>3. ~GoesBack
    <3>1. /\ ~Past(8, "key") => ~Past(10, "cert") /\ ~Past(8, "cert")
          /\ ~Past(8, "cert") => ~Past(10, "key")
      BY <1>2, TurnIs DEF Past
    <3>2. CASE live["cert"] = "new"
      BY <1>3, <2>1, <3>1, <3>2 DEF GoesBack
    <3>3. CASE live["key"] = "new"
      BY <1>3, <2>1, <3>1, <3>3 DEF GoesBack
    <3> QED BY <2>1, <3>2, <3>3
  <2>4. errors # <<>> /\ Len(errors) # 1
    BY <2>2, <2>3 DEF RotationInv
  <2>5. Len(errors) \in Nat /\ Len(errors) # 0
    BY <1>1, <2>4
  <2>6. \A n \in Nat : n # 0 /\ n # 1 => n > 1
    OBVIOUS
  <2> QED BY <2>4, <2>5, <2>6
<1>5. ASSUME errors = <<>>
      PROVE  /\ \A f \in File : ~Lost(f)
             /\ Over => live = [f \in File |-> "new"] /\ staged = {}
  <2>1. GoesWell
    BY <1>5 DEF RotationInv
  <2>2. \A f \in File : Past(6, f) => Past(4, f)
    BY <1>2, TurnIs DEF Past
  <2>3. \A f \in File : ~Lost(f)
    BY <2>1, <2>2 DEF GoesWell, Lost
  <2>4. ASSUME Over PROVE live = [f \in File |-> "new"] /\ staged = {}
    <3>1. \A f \in File : Past(4, f)
      BY <1>2, <2>4, TurnIs DEF Past
    <3> QED BY <1>1, <2>1, <3>1 DEF GoesWell, RotationTypes
  <2> QED BY <2>3, <2>4
<1>6. ASSUME errors = <<>>, Over, NEW f \in File PROVE live[f] = Outcome(f)
  BY <1>5, <1>6 DEF Outcome
<1>7. ASSUME Len(errors) = 1, ~LateError, NEW f \in File
      PROVE  ~Lost(f) /\ (Over /\ f \in backedUp => live[f] = Outcome(f))
  <2>3. errors # <<>>
    BY <1>7
  <2>1. GoesBack /\ errors # <<>>
    BY <1>1, <1>7, <2>3 DEF RotationInv
  <2>2. Over => Past(10, f)
    BY <1>2, TurnIs DEF Past
  <2> QED BY <1>7, <2>1, <2>2 DEF GoesBack, Lost, Outcome
<1>8. ASSUME Len(errors) <= 1, ~LateError
      PROVE  (\A f \in File : ~Lost(f)) /\ (Over => \A f \in File : f \in backedUp => live[f] = Outcome(f))
  <2>1. CASE errors = <<>>
    BY <1>5, <1>6, <2>1
  <2>2. CASE errors # <<>>
    <3> DEFINE n == Len(errors)
    <3>1. n \in Nat /\ n # 0 /\ n <= 1
      BY <1>1, <1>8, <2>2
    <3> HIDE DEF n
    <3>2. n = 1
      BY <3>1
    <3> QED BY <1>7, <1>8, <3>2 DEF n
  <2> QED BY <2>1, <2>2
<1> QED BY <1>4, <1>5, <1>8 DEF PairIsSafe

\* Whichever file operation of a rotation fails or is the last before the process is killed, no key
\* is found beside a certificate of another pair, and the old pair is put back.
THEOREM RotationsAreSafe == RotationSpec => []PairIsSafe
<1> QED BY RotationBegins, RotationGoesOn, RotationIsSafe, PTL DEF RotationSpec

-----------------------------------------------------------------------------
(***************************************************************************)
(* What a host comes up as.  Nothing of the configuration changes once it  *)
(* is read, and what was loaded stays as it was found.                     *)
(***************************************************************************)
BootTypes ==
  /\ config \in Config
  /\ session = NoSession \/ session \in [path : {"native", "control"}, game : BOOLEAN]
  /\ installed.package # "valid" => installed.claims = {} /\ installed.binds = {}

LoadedInv ==
  /\ boot = "start" => pad = "unread" /\ ~dispatches /\ did = NoInput /\ session = NoSession
  /\ native.claims \subseteq installed.claims
  /\ pad = "available" => installed.driver = "good" /\ config.backend # "Disabled"
  /\ dispatches => config.input

ServingInv ==
  /\ boot \in {"advertise", "serving"} /\ config.media => CanCapture
  /\ boot = "serving" =>
       /\ shown.av1 <=> Video
       /\ shown.input = InputClaims
       /\ shown.audio <=> config.audio
       /\ shown.game <=> config.game # "none"
  /\ session # NoSession =>
       /\ boot = "serving" /\ code /\ (session.game => config.game # "none")
       /\ session.path = "native" =>
            config.media /\ (config.audio => "audio" \in installed.binds /\ config.sound = "opus")

BootInv == BootTypes /\ LoadedInv /\ ServingInv /\ InputIsAllowed

LEMMA BootBegins == BootInit => BootInv
<1> SUFFICES ASSUME BootInit PROVE BootInv
  OBVIOUS
<1>1. Unread \in Config
  BY DEF Unread, Config
<1>2. BootTypes
  BY <1>1 DEF BootInit, BootTypes
<1>3. LoadedInv
  BY DEF BootInit, LoadedInv
<1>4. ServingInv
  BY DEF BootInit, ServingInv
<1>5. InputIsAllowed
  BY DEF BootInit, InputIsAllowed
<1> QED BY <1>2, <1>3, <1>4, <1>5 DEF BootInv

\* The steps up to serving: the configuration is read in the first, and nobody has come.
LEMMA ComingUpKeeps ==
  ASSUME BootInv,
         ReadConfig \/ ConfigRefused \/ LoadBindings \/ LoadDriver \/ Detect \/ OpenMedia \/ Advertise
  PROVE  BootInv'
<1>1. /\ UNCHANGED <<installed, code, session, did>> /\ config' \in Config
      /\ boot # "serving" /\ session = NoSession /\ (boot # "start" => config' = config)
  BY DEF BootInv, BootTypes, LoadedInv, ServingInv, ReadConfig, ConfigRefused, LoadBindings, LoadDriver, Detect,
     OpenMedia, Advertise, Goes
<1>2. BootTypes'
  BY <1>1 DEF BootInv, BootTypes
<1>3. boot' # "start" /\ (boot = "start" => UNCHANGED <<native, pad, dispatches>>)
  BY DEF ReadConfig, ConfigRefused, LoadBindings, LoadDriver, Detect, OpenMedia, Advertise, Goes
<1>4. LoadedInv'
  <2>1. native' = native \/ native'.claims \in {{}, installed.claims}
    BY DEF ReadConfig, ConfigRefused, LoadBindings, LoadDriver, Detect, OpenMedia, Advertise
  <2>2. native'.claims \subseteq installed'.claims
    BY <1>1, <2>1 DEF BootInv, LoadedInv
  <2>3. pad' = pad \/ (boot = "driver" /\ pad' = DriverStatus)
    BY DEF ReadConfig, ConfigRefused, LoadBindings, LoadDriver, Detect, OpenMedia, Advertise
  <2>4. (pad = "available" => installed.driver = "good" /\ config.backend # "Disabled")'
    BY <1>1, <1>3, <2>3 DEF BootInv, LoadedInv, DriverStatus
  <2>5. dispatches' = dispatches \/ (boot = "detect" /\ dispatches' = WantsExecutor)
    BY DEF ReadConfig, ConfigRefused, LoadBindings, LoadDriver, Detect, OpenMedia, Advertise
  <2>6. dispatches' => config'.input
    BY <1>1, <1>3, <2>5 DEF BootInv, LoadedInv, WantsExecutor
  <2> QED BY <1>3, <2>2, <2>4, <2>6 DEF LoadedInv
<1>5. ServingInv'
  <2>1. boot' \in {"advertise", "serving"} =>
          /\ boot \in {"media", "advertise"} /\ config' = config /\ (config.media => CanCapture)
    BY DEF BootInv, ServingInv, ReadConfig, ConfigRefused, LoadBindings, LoadDriver, Detect, OpenMedia, Advertise,
       Goes
  <2>2. CanCapture' <=> CanCapture
    BY <1>1 DEF CanCapture
  <2>3. boot' = "serving" => Advertise
    BY DEF ReadConfig, ConfigRefused, LoadBindings, LoadDriver, Detect, OpenMedia, Advertise, Goes
  <2>4. ASSUME Advertise
        PROVE  (/\ shown.av1 <=> Video
                /\ shown.input = InputClaims
                /\ shown.audio <=> config.audio
                /\ shown.game <=> config.game # "none")'
    BY <2>4 DEF Advertise, Video, InputClaims, VirtualInput
  <2> QED BY <1>1, <2>1, <2>2, <2>3, <2>4 DEF ServingInv
<1>6. InputIsAllowed'
  <2>1. did # NoInput => config' = config
    BY <1>1 DEF BootInv, LoadedInv
  <2> QED BY <1>1, <2>1 DEF BootInv, InputIsAllowed
<1> QED BY <1>2, <1>4, <1>5, <1>6 DEF BootInv

LEMMA OfferKeeps ==
  ASSUME BootInv, NEW launch, NativeOffer(launch) \/ ControlOffer(launch)
  PROVE  BootInv'
<1>1. UNCHANGED <<installed, config, boot, native, pad, dispatches, shown, did>> /\ boot = "serving" /\ code'
  BY DEF NativeOffer, ControlOffer, Served, Offered
<1>2. /\ session' = NoSession \/ session' \in [path : {"native", "control"}, game : BOOLEAN]
      /\ session'.game => config.game # "none"
      /\ session'.path = "native" =>
           config.media /\ (config.audio => "audio" \in installed.binds /\ config.sound = "opus")
  <2>1. CASE NativeOffer(launch)
    BY <2>1 DEF NativeOffer, CanStart, NoSession
  <2>2. CASE ControlOffer(launch)
    BY <2>2 DEF ControlOffer, MatchesLaunch, NoSession
  <2> QED BY <2>1, <2>2
<1>3. BootTypes'
  BY <1>1, <1>2 DEF BootInv, BootTypes
<1>4. LoadedInv'
  BY <1>1 DEF BootInv, LoadedInv
<1>5. ServingInv'
  BY <1>1, <1>2 DEF BootInv, ServingInv, CanCapture, Video, InputClaims, VirtualInput
<1>6. InputIsAllowed'
  BY <1>1 DEF BootInv, InputIsAllowed
<1> QED BY <1>3, <1>4, <1>5, <1>6 DEF BootInv

\* An event that is carried out was granted, and what carries it out is there.
LEMMA InputKeeps ==
  ASSUME BootInv, NEW kind \in {"key", "pad", "rumble"}, InputEvent(kind)
  PROVE  BootInv'
<1>1. UNCHANGED <<installed, config, boot, native, pad, dispatches, shown, code, session>> /\ session # NoSession
  BY DEF InputEvent, Served
<1>2. Carrier(kind) = Base \/ (Carrier(kind) = "driver" /\ VirtualInput)
  BY DEF Carrier
<1>3. /\ Carrier(kind) = "driver" => installed.driver = "good" /\ config.backend # "Disabled"
      /\ Carrier(kind) = "package" => "input" \in installed.binds
  <2>1. (Base = "driver" => VirtualInput) /\ (Base = "package" => "input" \in installed.binds)
    BY DEF Base
  <2>2. VirtualInput => installed.driver = "good" /\ config.backend # "Disabled"
    BY DEF VirtualInput, BootInv, LoadedInv
  <2> QED BY <1>2, <2>1, <2>2
<1>4. ASSUME Executes(kind) PROVE config.input /\ (kind \in {"pad", "rumble"} => config.pads)
  BY <1>4 DEF Executes, BootInv, LoadedInv, ControlGrants, NativeGrants, VirtualGranted, RumbleGranted
<1>5. did' = NoInput \/ (did' = [kind |-> kind, by |-> Carrier(kind)] /\ Executes(kind))
  BY DEF InputEvent
<1>7. BootTypes'
  BY <1>1 DEF BootInv, BootTypes
<1>8. LoadedInv'
  <2>1. boot # "start"
    BY <1>1 DEF BootInv, LoadedInv
  <2> QED BY <1>1, <2>1 DEF BootInv, LoadedInv
<1>9. ServingInv'
  BY <1>1 DEF BootInv, ServingInv, CanCapture, Video, InputClaims, VirtualInput
<1>10. InputIsAllowed'
  BY <1>1, <1>3, <1>4, <1>5 DEF InputIsAllowed
<1> QED BY <1>7, <1>8, <1>9, <1>10 DEF BootInv

LEMMA RestOfBootKeeps == ASSUME BootInv, SessionCloses \/ UNCHANGED bootVars PROVE BootInv'
<1>1. UNCHANGED <<installed, config, boot, native, pad, dispatches, shown, code, did>>
  BY DEF SessionCloses, Served, bootVars
<1>2. session' = session \/ session' = NoSession
  BY DEF SessionCloses, bootVars
<1>3. BootTypes' /\ LoadedInv' /\ InputIsAllowed'
  BY <1>1, <1>2 DEF BootInv, BootTypes, LoadedInv, InputIsAllowed
<1>4. ServingInv'
  BY <1>1, <1>2 DEF BootInv, ServingInv, CanCapture, Video, InputClaims, VirtualInput
<1> QED BY <1>3, <1>4 DEF BootInv

LEMMA BootGoesOn == BootInv /\ [BootNext]_bootVars => BootInv'
BY ComingUpKeeps, OfferKeeps, InputKeeps, RestOfBootKeeps DEF BootNext

LEMMA HostIsHonest == BootInv => HostComesUpHonest
<1> SUFFICES ASSUME BootInv PROVE HostComesUpHonest
  OBVIOUS
<1>1. SessionIsServed
  <2>1. NoSession.path # "native" /\ ~NoSession.game
    BY DEF NoSession
  <2> QED BY <2>1 DEF BootInv, BootTypes, ServingInv, CanCapture, SessionIsServed
<1>2. ShownIsThere
  BY DEF BootInv, LoadedInv, ServingInv, ShownIsThere, Video, InputClaims, VirtualInput, VirtualReady
<1> QED BY <1>1, <1>2 DEF BootInv, HostComesUpHonest

\* Whatever is configured and installed: a host carries out, accepts and shows only what its operator
\* allowed and its machine has.
THEOREM HostsComeUpHonest == BootSpec => []HostComesUpHonest
<1> QED BY BootBegins, BootGoesOn, HostIsHonest, PTL DEF BootSpec

-----------------------------------------------------------------------------
(***************************************************************************)
(* The checks.  What was performed is of the check that runs and was in    *)
(* the machine's reach, and a report that says `ready' has just that.      *)
(***************************************************************************)
CheckTypes ==
  /\ check \in [tool : Tool \cup {"none"}, execute : BOOLEAN, extra : BOOLEAN]
  /\ position \in Nat \ {0} /\ problem \in BOOLEAN
  /\ media \in [Media -> {"off", "on", "died"}] /\ DOMAIN file = Tool /\ DOMAIN earned = Tool
  /\ stage # "idle" => check.tool \in Tool

\* What a check of a tool can perform.
StepsOf(tool) ==
  CASE tool = "desktop" -> {"capture", "audio", "press", "release", "rumble"}
    [] tool = "uinput"  -> {"press", "release", "axis", "rumble", "observe"}
    [] tool = "gamepad" -> {"press", "release", "axis", "driver"}
    [] OTHER -> {}

PerformedInv ==
  /\ performed \subseteq StepsOf(check.tool)
  /\ check.tool = "desktop" => ("rumble" \in performed => Rumble) /\ ("capture" \in performed => machine.ffmpeg)
  /\ stage \notin {"load", "operate"} /\ ~problem => position > Len(Operations)

DesktopIsHonest(r, steps) ==
  r.status = "ready" =>
    /\ HardwareReady /\ r.verified = steps /\ r.verified \subseteq StepsOf("desktop")
    /\ ("rumble" \in r.verified => Rumble) /\ ("capture" \in r.verified => machine.ffmpeg)
GamepadIsHonest(r, steps) ==
  r.status = "ready" =>
    /\ r.verified = steps /\ r.verified \subseteq StepsOf("gamepad")
    /\ r.driver => "driver" \in r.verified

ReportsInv ==
  DesktopIsHonest(file["desktop"], earned["desktop"]) /\ GamepadIsHonest(file["gamepad"], earned["gamepad"])

MediaInv == \A m \in Media : media[m] # "off" => stage \in {"operate", "stop"} /\ check.execute

\* A key of the keyboard is pressed only where there is no gamepad, and is up after the release.
PressedInv ==
  /\ pressed \subseteq {"F20", "button-0"}
  /\ "F20" \in pressed => ~Gamepad
  /\ check.tool = "desktop" /\ check.execute /\ position > 4 => "F20" \notin pressed
  /\ stage \in {"idle", "load", "write"} => "button-0" \notin pressed

HardwareInv == CheckTypes /\ PerformedInv /\ ReportsInv /\ MediaInv /\ PressedInv

LEMMA ExerciseIs ==
  /\ Len(Exercise) = 5 /\ Exercise[1] = "capture" /\ Exercise[2] = "audio" /\ Exercise[3] = "press"
  /\ Exercise[4] = "release" /\ Exercise[5] = "rumble"
  /\ ToSet(Exercise) = {"capture", "audio", "press", "release", "rumble"}
  /\ Len(Sequence) = 3 /\ Sequence[1] = "press" /\ Sequence[2] = "release" /\ Sequence[3] = "axis"
  /\ ToSet(Sequence) = {"press", "release", "axis"}
<1>1. /\ Len(Exercise) = 5 /\ Exercise[1] = "capture" /\ Exercise[2] = "audio" /\ Exercise[3] = "press"
      /\ Exercise[4] = "release" /\ Exercise[5] = "rumble" /\ DOMAIN Exercise = 1..5
  BY DEF Exercise
<1>2. /\ Len(Sequence) = 3 /\ Sequence[1] = "press" /\ Sequence[2] = "release" /\ Sequence[3] = "axis"
      /\ DOMAIN Sequence = 1..3
  BY DEF Sequence
<1>3. 1..5 = {1, 2, 3, 4, 5} /\ 1..3 = {1, 2, 3}
  OBVIOUS
<1>4. ToSet(Exercise) = {"capture", "audio", "press", "release", "rumble"}
  BY <1>1, <1>3 DEF ToSet
<1>5. ToSet(Sequence) = {"press", "release", "axis"}
  BY <1>2, <1>3 DEF ToSet
<1> QED BY <1>1, <1>2, <1>4, <1>5

\* The operation that comes next is one of its check, and of a desktop's the one in its place.
LEMMA OperationIs ==
  ASSUME CheckTypes, position <= Len(Operations)
  PROVE  /\ Operation \in StepsOf(check.tool)
         /\ check.tool = "desktop" => check.execute /\ Operation = Exercise[position] /\ position \in 1..5
         /\ Operation \in Media => check.tool = "desktop"
<1>1. position \in Nat \ {0}
  BY DEF CheckTypes
<1>2. CASE check.tool = "desktop"
  <2>1. check.execute /\ Operations = Exercise
    BY <1>1, <1>2 DEF Operations
  <2>2. position \in 1..5
    BY <1>1, <2>1, ExerciseIs
  <2>3. Exercise[position] \in {"capture", "audio", "press", "release", "rumble"}
    BY <2>2, ExerciseIs
  <2> QED BY <1>2, <2>1, <2>2, <2>3 DEF Operation, StepsOf
<1>3. CASE check.tool = "uinput"
  <2> DEFINE more == <<"rumble", "observe">>
  <2>1. Operations = Sequence \/ Operations = Sequence \o more
    BY <1>1, <1>3 DEF Operations
  <2>2. Sequence \in Seq({"press", "release", "axis"}) /\ more \in Seq({"rumble", "observe"})
    BY DEF Sequence
  <2>3. Operations \in Seq({"press", "release", "axis", "rumble", "observe"})
    BY <2>1, <2>2, SMTT(60)
  <2>4. Operation \in {"press", "release", "axis", "rumble", "observe"}
    BY <1>1, <2>3 DEF Operation
  <2> QED BY <1>3, <2>4 DEF StepsOf, Media
<1>4. CASE check.tool = "gamepad"
  <2> DEFINE first == IF check.extra THEN <<"driver">> ELSE <<>>
             rest == IF check.execute THEN Sequence ELSE <<>>
  <2>1. Operations = first \o rest
    BY <1>4 DEF Operations
  <2>2. /\ Sequence \in Seq({"press", "release", "axis", "driver"})
        /\ <<"driver">> \in Seq({"press", "release", "axis", "driver"})
    BY DEF Sequence
  <2>3. <<>> \in Seq({"press", "release", "axis", "driver"})
    OBVIOUS
  <2>4. /\ first \in Seq({"press", "release", "axis", "driver"})
        /\ rest \in Seq({"press", "release", "axis", "driver"})
    BY <2>2, <2>3
  <2> HIDE DEF first, rest
  <2>5. Operations \in Seq({"press", "release", "axis", "driver"})
    BY <2>1, <2>4
  <2>6. Operation \in {"press", "release", "axis", "driver"}
    BY <1>1, <2>5 DEF Operation
  <2> QED BY <1>4, <2>6 DEF StepsOf, Media
<1>5. CASE check.tool = "none"
  <2>1. Operations = <<>>
    BY <1>5 DEF Operations
  <2> QED BY <1>1, <2>1
<1> QED BY <1>2, <1>3, <1>4, <1>5 DEF CheckTypes, Tool

LEMMA HardwareBegins == HardwareInit => HardwareInv
<1> SUFFICES ASSUME HardwareInit PROVE HardwareInv
  OBVIOUS
<1>1. check.tool = "none" /\ check \in [tool : Tool \cup {"none"}, execute : BOOLEAN, extra : BOOLEAN]
  BY DEF HardwareInit, NoCheck
<1>2. Operations = <<>>
  BY <1>1 DEF Operations
<1>3. MediaInv
  BY DEF HardwareInit, MediaInv
<1>8. CheckTypes
  <2>1. media \in [Media -> {"off", "on", "died"}] /\ DOMAIN file = Tool /\ DOMAIN earned = Tool
    BY DEF HardwareInit
  <2>2. position = 1 /\ stage = "idle"
    BY DEF HardwareInit
  <2>3. problem \in BOOLEAN
    BY Zenon DEF HardwareInit
  <2> QED BY <1>1, <2>1, <2>2, <2>3 DEF CheckTypes
<1>4. PerformedInv
  BY <1>1, <1>2 DEF HardwareInit, PerformedInv
<1>5. file["desktop"] = NoReport /\ file["gamepad"] = NoReport
  BY DEF HardwareInit, Tool
<1>6. ReportsInv
  BY <1>5 DEF ReportsInv, DesktopIsHonest, GamepadIsHonest, NoReport
<1>7. PressedInv
  BY <1>1 DEF HardwareInit, PressedInv
<1> QED BY <1>3, <1>4, <1>6, <1>7, <1>8 DEF HardwareInv

LEMMA SameOperations == check' = check => Operations' = Operations
BY DEF Operations

\* What is on the disk stays as honest as it was while nothing is written.
LEMMA ReportsStay ==
  ASSUME ReportsInv, file' = file, earned' = earned, machine' = machine
  PROVE  ReportsInv'
BY DEF ReportsInv, DesktopIsHonest, GamepadIsHonest, HardwareReady, Rumble

LEMMA BeginKeeps ==
  ASSUME HardwareInv, NEW tool \in Tool, NEW execute \in BOOLEAN, NEW extra \in BOOLEAN,
         Begin(tool, execute, extra)
  PROVE  HardwareInv'
<1>1. /\ check'.tool = tool /\ check'.execute = execute
      /\ check' \in [tool : Tool \cup {"none"}, execute : BOOLEAN, extra : BOOLEAN]
      /\ stage = "idle" /\ stage' = "load" /\ position' = 1 /\ problem' = FALSE /\ performed' = {}
      /\ UNCHANGED <<machine, media, pressed, file, earned>>
  BY DEF Begin
<1>2. CheckTypes'
  <2>1. position' \in Nat \ {0}
    BY <1>1
  <2>3. problem' \in BOOLEAN
    BY <1>1, Zenon
  <2>2. media' \in [Media -> {"off", "on", "died"}] /\ DOMAIN file' = Tool /\ DOMAIN earned' = Tool
    BY <1>1 DEF HardwareInv, CheckTypes
  <2> QED BY <1>1, <2>1, <2>2, <2>3 DEF CheckTypes
<1>3. PerformedInv'
  BY <1>1 DEF PerformedInv
<1>4. ReportsInv'
  BY <1>1, ReportsStay DEF HardwareInv
<1>5. MediaInv'
  BY <1>1 DEF HardwareInv, MediaInv
<1>6. PressedInv'
  BY <1>1 DEF HardwareInv, PressedInv, Gamepad
<1> QED BY <1>2, <1>3, <1>4, <1>5, <1>6 DEF HardwareInv

\* A step that leaves the operations and the reports alone.
LEMMA OnlyStageKeeps ==
  ASSUME HardwareInv, UNCHANGED <<machine, check, position, media, pressed, file, performed, earned>>,
         stage # "idle", problem' \in BOOLEAN, problem => problem',
         stage' \in {"operate", "stop", "close"},
         stage' = "operate" \/ problem' \/ position > Len(Operations),
         (\E m \in Media : media[m] # "off") => stage' # "close"
  PROVE  HardwareInv'
<1>1. CheckTypes'
  BY DEF HardwareInv, CheckTypes
<1>2. PerformedInv'
  <2>1. Rumble' = Rumble /\ Operations' = Operations
    BY SameOperations DEF Rumble
  <2> QED BY <2>1 DEF HardwareInv, PerformedInv
<1>3. ReportsInv'
  BY ReportsStay DEF HardwareInv
<1>4. MediaInv'
  BY DEF HardwareInv, MediaInv
<1>5. PressedInv'
  BY DEF HardwareInv, PressedInv, Gamepad
<1> QED BY <1>1, <1>2, <1>3, <1>4, <1>5 DEF HardwareInv

LEMMA LoadKeeps == ASSUME HardwareInv, Load \/ LoadFails PROVE HardwareInv'
<1>1. /\ UNCHANGED <<machine, check, position, media, pressed, file, performed, earned>>
      /\ stage = "load" /\ stage' \in {"operate", "close"}
      /\ (stage' = "operate" \/ problem') /\ (problem => problem')
      /\ problem' \in BOOLEAN
  BY DEF Load, LoadFails, HardwareInv, CheckTypes
<1>2. \A m \in Media : media[m] = "off"
  BY <1>1 DEF HardwareInv, MediaInv
<1> QED BY <1>1, <1>2, OnlyStageKeeps

LEMMA OperateEnds == ASSUME HardwareInv, PerformFails \/ Performed PROVE HardwareInv'
<1>1. /\ UNCHANGED <<machine, check, position, media, pressed, file, performed, earned>>
      /\ stage = "operate" /\ stage' = "stop" /\ (problem' \/ position > Len(Operations)) /\ (problem => problem')
      /\ problem' \in BOOLEAN
  BY DEF PerformFails, Performed, HardwareInv, CheckTypes
<1> QED BY <1>1, OnlyStageKeeps

LEMMA PerformKeeps == ASSUME HardwareInv, Perform PROVE HardwareInv'
<1>1. CheckTypes /\ position <= Len(Operations) /\ stage = "operate" /\ stage' = "operate"
      /\ UNCHANGED <<machine, check, problem, file, earned>> /\ position' = position + 1
      /\ performed' = performed \cup {Operation} /\ Able
  BY DEF HardwareInv, Perform
<1>2. /\ Operation \in StepsOf(check.tool)
      /\ check.tool = "desktop" => check.execute /\ Operation = Exercise[position] /\ position \in 1..5
      /\ Operation \in Media => check.tool = "desktop"
  BY <1>1, OperationIs
<1>3. media' = media \/ (Operation \in Media /\ media' = [media EXCEPT ![Operation] = "on"])
  BY DEF Perform
<1>4. CheckTypes'
  BY <1>1, <1>3 DEF CheckTypes
<1>5. PerformedInv'
  <2>1. (Operation = "rumble" => Rumble) /\ (Operation = "capture" => machine.ffmpeg)
    BY <1>1 DEF Able, Media
  <2>2. Rumble' = Rumble
    BY <1>1 DEF Rumble
  <2> QED BY <1>1, <1>2, <2>1, <2>2 DEF HardwareInv, PerformedInv
<1>6. ReportsInv'
  BY <1>1, ReportsStay DEF HardwareInv
<1>7. MediaInv'
  BY <1>1, <1>2, <1>3 DEF HardwareInv, MediaInv, CheckTypes
<1>8. pressed' = pressed \/ pressed' = pressed \cup {Control} \/ pressed' = pressed \ {Control}
  BY DEF Perform
<1>9. Control \in {"F20", "button-0"} /\ (Control = "F20" <=> check.tool = "desktop" /\ ~Gamepad)
  BY DEF Control
<1>10. Operation = "press" => position = 3 \/ check.tool # "desktop"
  BY <1>2, ExerciseIs
<1>11. pressed' = pressed \cup {Control} => Operation = "press" \/ pressed' = pressed
  BY <1>9 DEF Perform
<1>12. PressedInv'
  <2>1. pressed' \subseteq {"F20", "button-0"} /\ ("F20" \in pressed' => ~Gamepad')
    BY <1>1, <1>8, <1>9 DEF HardwareInv, PressedInv, Gamepad
  <2>2. ASSUME check.tool = "desktop", check.execute, position' > 4 PROVE "F20" \notin pressed'
    <3>1. position \in {4, 5}
      BY <1>1, <1>2, <2>2
    <3>2. CASE position = 4
      <4>1. Operation = "release" /\ pressed' = pressed \ {Control}
        BY <1>2, <2>2, <3>2, ExerciseIs DEF Perform
      <4> QED BY <1>9, <2>2, <4>1 DEF HardwareInv, PressedInv
    <3>3. CASE position = 5
      <4>1. Operation = "rumble" /\ pressed' = pressed
        BY <1>2, <2>2, <3>3, ExerciseIs DEF Perform
      <4> QED BY <2>2, <3>3, <4>1 DEF HardwareInv, PressedInv
    <3> QED BY <3>1, <3>2, <3>3
  <2> QED BY <1>1, <2>1, <2>2 DEF PressedInv
<1> QED BY <1>4, <1>5, <1>6, <1>7, <1>12 DEF HardwareInv

LEMMA StopMediaKeeps == ASSUME HardwareInv, StopMedia PROVE HardwareInv'
<1>1. /\ UNCHANGED <<machine, check, position, problem, pressed, file, performed, earned>> /\ stage = "stop"
      /\ \/ stage' = "close" /\ media' = media /\ media["audio"] = "off" /\ media["capture"] = "off"
         \/ stage' = stage /\ \E m \in Media : media' = [media EXCEPT ![m] = "off"]
  BY DEF StopMedia, Media
<1>2. CASE stage' = "close" /\ media' = media /\ media["audio"] = "off" /\ media["capture"] = "off"
  <2>1. \A m \in Media : media[m] = "off"
    BY <1>2 DEF Media
  <2>2. problem \in BOOLEAN /\ (problem \/ position > Len(Operations))
    BY <1>1 DEF HardwareInv, CheckTypes, PerformedInv
  <2> QED BY <1>1, <1>2, <2>1, <2>2, OnlyStageKeeps
<1>3. ASSUME stage' = stage, NEW m \in Media, media' = [media EXCEPT ![m] = "off"] PROVE HardwareInv'
  <2>1. CheckTypes'
    BY <1>1, <1>3 DEF HardwareInv, CheckTypes
  <2>2. PerformedInv'
    <3>1. Rumble' = Rumble /\ Operations' = Operations
      BY <1>1, SameOperations DEF Rumble
    <3> QED BY <1>1, <1>3, <3>1 DEF HardwareInv, PerformedInv
  <2>3. ReportsInv'
    BY <1>1, ReportsStay DEF HardwareInv
  <2>4. MediaInv'
    BY <1>1, <1>3 DEF HardwareInv, MediaInv, CheckTypes
  <2>5. PressedInv'
    BY <1>1, <1>3 DEF HardwareInv, PressedInv, Gamepad
  <2> QED BY <2>1, <2>2, <2>3, <2>4, <2>5 DEF HardwareInv
<1> QED BY <1>1, <1>2, <1>3

\* The rest of a check: its bindings are closed, its report is written.
LEMMA EndOfCheck ==
  ASSUME HardwareInv, UNCHANGED <<machine, check, position, problem, media, performed>>,
         stage \in {"close", "write"},
         stage' \in {"write", "idle"}, DOMAIN file' = Tool, DOMAIN earned' = Tool, ReportsInv',
         pressed' \subseteq pressed, "button-0" \notin pressed'
  PROVE  HardwareInv'
<1>1. CheckTypes'
  BY DEF HardwareInv, CheckTypes
<1>2. PerformedInv'
  <2>1. Rumble' = Rumble /\ Operations' = Operations
    BY SameOperations DEF Rumble
  <2> QED BY <2>1 DEF HardwareInv, PerformedInv
<1>3. MediaInv'
  BY DEF HardwareInv, MediaInv
<1>4. PressedInv'
  BY DEF HardwareInv, PressedInv, Gamepad
<1> QED BY <1>1, <1>2, <1>3, <1>4 DEF HardwareInv

LEMMA CloseKeeps == ASSUME HardwareInv, CloseBindings PROVE HardwareInv'
<1>1. /\ UNCHANGED <<machine, check, position, problem, media, performed, file, earned>> /\ stage = "close"
      /\ stage' \in {"write", "idle"} /\ pressed' = pressed \ {"button-0"}
  BY DEF CloseBindings
<1>2. ReportsInv' /\ DOMAIN file' = Tool /\ DOMAIN earned' = Tool
  BY <1>1, ReportsStay DEF HardwareInv, CheckTypes
<1> QED BY <1>1, <1>2, EndOfCheck

LEMMA WriteKeeps == ASSUME HardwareInv, Write PROVE HardwareInv'
<1>1. /\ UNCHANGED <<machine, check, position, problem, media, performed, pressed>> /\ stage = "write"
      /\ stage' = "idle"
  BY DEF Write
<1>2. "button-0" \notin pressed /\ check.tool \in Tool
  BY <1>1 DEF HardwareInv, PressedInv, CheckTypes
<1>3. CASE UNCHANGED <<file, earned>>
  <2>1. ReportsInv' /\ DOMAIN file' = Tool /\ DOMAIN earned' = Tool
    BY <1>1, <1>3, ReportsStay DEF HardwareInv, CheckTypes
  <2> QED BY <1>1, <1>2, <2>1, EndOfCheck
<1>4. CASE /\ file' = [file EXCEPT ![check.tool] = Report]
           /\ earned' = [earned EXCEPT ![check.tool] = IF problem THEN {} ELSE performed]
  <2>1. /\ DOMAIN file' = Tool /\ DOMAIN earned' = Tool /\ file'[check.tool] = Report
        /\ earned'[check.tool] = IF problem THEN {} ELSE performed
        /\ \A t \in Tool : t # check.tool => file'[t] = file[t] /\ earned'[t] = earned[t]
    BY <1>2, <1>4 DEF HardwareInv, CheckTypes
  <2>2. /\ Report.status = "ready" => ~problem /\ (check.tool = "desktop" => HardwareReady)
        /\ Report.verified = performed /\ (Report.driver => "driver" \in performed)
    BY DEF Report
  <2>3. HardwareReady' = HardwareReady /\ Rumble' = Rumble /\ machine' = machine
    BY <1>1 DEF HardwareReady, Rumble
  <2>4. "desktop" \in Tool /\ "gamepad" \in Tool
    BY DEF Tool
  <2> HIDE DEF Report
  <2>9. DesktopIsHonest(file["desktop"], earned["desktop"]) /\ GamepadIsHonest(file["gamepad"], earned["gamepad"])
    BY DEF HardwareInv, ReportsInv
  <2>5. ASSUME check.tool = "desktop" PROVE ReportsInv'
    <3>1. file'["gamepad"] = file["gamepad"] /\ earned'["gamepad"] = earned["gamepad"]
      BY <2>1, <2>4, <2>5
    <3>2. file'["desktop"] = Report /\ earned'["desktop"] = IF problem THEN {} ELSE performed
      BY <2>1, <2>5
    <3>3. GamepadIsHonest(file["gamepad"], earned["gamepad"])'
      BY <2>9, <3>1 DEF GamepadIsHonest
    <3>4. ASSUME Report.status = "ready"
          PROVE  /\ HardwareReady /\ Report.verified = performed /\ performed \subseteq StepsOf("desktop")
                 /\ ("rumble" \in performed => Rumble) /\ ("capture" \in performed => machine.ffmpeg)
                 /\ ~problem
      BY <2>2, <2>5, <3>4 DEF HardwareInv, PerformedInv
    <3>5. DesktopIsHonest(file["desktop"], earned["desktop"])'
      <4>1. Report.status = "ready" => earned'["desktop"] = performed
        BY <3>2, <3>4, Zenon
      <4> QED BY <2>3, <3>2, <3>4, <4>1 DEF DesktopIsHonest
    <3> QED BY <3>3, <3>5 DEF ReportsInv
  <2>6. ASSUME check.tool = "gamepad" PROVE ReportsInv'
    <3>1. file'["desktop"] = file["desktop"] /\ earned'["desktop"] = earned["desktop"]
      BY <2>1, <2>4, <2>6
    <3>2. file'["gamepad"] = Report /\ earned'["gamepad"] = IF problem THEN {} ELSE performed
      BY <2>1, <2>6
    <3>3. DesktopIsHonest(file["desktop"], earned["desktop"])'
      BY <2>3, <2>9, <3>1 DEF DesktopIsHonest
    <3>4. ASSUME Report.status = "ready"
          PROVE  /\ Report.verified = performed /\ performed \subseteq StepsOf("gamepad") /\ ~problem
                 /\ Report.driver => "driver" \in performed
      BY <2>2, <2>6, <3>4 DEF HardwareInv, PerformedInv
    <3>5. GamepadIsHonest(file["gamepad"], earned["gamepad"])'
      <4>1. Report.status = "ready" => earned'["gamepad"] = performed
        BY <3>2, <3>4, Zenon
      <4> QED BY <3>2, <3>4, <4>1 DEF GamepadIsHonest
    <3> QED BY <3>3, <3>5 DEF ReportsInv
  <2>7. ASSUME check.tool # "desktop", check.tool # "gamepad" PROVE ReportsInv'
    <3>1. /\ file'["desktop"] = file["desktop"] /\ earned'["desktop"] = earned["desktop"]
          /\ file'["gamepad"] = file["gamepad"] /\ earned'["gamepad"] = earned["gamepad"]
      BY <2>1, <2>4, <2>7
    <3> QED BY <2>3, <2>9, <3>1 DEF ReportsInv, DesktopIsHonest, GamepadIsHonest
  <2>8. ReportsInv'
    BY <2>5, <2>6, <2>7
  <2> QED BY <1>1, <1>2, <2>1, <2>8, EndOfCheck
<1> QED BY <1>3, <1>4 DEF Write

LEMMA MediaDiesKeeps ==
  ASSUME HardwareInv, (\E m \in Media : MediaDies(m)) \/ UNCHANGED hardwareVars
  PROVE  HardwareInv'
<1>1. /\ UNCHANGED <<machine, check, stage, position, problem, pressed, file, performed, earned>>
      /\ media' = media \/ \E m \in Media : media[m] # "off" /\ media' = [media EXCEPT ![m] = "died"]
  BY DEF MediaDies, hardwareVars
<1>2. CheckTypes'
  BY <1>1 DEF HardwareInv, CheckTypes
<1>3. PerformedInv'
  <2>1. Rumble' = Rumble /\ Operations' = Operations
    BY <1>1, SameOperations DEF Rumble
  <2> QED BY <1>1, <2>1 DEF HardwareInv, PerformedInv
<1>4. ReportsInv'
  BY <1>1, ReportsStay DEF HardwareInv
<1>5. MediaInv'
  BY <1>1 DEF HardwareInv, MediaInv, CheckTypes
<1>6. PressedInv'
  BY <1>1 DEF HardwareInv, PressedInv, Gamepad
<1> QED BY <1>2, <1>3, <1>4, <1>5, <1>6 DEF HardwareInv

LEMMA HardwareGoesOn == HardwareInv /\ [HardwareNext]_hardwareVars => HardwareInv'
BY BeginKeeps, LoadKeeps, OperateEnds, PerformKeeps, StopMediaKeeps, CloseKeeps, WriteKeeps, MediaDiesKeeps
   DEF HardwareNext

LEMMA ReportsAreHonest == HardwareInv => ChecksAreHonest
<1> SUFFICES ASSUME HardwareInv PROVE ChecksAreHonest
  OBVIOUS
<1>1. file["desktop"].status = "ready" => HardwareReady
  BY DEF HardwareInv, ReportsInv, DesktopIsHonest
<1>2. ASSUME file["desktop"].status = "ready", HardwareAccepted(file["desktop"])
      PROVE  earned["desktop"] = ToSet(Exercise) /\ Rumble /\ machine.ffmpeg
  <2>1. {"capture", "audio", "press", "release", "rumble"} \subseteq file["desktop"].verified
    BY <1>2 DEF HardwareAccepted
  <2>2. file["desktop"].verified \subseteq {"capture", "audio", "press", "release", "rumble"}
    BY <1>2 DEF HardwareInv, ReportsInv, DesktopIsHonest, StepsOf
  <2> QED BY <1>2, <2>1, <2>2, ExerciseIs DEF HardwareInv, ReportsInv, DesktopIsHonest
<1>3. ASSUME file["gamepad"].status = "ready", VirtualAccepted(file["gamepad"])
      PROVE  earned["gamepad"] = ToSet(Sequence) \cup {"driver"}
  <2>1. {"press", "release", "axis"} \subseteq file["gamepad"].verified /\ file["gamepad"].driver
    BY <1>3 DEF VirtualAccepted
  <2>2. file["gamepad"].verified \subseteq {"press", "release", "axis", "driver"}
    BY <1>3 DEF HardwareInv, ReportsInv, GamepadIsHonest, StepsOf
  <2> QED BY <1>3, <2>1, <2>2, ExerciseIs DEF HardwareInv, ReportsInv, GamepadIsHonest
<1>4. ASSUME stage = "idle"
      PROVE  /\ \A m \in Media : media[m] = "off"
             /\ pressed \subseteq {"F20"}
             /\ check.tool = "desktop" /\ check.execute /\ ~problem => pressed = {}
  <2>1. (\A m \in Media : media[m] = "off") /\ pressed \subseteq {"F20"}
    BY <1>4 DEF HardwareInv, MediaInv, PressedInv
  <2>2. ASSUME check.tool = "desktop", check.execute, ~problem PROVE pressed = {}
    <3>1. Operations = Exercise /\ position \in Nat
      BY <2>2 DEF Operations, HardwareInv, CheckTypes
    <3>2. position > 5
      BY <1>4, <2>2, <3>1, ExerciseIs DEF HardwareInv, PerformedInv
    <3>3. "F20" \notin pressed
      BY <2>2, <3>1, <3>2 DEF HardwareInv, PressedInv
    <3> QED BY <2>1, <3>3
  <2> QED BY <2>1, <2>2
<1>5. ~check.execute => \A m \in Media : media[m] = "off"
  BY DEF HardwareInv, MediaInv
<1> QED BY <1>1, <1>2, <1>3, <1>4, <1>5 DEF ChecksAreHonest

\* Whatever the machine has, fails or dies: a report that will be accepted was earned, and a check
\* leaves nothing running and nothing held.
THEOREM ChecksStayHonest == HardwareSpec => []ChecksAreHonest
<1> QED BY HardwareBegins, HardwareGoesOn, ReportsAreHonest, PTL DEF HardwareSpec
-----------------------------------------------------------------------------
(***************************************************************************)
(* The evidence.  What a rollout has seen follows from how far it came, so *)
(* a report that the gate of production accepts was backed when it was     *)
(* written; and while an assessment is not blocked, no report it has       *)
(* looked at lacked anything.                                              *)
(***************************************************************************)
Rolling == {"primary", "admin", "turn", "report"}
Healthy == {"admin", "turn", "report"}

PhaseInv ==
  /\ progress \in {"idle", "preflight", "up"} \cup Rolling
  /\ progress # "idle" => options.mode = "execute" /\ ~PlanRejected(options) /\ exit = -1
  /\ progress \notin {"idle", "report"} => turn = "none"
  /\ progress \in Rolling => Services \subseteq deployed
  /\ progress \in Healthy => answer \in seen /\ (options.https => "https" \in seen)
  /\ progress \in Healthy /\ options.broker => answer \in {"redis ready", "memory ready"}
  /\ progress = "report" /\ turn = "reachable" => {"credentials", "relays"} \subseteq seen
  /\ progress = "report" /\ options.checkTurn => "credentials" \in seen
  /\ progress = "report" /\ options.checkTurn /\ options.network => "relays" \in seen

\* What the last of the conjuncts of EvidenceIsReal says of a rollout that ended well.
EndInv ==
  exit = 0 /\ options.mode = "execute" =>
    /\ options.broker => seen \cap {"redis ready", "memory ready"} # {}
    /\ options.checkTurn => "credentials" \in seen
    /\ options.checkTurn /\ options.network => "relays" \in seen
    /\ Services \subseteq deployed

BackedInv == ProductionGate(production) => Observations \subseteq backing

VerdictInv ==
  /\ gate \in Nat /\ blocked \in BOOLEAN
  /\ gate > 0 => verdict = "none"
  /\ gate > 0 /\ ~blocked => Observations \cup {"whole"} \subseteq judged
  /\ verdict = "complete" => Observations \cup {"whole"} \subseteq judged

EvidenceInv == PhaseInv /\ EndInv /\ BackedInv /\ VerdictInv

LEMMA EvidenceBegins == EvidenceInit => EvidenceInv
<1> SUFFICES ASSUME EvidenceInit PROVE EvidenceInv
  OBVIOUS
<1>1. PhaseInv
  BY DEF EvidenceInit, PhaseInv, Rolling, Healthy
<1>2. EndInv
  BY DEF EvidenceInit, EndInv
<1>3. BackedInv
  BY DEF EvidenceInit, BackedInv, ProductionGate, NoEvidence
<1>4. VerdictInv
  <2>1. blocked \in BOOLEAN
    BY Zenon DEF EvidenceInit
  <2>2. gate = 0 /\ verdict = "none"
    BY DEF EvidenceInit
  <2> QED BY <2>1, <2>2 DEF VerdictInv
<1> QED BY <1>1, <1>2, <1>3, <1>4 DEF EvidenceInv

\* The steps of a rollout leave an assessment alone, and the other way round.
LEMMA AssessmentStays == ASSUME VerdictInv, UNCHANGED assessVars PROVE VerdictInv'
BY DEF VerdictInv, assessVars

LEMMA RolloutStays == ASSUME EvidenceInv, UNCHANGED rolloutVars PROVE PhaseInv' /\ EndInv' /\ BackedInv'
<1>1. PhaseInv'
  BY DEF EvidenceInv, PhaseInv, rolloutVars, Services
<1>2. EndInv'
  BY DEF EvidenceInv, EndInv, rolloutVars, Services
<1>3. BackedInv'
  BY DEF EvidenceInv, BackedInv, rolloutVars
<1> QED BY <1>1, <1>2, <1>3

LEMMA RolloutKeeps == ASSUME EvidenceInv, NEW o \in Options, Rollout(o) PROVE EvidenceInv'
<1>1. /\ options' = o /\ turn' = "none" /\ UNCHANGED <<production, backing>> /\ UNCHANGED assessVars
      /\ \/ progress' = "idle" /\ exit' = 0 /\ o.mode = "plan"
         \/ progress' = "idle" /\ exit' = 1
         \/ progress' = "preflight" /\ exit' = -1 /\ ~PlanRejected(o) /\ o.mode \notin {"plan", "unconfirmed"}
  BY DEF Rollout, Fail
<1>2. o.mode \in {"plan", "unconfirmed", "execute"}
  BY DEF Options
<1>3. PhaseInv'
  BY <1>1, <1>2 DEF PhaseInv, Rolling, Healthy, PlanRejected
<1>4. EndInv'
  <2>1. exit' # 0 \/ options'.mode # "execute"
    BY <1>1
  <2> QED BY <2>1, Zenon DEF EndInv
<1>5. BackedInv'
  BY <1>1 DEF EvidenceInv, BackedInv
<1>6. VerdictInv'
  BY <1>1, AssessmentStays DEF EvidenceInv
<1> QED BY <1>3, <1>4, <1>5, <1>6 DEF EvidenceInv

\* A rollout that fails has not ended well.
LEMMA FailureKeeps ==
  ASSUME EvidenceInv, UNCHANGED <<options, production, backing>>, UNCHANGED assessVars, Fail
  PROVE  EvidenceInv'
<1>1. progress' = "idle" /\ exit' = 1
  BY DEF Fail
<1>2. PhaseInv'
  BY <1>1 DEF PhaseInv, Rolling, Healthy
<1>3. EndInv'
  <2>1. exit' # 0 \/ options'.mode # "execute"
    BY <1>1
  <2> QED BY <2>1, Zenon DEF EndInv
<1>4. BackedInv'
  BY DEF EvidenceInv, BackedInv
<1>5. VerdictInv'
  BY AssessmentStays DEF EvidenceInv
<1> QED BY <1>2, <1>3, <1>4, <1>5 DEF EvidenceInv

\* A rollout that goes on has not ended.
LEMMA ProgressKeeps ==
  ASSUME EvidenceInv, UNCHANGED <<options, production, backing, exit>>, UNCHANGED assessVars, progress # "idle",
         PhaseInv'
  PROVE  EvidenceInv'
<1>1. exit' = -1
  BY DEF EvidenceInv, PhaseInv
<1>2. EndInv'
  <2>1. exit' # 0 \/ options'.mode # "execute"
    BY <1>1
  <2> QED BY <2>1, Zenon DEF EndInv
<1>3. BackedInv'
  BY DEF EvidenceInv, BackedInv
<1>4. VerdictInv'
  BY AssessmentStays DEF EvidenceInv
<1> QED BY <1>2, <1>3, <1>4 DEF EvidenceInv

LEMMA PreflightKeeps == ASSUME EvidenceInv, Preflight PROVE EvidenceInv'
<1>1. /\ UNCHANGED <<options, production, backing>> /\ UNCHANGED assessVars /\ progress = "preflight"
      /\ UNCHANGED <<deployed, answer, turn, seen>>
      /\ Fail \/ (progress' = "up" /\ exit' = exit)
  BY DEF Preflight, Keeps
<1>2. ASSUME progress' = "up", exit' = exit PROVE EvidenceInv'
  <2>1. PhaseInv'
    BY <1>1, <1>2 DEF EvidenceInv, PhaseInv, Rolling, Healthy, PlanRejected
  <2> QED BY <1>1, <1>2, <2>1, ProgressKeeps
<1> QED BY <1>1, <1>2, FailureKeeps

LEMMA UpKeeps == ASSUME EvidenceInv, Up PROVE EvidenceInv'
<1>1. /\ UNCHANGED <<options, production, backing>> /\ UNCHANGED assessVars /\ progress = "up"
      /\ UNCHANGED <<answer, turn, seen>>
      /\ Fail \/ (progress' = "primary" /\ exit' = exit /\ deployed' = deployed \cup Services)
  BY DEF Up, Keeps
<1>2. ASSUME progress' = "primary", exit' = exit, deployed' = deployed \cup Services PROVE EvidenceInv'
  <2>1. Services' = Services
    BY <1>1 DEF Services
  <2>2. PhaseInv'
    BY <1>1, <1>2, <2>1 DEF EvidenceInv, PhaseInv, Rolling, Healthy, PlanRejected
  <2> QED BY <1>1, <1>2, <2>2, ProgressKeeps
<1> QED BY <1>1, <1>2, FailureKeeps

LEMMA PrimaryKeeps == ASSUME EvidenceInv, NEW b, Primary(b) PROVE EvidenceInv'
<1>1. /\ UNCHANGED <<options, production, backing>> /\ UNCHANGED assessVars /\ progress = "primary"
      /\ UNCHANGED <<deployed, turn>> /\ answer' = b
      /\ \/ Fail
         \/ /\ progress' = "admin" /\ exit' = exit /\ (options.broker => b \in {"redis ready", "memory ready"})
            /\ seen' = {b} \cup (IF options.https THEN {"https"} ELSE {})
  BY DEF Primary, Keeps
<1>2. ASSUME progress' = "admin", exit' = exit, options.broker => b \in {"redis ready", "memory ready"},
             seen' = {b} \cup (IF options.https THEN {"https"} ELSE {})
      PROVE  EvidenceInv'
  <2>1. Services' = Services
    BY <1>1 DEF Services
  <2>2. b \in seen' /\ (options.https => "https" \in seen')
    BY <1>2
  <2>3. PhaseInv'
    BY <1>1, <1>2, <2>1, <2>2 DEF EvidenceInv, PhaseInv, Rolling, Healthy, PlanRejected
  <2> QED BY <1>1, <1>2, <2>3, ProgressKeeps
<1> QED BY <1>1, <1>2, FailureKeeps

LEMMA AdminKeeps == ASSUME EvidenceInv, Admin PROVE EvidenceInv'
<1>1. /\ UNCHANGED <<options, production, backing>> /\ UNCHANGED assessVars /\ progress = "admin"
      /\ UNCHANGED <<deployed, answer, turn, seen>>
      /\ Fail \/ (progress' = "turn" /\ exit' = exit)
  BY DEF Admin, Keeps
<1>2. ASSUME progress' = "turn", exit' = exit PROVE EvidenceInv'
  <2>1. Services' = Services
    BY <1>1 DEF Services
  <2>2. PhaseInv'
    BY <1>1, <1>2, <2>1 DEF EvidenceInv, PhaseInv, Rolling, Healthy, PlanRejected
  <2> QED BY <1>1, <1>2, <2>2, ProgressKeeps
<1> QED BY <1>1, <1>2, FailureKeeps

LEMMA CheckTurnKeeps == ASSUME EvidenceInv, NEW reached, CheckTurn(reached) PROVE EvidenceInv'
<1>1. /\ UNCHANGED <<options, production, backing>> /\ UNCHANGED assessVars /\ progress = "turn"
      /\ UNCHANGED <<deployed, answer>>
      /\ \/ Fail
         \/ /\ progress' = "report" /\ exit' = exit
            /\ \/ ~options.checkTurn /\ UNCHANGED <<turn, seen>>
               \/ /\ turn' = IF options.network THEN "reachable" ELSE "ready"
                  /\ seen' = seen \cup {"credentials"} \cup (IF options.network THEN {"relays"} ELSE {})
  BY DEF CheckTurn, Keeps
<1>2. ASSUME progress' = "report", exit' = exit,
             \/ ~options.checkTurn /\ UNCHANGED <<turn, seen>>
             \/ /\ turn' = IF options.network THEN "reachable" ELSE "ready"
                /\ seen' = seen \cup {"credentials"} \cup (IF options.network THEN {"relays"} ELSE {})
      PROVE  EvidenceInv'
  <2>1. Services' = Services
    BY <1>1 DEF Services
  <2>2. turn = "none"
    BY <1>1 DEF EvidenceInv, PhaseInv
  <2>3. /\ seen \subseteq seen'
        /\ turn' = "reachable" => {"credentials", "relays"} \subseteq seen'
        /\ options.checkTurn => "credentials" \in seen'
        /\ options.checkTurn /\ options.network => "relays" \in seen'
    BY <1>2, <2>2
  <2>4. PhaseInv'
    BY <1>1, <1>2, <2>1, <2>3 DEF EvidenceInv, PhaseInv, Rolling, Healthy, PlanRejected
  <2> QED BY <1>1, <1>2, <2>4, ProgressKeeps
<1> QED BY <1>1, <1>2, FailureKeeps

\* A report that the gate will accept is written only over what was seen.
LEMMA ReportIsBacked ==
  ASSUME PhaseInv, progress = "report", ProductionGate(ProductionReport)
  PROVE  Observations \subseteq seen
<1>1. answer = "redis ready" /\ turn = "reachable"
  BY DEF ProductionGate, ProductionReport
<1>2. options.https
  BY DEF ProductionGate, ProductionReport
<1> QED BY <1>1, <1>2 DEF PhaseInv, Healthy, Observations

LEMMA WriteReportKeeps == ASSUME EvidenceInv, WriteReport PROVE EvidenceInv'
<1>1. /\ UNCHANGED <<options, deployed, answer, turn, seen>> /\ UNCHANGED assessVars /\ progress = "report"
      /\ progress' = "idle"
      /\ \/ production' = ProductionReport /\ backing' = seen
         \/ UNCHANGED <<production, backing>>
  BY DEF WriteReport
<1>2. PhaseInv'
  BY <1>1 DEF PhaseInv, Rolling, Healthy
<1>3. EndInv'
  <2>1. Services' = Services
    BY <1>1 DEF Services
  <2> QED BY <1>1, <2>1 DEF EvidenceInv, PhaseInv, EndInv, Rolling, Healthy
<1>4. BackedInv'
  BY <1>1, ReportIsBacked DEF EvidenceInv, BackedInv
<1>5. VerdictInv'
  BY <1>1, AssessmentStays DEF EvidenceInv
<1> QED BY <1>2, <1>3, <1>4, <1>5 DEF EvidenceInv

LEMMA ManifestKeeps ==
  ASSUME EvidenceInv,
         CreateManifest \/ (\E c \in {"sent", "normalised"} : SignManifest(c)) \/ UNCHANGED evidenceVars
  PROVE  EvidenceInv'
<1>1. UNCHANGED rolloutVars /\ UNCHANGED assessVars
  BY DEF CreateManifest, SignManifest, evidenceVars, rolloutVars, assessVars
<1> QED BY <1>1, AssessmentStays, RolloutStays DEF EvidenceInv

LEMMA AssessKeeps == ASSUME EvidenceInv, Assess PROVE EvidenceInv'
<1>1. /\ UNCHANGED rolloutVars /\ gate' = 1 /\ blocked' = ~ProductionGate(production) /\ verdict' = "none"
      /\ judged' = backing \cup {"whole"}
  BY DEF Assess
<1>2. blocked' \in BOOLEAN /\ (~blocked' => ProductionGate(production))
  BY <1>1, Zenon
<1>3. VerdictInv'
  BY <1>1, <1>2 DEF EvidenceInv, BackedInv, VerdictInv
<1> QED BY <1>1, <1>3, RolloutStays DEF EvidenceInv

\* A gate that is met has looked at nothing that lacks something: no report is hidden behind another
\* one of its target.
LEMMA MetIsWhole ==
  ASSUME NEW reports \in Seq(Reports), ~Duplicate(reports), Exercised(reports, Target)
  PROVE  \A i \in DOMAIN reports : reports[i].whole
<1> SUFFICES ASSUME NEW i \in DOMAIN reports PROVE reports[i].whole
  OBVIOUS
<1>1. reports[i].target \in Target
  <2>1. reports[i] \in Reports
    OBVIOUS
  <2> QED BY <2>1 DEF Reports
<1>2. PICK j \in DOMAIN reports : reports[j].target = reports[i].target /\ reports[j].whole
  BY <1>1 DEF Exercised
<1>3. j = i
  BY <1>2 DEF Duplicate
<1> QED BY <1>2, <1>3

LEMMA GivenIsSeq ==
  \A g : \A reports \in Given(g) : reports \in Seq(Reports) /\ (g \in Single => 1..1 = DOMAIN reports)
<1> SUFFICES ASSUME NEW g, NEW reports \in Given(g)
             PROVE  reports \in Seq(Reports) /\ (g \in Single => 1..1 = DOMAIN reports)
  OBVIOUS
<1>1. CASE g \in Single
  <2>1. PICK r \in Reports : reports = <<r>>
    BY <1>1 DEF Given
  <2> QED BY <2>1
<1>2. CASE g \notin Single
  <2>1. reports \in UNION {[1..m -> Reports] : m \in 0..2}
    BY <1>2 DEF Given, SeqOf
  <2>2. PICK m \in 0..2 : reports \in [1..m -> Reports]
    BY <2>1
  <2> QED BY <1>2, <2>2
<1> QED BY <1>1, <1>2

LEMMA AssessGateKeeps == ASSUME EvidenceInv, AssessGate PROVE EvidenceInv'
<1>1. UNCHANGED rolloutVars /\ gate \in DOMAIN Gates
  BY DEF AssessGate
<1>2. gate \in Nat /\ gate > 0 /\ Len(Gates) = 9 /\ verdict = "none" /\ blocked \in BOOLEAN
  <2>1. DOMAIN Gates = 1..9 /\ Len(Gates) = 9
    BY DEF Gates
  <2>2. gate \in Nat /\ gate > 0
    BY <1>1, <2>1
  <2> QED BY <2>1, <2>2 DEF EvidenceInv, VerdictInv
<1> DEFINE g == Gates[gate]
           met(reports, targets) == IF g \in Single THEN reports[1].whole
                                    ELSE targets # {} /\ Exercised(reports, targets)
<1>3. PICK reports \in Given(g), targets \in {{}, Target} :
        \/ Duplicate(reports) /\ gate' = 0 /\ verdict' = "failed" /\ blocked' = blocked
        \/ /\ ~Duplicate(reports) /\ blocked' = (blocked \/ ~met(reports, targets))
           /\ judged' = IF \A i \in DOMAIN reports : reports[i].whole THEN judged ELSE judged \ {"whole"}
           /\ \/ gate' = 0 /\ verdict' = IF blocked' THEN "incomplete" ELSE "complete"
              \/ gate' = gate + 1 /\ verdict' = verdict
  BY Zenon DEF AssessGate
<1>4. reports \in Seq(Reports) /\ (g \in Single => 1..1 = DOMAIN reports)
  BY GivenIsSeq
<1>5. CASE Duplicate(reports) /\ gate' = 0 /\ verdict' = "failed" /\ blocked' = blocked
  <2>1. VerdictInv'
    BY <1>2, <1>5 DEF VerdictInv
  <2> QED BY <1>1, <2>1, RolloutStays DEF EvidenceInv
<1>6. CASE /\ ~Duplicate(reports) /\ blocked' = (blocked \/ ~met(reports, targets))
           /\ judged' = IF \A i \in DOMAIN reports : reports[i].whole THEN judged ELSE judged \ {"whole"}
           /\ \/ gate' = 0 /\ verdict' = IF blocked' THEN "incomplete" ELSE "complete"
              \/ gate' = gate + 1 /\ verdict' = verdict
  <2>1. ASSUME met(reports, targets) PROVE \A i \in DOMAIN reports : reports[i].whole
    <3>1. CASE g \in Single
      <4>1. reports[1].whole
        BY <2>1, <3>1
      <4> QED BY <1>4, <3>1, <4>1
    <3>2. CASE g \notin Single
      <4>1. targets # {} /\ Exercised(reports, targets)
        BY <2>1, <3>2
      <4>2. Exercised(reports, Target)
        BY <4>1
      <4> QED BY <1>4, <1>6, <4>2, MetIsWhole
    <3> QED BY <3>1, <3>2
  <2> HIDE DEF met
  <2>2. blocked' \in BOOLEAN /\ (~blocked' => ~blocked /\ met(reports, targets))
    BY <1>6, Zenon
  <2>3. ASSUME ~blocked' PROVE Observations \cup {"whole"} \subseteq judged'
    <3>1. judged' = judged
      BY <1>6, <2>1, <2>2, <2>3, Zenon
    <3> QED BY <1>2, <2>2, <2>3, <3>1 DEF EvidenceInv, VerdictInv
  <2>4. \/ gate' = 0 /\ (verdict' = "complete" => ~blocked')
        \/ gate' = gate + 1 /\ verdict' = "none"
    BY <1>2, <1>6
  <2>5. VerdictInv'
    BY <1>2, <2>2, <2>3, <2>4 DEF VerdictInv
  <2> QED BY <1>1, <2>5, RolloutStays DEF EvidenceInv
<1> HIDE DEF met
<1> QED BY <1>3, <1>5, <1>6

LEMMA EvidenceGoesOn == EvidenceInv /\ [EvidenceNext]_evidenceVars => EvidenceInv'
BY RolloutKeeps, PreflightKeeps, UpKeeps, AdminKeeps, WriteReportKeeps, PrimaryKeeps, CheckTurnKeeps,
   ManifestKeeps, AssessKeeps, AssessGateKeeps
   DEF EvidenceNext

LEMMA EvidenceFollows == EvidenceInv => EvidenceIsReal
BY DEF EvidenceInv, PhaseInv, EndInv, VerdictInv, EvidenceIsReal

\* Whatever the services answer and the reports hold: a release is complete only on what was seen.
THEOREM EvidenceStaysReal == EvidenceSpec => []EvidenceIsReal
<1> QED BY EvidenceBegins, EvidenceGoesOn, EvidenceFollows, PTL DEF EvidenceSpec
-----------------------------------------------------------------------------
(***************************************************************************)
(* The tools beside each other, as the runs check them.                    *)
(***************************************************************************)
ToolsInv == RotationInv /\ HardwareInv /\ EvidenceInv /\ BootInv

LEMMA ToolsBegin == HostPartsInit => ToolsInv
BY RotationBegins, HardwareBegins, EvidenceBegins, BootBegins DEF HostPartsInit, ToolsInv

\* A step of one part leaves the others where they were.
LEMMA ToolsGoOn == ToolsInv /\ [HostPartsNext]_hostPartsVars => ToolsInv'
<1> SUFFICES ASSUME ToolsInv, [HostPartsNext]_hostPartsVars PROVE ToolsInv'
  OBVIOUS
<1>1. [RotationNext]_tlsVars /\ [HardwareNext]_hardwareVars /\ [EvidenceNext]_evidenceVars /\ [BootNext]_bootVars
  <2>1. CASE UNCHANGED hostPartsVars
    BY <2>1 DEF hostPartsVars
  <2>2. CASE part = "rotation" /\ RotationNext /\ Others("rotation")
    BY <2>2 DEF Others
  <2>3. CASE part = "checks" /\ HardwareNext /\ Others("checks")
    BY <2>3 DEF Others
  <2>4. CASE part = "evidence" /\ EvidenceNext /\ Others("evidence")
    BY <2>4 DEF Others
  <2>5. CASE part = "boot" /\ BootNext /\ Others("boot")
    BY <2>5 DEF Others
  <2>6. CASE \E p \in {"process", "agent", "packets", "sound", "keys", "pads", "frames",
                       "links"} : Others(p)
    BY <2>6 DEF Others
  <2> QED BY <2>1, <2>2, <2>3, <2>4, <2>5, <2>6 DEF HostPartsNext
<1> QED BY <1>1, RotationGoesOn, HardwareGoesOn, EvidenceGoesOn, BootGoesOn DEF ToolsInv

\* The tools of an operator leave nothing half done and claim nothing they have not seen, and a host
\* comes up as its operator allowed, for any targets, claims, bindings and bounds.
THEOREM ToolsStaySafe == HostPartsSpec => []ToolsAreSafe
<1>1. ToolsInv => ToolsAreSafe
  BY RotationIsSafe, ReportsAreHonest, EvidenceFollows, HostIsHonest DEF ToolsInv, ToolsAreSafe
<1> QED BY <1>1, ToolsBegin, ToolsGoOn, PTL DEF HostPartsSpec

InputInv == KeysInv /\ PadInv

LEMMA InputBegins == HostPartsInit => InputInv
BY KeysBegin, PadBegins DEF HostPartsInit, InputInv

LEMMA InputGoesOn == InputInv /\ [HostPartsNext]_hostPartsVars => InputInv'
<1> SUFFICES ASSUME InputInv, [HostPartsNext]_hostPartsVars PROVE InputInv'
  OBVIOUS
<1>1. [KeysNext]_keyVars /\ [PadNext]_padVars
  <2>1. CASE UNCHANGED hostPartsVars
    BY <2>1 DEF hostPartsVars
  <2>2. CASE part = "keys" /\ KeysNext /\ Others("keys")
    BY <2>2 DEF Others
  <2>3. CASE part = "pads" /\ PadNext /\ Others("pads")
    BY <2>3 DEF Others
  <2>4. CASE \E p \in {"process", "agent", "packets", "sound", "rotation", "frames", "links", "checks",
                       "evidence", "boot"} : Others(p)
    BY <2>4 DEF Others
  <2> QED BY <2>1, <2>2, <2>3, <2>4 DEF HostPartsNext
<1> QED BY <1>1, KeysGoOn, PadsGoOn DEF InputInv

\* What the host takes for held is what the player holds, for any keys and fingers and any rate.
THEOREM InputStaysFollowed == HostPartsSpec => []InputFollows
<1>1. InputInv => InputFollows
  BY KeysInvFollows DEF InputInv, PadInv, InputFollows
<1> QED BY <1>1, InputBegins, InputGoesOn, PTL DEF HostPartsSpec

-----------------------------------------------------------------------------
(***************************************************************************)
(* Links.  Until the agent has answered nothing is tied; a page that is    *)
(* closed still has news, or told them too early, or took the agent's      *)
(* socket with it.                                                         *)
(***************************************************************************)
LinkIsSound(c) ==
  /\ pageEnd[c] = "none" <=> agentEnd[c] = "none"
  /\ agentEnd[c] \in {"none", "asked"} => c \notin tied /\ c \notin cleaned
  /\ agentEnd[c] = "open" => c \in tied /\ c \in upstream
  /\ c \in upstream => c \in tied
  /\ c \in cleaned => pageEnd[c] = "closed" /\ agentEnd[c] = "closed"
  /\ pageEnd[c] = "closed" => <<"page", c>> \in news \/ c \in early \/ agentEnd[c] = "closed"
  /\ c \in tied /\ agentEnd[c] = "closed" => <<"agent", c>> \in news \/ pageEnd[c] = "closed"
  /\ hostOpen \/ pageEnd[c] # "open"

LinksInv ==
  /\ pageEnd \in [Link -> {"none", "open", "closed"}]
  /\ agentEnd \in [Link -> {"none", "asked", "open", "closed"}]
  /\ tied \subseteq Link
  /\ \A c \in Link : LinkIsSound(c)

LEMMA LinksBegin == AppHostInit => LinksInv
BY DEF AppHostInit, LinksInv, LinkIsSound

\* What the sockets that end leave of the others.
LEMMA SocketsEndWell ==
  ASSUME LinksInv, NEW lost, SocketsEnd(lost)
  PROVE  /\ pageEnd' \in [Link -> {"none", "open", "closed"}]
         /\ agentEnd' \in [Link -> {"none", "asked", "open", "closed"}]
         /\ \A d \in Link :
              /\ pageEnd'[d] = IF <<"page", d>> \in lost THEN "closed" ELSE pageEnd[d]
              /\ agentEnd'[d] = IF <<"agent", d>> \in lost THEN "closed" ELSE agentEnd[d]
BY DEF LinksInv, SocketsEnd

LEMMA OpenSocketsAre ==
  ASSUME NEW d \in Link
  PROVE  /\ <<"page", d>> \in OpenSockets <=> pageEnd[d] = "open"
         /\ <<"agent", d>> \in OpenSockets <=> agentEnd[d] = "open"
BY DEF OpenSockets

LEMMA HandshakeKeeps == ASSUME LinksInv, NEW c \in Link, Handshake(c) PROVE LinksInv'
<1>1. /\ pageEnd' \in [Link -> {"none", "open", "closed"}]
      /\ agentEnd' \in [Link -> {"none", "asked", "open", "closed"}]
  BY DEF LinksInv, Handshake
<1>2. ASSUME NEW d \in Link PROVE LinkIsSound(d)'
  BY DEF LinksInv, LinkIsSound, Handshake
<1>3. tied' \subseteq Link
  BY DEF LinksInv, Handshake
<1> QED BY <1>1, <1>2, <1>3 DEF LinksInv

LEMMA AgentUpgradesKeeps == ASSUME LinksInv, NEW c \in Link, AgentUpgrades(c) PROVE LinksInv'
<1>1. /\ pageEnd' \in [Link -> {"none", "open", "closed"}]
      /\ agentEnd' \in [Link -> {"none", "asked", "open", "closed"}]
  BY DEF LinksInv, AgentUpgrades
<1>2. ASSUME NEW d \in Link PROVE LinkIsSound(d)'
  BY DEF LinksInv, LinkIsSound, AgentUpgrades
<1>3. tied' \subseteq Link
  BY DEF LinksInv, AgentUpgrades
<1> QED BY <1>1, <1>2, <1>3 DEF LinksInv

LEMMA AgentRefusesKeeps == ASSUME LinksInv, NEW c \in Link, AgentRefuses(c) PROVE LinksInv'
<1>1. /\ SocketsEnd({<<"agent", c>>, <<"page", c>>}) /\ agentEnd[c] = "asked"
      /\ news' = news \union (OpenSockets \intersect {<<"page", c>>})
      /\ UNCHANGED <<tied, cleaned, upstream, hostOpen, early>>
  BY DEF AgentRefuses
<1>2. ASSUME NEW d \in Link PROVE LinkIsSound(d)'
  <2>1. LinkIsSound(d)
    BY DEF LinksInv
  <2>2. CASE d = c
    <3>1. pageEnd'[d] = "closed" /\ agentEnd'[d] = "closed" /\ d \notin tied' /\ d \notin cleaned'
      BY <1>1, <2>1, <2>2, SocketsEndWell DEF LinkIsSound
    <3> QED BY <1>1, <2>1, <3>1 DEF LinkIsSound
  <2>3. CASE d # c
    <3>1. <<"page", d>> \notin {<<"agent", c>>, <<"page", c>>} /\ <<"agent", d>> \notin {<<"agent", c>>, <<"page", c>>}
      BY <2>3
    <3>2. pageEnd'[d] = pageEnd[d] /\ agentEnd'[d] = agentEnd[d]
      BY <1>1, <3>1, SocketsEndWell
    <3> QED BY <1>1, <2>1, <3>2 DEF LinkIsSound
  <2> QED BY <2>2, <2>3
<1>3. tied' \subseteq Link
  BY DEF LinksInv, AgentRefuses
<1> QED BY <1>1, <1>2, <1>3, SocketsEndWell DEF LinksInv

LEMMA SocketGoneKeeps ==
  ASSUME LinksInv, NEW c \in Link, NEW side \in {"page", "agent"}, SocketGone(side, c) PROVE LinksInv'
<1>1. /\ SocketsEnd({<<side, c>>}) /\ <<side, c>> \in OpenSockets /\ news' = news \union {<<side, c>>}
      /\ UNCHANGED <<tied, cleaned, upstream, hostOpen, early>>
  BY DEF SocketGone
<1>2. ASSUME NEW d \in Link PROVE LinkIsSound(d)'
  <2>1. LinkIsSound(d)
    BY DEF LinksInv
  <2>2. /\ pageEnd'[d] = IF side = "page" /\ d = c THEN "closed" ELSE pageEnd[d]
        /\ agentEnd'[d] = IF side = "agent" /\ d = c THEN "closed" ELSE agentEnd[d]
    <3>1. /\ <<"page", d>> \in {<<side, c>>} <=> side = "page" /\ d = c
          /\ <<"agent", d>> \in {<<side, c>>} <=> side = "agent" /\ d = c
      OBVIOUS
    <3> QED BY <1>1, <3>1, SocketsEndWell
  <2>3. /\ d = c /\ side = "page" => pageEnd[d] = "open" /\ <<"page", d>> \in news'
        /\ d = c /\ side = "agent" => agentEnd[d] = "open" /\ <<"agent", d>> \in news'
        /\ <<"page", d>> \in news => <<"page", d>> \in news'
        /\ <<"agent", d>> \in news => <<"agent", d>> \in news'
    BY <1>1, OpenSocketsAre
  <2> QED BY <1>1, <2>1, <2>2, <2>3 DEF LinkIsSound
<1>3. tied' \subseteq Link
  BY DEF LinksInv, SocketGone
<1> QED BY <1>1, <1>2, <1>3, SocketsEndWell DEF LinksInv

LEMMA CloseEventKeeps ==
  ASSUME LinksInv, NEW c \in Link, NEW side \in {"page", "agent"}, CloseEvent(side, c) PROVE LinksInv'
<1>1. /\ UNCHANGED <<tied, hostOpen>>
      /\ early' = IF side = "page" /\ c \notin tied THEN early \union {c} ELSE early
  BY DEF CloseEvent
<1>4. tied' \subseteq Link
  BY <1>1 DEF LinksInv
<1>2. CASE c \in tied /\ c \notin cleaned
  <2>1. /\ SocketsEnd(Destroyed(c)) /\ cleaned' = cleaned \union {c} /\ upstream' = upstream \ {c}
        /\ news' = (news \ {<<side, c>>}) \union (OpenSockets \intersect Destroyed(c))
    BY <1>2 DEF CloseEvent, Heard
  <2>2. ASSUME NEW d \in Link PROVE LinkIsSound(d)'
    <3>1. LinkIsSound(d)
      BY DEF LinksInv
    <3>2. CASE d = c
      <4>1. <<"page", d>> \in Destroyed(c) /\ <<"agent", d>> \in Destroyed(c)
        BY <3>2 DEF Destroyed
      <4>2. pageEnd'[d] = "closed" /\ agentEnd'[d] = "closed"
        BY <2>1, <4>1, SocketsEndWell
      <4>3. d \in tied' /\ d \notin upstream'
        BY <1>1, <1>2, <2>1, <3>2
      <4> QED BY <4>2, <4>3 DEF LinkIsSound
    <3>3. CASE d # c
      <4>3. <<"page", d>> \notin Destroyed(c) /\ <<"agent", d>> \notin Destroyed(c)
        BY <3>3 DEF Destroyed
      <4>1. pageEnd'[d] = pageEnd[d] /\ agentEnd'[d] = agentEnd[d]
        BY <2>1, <4>3, SocketsEndWell
      <4>2. /\ <<"page", d>> \in news => <<"page", d>> \in news'
            /\ <<"agent", d>> \in news => <<"agent", d>> \in news'
        BY <2>1, <3>3
      <4> QED BY <1>1, <2>1, <3>1, <3>3, <4>1, <4>2 DEF LinkIsSound
    <3> QED BY <3>2, <3>3
  <2> QED BY <1>4, <2>1, <2>2, SocketsEndWell DEF LinksInv
<1>3. CASE ~(c \in tied /\ c \notin cleaned)
  <2>1. news' = news \ {<<side, c>>} /\ UNCHANGED <<pageEnd, agentEnd, cleaned, upstream>>
    BY <1>3 DEF CloseEvent, Heard
  <2>2. ASSUME NEW d \in Link PROVE LinkIsSound(d)'
    <3>1. LinkIsSound(d)
      BY DEF LinksInv
    <3>2. CASE d = c
      <4>1. c \in cleaned \/ c \notin tied
        BY <1>3
      <4>2. side = "page" /\ c \notin tied => c \in early'
        BY <1>1
      <4>3. /\ side = "agent" /\ <<"page", d>> \in news => <<"page", d>> \in news'
            /\ d \in early => d \in early'
        BY <1>1, <2>1
      <4> QED BY <1>1, <2>1, <3>1, <3>2, <4>1, <4>2, <4>3 DEF LinkIsSound
    <3>3. CASE d # c
      <4>1. /\ <<"page", d>> \in news => <<"page", d>> \in news'
            /\ <<"agent", d>> \in news => <<"agent", d>> \in news'
            /\ d \in early => d \in early'
        BY <1>1, <2>1, <3>3
      <4> QED BY <1>1, <2>1, <3>1, <4>1 DEF LinkIsSound
    <3> QED BY <3>2, <3>3
  <2> QED BY <1>4, <2>1, <2>2 DEF LinksInv
<1> QED BY <1>2, <1>3

LEMMA CloseHostKeeps == ASSUME LinksInv, CloseHost PROVE LinksInv'
<1> DEFINE lost == OpenSockets \intersect (Emptied \union ({"page"} \X Link))
<1>1. /\ SocketsEnd(lost) /\ news' = news \union lost /\ upstream' = {} /\ ~hostOpen'
      /\ UNCHANGED <<tied, cleaned, early>>
  BY DEF CloseHost
<1>2. ASSUME NEW d \in Link PROVE LinkIsSound(d)'
  <2>1. LinkIsSound(d)
    BY DEF LinksInv
  <2>2. /\ <<"page", d>> \in lost <=> pageEnd[d] = "open"
        /\ <<"agent", d>> \in lost <=> agentEnd[d] = "open" /\ d \in upstream
    BY OpenSocketsAre DEF Emptied
  <2> HIDE DEF lost
  <2>3. /\ pageEnd'[d] = IF pageEnd[d] = "open" THEN "closed" ELSE pageEnd[d]
        /\ agentEnd'[d] = IF agentEnd[d] = "open" /\ d \in upstream THEN "closed" ELSE agentEnd[d]
    BY <1>1, <2>2, SocketsEndWell
  <2>4. /\ pageEnd[d] = "open" \/ <<"page", d>> \in news => <<"page", d>> \in news'
        /\ agentEnd[d] = "open" /\ d \in upstream => <<"agent", d>> \in news'
        /\ <<"agent", d>> \in news => <<"agent", d>> \in news'
    BY <1>1, <2>2
  <2> QED BY <1>1, <2>1, <2>3, <2>4 DEF LinkIsSound
<1> HIDE DEF lost
<1>3. tied' \subseteq Link
  BY DEF LinksInv, CloseHost
<1> QED BY <1>1, <1>2, <1>3, SocketsEndWell DEF LinksInv

\* Of two sockets that the application's host has tied together neither outlives the other once both
\* have told their end, and close() knows all that are open, for any number of links, but for a page
\* that told its end before there was anybody to hear it.
THEOREM LinksStayTied == AppHostSpec => []LinksEndTogether
<1>1. LinksInv /\ [AppHostNext]_appHostVars => LinksInv'
  <2>1. LinksInv /\ UNCHANGED appHostVars => LinksInv'
    BY DEF LinksInv, LinkIsSound, appHostVars
  <2> QED BY <2>1, HandshakeKeeps, AgentRefusesKeeps, AgentUpgradesKeeps, SocketGoneKeeps,
             CloseEventKeeps, CloseHostKeeps DEF AppHostNext
<1>2. LinksInv => LinksEndTogether
  <2> SUFFICES ASSUME LinksInv PROVE LinksEndTogether
    OBVIOUS
  <2>1. ASSUME NEW c \in Link PROVE /\ LinkIsSound(c) /\ pageEnd[c] \in {"none", "open", "closed"}
                                    /\ agentEnd[c] \in {"none", "asked", "open", "closed"}
    BY DEF LinksInv
  <2>2. ASSUME NEW c \in Link, agentEnd[c] = "open"
        PROVE  c \in upstream /\ (hostOpen \/ c \in early \/ <<"page", c>> \in news)
    BY <2>1, <2>2 DEF LinkIsSound
  <2>3. ASSUME NEW c \in tied, Quiet(c)
        PROVE  /\ agentEnd[c] = "closed" => pageEnd[c] = "closed"
               /\ pageEnd[c] = "closed" /\ c \notin early => agentEnd[c] = "closed"
    BY <2>1, <2>3 DEF LinksInv, LinkIsSound, Quiet
  <2> QED BY <2>2, <2>3 DEF LinksEndTogether
<1> QED BY <1>1, <1>2, LinksBegin, PTL DEF AppHostSpec
=============================================================================
