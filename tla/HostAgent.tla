------------------------------ MODULE HostAgent ------------------------------
(***************************************************************************)
(* The session control plane of host/agent.mjs without native media: the   *)
(* upgrade handler and its cleanup, handleMessage, shutdown, the one-time  *)
(* code of host/pairing.mjs, and the one game process of                   *)
(* host/game-launcher.mjs, a ManagedProcess.                               *)
(*                                                                         *)
(* parseFrames dispatches every frame without waiting for the previous     *)
(* one, so the two awaits of handleMessage (launcher.start() of an offer,  *)
(* launcher.stop() of a close) let any other event run in between.  Once   *)
(* what they wait for has settled they go on before the next event.        *)
(*                                                                         *)
(* Outbound is the connection to a signaling service (if any), made by     *)
(* host/signaling.mjs.  It uses the same handleMessage, but nothing cleans *)
(* up after it, and its send() throws once it is not open.                 *)
(***************************************************************************)
EXTENDS ManagedProcess, FiniteSets

CONSTANTS Conn, Outbound, MaxConnections, Game

ASSUME AgentAssumption ==
  /\ Outbound \subseteq Conn
  /\ MaxConnections \in Nat
  /\ Proc = {Game}
  /\ Caller = {"frame", "cleanup", "shutdown"}

VARIABLES
  socket,      \* [Conn -> "new", "open", "ending" (close frame sent), "closed"]
  connections, \* the Set connections
  detached,    \* connections whose cleanup has run
  sessions,    \* the Set sessions, by the connection of each session
  accepted,    \* connections whose session.accepted is true
  gameStarted, \* connections whose session.gameStarted is true
  pairingUsed, \* pairing.used
  launching,   \* connections whose offer awaits launcher.start()
  closing,     \* connections whose session.close awaits launcher.stop()
  host,        \* "up", "shutting down" or "exited"
  overtaken    \* connections that were lost while their offer awaited launcher.start(), and lost
               \* outbound ones, which nothing cleans up after (for the properties)

agentVars == <<socket, connections, detached, sessions, accepted, gameStarted,
               pairingUsed, launching, closing, host, overtaken>>
vars == <<processVars, agentVars>>

Init ==
  /\ ProcessInit
  /\ socket = [c \in Conn |-> "new"]
  /\ connections = {}
  /\ detached = {}
  /\ sessions = {}
  /\ accepted = {}
  /\ gameStarted = {}
  /\ pairingUsed = FALSE
  /\ launching = {}
  /\ closing = {}
  /\ host = "up"
  /\ overtaken = {}

\* connection.close(): a close frame and a half close; the peer may still send.
CloseSocket(c) == socket' = [socket EXCEPT ![c] = "ending"]

\* The WebSocket upgrade, or the connection to the signaling service.
Connect(c) ==
  /\ host = "up" /\ socket[c] = "new"
  /\ socket' = [socket EXCEPT ![c] = "open"]
  /\ IF c \in Outbound
     THEN UNCHANGED connections
     ELSE /\ Cardinality(connections) < MaxConnections
          /\ connections' = connections \cup {c}
  /\ UNCHANGED <<processVars, detached, sessions, accepted, gameStarted, pairingUsed,
                 launching, closing, host, overtaken>>

\* An inbound socket is read until it closes, even after a close frame was sent;
\* a WebSocket that close() was called on delivers nothing more.
Readable(c) ==
  /\ host # "exited"
  /\ socket[c] = "open" \/ (socket[c] = "ending" /\ c \notin Outbound)

\* A session.offer: does its pairing code match, is there a common capability,
\* and does it ask for a game, the configured one or another.
Offer == [code : BOOLEAN, compatible : BOOLEAN, launch : {"none", "configured", "other"}]

\* Mutant: a used code still matches.
Matches_Reusable(offer) == offer.code

\* pairing.matches(): the right code, not used before.
Matches(offer) == offer.code /\ ~pairingUsed

\* Wrong host, wrong, used or expired code, or nothing in common: the code is
\* not consumed.
OfferRejected(c) ==
  /\ Readable(c) /\ c \notin accepted
  /\ \E offer \in Offer : ~Matches(offer) \/ ~offer.compatible
  /\ CloseSocket(c)
  /\ UNCHANGED <<processVars, connections, detached, sessions, accepted, gameStarted,
                 pairingUsed, launching, closing, host, overtaken>>

\* pairing.verify() consumes the code before the launch request is looked at.
PairedOffer(c, offer) ==
  /\ Readable(c) /\ c \notin accepted
  /\ Matches(offer) /\ offer.compatible
  /\ pairingUsed' = TRUE

LaunchRefused(c) ==
  /\ \E offer \in Offer : offer.launch = "other" /\ PairedOffer(c, offer)
  /\ CloseSocket(c)
  /\ UNCHANGED <<processVars, connections, detached, sessions, accepted, gameStarted,
                 launching, closing, host, overtaken>>

OfferAccepted(c) ==
  /\ \E offer \in Offer : offer.launch = "none" /\ PairedOffer(c, offer)
  /\ accepted' = accepted \cup {c}
  /\ sessions' = sessions \cup {c}
  /\ UNCHANGED <<processVars, socket, connections, detached, gameStarted, launching,
                 closing, host, overtaken>>

LaunchGame(c) ==
  /\ \E offer \in Offer : offer.launch = "configured" /\ PairedOffer(c, offer)
  /\ Start(Game)
  /\ launching' = launching \cup {c}
  /\ UNCHANGED <<socket, connections, detached, sessions, accepted, gameStarted, closing,
                 host, overtaken>>

\* launcher.start() has settled and the offer goes on, wherever its connection is
\* by now.  On an outbound connection that is not open any more the answer cannot
\* be sent, and the unhandled rejection ends the host.
Launched(c) ==
  /\ host # "exited" /\ c \in launching
  /\ state[Game] # "starting"
  /\ launching' = launching \ {c}
  /\ IF os[Game] \in {"alive", "exited"}
     THEN /\ gameStarted' = gameStarted \cup {c}
          /\ accepted' = accepted \cup {c}
          /\ sessions' = sessions \cup {c}
          /\ UNCHANGED socket
     ELSE /\ socket' = [socket EXCEPT ![c] = IF @ = "open" THEN "ending" ELSE @]
          /\ UNCHANGED <<gameStarted, accepted, sessions>>
  /\ host' = IF c \in Outbound /\ socket[c] # "open" THEN "exited" ELSE host
  /\ UNCHANGED <<processVars, connections, detached, pairingUsed, closing, overtaken>>

\* A frame that does not parse, or belongs to no session of this connection.
StrayFrame(c) ==
  /\ Readable(c)
  /\ CloseSocket(c)
  /\ UNCHANGED <<processVars, connections, detached, sessions, accepted, gameStarted,
                 pairingUsed, launching, closing, host, overtaken>>

\* session.close: forget the session and, if it started the game, stop it
\* before closing the connection.  (A second one, while the first is waiting,
\* signals the process again and changes nothing else.)
CloseFrame(c) ==
  /\ Readable(c) /\ c \in accepted /\ c \notin closing
  /\ sessions' = sessions \ {c}
  /\ IF c \in gameStarted
     THEN /\ Stop(Game, "frame")
          /\ closing' = closing \cup {c}
          /\ UNCHANGED socket
     ELSE /\ CloseSocket(c)
          /\ UNCHANGED <<processVars, closing>>
  /\ UNCHANGED <<connections, detached, accepted, gameStarted, pairingUsed, launching,
                 host, overtaken>>

CloseFrameStopped(c) ==
  /\ host # "exited" /\ c \in closing
  /\ stopping[Game]["frame"] = "returned"
  /\ closing' = closing \ {c}
  /\ gameStarted' = gameStarted \ {c}
  /\ socket' = [socket EXCEPT ![c] = IF @ = "open" THEN "ending" ELSE @]
  /\ UNCHANGED <<processVars, connections, detached, sessions, accepted, pairingUsed,
                 launching, host, overtaken>>

\* Mutant: the cleanup of a connection forgets the game its session started.
SocketClosed_ForgetsGame(c) ==
  /\ host # "exited" /\ socket[c] \in {"open", "ending"}
  /\ socket' = [socket EXCEPT ![c] = "closed"]
  /\ detached' = detached \cup {c}
  /\ connections' = connections \ {c}
  /\ sessions' = sessions \ {c}
  /\ gameStarted' = gameStarted \ {c}
  /\ overtaken' = IF c \in launching \cup Outbound THEN overtaken \cup {c} ELSE overtaken
  /\ UNCHANGED <<processVars, accepted, pairingUsed, launching, closing, host>>

\* The socket's close or error event, with its cleanup.
SocketClosed(c) ==
  /\ host # "exited" /\ socket[c] \in {"open", "ending"}
  /\ socket' = [socket EXCEPT ![c] = "closed"]
  /\ IF c \in Outbound
     THEN UNCHANGED <<processVars, connections, detached, sessions, gameStarted>>
     ELSE /\ detached' = detached \cup {c}
          /\ connections' = connections \ {c}
          /\ sessions' = sessions \ {c}
          /\ gameStarted' = gameStarted \ {c}
          /\ IF c \in gameStarted THEN Stop(Game, "cleanup") ELSE UNCHANGED processVars
  /\ overtaken' = IF c \in launching \cup Outbound THEN overtaken \cup {c} ELSE overtaken
  /\ UNCHANGED <<accepted, pairingUsed, launching, closing, host>>

\* SIGINT, SIGTERM or SIGHUP: stop what the sessions of the Set started, close
\* the connections, and wait for none of it.
Shutdown ==
  /\ host = "up"
  /\ host' = "shutting down"
  /\ IF sessions \cap gameStarted # {} THEN Stop(Game, "shutdown")
                                       ELSE UNCHANGED processVars
  /\ gameStarted' = gameStarted \ sessions
  /\ sessions' = {}
  /\ socket' = [c \in Conn |-> IF c \in connections /\ socket[c] = "open" THEN "ending"
                               ELSE socket[c]]
  /\ connections' = {}
  /\ UNCHANGED <<detached, accepted, pairingUsed, launching, closing, overtaken>>

\* process.exit(): when the server has closed, or when forceExit fires.
ProcessExit ==
  /\ host = "shutting down"
  /\ host' = "exited"
  /\ UNCHANGED <<processVars, socket, connections, detached, sessions, accepted,
                 gameStarted, pairingUsed, launching, closing, overtaken>>

\* Events of the child and of the pending stop() calls.
WrapperEvent ==
  /\ host # "exited"
  /\ Spawned(Game) \/ SpawnError(Game) \/ Finish(Game)
       \/ \E k \in Caller : StopStepOf(Game, k)
  /\ UNCHANGED agentVars

\* A program can end at any time, whatever the host does.
ProgramEnds == Exit(Game) /\ UNCHANGED agentVars

\* Continuations run before the event loop takes another event.
Due ==
  \/ launching # {} /\ state[Game] # "starting"
  \/ closing # {} /\ stopping[Game]["frame"] = "returned"

Continuation == \E c \in Conn : Launched(c) \/ CloseFrameStopped(c)

Frame(c) ==
  OfferRejected(c) \/ LaunchRefused(c) \/ OfferAccepted(c) \/ LaunchGame(c)
    \/ StrayFrame(c) \/ CloseFrame(c)

Next ==
  \/ Continuation
  \/ ~Due /\ \E c \in Conn : Connect(c) \/ Frame(c) \/ SocketClosed(c)
  \/ ~Due /\ (Shutdown \/ ProcessExit \/ WrapperEvent)
  \/ ProgramEnds

(***************************************************************************)
(* The event loop of a host that is up delivers the child's events and     *)
(* runs timers and continuations.  Nothing makes a peer or an operator     *)
(* act, but SIGKILL ends a program.                                        *)
(***************************************************************************)
Fairness ==
  /\ WF_vars(Continuation)
  /\ WF_vars(~Due /\ WrapperEvent)
  /\ WF_vars(signal[Game] = "SIGKILL" /\ ProgramEnds)

Spec == Init /\ [][Next]_vars
FairSpec == Spec /\ Fairness
-----------------------------------------------------------------------------
TypeOK ==
  /\ ProcessTypeOK
  /\ socket \in [Conn -> {"new", "open", "ending", "closed"}]
  /\ {connections, detached, sessions, accepted, gameStarted, launching, closing, overtaken}
       \subseteq SUBSET Conn
  /\ pairingUsed \in BOOLEAN
  /\ host \in {"up", "shutting down", "exited"}

\* The pairing code lets one connection in, whatever the frames in flight:
\* host/README.md, "accepts one correctly paired session.offer ... and rejects
\* replayed or expired pairing codes".
OnePairedSession == Cardinality(accepted \cup launching) <= 1

\* A running game has somebody who is going to stop it: the offer that still waits for it, or the
\* session that started it, whose connection is there to close.  The one game without is named: its
\* connection was lost while the offer awaited launcher.start() (host/agent.mjs:646), so that its
\* cleanup had nothing to stop and the continuation adds a session that nobody closes any more; or
\* it was the outbound one.  The end of the host finds this one too, as long as the host is up.
GameHasOwner ==
  /\ state[Game] = "running" =>
       launching # {} \/ \E c \in gameStarted : socket[c] # "closed" \/ c \in overtaken
  /\ state[Game] = "running" /\ host = "up" => launching # {} \/ gameStarted \cap sessions # {}
  /\ state[Game] = "starting" => launching # {}

\* docs/host-support.md:134-135 of the game: the agent "starts the shell-free process after pairing
\* and stops it when the session closes", so that no game runs for connections that are all closed.
\* Outbound connections are set apart.
GameEndsWithSession ==
  state[Game] = "running" /\ gameStarted \cap Outbound = {} =>
    launching # {} \/ \E c \in gameStarted : socket[c] # "closed"

\* A game that is being stopped does end, unless the host exits first.
GameStopsInTheEnd ==
  state[Game] = "stopping" ~> state[Game] \in Ended \/ host = "exited"

\* One player is let in, and one owner answers for the game.
PlayIsOwned == OnePairedSession /\ GameHasOwner
=============================================================================
