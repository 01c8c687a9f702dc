------------------------------ MODULE NativeHost ------------------------------
(***************************************************************************)
(* One native media session: the Werift runtime of host/werift-runtime.mjs *)
(* with the session of host/native-host.mjs, the publisher of              *)
(* host/publisher.mjs and the pipeline of host/native-media.mjs, on three  *)
(* processes (ManagedProcess): the game, the encoder and the capture.      *)
(*                                                                         *)
(* Three threads of control interleave at their awaits: the handling of    *)
(* the offer, a close() of the runtime, and the stop that a failing sink   *)
(* begins.  What a thread still has to do is the sequence of steps         *)
(* todo[t]; a failure puts the steps of the catch blocks in its place.     *)
(* Steps whose await has settled run before the next outside event.        *)
(* Audio (a second publisher of the same kind) is left out.                *)
(***************************************************************************)
EXTENDS ManagedProcess, Sequences

CONSTANT HasGame \* is a game launcher configured?

ASSUME NativeAssumption ==
  /\ HasGame \in BOOLEAN
  /\ Proc = {"game", "encoder", "capture"}
  /\ Caller = {"offer", "close", "sink"}

VARIABLES
  runtime,     \* state of the runtime
  offered,     \* activeSessionId and mediaSession are set
  ended,       \* `closed' of the Werift session and of its transport
  publisher, pipeline, \* their `state'
  started, gameStarted, \* flags of acceptOffer() and of the host
  answer,      \* the answer that was sent: "none", "accepted", "rejected"
  todo         \* [Caller -> sequence of steps]

flowVars == <<runtime, offered, ended, started, answer>>
layerVars == <<publisher, pipeline, gameStarted>>
nativeVars == <<flowVars, layerVars, todo>>
hostVars == <<processVars, nativeVars>>

HostInit ==
  /\ ProcessInit
  /\ runtime = "listening"
  /\ offered = FALSE /\ ended = FALSE
  /\ publisher = "unconfigured" /\ pipeline = "idle"
  /\ started = FALSE /\ gameStarted = FALSE
  /\ answer = "none"
  /\ todo = [t \in Caller |-> <<>>]

-----------------------------------------------------------------------------
\* What remains to be done.

At(t, step) == todo[t] # <<>> /\ Head(todo[t]) = step

\* The step of t is over, and `steps' come before the rest.
Then(t, steps) == todo' = [todo EXCEPT ![t] = steps \o Tail(@)]

\* A step threw: the catch blocks take the place of the rest.
Instead(t, steps) == todo' = [todo EXCEPT ![t] = steps]

\* close() of the session that sessionFactory made.
CloseMedia == <<"end session", "stop publisher", "stop game if started">>

\* The runtime's catch block, and the agent's, which closes the runtime.
RuntimeCatch == CloseMedia \o <<"give up">>

\* The catch block of acceptOffer(), and then the runtime's.
AcceptCatch == <<"end session", "stop publisher if started", "stop game if started">>
                 \o RuntimeCatch

\* The catch block of the pipeline's start() comes before them.
PipelineCatch == <<"stop capture", "stop encoder", "pipeline failed">> \o AcceptCatch

AcceptOffer ==
  (IF HasGame THEN <<"start game">> ELSE <<>>) \o
  <<"start publisher", "start encoder", "start capture", "publish", "negotiate", "answer">>

-----------------------------------------------------------------------------
\* The offer's steps forward.

\* session.offer: the factory makes the session, or throws before there is one.
Offer ==
  /\ runtime = "listening" /\ ~offered
  /\ \/ Instead("offer", AcceptOffer) /\ offered' = TRUE
     \/ Instead("offer", <<"give up">>) /\ UNCHANGED offered
  /\ UNCHANGED <<processVars, runtime, ended, layerVars, started, answer>>

\* negotiateHostOffer() finds nothing in common: the runtime goes on listening.
OfferRejected ==
  /\ runtime = "listening" /\ ~offered
  /\ answer' = "rejected"
  /\ UNCHANGED <<processVars, runtime, offered, ended, layerVars, started, todo>>

StepOf == [game |-> "start game", encoder |-> "start encoder", capture |-> "start capture"]

\* start() of a process is called, and settles when the child has answered.
StartProcess(p) ==
  /\ At("offer", StepOf[p])
  /\ Start(p)
  /\ UNCHANGED nativeVars

Spawns(p) == os[p] \in {"alive", "exited"}

Started(p) ==
  /\ At("offer", StepOf[p])
  /\ state[p] \notin {"idle", "starting"}
  /\ IF Spawns(p)
     THEN /\ Then("offer", <<>>)
          /\ gameStarted' = (gameStarted \/ p = "game")
     ELSE /\ Instead("offer", IF p = "game" THEN AcceptCatch ELSE PipelineCatch)
          /\ UNCHANGED gameStarted
  /\ UNCHANGED <<processVars, flowVars, publisher, pipeline>>

\* publisher.start() and pipeline.start() up to the first process.
StartPublisher ==
  /\ At("offer", "start publisher")
  /\ publisher' = "ready" /\ pipeline' = "starting"
  /\ Then("offer", <<>>)
  /\ UNCHANGED <<processVars, flowVars, gameStarted>>

\* Both processes run: the pipeline is `running' and the publisher `active'.
Publish ==
  /\ At("offer", "publish")
  /\ publisher' = "active" /\ pipeline' = "running" /\ started' = TRUE
  /\ Then("offer", <<>>)
  /\ UNCHANGED <<processVars, runtime, offered, ended, gameStarted, answer>>

\* session.acceptOffer() throws at once on a session that was closed.
NegotiateEnded ==
  /\ At("offer", "negotiate") /\ ended
  /\ Instead("offer", AcceptCatch)
  /\ UNCHANGED <<processVars, flowVars, layerVars>>

\* Otherwise the peer settles the SDP exchange in its own time.
Negotiate ==
  /\ At("offer", "negotiate") /\ ~ended
  /\ Then("offer", <<"await peer">>)
  /\ UNCHANGED <<processVars, flowVars, layerVars>>

PeerSettles ==
  /\ At("offer", "await peer")
  /\ Then("offer", <<>>) \/ Instead("offer", AcceptCatch)
  /\ UNCHANGED <<processVars, flowVars, layerVars>>

\* The bridge to the connection is closed by the first close() of the runtime.
BridgeClosed == runtime \in {"closed", "revived"}

\* Mutant: the answer does not go through the bridge.
Answer_Unchecked ==
  /\ At("offer", "answer")
  /\ runtime' = "connected" /\ answer' = "accepted"
  /\ Then("offer", <<>>)
  /\ UNCHANGED <<processVars, offered, ended, layerVars, started>>

\* `connected', even after close() ("revived"); then send() throws.
Answer ==
  /\ At("offer", "answer")
  /\ IF BridgeClosed
     THEN /\ runtime' = "revived"
          /\ Instead("offer", RuntimeCatch)
          /\ UNCHANGED answer
     ELSE /\ runtime' = "connected"
          /\ answer' = "accepted"
          /\ Then("offer", <<>>)
  /\ UNCHANGED <<processVars, offered, ended, layerVars, started>>

\* The end of the catch blocks: `error', on which the agent closes the runtime.
GiveUp ==
  /\ At("offer", "give up")
  /\ runtime' = "closed" /\ offered' = FALSE
  /\ Then("offer", <<>>)
  /\ UNCHANGED <<processVars, ended, layerVars, started, answer>>

-----------------------------------------------------------------------------
\* The steps back, of any thread.

EndSession(t) ==
  /\ At(t, "end session")
  /\ ended' = TRUE
  /\ Then(t, <<>>)
  /\ UNCHANGED <<processVars, runtime, offered, layerVars, started, answer>>

\* Mutant: stop() has nothing to do while the publisher is only `ready'.
PublisherIdle_Ready == publisher \in {"unconfigured", "ready", "stopped"}

PublisherIdle == publisher \in {"unconfigured", "stopped"}

StopPublisher(t) ==
  /\ \/ At(t, "stop publisher")
     \/ At(t, "stop publisher if started")
  /\ IF PublisherIdle \/ (At(t, "stop publisher if started") /\ ~started)
     THEN Then(t, <<>>)
     ELSE Then(t, <<"stop pipeline", "publisher stopped">>)
  /\ UNCHANGED <<processVars, flowVars, layerVars>>

PipelineIdle == pipeline \in {"idle", "stopped"}

StopPipeline(t) ==
  /\ At(t, "stop pipeline")
  /\ IF PipelineIdle
     THEN Then(t, <<>>) /\ UNCHANGED pipeline
     ELSE /\ pipeline' = "stopping"
          /\ Then(t, <<"stop capture", "stop encoder", "pipeline stopped">>)
  /\ UNCHANGED <<processVars, flowVars, publisher, gameStarted>>

Stops == [game |-> "stop game", encoder |-> "stop encoder", capture |-> "stop capture"]
Awaits == [game |-> "await game", encoder |-> "await encoder", capture |-> "await capture"]

StopProcess(t, p) ==
  /\ At(t, Stops[p])
  /\ Stop(p, t)
  /\ Then(t, <<Awaits[p]>>)
  /\ UNCHANGED <<flowVars, layerVars>>

Stopped(t, p) ==
  /\ At(t, Awaits[p])
  /\ stopping[p][t] = "returned"
  /\ Then(t, <<>>)
  /\ UNCHANGED <<processVars, flowVars, layerVars>>

StopGame(t) ==
  /\ At(t, "stop game if started")
  /\ Then(t, IF gameStarted THEN <<"stop game", "game stopped">> ELSE <<>>)
  /\ UNCHANGED <<processVars, flowVars, layerVars>>

\* What is written when an await of the steps back has returned.
Record(t) ==
  /\ \/ At(t, "publisher stopped") /\ publisher' = "stopped"
                                   /\ UNCHANGED <<pipeline, gameStarted>>
     \/ At(t, "pipeline stopped") /\ pipeline' = "stopped"
                                  /\ UNCHANGED <<publisher, gameStarted>>
     \/ At(t, "pipeline failed") /\ pipeline' = "failed"
                                 /\ UNCHANGED <<publisher, gameStarted>>
     \/ At(t, "game stopped") /\ gameStarted' = FALSE
                              /\ UNCHANGED <<publisher, pipeline>>
  /\ Then(t, <<>>)
  /\ UNCHANGED <<processVars, flowVars>>

-----------------------------------------------------------------------------
\* Outside events.

\* close(): the connection has gone, the peer sent session.close, or the host
\* shuts down.
Close ==
  /\ runtime # "closed" /\ todo["close"] = <<>>
  /\ runtime' = "closed"
  /\ Instead("close", IF offered THEN CloseMedia ELSE <<>>)
  /\ UNCHANGED <<processVars, offered, ended, layerVars, started, answer>>

\* An ICE candidate, an input or a control message throws.
MessageFails ==
  /\ runtime = "connected"
  /\ runtime' = "error"
  /\ UNCHANGED <<processVars, offered, ended, layerVars, started, answer, todo>>

\* The sink throws on a chunk of the encoder: fail() of the publisher.
SinkFails ==
  /\ publisher = "active" /\ os["encoder"] \in {"alive", "exited"}
  /\ todo["sink"] = <<>>
  /\ publisher' = "failed"
  /\ Instead("sink", <<"stop pipeline">>)
  /\ UNCHANGED <<processVars, flowVars, pipeline, gameStarted>>

ProcessEvent ==
  /\ \E p \in Proc : Spawned(p) \/ SpawnError(p) \/ Finish(p)
                       \/ \E t \in Caller : StopStepOf(p, t)
  /\ UNCHANGED nativeVars

ProgramEnds(p) == Exit(p) /\ UNCHANGED nativeVars

Waiting(t) ==
  \/ todo[t] = <<>>
  \/ t = "offer" /\ (At(t, "await peer") \/ \E p \in Proc : At(t, StepOf[p]) /\ state[p] = "starting")
  \/ \E p \in Proc : At(t, Awaits[p]) /\ stopping[p][t] # "returned"

Due == \E t \in Caller : ~Waiting(t)

Step ==
  \/ \E p \in Proc : StartProcess(p) \/ Started(p)
  \/ StartPublisher \/ Publish \/ NegotiateEnded \/ Negotiate \/ Answer \/ GiveUp
  \/ \E t \in Caller : EndSession(t) \/ StopPublisher(t) \/ StopPipeline(t) \/ StopGame(t)
                         \/ Record(t) \/ \E p \in Proc : StopProcess(t, p) \/ Stopped(t, p)

HostNext ==
  \/ Step
  \/ ~Due /\ (Offer \/ OfferRejected \/ PeerSettles \/ Close \/ MessageFails \/ SinkFails)
  \/ ~Due /\ ProcessEvent
  \/ \E p \in Proc : ProgramEnds(p)

\* The event loop runs what is due and delivers the events of the children and
\* of the peer connection; SIGKILL ends a program.
HostSpec ==
  /\ HostInit /\ [][HostNext]_hostVars
  /\ WF_hostVars(Step)
  /\ WF_hostVars(~Due /\ PeerSettles)
  /\ WF_hostVars(~Due /\ ProcessEvent)
  /\ \A p \in Proc : WF_hostVars(signal[p] = "SIGKILL" /\ ProgramEnds(p))
-----------------------------------------------------------------------------
HostTypeOK ==
  /\ ProcessTypeOK
  /\ runtime \in {"listening", "connected", "revived", "error", "closed"}
  /\ {offered, ended, started, gameStarted} \subseteq BOOLEAN
  /\ publisher \in {"unconfigured", "ready", "active", "failed", "stopped"}
  /\ pipeline \in {"idle", "starting", "running", "stopping", "stopped", "failed"}
  /\ answer \in {"none", "accepted", "rejected"}
  /\ \A t \in Caller : Len(todo[t]) <= 12

Settled == \A t \in Caller : todo[t] = <<>>

\* Whatever close(), a failing offer and a failing sink did to one another: when
\* the session is closed and nobody has anything left to do, no child is left
\* that has not been killed, and every layer says that it is stopped.
NothingLeftRunning ==
  runtime = "closed" /\ Settled =>
    /\ \A p \in Proc : os[p] \in {"spawning", "alive"} => signal[p] = "SIGKILL"
    /\ publisher \in {"unconfigured", "stopped"}
    /\ ~gameStarted

\* A closed session does end: the three programs, and the clean-up itself.
EverythingEnds ==
  runtime = "closed" ~>
    Settled /\ \A p \in Proc : os[p] \notin {"spawning", "alive"}

\* The peer is told `accepted' only by a session that has started what it shares
\* and was not closed meanwhile.
AcceptedIsStarted ==
  [][answer # "accepted" /\ answer' = "accepted" =>
       /\ runtime = "listening" /\ ~ended /\ started
       /\ HasGame => gameStarted]_hostVars
=============================================================================
