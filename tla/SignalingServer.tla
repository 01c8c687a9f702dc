--------------------------- MODULE SignalingServer ---------------------------
(***************************************************************************)
(* The WebSocket service of signaling/agent.mjs on top of the broker: the  *)
(* upgrade handler with its per-socket closure, and close().               *)
(*                                                                         *)
(* A socket obtains at most one participant, so Handle names both.  The    *)
(* join is asynchronous: what attach() returned is installed by a          *)
(* continuation (JoinSettled).  With the in-memory broker that is the next *)
(* microtask; an injected broker (docs/deployment.md) takes as long as it  *)
(* likes, and anything may happen to the socket meanwhile.  A handler that *)
(* throws is modelled by its socket entering `failed', and fail() runs     *)
(* before the event loop takes another event.                              *)
(***************************************************************************)
EXTENDS SignalingBroker, Sequences, FiniteSetsExt

CONSTANTS MaxConnections, \* config.maxConnections
          MaxFrames       \* bound: messages written to all sockets together

ASSUME ServerAssumption == MaxConnections \in Nat /\ MaxFrames \in Nat

VARIABLES
  wire,     \* [Handle -> "new", "open", "ending" (end() called), "destroyed", "closed"]
  sockets,  \* the Set sockets
  down,     \* sockets whose `detached' is true
  join,     \* [Handle -> where `joining' and `participant' are]
  pending,  \* [Handle -> the messages that wait, by their numbers]
  failed,   \* sockets whose fail() is due
  serving,  \* FALSE once close() was called
  written,  \* [Handle -> number of messages read from the socket since its join]
  relayed   \* [Handle -> the messages handed to broker.send(), in order]

socketVars == <<wire, sockets, down>>
relayVars == <<pending, written, relayed>>
serverVars == <<socketVars, join, relayVars, failed, serving>>
vars == <<brokerVars, serverVars>>

\* none: no join yet; settling: attach() succeeded, refusing: attach() is going
\* to reject; joined: participant is set; void: joining is set, participant never
\* will be.
Join == {"none", "settling", "refusing", "joined", "void"}

\* What participant.send() finds a message to be: one to relay, a session.close
\* (which is relayed and then throws), one that is refused.
Kind == {"message", "close", "refused"}

Init ==
  /\ BrokerInit
  /\ wire = [c \in Handle |-> "new"]
  /\ sockets = {}
  /\ down = {}
  /\ join = [c \in Handle |-> "none"]
  /\ pending = [c \in Handle |-> <<>>]
  /\ failed = {}
  /\ serving = TRUE
  /\ written = [c \in Handle |-> 0]
  /\ relayed = [c \in Handle |-> <<>>]

\* end() closes our side only: the peer's frames are still read.
Readable(c) == wire[c] \in {"open", "ending"}

\* After the cleanup only a first join has an effect: there is no participant to
\* send with any more, and fail() does nothing the second time.
Listening(c) == Readable(c) /\ c \notin down

\* The upgrade request; above the limit it is answered with 503.
Upgrade(c) ==
  /\ serving /\ wire[c] = "new"
  /\ Cardinality(sockets) < MaxConnections
  /\ wire' = [wire EXCEPT ![c] = "open"]
  /\ sockets' = sockets \cup {c}
  /\ UNCHANGED <<brokerVars, down, join, relayVars, failed, serving>>

Throws(c) ==
  /\ failed' = failed \cup {c}
  /\ UNCHANGED <<socketVars, join, serving>>

(***************************************************************************)
(* A signaling.join frame.  broker.attach() has its effect at once; it     *)
(* rejects by throwing (the in-memory broker, which leaves `joining' unset *)
(* so that a later join is tried again) or later (an injected one).        *)
(***************************************************************************)
JoinFrame(c, s, r) ==
  /\ Readable(c) /\ join[c] = "none"
  /\ join' = [join EXCEPT ![c] = "settling"]
  /\ Attach(c, s, r)
  /\ UNCHANGED <<socketVars, relayVars, failed, serving>>

JoinRefused(c, s, r) ==
  /\ Readable(c) /\ join[c] = "none"
  /\ AttachRejected(s, r)
  /\ \/ Throws(c)
     \/ /\ join' = [join EXCEPT ![c] = "refusing"]
        /\ UNCHANGED <<socketVars, failed, serving>>
  /\ UNCHANGED relayVars

\* A second join while one is under way, a frame that does not parse, a message
\* before any join, or one too many per second.
BadFrame(c) ==
  /\ Listening(c)
  /\ Throws(c)
  /\ UNCHANGED <<brokerVars, relayVars>>

\* participant.send(message), which throws when the participant has detached.  Nobody
\* looks at what the message is before.
Relay(c, n) ==
  \E kind \in Kind :
    IF kind = "refused" \/ phase[c] # "attached"
    THEN /\ Throws(c)
         /\ UNCHANGED <<brokerVars, relayed>>
    ELSE /\ \E failing \in SUBSET Recipients(c) : Send(c, failing)
         /\ relayed' = [relayed EXCEPT ![c] = Append(@, n)]
         /\ failed' = IF kind = "close" THEN failed \cup {c} ELSE failed
         /\ UNCHANGED <<socketVars, join, serving>>

MoreFrames == MapThenSumSet(LAMBDA c : written[c], Handle) < MaxFrames

\* Mutant: a message that follows the join is relayed without waiting for those
\* that arrived earlier.
Message_Overtakes(c) ==
  /\ Listening(c) /\ join[c] # "none"
  /\ MoreFrames
  /\ written' = [written EXCEPT ![c] = @ + 1]
  /\ LET n == written[c] + 1
     IN  IF join[c] = "joined" \/ (phase[c] = "attached" /\ written[c] > 0)
         THEN /\ Relay(c, n)
              /\ UNCHANGED pending
         ELSE /\ pending' = [pending EXCEPT ![c] = Append(@, n)]
              /\ UNCHANGED <<brokerVars, socketVars, join, relayed, failed, serving>>

\* A message of the protocol: queued until the participant is there.
Message(c) ==
  /\ Listening(c) /\ join[c] # "none"
  /\ MoreFrames
  /\ written' = [written EXCEPT ![c] = @ + 1]
  /\ LET n == written[c] + 1
     IN  IF join[c] = "joined"
         THEN /\ Relay(c, n)
              /\ UNCHANGED pending
         ELSE /\ pending' = [pending EXCEPT ![c] = Append(@, n)]
              /\ UNCHANGED <<brokerVars, socketVars, join, relayed, failed, serving>>

\* Mutant: a join that settles after the socket is gone installs its participant.
JoinSettled_Leaks(c) ==
  /\ join[c] = "settling"
  /\ join' = [join EXCEPT ![c] = "joined"]
  /\ UNCHANGED <<brokerVars, socketVars, relayVars, failed, serving>>

\* The continuation of joining: give the role back if the socket is gone by now.
JoinSettled(c) ==
  /\ join[c] = "settling"
  /\ IF c \in down
     THEN /\ join' = [join EXCEPT ![c] = "void"]
          /\ Detach(c)
     ELSE /\ join' = [join EXCEPT ![c] = "joined"]
          /\ UNCHANGED brokerVars
  /\ UNCHANGED <<socketVars, relayVars, failed, serving>>

JoinRejected(c) ==
  /\ join[c] = "refusing"
  /\ join' = [join EXCEPT ![c] = "void"]
  /\ failed' = failed \cup {c}
  /\ UNCHANGED <<brokerVars, socketVars, relayVars, serving>>

\* The rest of that continuation, one message at a time: pending.splice(0).  When
\* one throws, those behind it are dropped.
Flush(c) ==
  /\ join[c] = "joined" /\ pending[c] # <<>> /\ c \notin failed
  /\ Relay(c, Head(pending[c]))
  /\ pending' = [pending EXCEPT ![c] = IF c \in failed' THEN <<>> ELSE Tail(@)]
  /\ UNCHANGED written

\* cleanup(): once per socket; it knows the participant only once it is set.
Cleanup(c) ==
  /\ down' = down \cup {c}
  /\ sockets' = sockets \ {c}
  /\ IF c \notin down /\ join[c] = "joined" /\ phase[c] = "attached"
     THEN Detach(c)
     ELSE UNCHANGED brokerVars

\* fail(): cleanup and a close frame.
Fail(c) ==
  /\ c \in failed
  /\ failed' = failed \ {c}
  /\ Cleanup(c)
  /\ wire' = [wire EXCEPT ![c] = IF @ = "open" THEN "ending" ELSE @]
  /\ UNCHANGED <<join, relayVars, serving>>

\* A close frame, or a malformed one: end() without cleanup.
EndFrame(c) ==
  /\ wire[c] = "open"
  /\ wire' = [wire EXCEPT ![c] = "ending"]
  /\ UNCHANGED <<brokerVars, sockets, down, join, relayVars, failed, serving>>

\* The socket's close or error event.
SocketClosed(c) ==
  /\ wire[c] \in {"open", "ending", "destroyed"}
  /\ wire' = [wire EXCEPT ![c] = "closed"]
  /\ Cleanup(c)
  /\ UNCHANGED <<join, relayVars, failed, serving>>

\* close(): destroy every socket of the Set and stop listening.
Close ==
  /\ serving
  /\ serving' = FALSE
  /\ wire' = [c \in Handle |-> IF c \in sockets THEN "destroyed" ELSE wire[c]]
  /\ UNCHANGED <<brokerVars, sockets, down, join, relayVars, failed>>

\* The broker's own clock, its tickets (POST /admin/tickets) and stats().
BrokerStep ==
  /\ \/ \E s \in Session, r \in Role, ttl \in TicketTtls : IssueTicket(s, r, ttl)
     \/ Sweep
     \/ Tick
  /\ UNCHANGED serverVars

\* What runs before the event loop takes another event.
Due == failed # {} \/ \E c \in Handle : join[c] = "joined" /\ pending[c] # <<>>

Continuation == \E c \in Handle : Fail(c) \/ (c \notin failed /\ Flush(c))

Settle(c) == JoinSettled(c) \/ JoinRejected(c)

Frame(c) ==
  \/ \E s \in Session, r \in Role : JoinFrame(c, s, r) \/ JoinRefused(c, s, r)
  \/ Message(c)
  \/ BadFrame(c)
  \/ EndFrame(c)

Next ==
  \/ Continuation
  \/ ~Due /\ \E c \in Handle : Upgrade(c) \/ Frame(c) \/ Settle(c) \/ SocketClosed(c)
  \/ ~Due /\ (Close \/ BrokerStep)

(***************************************************************************)
(* The event loop runs continuations, and although peers may go on writing *)
(* for ever it gets to what attach() and destroy() left it to do.  Peers   *)
(* need not do anything.                                                   *)
(***************************************************************************)
Fairness ==
  /\ WF_vars(Continuation)
  /\ SF_vars(~Due /\ \E c \in Handle : Settle(c) \/ (wire[c] = "destroyed" /\ SocketClosed(c)))

Spec == Init /\ [][Next]_vars
FairSpec == Spec /\ Fairness
-----------------------------------------------------------------------------
ServerTypeOK ==
  /\ wire \in [Handle -> {"new", "open", "ending", "destroyed", "closed"}]
  /\ {sockets, down, failed} \subseteq SUBSET Handle
  /\ join \in [Handle -> Join]
  /\ pending \in [Handle -> Seq(1 .. MaxFrames)]
  /\ serving \in BOOLEAN
  /\ written \in [Handle -> 0 .. MaxFrames]
  /\ relayed \in [Handle -> Seq(1 .. MaxFrames)]

UpTo(n) == [i \in 1 .. n |-> i]

\* The messages of a socket are relayed in the order it wrote them, those that
\* were queued during the join included; while it is up none is skipped.
RelayedInOrder ==
  \A c \in Handle :
    /\ relayed[c] = UpTo(Len(relayed[c]))
    /\ (join[c] = "joined" /\ c \notin down \cup failed)
         => Len(relayed[c]) + Len(pending[c]) = written[c]

\* A role is held only on behalf of a socket the service still serves, or of a
\* join that has not settled: no order of close and join leaks it.
NoLeakedRole ==
  \A c \in Attached : c \in sockets \/ join[c] = "settling"

\* Once the service is closed every role comes free.
CloseFreesRoles == ~serving ~> Attached = {}

\* A socket is served whole: its messages in order, its role for as long as it is there.
SocketsAreSound == RelayedInOrder /\ NoLeakedRole
=============================================================================
