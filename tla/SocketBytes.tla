---------------------------- MODULE SocketBytes -----------------------------
(***************************************************************************)
(* Bytes between two sockets: the frames a client of the signaling service *)
(* sends, and the sockets the one origin of the desktop application ties   *)
(* together.  The two share no state.                                      *)
(***************************************************************************)
EXTENDS Integers, Sequences, FiniteSets, SequencesExt

-----------------------------------------------------------------------------
(***************************************************************************)
(* The bytes of one WebSocket at the signaling service (signaling/agent.mjs*)
(* parseFrames, createMessageRateLimiter and the `data' handler).  The     *)
(* network cuts the stream of frames into chunks where it likes.  A frame  *)
(* is two units: its header, which tells whether it can be accepted, and   *)
(* the rest.  SignalingServer says what is done with the messages.         *)
(***************************************************************************)
CONSTANTS Limit,      \* config.maxMessagesPerSecond
          Second,     \* windowMs, in ticks
          Capacity,   \* units a chunk and what is left of those before may have together
          MaxSent,    \* bound: frames
          MaxTicks    \* bound: time

VARIABLES frames,     \* what the client sends
          arrived,    \* units received
          next,       \* the frame the buffer begins with
          limiter,    \* [startedAt, count]
          taken,      \* the times at which the limiter was asked (for the properties)
          now,
          passed,     \* the text frames handed on
          wireEnd     \* "open", "closing" after socket.end(), "failed" after fail(), "refused"
                      \* when that was for the limit
wireVars == <<frames, arrived, next, limiter, taken, now, passed, wireEnd>>

\* long: unmasked, or longer than the service accepts; other: any other opcode.
Sent == {"text", "ping", "close", "long", "other"}

WireInit ==
  /\ frames \in UNION {[1..n -> Sent] : n \in 1..MaxSent}
  /\ arrived = 0 /\ next = 1 /\ now = 0 /\ taken = <<>> /\ passed = <<>>
  /\ limiter = [startedAt |-> 0, count |-> 0] /\ wireEnd = "open"
-----------------------------------------------------------------------------
\* Mutant: the count goes on in the next second.
Window_Keeps(l) == IF now - l.startedAt >= Second THEN [l EXCEPT !.startedAt = now] ELSE l

Window(l) == IF now - l.startedAt >= Second THEN [startedAt |-> now, count |-> 0] ELSE l

\* take()
Take(l) == [Window(l) EXCEPT !.count = @ + 1]
MayPass(l) == l.count <= Limit

\* Mutant: a frame that is not complete is dropped with the rest of the chunk.
Rest_Dropped(f) == f + 1

\* Where the buffer begins when frame f is not complete.
Rest(f) == f

Ending(end) == IF end = "open" THEN "closing" ELSE end

\* One frame of parseFrames(); `stop' says that the loop ends with it.
Parsed(p, units) ==
  LET f     == p.next
      taker == Take(p.limiter)
  IN  IF units < 2 * f - 1 THEN [p EXCEPT !.stop = TRUE]
      ELSE IF frames[f] = "long" THEN [p EXCEPT !.stop = TRUE, !.end = Ending(@)]
      ELSE IF units < 2 * f THEN [p EXCEPT !.stop = TRUE, !.next = Rest(f)]
      ELSE IF frames[f] \in {"close", "other"}
      THEN [p EXCEPT !.stop = TRUE, !.next = f + 1, !.end = Ending(@)]
      ELSE IF frames[f] = "ping"
      THEN [p EXCEPT !.next = f + 1, !.limiter = taker, !.taken = Append(@, now),
                     !.stop = ~MayPass(taker), !.end = IF MayPass(taker) THEN @ ELSE "refused"]
      ELSE [p EXCEPT !.next = f + 1, !.limiter = taker, !.taken = Append(@, now),
                     !.passed = IF MayPass(taker) THEN Append(@, f) ELSE @,
                     !.end = IF MayPass(taker) THEN @ ELSE "refused"]

\* parseFrames() of a buffer that ends with the unit `units'.
Parse(units) ==
  LET loop[n \in 0..MaxSent + 1] ==
        IF n = 0 THEN [next |-> next, limiter |-> limiter, taken |-> taken, passed |-> passed,
                       end |-> wireEnd, stop |-> FALSE]
        ELSE IF loop[n - 1].stop THEN loop[n - 1]
        ELSE Parsed(loop[n - 1], units)
  IN  loop[MaxSent + 1]

\* A chunk comes.  What is read after the service has ended its side is SignalingServer's.
Chunk ==
  /\ wireEnd = "open"
  /\ \E units \in arrived + 1 .. 2 * Len(frames) :
       /\ arrived' = units
       /\ IF units - 2 * (next - 1) > Capacity
          THEN wireEnd' = "failed" /\ UNCHANGED <<next, limiter, taken, passed>>
          ELSE LET p == Parse(units)
               IN  /\ next' = p.next /\ limiter' = p.limiter /\ taken' = p.taken
                   /\ passed' = p.passed /\ wireEnd' = p.end
  /\ UNCHANGED <<frames, now>>

Tick ==
  /\ now < MaxTicks /\ now' = now + 1
  /\ UNCHANGED <<frames, arrived, next, limiter, taken, passed, wireEnd>>

WireNext == Chunk \/ Tick
WireSpec == WireInit /\ [][WireNext]_wireVars
-----------------------------------------------------------------------------
\* However the network cuts the stream, every message that has arrived is handed on, once and in
\* order, up to a frame that ends the connection, and a connection is ended for a frame that has
\* arrived.
FramesArriveWhole ==
  LET Ends(f) == frames[f] \in {"close", "other", "long"}
      whole   == {f \in 1 .. arrived \div 2 : \A g \in 1..f : ~Ends(g)}
      texts   == {f \in whole : frames[f] = "text"}
  IN  /\ wireEnd \in {"open", "closing"} =>
           passed = SetToSortSeq(texts, LAMBDA f, g : f < g)
      /\ wireEnd = "closing" => \E f \in 1 .. (arrived + 1) \div 2 : Ends(f)

\* A client that sends no more than `Limit' messages in any second is never refused, and one that
\* sends more never gets more than twice as many through.
LimitIsFair ==
  LET Within(t) == {i \in DOMAIN taken : t <= taken[i] /\ taken[i] < t + Second}
  IN  /\ wireEnd = "refused" => \E t \in 0..now : Cardinality(Within(t)) > Limit
      /\ wireEnd = "open" => \A t \in 0..now : Cardinality(Within(t)) <= 2 * Limit

-----------------------------------------------------------------------------
(***************************************************************************)
(* The one origin of the desktop application (host/app-host.mjs): it       *)
(* forwards a WebSocket of the page to the host agent, which it asks to    *)
(* upgrade first.  Only then are both sockets tied together, and the       *)
(* agent's is in the set that close() empties.                             *)
(***************************************************************************)
CONSTANT Link   \* WebSockets of the pages

VARIABLES pageEnd,   \* [Link -> "none", "open", "closed"]: the page's socket
          agentEnd,  \* [Link -> "none", "asked", "open", "closed"]: the one to the agent
          news,      \* <<side, link>> of a socket that has ended and has not told it yet
          tied,      \* links whose sockets are piped, with their handlers
          cleaned,   \* session.closed
          upstream,  \* upstreamSockets
          hostOpen,  \* FALSE once close() was called
          early      \* links whose page told its end before there was a handler
appHostVars == <<pageEnd, agentEnd, news, tied, cleaned, upstream, hostOpen, early>>

AppHostInit ==
  /\ pageEnd = [c \in Link |-> "none"] /\ agentEnd = [c \in Link |-> "none"]
  /\ news = {} /\ tied = {} /\ cleaned = {} /\ upstream = {} /\ early = {} /\ hostOpen = TRUE
-----------------------------------------------------------------------------
\* The page asks for /session, and the agent is asked.
Handshake(c) ==
  /\ hostOpen /\ pageEnd[c] = "none"
  /\ pageEnd' = [pageEnd EXCEPT ![c] = "open"] /\ agentEnd' = [agentEnd EXCEPT ![c] = "asked"]
  /\ UNCHANGED <<news, tied, cleaned, upstream, hostOpen, early>>

\* The sockets `lost' (pairs of a side and a link) end, those that have not before.
SocketsEnd(lost) ==
  /\ pageEnd' = [c \in Link |-> IF <<"page", c>> \in lost THEN "closed" ELSE pageEnd[c]]
  /\ agentEnd' = [c \in Link |-> IF <<"agent", c>> \in lost THEN "closed" ELSE agentEnd[c]]

OpenSockets == {<<"page", c>> : c \in {c \in Link : pageEnd[c] = "open"}}
        \union {<<"agent", c>> : c \in {c \in Link : agentEnd[c] = "open"}}

\* The agent answers with something else, or cannot be reached: 502.
AgentRefuses(c) ==
  /\ agentEnd[c] = "asked"
  /\ SocketsEnd({<<"agent", c>>, <<"page", c>>})
  /\ news' = news \union (OpenSockets \intersect {<<"page", c>>})
  /\ UNCHANGED <<tied, cleaned, upstream, hostOpen, early>>

\* The agent upgrades.
AgentUpgrades(c) ==
  /\ agentEnd[c] = "asked"
  /\ agentEnd' = [agentEnd EXCEPT ![c] = "open"]
  /\ upstream' = upstream \union {c} /\ tied' = tied \union {c}
  /\ UNCHANGED <<pageEnd, news, cleaned, hostOpen, early>>

\* Either side goes, or its connection breaks.
SocketGone(side, c) ==
  /\ <<side, c>> \in OpenSockets
  /\ SocketsEnd({<<side, c>>}) /\ news' = news \union {<<side, c>>}
  /\ UNCHANGED <<tied, cleaned, upstream, hostOpen, early>>

\* Mutant: the agent's socket is left to its own.
Destroyed_Page(c) == {<<"page", c>>}

\* What cleanup() destroys.
Destroyed(c) == {<<"page", c>>, <<"agent", c>>}

\* Mutant: only the agent's socket has handlers.
Heard_Agent(side, c) == side = "agent" /\ c \in tied

\* The handlers are those that were set when the two were tied.
Heard(side, c) == c \in tied

\* The close event, or the error, of a socket: cleanup(), once.
CloseEvent(side, c) ==
  /\ <<side, c>> \in news
  /\ IF Heard(side, c) /\ c \notin cleaned
     THEN /\ SocketsEnd(Destroyed(c))
          /\ news' = (news \ {<<side, c>>}) \union (OpenSockets \intersect Destroyed(c))
          /\ cleaned' = cleaned \union {c} /\ upstream' = upstream \ {c}
     ELSE news' = news \ {<<side, c>>} /\ UNCHANGED <<pageEnd, agentEnd, cleaned, upstream>>
  /\ early' = IF side = "page" /\ c \notin tied THEN early \union {c} ELSE early
  /\ UNCHANGED <<tied, hostOpen>>

\* Mutant: the sockets to the agent are forgotten and stay.
Emptied_Forgotten == {}

\* The sockets that close() finds in upstreamSockets.
Emptied == {<<"agent", c>> : c \in upstream}

\* close(): these, and every connection of the server.
CloseHost ==
  /\ hostOpen /\ hostOpen' = FALSE
  /\ LET lost == OpenSockets \intersect (Emptied \union ({"page"} \X Link))
     IN  SocketsEnd(lost) /\ news' = news \union lost
  /\ upstream' = {}
  /\ UNCHANGED <<tied, cleaned, early>>

AppHostNext ==
  \/ CloseHost
  \/ \E c \in Link :
       \/ Handshake(c) \/ AgentRefuses(c) \/ AgentUpgrades(c)
       \/ \E side \in {"page", "agent"} : SocketGone(side, c) \/ CloseEvent(side, c)

AppHostSpec == AppHostInit /\ [][AppHostNext]_appHostVars
-----------------------------------------------------------------------------
Quiet(c) == <<"page", c>> \notin news /\ <<"agent", c>> \notin news

\* Of two sockets that were tied together neither outlives the other: once a link has nothing more
\* to tell, both its ends are closed if one is.  close() knows every socket to the agent that is
\* open.  The exception has a name: a page that told its end before the agent had answered is
\* heard by nobody (host/app-host.mjs:76-79 come later), so that the agent's socket is tied to a
\* dead one and stays until the agent itself ends it, over the end of the application too.
LinksEndTogether ==
  /\ \A c \in tied : Quiet(c) =>
       /\ agentEnd[c] = "closed" => pageEnd[c] = "closed"
       /\ pageEnd[c] = "closed" /\ c \notin early => agentEnd[c] = "closed"
  /\ \A c \in Link : agentEnd[c] = "open" =>
       c \in upstream /\ (hostOpen \/ c \in early \/ <<"page", c>> \in news)
=============================================================================
