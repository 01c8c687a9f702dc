----------------------------- MODULE PeerExchange -----------------------------
(***************************************************************************)
(* How the player's peer connection and the host's find each other: the    *)
(* offer, the answer and the ICE candidates of both sides, through         *)
(* signaling.  The player is createSessionRuntime (session/runtime.mjs)    *)
(* with createWebRtcTransport and, where it is chosen,                     *)
(* createWebTransportSignalTransport (transport/transport.mjs); the host   *)
(* is the Werift runtime with its session (host/werift-runtime.mjs,        *)
(* host/werift-adapter.mjs) or a browser (host/browser-host-runtime.mjs,   *)
(* host/browser-publisher.mjs).                                            *)
(*                                                                         *)
(* A WebSocket keeps the order of its messages; datagrams are lost or come *)
(* in any order.  Candidates and other messages carry the number of the    *)
(* player's or the host's candidates, from 1.                              *)
(***************************************************************************)
EXTENDS Naturals, Sequences, SequencesExt, FiniteSetsExt

CONSTANTS MaxCandidates, \* bound: candidates of each side
          MaxPending     \* MAX_PENDING_ICE_CANDIDATES

ASSUME ExchangeAssumption == MaxCandidates \in Nat /\ MaxPending \in Nat \ {0}

VARIABLES
  kind,      \* the host: "native" or "browser"
  carrier,   \* "socket" or "datagrams"
  link,      \* state of the player's signaling transport
  playerPeer,    \* what the player's runtime awaits or has
  ready,     \* remoteDescriptionReady
  pending,   \* pendingIceCandidates
  draining,  \* the candidate drainIceCandidates() waits for, or None
  given,   \* the candidates given to the player's peer, in order
  found,     \* the player's candidates so far
  channel,   \* "none", "open" or "closed": the data channel
  toHost, toPlayer,
  hostPeer,      \* what the host's runtime awaits or has
  hostFound, \* the host's candidates so far
  taken,     \* candidates the host's peer has
  excused    \* candidates of either side that nobody promises to deliver
playerVars == <<link, playerPeer, ready, pending, draining, given, found, channel>>
peerHostVars == <<hostPeer, hostFound, taken>>
exchangeVars == <<kind, carrier, playerVars, toHost, toPlayer, peerHostVars, excused>>

None == 0
Signal(type, number) == [type |-> type, number |-> number]
FromPlayer(n) == <<"player", n>>
FromHost(n) == <<"host", n>>

ExchangeInit ==
  /\ kind \in {"native", "browser"} /\ carrier \in {"socket", "datagrams"}
  /\ link = "idle" /\ playerPeer = "idle" /\ ready = FALSE /\ pending = <<>> /\ draining = None
  /\ given = <<>> /\ found = 0 /\ channel = "none" /\ toHost = <<>> /\ toPlayer = <<>>
  /\ hostPeer = "listening" /\ hostFound = 0 /\ taken = {} /\ excused = {}
-----------------------------------------------------------------------------
\* The player's way to signaling.

\* start(): the handlers are bound, connect() is pending.
StartExchange ==
  /\ playerPeer = "idle" /\ playerPeer' = "connecting" /\ link' = "connecting"
  /\ UNCHANGED <<kind, carrier, ready, pending, draining, given, found, channel, toHost,
                 toPlayer, peerHostVars, excused>>

\* The connection is ready and the join written, or not; a transport closed meanwhile is `open'
\* or in `error' all the same, and its runtime goes on to createOffer().
LinkSettles(opens) ==
  /\ link = "connecting" \/ link = "closed early"
  /\ link' = IF opens THEN (IF link = "connecting" THEN "open" ELSE "open late") ELSE "error"
  /\ playerPeer' = IF playerPeer # "connecting" THEN playerPeer
                   ELSE IF opens THEN "offering" ELSE "failed"
  /\ UNCHANGED <<kind, carrier, ready, pending, draining, given, found, channel, toHost,
                 toPlayer, peerHostVars, excused>>

\* readLoop() of a connection that is closed, or that ends.
LinkEnds ==
  /\ link \in {"open", "open late"}
  /\ link' = IF link = "open" THEN "closed" ELSE "error"
  /\ toHost' = <<>> /\ toPlayer' = <<>>
  /\ excused' = excused \cup {FromPlayer(n) : n \in 1..MaxCandidates}
                        \cup {FromHost(n) : n \in 1..MaxCandidates}
  /\ UNCHANGED <<kind, carrier, playerPeer, ready, pending, draining, given, found, channel,
                 peerHostVars>>

\* send(): the data channel when it is open, which no host reads; else signaling, which throws
\* when it is not open.
Sent(message) ==
  IF channel = "open" THEN UNCHANGED toHost /\ excused' = excused \cup {FromPlayer(message.number)}
  ELSE IF link = "open" THEN toHost' = Append(toHost, message) /\ UNCHANGED excused
  ELSE UNCHANGED toHost /\ excused' = excused \cup {FromPlayer(message.number)}

\* createOffer() and setLocalDescription() have settled: the offer is sent.
OfferMade ==
  /\ playerPeer = "offering"
  /\ Sent(Signal("offer", None))
  /\ playerPeer' = IF link = "open" THEN "offered" ELSE "failed"
  /\ UNCHANGED <<kind, carrier, link, ready, pending, draining, given, found, channel,
                 toPlayer, peerHostVars>>

\* A candidate of the player's peer is sent as soon as it is found.
CandidateFound ==
  /\ playerPeer \in {"offered", "answering", "described"} /\ found < MaxCandidates
  /\ found' = found + 1
  /\ Sent(Signal("candidate", found'))
  /\ UNCHANGED <<kind, carrier, link, playerPeer, ready, pending, draining, given, channel,
                 toPlayer, peerHostVars>>
-----------------------------------------------------------------------------
\* The player receives.

\* The next message, or any datagram.
Arrives(wire, i) == i \in DOMAIN wire /\ (carrier = "datagrams" \/ i = 1)

CandidateReceived(n) ==
  /\ IF ready THEN given' = Append(given, n) /\ UNCHANGED <<pending, excused>>
     ELSE IF Len(pending) < MaxPending THEN pending' = Append(pending, n) /\ UNCHANGED <<given, excused>>
     ELSE excused' = excused \cup {FromHost(n)} /\ UNCHANGED <<pending, given>>
  /\ UNCHANGED <<playerPeer, ready>>

\* Mutant: the remote description counts as set when the answer comes.
AnswerReceived_Early ==
  /\ playerPeer' = IF playerPeer = "offered" THEN "answering" ELSE playerPeer
  /\ ready' = (ready \/ playerPeer = "offered")
  /\ UNCHANGED <<pending, given, excused>>

\* acceptAnswer() is begun.
AnswerReceived ==
  /\ playerPeer' = IF playerPeer = "offered" THEN "answering" ELSE playerPeer
  /\ UNCHANGED <<ready, pending, given, excused>>

PlayerReceives ==
  /\ link = "open" /\ playerPeer # "closed"
  /\ \E i \in DOMAIN toPlayer :
       /\ Arrives(toPlayer, i) /\ toPlayer' = RemoveAt(toPlayer, i)
       /\ CASE toPlayer[i].type = "candidate" -> CandidateReceived(toPlayer[i].number)
            [] toPlayer[i].type = "answer" -> AnswerReceived
            [] toPlayer[i].type = "refusal" -> UNCHANGED <<playerPeer, ready, pending, given, excused>>
  /\ UNCHANGED <<kind, carrier, link, draining, found, channel, toHost, peerHostVars>>

\* Mutant: what was queued is cleared when the description is set.
AnswerApplied_Clears ==
  /\ playerPeer = "answering" /\ playerPeer' = "described" /\ ready' = TRUE
  /\ pending' = <<>>
  /\ UNCHANGED <<kind, carrier, link, draining, given, found, channel, toHost, toPlayer,
                 peerHostVars, excused>>

\* The remote description is set.
AnswerApplied ==
  /\ playerPeer = "answering" /\ playerPeer' = "described" /\ ready' = TRUE
  /\ UNCHANGED <<kind, carrier, link, pending, draining, given, found, channel, toHost,
                 toPlayer, peerHostVars, excused>>

\* It is refused: manager.fail().
AnswerRefused ==
  /\ playerPeer = "answering" /\ playerPeer' = "failed" /\ pending' = <<>>
  /\ excused' = excused \cup {FromHost(n) : n \in ToSet(pending)}
  /\ UNCHANGED <<kind, carrier, link, ready, draining, given, found, channel, toHost,
                 toPlayer, peerHostVars>>

\* drainIceCandidates(): one after the other; those that come meanwhile do not wait.
Drain ==
  /\ ready /\ playerPeer = "described" /\ draining = None /\ pending # <<>>
  /\ draining' = Head(pending) /\ pending' = Tail(pending)
  /\ given' = Append(given, Head(pending))
  /\ UNCHANGED <<kind, carrier, link, playerPeer, ready, found, channel, toHost, toPlayer,
                 peerHostVars, excused>>

Drained ==
  /\ draining # None /\ draining' = None
  /\ UNCHANGED <<kind, carrier, link, playerPeer, ready, pending, given, found, channel, toHost,
                 toPlayer, peerHostVars, excused>>

\* The connection the player asked for in its offer is up, or has gone.
ChannelChanges ==
  /\ \/ channel = "none" /\ playerPeer = "described" /\ hostPeer = "connected" /\ channel' = "open"
     \/ channel = "open" /\ channel' = "closed"
  /\ UNCHANGED <<kind, carrier, link, playerPeer, ready, pending, draining, given, found, toHost,
                 toPlayer, peerHostVars, excused>>

\* close(): what is queued goes, and session.close takes the open way.
CloseExchange ==
  /\ playerPeer \notin {"idle", "closed"} /\ playerPeer' = "closed" /\ pending' = <<>>
  /\ channel' = IF channel = "open" THEN "closed" ELSE channel
  /\ link' = CASE link = "connecting" -> "closed early" [] link = "open" -> "closed"
               [] OTHER -> link
  /\ toHost' = IF channel # "open" /\ link = "open" THEN Append(toHost, Signal("close", None))
               ELSE toHost
  /\ UNCHANGED <<kind, carrier, ready, draining, given, found, toPlayer, peerHostVars, excused>>
-----------------------------------------------------------------------------
\* The host.

\* Its messages come to a player whose transport is open.
HostSent(message) == toPlayer' = Append(toPlayer, message)

Described == IF kind = "native" THEN {"answering", "connected"} ELSE {"connected"}

\* activeSessionId is set: at the offer, or when a browser has its answer.
Listens == IF kind = "native" THEN Described \cup {"preparing", "describing"} ELSE Described

\* Mutant: the Werift session is looked for only when the runtime is connected.
HostHears_Connected(n) ==
  /\ IF hostPeer = "connected" THEN taken' = taken \cup {n} ELSE UNCHANGED taken
  /\ excused' = IF hostPeer \in Described THEN excused ELSE excused \cup {FromPlayer(n)}
  /\ UNCHANGED hostPeer

\* A browser hears no candidate before its answer is sent.  The Werift peer has no use for one
\* before it has the offer, and may throw.
HostHears(n) ==
  \/ /\ IF hostPeer \in Described
        THEN taken' = taken \cup {n} /\ UNCHANGED excused
        ELSE excused' = excused \cup {FromPlayer(n)} /\ UNCHANGED taken
     /\ UNCHANGED hostPeer
  \/ /\ kind = "native" /\ hostPeer = "describing"
     /\ taken' = taken \cup {n} /\ UNCHANGED <<hostPeer, excused>>
  \/ /\ kind = "native" /\ hostPeer \in {"preparing", "describing"} /\ hostPeer' = "error"
     /\ excused' = excused \cup {FromPlayer(n)} /\ UNCHANGED taken

\* session.offer: negotiateHostOffer() may find nothing in common; a native host starts the
\* game and its encoders before it looks at the description.
OfferReceived ==
  /\ UNCHANGED <<taken, excused>>
  /\ \/ hostPeer' = (IF kind = "native" THEN "preparing" ELSE "describing") /\ UNCHANGED toPlayer
     \/ UNCHANGED hostPeer /\ HostSent(Signal("refusal", None))

HostReceives ==
  /\ hostPeer # "closed"
  /\ \E i \in DOMAIN toHost :
       /\ Arrives(toHost, i) /\ toHost' = RemoveAt(toHost, i)
       /\ CASE toHost[i].type = "offer" ->
                 IF hostPeer = "listening" THEN OfferReceived
                 ELSE UNCHANGED <<hostPeer, taken, excused, toPlayer>>
            [] toHost[i].type = "candidate" -> HostHears(toHost[i].number) /\ UNCHANGED toPlayer
            [] toHost[i].type = "close" ->
                 /\ hostPeer' = IF hostPeer \in Listens THEN "closed" ELSE hostPeer
                 /\ UNCHANGED <<taken, excused, toPlayer>>
  /\ UNCHANGED <<kind, carrier, playerVars, hostFound>>

\* An await of acceptOffer() settles, or throws.
HostProceeds ==
  /\ \/ hostPeer = "preparing" /\ hostPeer' = "describing" /\ UNCHANGED toPlayer
     \/ hostPeer = "describing" /\ hostPeer' = "answering" /\ UNCHANGED toPlayer
     \/ hostPeer = "answering" /\ hostPeer' = "connected" /\ HostSent(Signal("answer", None))
     \/ hostPeer \in {"preparing", "describing", "answering"} /\ hostPeer' = "error" /\ UNCHANGED toPlayer
  /\ UNCHANGED <<kind, carrier, playerVars, toHost, hostFound, taken, excused>>

\* Werift gathers while it sets its description, before the answer; a browser afterwards.
HostCandidate ==
  /\ hostPeer \in Described /\ hostFound < MaxCandidates
  /\ hostFound' = hostFound + 1
  /\ HostSent(Signal("candidate", hostFound'))
  /\ UNCHANGED <<kind, carrier, playerVars, toHost, hostPeer, taken, excused>>

\* A datagram is lost.
DatagramLost ==
  /\ carrier = "datagrams"
  /\ \/ \E i \in DOMAIN toHost : /\ toHost' = RemoveAt(toHost, i)
                                 /\ excused' = excused \cup {FromPlayer(toHost[i].number)}
                                 /\ UNCHANGED toPlayer
     \/ \E i \in DOMAIN toPlayer : /\ toPlayer' = RemoveAt(toPlayer, i)
                                   /\ excused' = excused \cup {FromHost(toPlayer[i].number)}
                                   /\ UNCHANGED toHost
  /\ UNCHANGED <<kind, carrier, playerVars, peerHostVars>>

ExchangeNext ==
  \/ StartExchange \/ OfferMade \/ CandidateFound \/ PlayerReceives
  \/ AnswerApplied \/ AnswerRefused \/ Drain \/ Drained \/ ChannelChanges \/ CloseExchange
  \/ \E opens \in BOOLEAN : LinkSettles(opens)
  \/ LinkEnds \/ HostReceives \/ HostProceeds \/ HostCandidate \/ DatagramLost

ExchangeSpec == ExchangeInit /\ [][ExchangeNext]_exchangeVars
-----------------------------------------------------------------------------
\* The peers learn each other's candidates.  The player's is given none before its remote
\* description and none twice, whatever comes before the answer or while the queue is drained;
\* when nothing is under way it has all of the host's but those over the limit of the queue or
\* lost with a datagram or the connection; the host's has all of the player's but those it
\* received before it had taken the offer, and those that went into the data channel.
CandidatesArrive ==
  /\ given # <<>> => playerPeer \in {"described", "closed"}
  /\ IsInjective(given)
  /\ playerPeer = "described" /\ hostPeer = "connected" /\ toPlayer = <<>> /\ pending = <<>> =>
       \A n \in 1..hostFound : n \in ToSet(given) \/ FromHost(n) \in excused
  /\ playerPeer = "described" /\ toHost = <<>> =>
       \A n \in 1..found : n \in taken \/ FromPlayer(n) \in excused
=============================================================================
