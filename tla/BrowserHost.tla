----------------------------- MODULE BrowserHost -----------------------------
(***************************************************************************)
(* A browser that hosts: the page of host/browser-studio.mjs, the publisher*)
(* of host/browser-publisher.mjs (display and microphone capture, a peer   *)
(* connection) and createBrowserHostRuntime of                             *)
(* host/browser-host-runtime.mjs (signaling, one session).                 *)
(*                                                                         *)
(* The page's buttons may be pressed while a permission prompt, connect()  *)
(* or acceptOffer() is pending.  The page keeps one publisher and one      *)
(* runtime; those it has replaced live on until what they wait for settles.*)
(* Device choice, quality requests, input and candidates are not modelled. *)
(***************************************************************************)
EXTENDS Naturals

CONSTANTS MaxPublishers, \* bound: presses of `capture'
          MaxRuntimes,   \* bound: presses of `start'
          MaxOffers      \* bound: offers pending at a runtime

ASSUME BrowserHostAssumption == MaxPublishers \in Nat /\ MaxRuntimes \in Nat /\ MaxOffers \in Nat

None == 0
Publisher == 1..MaxPublishers
Runtime == 1..MaxRuntimes

VARIABLES
  publisher, \* the page's publisher, or None
  pubs,      \* every publisher made
  runtime,   \* the page's runtime, or None
  runs,      \* every runtime made
  startable, \* the start button is enabled
  stoppable  \* the stop button is enabled

buttons == <<startable, stoppable>>
vars == <<publisher, pubs, runtime, runs, buttons>>

\* at: what capture() awaits; mic: a microphone track may be live without being in the
\* stream; gated: the tracks of the stream are disabled; cut: closed during capture().
NoPublisher == [at |-> "none", stream |-> FALSE, display |-> FALSE, mic |-> "off",
                peer |-> "open", paused |-> FALSE, gated |-> FALSE, cut |-> FALSE]

\* offers: acceptOffer() calls pending; bound: the handlers are registered;
\* replaced: the page has put another runtime in its place.
NoRuntime == [state |-> "none", of |-> None, socket |-> "none", active |-> FALSE,
              offers |-> 0, bound |-> FALSE, replaced |-> FALSE]

HostInit ==
  /\ publisher = None /\ pubs = [p \in Publisher |-> NoPublisher]
  /\ runtime = None /\ runs = [r \in Runtime |-> NoRuntime]
  /\ startable = FALSE /\ stoppable = FALSE
-----------------------------------------------------------------------------
\* The publisher.

Pending(p) == pubs[p].at \in {"display", "mic"}

\* Mutant: close() does not stop the microphone that was added to the stream.
Closed_DisplayOnly(q) ==
  [q EXCEPT !.stream = FALSE, !.display = @ /\ ~q.stream, !.paused = FALSE,
            !.peer = "closed", !.cut = @ \/ q.at \in {"display", "mic"}]

\* close(): the tracks of the stream are stopped, whatever capture() still awaits.
Closed(q) ==
  [q EXCEPT !.stream = FALSE, !.display = @ /\ ~q.stream,
            !.mic = IF q.stream /\ @ = "joined" THEN "off" ELSE @,
            !.paused = FALSE, !.peer = "closed", !.cut = @ \/ q.at \in {"display", "mic"}]

\* publisher?.close() in a set of publishers ps.
CloseOf(p, ps) == IF p = None THEN ps ELSE [ps EXCEPT ![p] = Closed(@)]

\* The catch of the capture button closes the page's publisher, whichever has failed.
CaptureRejected(ps) ==
  /\ pubs' = CloseOf(publisher, ps) /\ publisher' = None
  /\ UNCHANGED <<runtime, runs, buttons>>

\* Mutant: a track that is captured while the session is paused is left enabled.
TracksAdded_Enabled(p, q) ==
  IF q.peer = "closed"
  THEN CaptureRejected([pubs EXCEPT ![p] = [q EXCEPT !.at = "done"]])
  ELSE /\ pubs' = [pubs EXCEPT ![p] = [q EXCEPT !.at = "done", !.gated = FALSE]]
       /\ startable' = TRUE /\ stoppable' = TRUE
       /\ UNCHANGED <<publisher, runtime, runs>>

\* The end of capture(): tracks take over the pause; addTrack() throws in a closed peer.
TracksAdded(p, q) ==
  IF q.peer = "closed"
  THEN CaptureRejected([pubs EXCEPT ![p] = [q EXCEPT !.at = "done"]])
  ELSE /\ pubs' = [pubs EXCEPT ![p] = [q EXCEPT !.at = "done", !.gated = q.paused]]
       /\ startable' = TRUE /\ stoppable' = TRUE
       /\ UNCHANGED <<publisher, runtime, runs>>

\* The user grants the display; `stream' is set even if the publisher was closed.
DisplayGranted(p, microphone) ==
  /\ pubs[p].at = "display"
  /\ LET q == [pubs[p] EXCEPT !.stream = TRUE, !.display = TRUE]
     IN IF microphone
        THEN /\ pubs' = [pubs EXCEPT ![p] = [q EXCEPT !.at = "mic"]]
             /\ UNCHANGED <<publisher, runtime, runs, buttons>>
        ELSE TracksAdded(p, q)

DisplayDenied(p) ==
  /\ pubs[p].at = "display"
  /\ CaptureRejected([pubs EXCEPT ![p].at = "done"])

\* A microphone that is granted when close() has taken the stream away is not stopped:
\* `stream.addTrack' throws, and so does the catch.
MicrophoneGranted(p) ==
  /\ pubs[p].at = "mic"
  /\ IF pubs[p].stream
     THEN TracksAdded(p, [pubs[p] EXCEPT !.mic = "joined"])
     ELSE CaptureRejected([pubs EXCEPT ![p].mic = "stray", ![p].at = "done"])

MicrophoneDenied(p) ==
  /\ pubs[p].at = "mic"
  /\ CaptureRejected([pubs EXCEPT ![p].display = @ /\ ~pubs[p].stream,
                                  ![p].stream = FALSE, ![p].at = "done"])

\* setPaused()
Paused(q, value) ==
  IF q.paused = value THEN q
  ELSE [q EXCEPT !.paused = value, !.gated = IF q.stream THEN value ELSE @]

\* The user ends the sharing: the publisher passes the event on, and nobody listens.
SharingEnds(p) ==
  /\ pubs[p].display /\ pubs' = [pubs EXCEPT ![p].display = FALSE]
  /\ UNCHANGED <<publisher, runtime, runs, buttons>>
-----------------------------------------------------------------------------
\* The runtime.

\* Mutant: close() forgets the signaling connection.
Ended_KeepsSocket(q) == [q EXCEPT !.state = "closed", !.bound = FALSE]

\* close(); closing a socket that connects makes its connect() fail.
Ended(q) ==
  [q EXCEPT !.state = "closed", !.bound = FALSE,
            !.socket = IF @ = "connecting" THEN "closing" ELSE "closed"]

\* runtime?.close() with the runtimes rs; nothing happens in one whose state is "closed".
CloseRuntime(r, rs) ==
  IF r = None \/ rs[r].state = "closed" THEN runs' = rs /\ UNCHANGED pubs
  ELSE /\ runs' = [rs EXCEPT ![r] = Ended(@)]
       /\ pubs' = CloseOf(rs[r].of, pubs)

\* connect() resolves, and the start button is disabled.
SocketOpens(r) ==
  /\ runs[r].socket = "connecting"
  /\ runs' = [runs EXCEPT ![r].socket = "open", ![r].state = "listening"]
  /\ startable' = FALSE
  /\ UNCHANGED <<publisher, pubs, runtime, stoppable>>

\* connect() is rejected: the catch of the start button closes the page's runtime.
SocketFails(r) ==
  /\ runs[r].socket \in {"connecting", "closing"}
  /\ CloseRuntime(runtime, [runs EXCEPT ![r].socket = "closed"])
  /\ runtime' = None
  /\ UNCHANGED <<publisher, buttons>>

\* The connection is lost, or the server refuses the role: only the state says so.
SocketCloses(r) ==
  /\ runs[r].socket = "open"
  /\ runs' = [runs EXCEPT ![r].socket = "closed", ![r].state = "closed"]
  /\ UNCHANGED <<publisher, pubs, runtime, buttons>>

Hears(r) == runs[r].socket = "open" /\ runs[r].bound
Stream(r) == pubs[runs[r].of].stream

\* An offer, as long as none has been answered; another one may be pending.
Offer(r) ==
  /\ Hears(r) /\ ~runs[r].active
  /\ IF Stream(r) THEN runs[r].offers < MaxOffers /\ runs' = [runs EXCEPT ![r].offers = @ + 1]
                  ELSE runs' = [runs EXCEPT ![r].state = "error"]
  /\ UNCHANGED <<publisher, pubs, runtime, buttons>>

\* acceptOffer() resolves; the answer cannot be sent when the socket has closed.
Accepted(r) ==
  /\ runs[r].offers > 0 /\ pubs[runs[r].of].peer = "open"
  /\ runs' = [runs EXCEPT ![r].offers = @ - 1, ![r].active = TRUE,
                          ![r].state = IF runs[r].socket = "open" THEN "connected" ELSE "error"]
  /\ UNCHANGED <<publisher, pubs, runtime, buttons>>

\* acceptOffer() is rejected, in a closed runtime as well.
OfferFails(r) ==
  /\ runs[r].offers > 0
  /\ runs' = [runs EXCEPT ![r].offers = @ - 1, ![r].state = "error"]
  /\ UNCHANGED <<publisher, pubs, runtime, buttons>>

\* session.control of the active session.
Control(r, pause) ==
  /\ Hears(r) /\ runs[r].active
  /\ pubs' = [pubs EXCEPT ![runs[r].of] = Paused(@, pause)]
  /\ UNCHANGED <<publisher, runtime, runs, buttons>>

\* session.close of the active session.
SessionClose(r) ==
  /\ Hears(r) /\ runs[r].active
  /\ CloseRuntime(r, runs)
  /\ UNCHANGED <<publisher, runtime, buttons>>
-----------------------------------------------------------------------------
\* The page.

NextPublisher(p) == pubs[p].at = "none" /\ \A q \in 1..(p - 1) : pubs[q].at # "none"
NextRuntime(r) == runs[r].state = "none" /\ \A q \in 1..(r - 1) : runs[q].state # "none"

ClickCapture(p) ==
  /\ NextPublisher(p)
  /\ pubs' = [CloseOf(publisher, pubs) EXCEPT ![p].at = "display"]
  /\ publisher' = p
  /\ UNCHANGED <<runtime, runs, buttons>>

\* A runtime that is still there is forgotten without being closed.
Replaced == IF runtime = None THEN runs ELSE [runs EXCEPT ![runtime].replaced = TRUE]

ClickStart(r) ==
  /\ startable /\ NextRuntime(r)
  /\ IF publisher # None /\ pubs[publisher].stream
     THEN /\ runs' = [Replaced EXCEPT ![r].state = "idle", ![r].of = publisher,
                                      ![r].socket = "connecting", ![r].bound = TRUE]
          /\ runtime' = r
          /\ UNCHANGED pubs
     ELSE CloseRuntime(runtime, runs) /\ runtime' = None
  /\ UNCHANGED <<publisher, buttons>>

\* stop(): the runtime, then the publisher.
ClickStop ==
  /\ stoppable
  /\ LET live == runtime # None /\ runs[runtime].state # "closed"
         ps == IF live THEN CloseOf(runs[runtime].of, pubs) ELSE pubs
     IN /\ runs' = IF live THEN [runs EXCEPT ![runtime] = Ended(@)] ELSE runs
        /\ pubs' = CloseOf(publisher, ps)
  /\ runtime' = None /\ publisher' = None
  /\ startable' = FALSE /\ stoppable' = FALSE

BrowserNext ==
  \/ ClickStop
  \/ \E p \in Publisher :
       \/ ClickCapture(p) \/ DisplayDenied(p) \/ MicrophoneGranted(p) \/ MicrophoneDenied(p)
       \/ SharingEnds(p) \/ \E microphone \in BOOLEAN : DisplayGranted(p, microphone)
  \/ \E r \in Runtime :
       \/ ClickStart(r) \/ SocketOpens(r) \/ SocketFails(r) \/ SocketCloses(r)
       \/ Offer(r) \/ Accepted(r) \/ OfferFails(r) \/ SessionClose(r)
       \/ \E pause \in BOOLEAN : Control(r, pause)

BrowserSpec == HostInit /\ [][BrowserNext]_vars
-----------------------------------------------------------------------------
\* The type invariant; a runtime says `connected' only while its socket is open.
BrowserTypeOK ==
  /\ publisher \in Publisher \cup {None} /\ runtime \in Runtime \cup {None}
  /\ \A p \in Publisher : /\ pubs[p].at \in {"none", "display", "mic", "done"}
                          /\ pubs[p].mic \in {"off", "joined", "stray"}
                          /\ pubs[p].peer \in {"open", "closed"}
  /\ \A r \in Runtime : /\ runs[r].state \in {"none", "idle", "listening", "connected", "error", "closed"}
                        /\ runs[r].socket \in {"none", "connecting", "open", "closing", "closed"}
                        /\ runs[r].offers \in 0..MaxOffers
                        /\ runs[r].state = "connected" => runs[r].socket = "open" /\ runs[r].active

\* docs/development.md: the microphone is "stopped with the display tracks".  A publisher
\* the page no longer has captures nothing, whatever was pressed in which order - unless
\* it was closed while its capture was pending (see the hazards).
StoppedCapturesNothing ==
  \A p \in Publisher : p # publisher /\ ~Pending(p) /\ ~pubs[p].cut =>
    ~pubs[p].display /\ pubs[p].mic = "off"

\* docs/development.md: pause applies "to every captured track".  While the session is
\* paused every track of the stream is disabled, one that is added during the pause too,
\* and none is when it goes on.
GateFollowsPause ==
  \A p \in Publisher : pubs[p].stream /\ pubs[p].at = "done" => pubs[p].gated = pubs[p].paused

\* The page gives up the host's role in the session with its runtime: a connection that
\* is not the one of the page's runtime was replaced by a second `start' (see the hazards).
StopFreesRole ==
  \A r \in Runtime : r # runtime /\ runs[r].socket \in {"connecting", "open"} => runs[r].replaced

\* What is captured is what the user shares at this instant.
CaptureObeys == StoppedCapturesNothing /\ GateFollowsPause
=============================================================================
