--------------------------- MODULE SessionRuntime ---------------------------
(***************************************************************************)
(* createSessionRuntime of src/frontend/session/runtime.mjs, composed of   *)
(* the SessionManager, the ReconnectController and the WebSocket transport *)
(* of transport/transport.mjs, as player.mjs uses it: one start(), and a   *)
(* button that asks for a reconnection or cancels one.                     *)
(*                                                                         *)
(* The transport may hold several sockets: connect() makes another one     *)
(* whenever its state is not "open", and the handlers of all of them share *)
(* the variables state, socket and connectReject.  What the event loop     *)
(* runs before anything else can happen (the continuation of an await, the *)
(* close event that follows an error event) is in the queue `due'.         *)
(* Media, ICE candidates and telemetry are not modelled, except that the   *)
(* media may refuse an answer after the manager has accepted it.  Hosts    *)
(* send answers, one for each request.  The recovery policy of the manager *)
(* and the one of the controller are separate in the code, too.            *)
(***************************************************************************)
EXTENDS ReconnectController, SessionManager

MaxSockets == 1 + MaxCycles * MaxAttempts \* no more are ever made

Socket == 1 .. MaxSockets

\* A call that awaits something: an attempt of the controller, or start().
StartCall == [cycle |-> 0, attempt |-> 0]
Call == [cycle : 0 .. MaxCycles, attempt : 0 .. MaxAttempts]

VARIABLES
  runtime, \* "new", "live", "closed" by the player, "dropped": start() failed
  join,    \* the connection is authenticated: a join frame is sent on open
  wire,    \* state of the transport
  socket,  \* number of sockets made; the last one is the transport's `socket'
  ready,   \* readyState of each socket
  waiter,  \* per socket: the call that awaits its connect(), or {}
  rejects, \* the socket whose promise connectReject rejects, or 0
  due,     \* what runs next, in this order
  wired    \* number of requests that went out on an open socket

transportVars == <<wire, socket, ready, waiter, rejects>>
runtimeVars == <<runtime, join, due, wired>>
vars == <<managerVars, reconnectVars, transportVars, runtimeVars>>

Init ==
  /\ SessionInit
  /\ ReconnectInit
  /\ runtime = "new"
  /\ join \in BOOLEAN
  /\ wire = "idle"
  /\ socket = 0
  /\ ready = [k \in Socket |-> "none"]
  /\ waiter = [k \in Socket |-> {}]
  /\ rejects = 0
  /\ due = <<>>
  /\ wired = 0
-----------------------------------------------------------------------------
\* The transport.

\* connect() for call c, in any state but "open".
Connect(c) ==
  /\ socket' = socket + 1
  /\ ready' = [ready EXCEPT ![socket'] = "connecting"]
  /\ waiter' = [waiter EXCEPT ![socket'] = {c}]
  /\ rejects' = socket'
  /\ wire' = "connecting"

\* send() in an "open" transport throws when `socket' is still connecting, and
\* is lost when it is no longer open.
SendThrows == ready[socket] = "connecting"
Sent == IF ready[socket] = "open" THEN wired + 1 ELSE wired

\* transport.close()
Disconnect ==
  /\ ready' = [k \in Socket |->
                 IF k = socket /\ ready[k] \in {"connecting", "open"}
                 THEN "closing" ELSE ready[k]]
  /\ wire' = "closed"
  /\ UNCHANGED <<socket, waiter, rejects>>

Resume(c) == [what |-> "resume", call |-> c]
Reject(c) == [what |-> "reject", call |-> c]
CloseEvent == [what |-> "close", call |-> StartCall]

\* Mutant: fail() does not look whether a reconnection is active.
FailureHeard_Unguarded ==
  IF runtime = "live"
  THEN FailAfter(used) /\ UNCHANGED <<calls, cycle, made, open>>
  ELSE UNCHANGED reconnectVars

\* Mutant: the runtime does not tell the controller.
FailureHeard_Deaf == UNCHANGED reconnectVars

\* The controller hears of a failure of the transport, if the runtime listens.
FailureHeard ==
  IF runtime = "live" /\ status = "waiting"
  THEN FailAfter(used) /\ UNCHANGED <<calls, cycle, made, open>>
  ELSE UNCHANGED reconnectVars

\* onopen.  The join frame goes to `socket', which may be another one that is
\* still connecting: then the handler throws, and nothing else happens.
SocketOpens(k) ==
  /\ due = <<>> /\ ready[k] = "connecting"
  /\ ready' = [ready EXCEPT ![k] = "open"]
  /\ IF join /\ k # socket /\ ready[socket] = "connecting"
     THEN UNCHANGED <<wire, waiter, rejects, due>>
     ELSE /\ wire' = "open"
          /\ rejects' = 0
          /\ waiter' = [waiter EXCEPT ![k] = {}]
          /\ \/ waiter[k] = {} /\ UNCHANGED due
             \/ \E c \in waiter[k] : due' = <<Resume(c)>>
  /\ UNCHANGED <<socket, managerVars, reconnectVars, runtime, join, wired>>

\* onerror, of a socket that cannot connect or is lost.  connectReject belongs
\* to the last connect(), whichever socket fails.  onclose follows.
SocketFails(k) ==
  /\ due = <<>> /\ ready[k] \in {"connecting", "open", "closing"}
  /\ ready' = [ready EXCEPT ![k] = "closed"]
  /\ wire' = "error"
  /\ FailureHeard
  /\ rejects' = 0
  /\ IF rejects = 0 \/ waiter[rejects] = {}
     THEN due' = <<CloseEvent>> /\ UNCHANGED waiter
     ELSE /\ \E c \in waiter[rejects] : due' = <<Reject(c), CloseEvent>>
          /\ waiter' = [waiter EXCEPT ![rejects] = {}]
  /\ UNCHANGED <<socket, managerVars, runtime, join, wired>>

\* onclose, without an error before it.
SocketCloses(k) ==
  /\ due = <<>> /\ ready[k] \in {"open", "closing"}
  /\ ready' = [ready EXCEPT ![k] = "closed"]
  /\ wire' = "closed"
  /\ FailureHeard
  /\ UNCHANGED <<socket, waiter, rejects, managerVars, runtimeVars>>

\* onclose, after onerror.
CloseHeard ==
  /\ due # <<>> /\ Head(due).what = "close"
  /\ due' = Tail(due)
  /\ wire' = "closed"
  /\ FailureHeard
  /\ UNCHANGED <<socket, ready, waiter, rejects, managerVars, runtime, join, wired>>
-----------------------------------------------------------------------------
\* The runtime.

\* start() up to its first await.
Begin ==
  /\ runtime = "new"
  /\ runtime' = "live"
  /\ StartSession
  /\ Connect(StartCall)
  /\ UNCHANGED <<reconnectVars, join, due, wired>>

\* The controller calls attempt(), which goes on at once or after connect().
Attempt(c) ==
  /\ calls' = calls \cup {c}
  /\ IF wire = "open"
     THEN due' = <<Resume(c)>> /\ UNCHANGED transportVars
     ELSE Connect(c) /\ UNCHANGED due
  /\ UNCHANGED <<managerVars, runtime, join, wired>>

\* The player's reconnect button, when no reconnection is pending.
PressReconnect ==
  /\ due = <<>> /\ runtime \in {"live", "closed"}
  /\ Start
  /\ Attempt([cycle |-> cycle + 1, attempt |-> 1])

\* The same button, when one is.
PressCancel ==
  /\ due = <<>> /\ runtime \in {"live", "closed"} /\ status = "waiting"
  /\ Cancel
  /\ UNCHANGED <<managerVars, transportVars, runtimeVars>>

RetryTimer ==
  /\ due = <<>>
  /\ TimerFires
  /\ IF status = "waiting"
     THEN Attempt([cycle |-> cycle, attempt |-> timer])
     ELSE UNCHANGED <<managerVars, transportVars, runtimeVars>>

\* start() after its connect(): send the offer.
OfferSent ==
  /\ due # <<>> /\ Head(due) = Resume(StartCall)
  /\ IF SendThrows
     THEN due' = <<Reject(StartCall)>> \o Tail(due) /\ UNCHANGED wired
     ELSE due' = Tail(due) /\ wired' = Sent
  /\ UNCHANGED <<managerVars, reconnectVars, transportVars, runtime, join>>

\* An attempt after its connect(): the manager makes the request, or throws.
RequestSent(c) ==
  /\ due # <<>> /\ Head(due) = Resume(c)
  /\ IF state \in {"connected", "reconnecting"}
     THEN RequestReconnect ELSE UNCHANGED managerVars
  /\ IF state' = "reconnecting" /\ ~SendThrows
     THEN due' = Tail(due) /\ wired' = Sent /\ Fulfilled(c)
     ELSE /\ due' = <<Reject(c)>> \o Tail(due)
          /\ UNCHANGED <<wired, reconnectVars>>
  /\ UNCHANGED <<transportVars, runtime, join>>

\* An attempt has failed.
AttemptRejected(c) ==
  /\ due # <<>> /\ Head(due) = Reject(c)
  /\ due' = Tail(due)
  /\ Rejected(c)
  /\ UNCHANGED <<managerVars, transportVars, runtime, join, wired>>

\* close()
Teardown ==
  /\ Cancel
  /\ IF state \in Open THEN CloseSession ELSE UNCHANGED managerVars
  /\ Disconnect
  /\ UNCHANGED <<join, wired>>

\* start() has failed: the player closes the runtime and forgets it.
StartFailed ==
  /\ due # <<>> /\ Head(due) = Reject(StartCall)
  /\ due' = Tail(due)
  /\ runtime' = "dropped"
  /\ Teardown

\* The player ends the session.
End ==
  /\ due = <<>> /\ runtime = "live"
  /\ runtime' = "closed"
  /\ UNCHANGED due
  /\ Teardown

\* The host answers a request it has received.  It may refuse the offer only.
HostAnswers(m) ==
  /\ m.kind = "answer" \/ (m.kind = "refusal" /\ sent = {})
  /\ Cardinality(sent) < wired
  /\ Send(m)
  /\ UNCHANGED <<reconnectVars, transportVars, runtimeVars>>

\* Mutant: an answer that connects the session leaves the controller waiting.
Message_NoSuccess(m) ==
  /\ due = <<>> /\ runtime = "live" /\ \E k \in Socket : ready[k] = "open"
  /\ Receive(m)
  /\ UNCHANGED <<reconnectVars, transportVars, runtimeVars>>

\* receive() of an answer that arrives on an open socket.  Answers may overtake
\* each other, and one that is remembered may arrive again (the data channel is a
\* second path, WebTransport sends datagrams).  When the manager does not throw,
\* because it accepts the answer or because it ignores it, a waiting controller
\* has succeeded.
MessageReceived(m) ==
  /\ due = <<>> /\ runtime = "live" /\ \E k \in Socket : ready[k] = "open"
  /\ Receive(m) \/ (m \in Seen /\ UNCHANGED managerVars)
  /\ IF status = "waiting" /\ (m \in Seen \/ Stale(m) \/ Moves(m))
     THEN Succeed ELSE UNCHANGED reconnectVars
  /\ UNCHANGED <<transportVars, runtimeVars>>

\* media.acceptAnswer() is rejected, at any time after an answer.
MediaFails ==
  /\ due = <<>> /\ applied # {}
  /\ FailSession
  /\ UNCHANGED <<reconnectVars, transportVars, runtimeVars>>

DueStep ==
  \/ CloseHeard
  \/ OfferSent
  \/ StartFailed
  \/ \E c \in calls : RequestSent(c) \/ AttemptRejected(c)

RuntimeNext ==
  \/ Begin
  \/ PressReconnect
  \/ PressCancel
  \/ RetryTimer
  \/ End
  \/ MediaFails
  \/ DueStep
  \/ \E k \in Socket : SocketOpens(k) \/ SocketFails(k) \/ SocketCloses(k)
  \/ \E m \in Message : HostAnswers(m)
  \/ \E m \in sent : MessageReceived(m)

\* The event loop goes on, timers fire, and every connection attempt of a
\* socket succeeds or fails in the end.
RuntimeFairness ==
  /\ WF_vars(DueStep)
  /\ WF_vars(RetryTimer)
  /\ \A k \in Socket : WF_vars(ready[k] = "connecting" /\ (SocketOpens(k) \/ SocketFails(k)))

RuntimeSpec == Init /\ [][RuntimeNext]_vars
FairRuntimeSpec == RuntimeSpec /\ RuntimeFairness
-----------------------------------------------------------------------------
RuntimeTypeOK ==
  /\ SessionTypeOK
  /\ ReconnectTypeOK
  /\ runtime \in {"new", "live", "closed", "dropped"}
  /\ join \in BOOLEAN
  /\ wire \in {"idle", "connecting", "open", "error", "closed"}
  /\ socket \in 0 .. MaxSockets
  /\ ready \in [Socket -> {"none", "connecting", "open", "closing", "closed"}]
  /\ waiter \in [Socket -> {{}} \cup {{c} : c \in Call}]
  /\ rejects \in 0 .. socket
  /\ \A i \in DOMAIN due :
       due[i] \in [what : {"resume", "reject", "close"}, call : Call]
  /\ wired \in Nat

\* Everything the runtime does with the controller is something the controller's
\* specification allows, so that what is proved of it holds here.
ControllerImplemented == ReconnectSpec

\* When an answer connects the session again, no further attempt is pending: the
\* controller does not go on retrying a session that has recovered.
RecoveredIsSettled ==
  [][state # "connected" /\ state' = "connected" => status' # "waiting"]_vars

\* While the runtime is live, a cycle that has sent no request does not wait
\* forever, even if sockets overlap and a connect() never settles.
RetriesEnd ==
  runtime = "live" /\ status = "waiting" /\ ~open
    ~> status # "waiting" \/ open \/ runtime # "live"

=============================================================================
