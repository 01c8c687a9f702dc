----------------------------- MODULE PlayerPage -----------------------------
(***************************************************************************)
(* The session page: the handlers of src/frontend/player/player.mjs, the   *)
(* status of player/player-state.mjs, the pause buttons and the screen wake*)
(* lock of player/wake-lock.mjs.                                           *)
(*                                                                         *)
(* The page has one session manager and the variable `runtime'; each call  *)
(* of connect() - by start() when the page is loaded, and by the connection*)
(* form, which is there until a call has succeeded - makes a runtime and   *)
(* puts it there.  Buttons, window events and the answers of the host come *)
(* while a call is under way.  SessionManager, SessionRuntime and          *)
(* ReconnectController say what a runtime does inside; here it is only     *)
(* whether it listens, the sockets that its transport has opened           *)
(* (transport/transport.mjs) and the requests it may make.  A transport    *)
(* holds one socket: connect() replaces it, whatever became of it.         *)
(* The demo mode, WebTransport, recording, input and preferences are not   *)
(* modelled.                                                               *)
(***************************************************************************)
EXTENDS Naturals, FiniteSets

CONSTANTS MaxSubmits,  \* bound: times the form is submitted
          MaxSockets,  \* bound: sockets at a time
          MaxRequests  \* bound: wake lock requests pending, and locks lost track of

ASSUME PlayerAssumption == MaxSubmits \in Nat /\ MaxSockets \in Nat /\ MaxRequests \in Nat \ {0}

Call == 0..MaxSubmits       \* 0 is the one of start()
NoCall == MaxSubmits + 1

VARIABLES
  status,        \* of the page
  manager,       \* state of the session manager
  runtime,       \* the call whose runtime the page has, or NoCall
  runs,          \* the calls of connect(), and their runtimes
  form,          \* the connection form is shown
  sessionPaused, \* by the button
  focusPaused,   \* by the window
  away,          \* the window has lost the focus, or is hidden
  hostPaused,    \* the last control the host has got
  wake,          \* the wake lock controller
  doubled,       \* TRUE once a runtime that was connected was replaced
  overtaken,     \* TRUE once Reconnect was pressed while a socket was not done with
  over,          \* the session was ended, and nothing was pressed since
  lost,          \* TRUE once a control has not reached the host
  unseen         \* the session has changed without the page being told

session == <<manager, runtime, runs, form>>
pause == <<sessionPaused, focusPaused, away, hostPaused>>
marks == <<doubled, overtaken, over, lost>>
pageVars == <<status, session, pause, wake, marks, unseen>>

\* at: of connect(); listens: to its transport, until it is closed; link: the transport's state;
\* socket: the one the transport holds; loose, stray: some that it has replaced are still to open,
\* or open; late: the end of one that was closed is still to be told; retry: its reconnect
\* controller waits for an attempt or, "timed", for a timer.
NoRun == [at |-> "none", listens |-> FALSE, link |-> "closed", socket |-> "none", loose |-> FALSE,
          stray |-> FALSE, late |-> FALSE, retry |-> "no"]

\* held: the sentinel's lock is live; strays: live locks the controller does not know.
PageInit ==
  /\ status = "negotiating" /\ manager = "idle" /\ runtime = NoCall /\ form = TRUE
  /\ runs = [c \in Call |-> IF c = 0 THEN [NoRun EXCEPT !.at = "preparing"] ELSE NoRun]
  /\ sessionPaused = FALSE /\ focusPaused = FALSE /\ away = FALSE /\ hostPaused = FALSE
  /\ \E enabled \in BOOLEAN :
       wake = [desired |-> enabled, held |-> FALSE, strays |-> 0, pending |-> 0, slipped |-> FALSE]
  /\ doubled = FALSE /\ overtaken = FALSE /\ over = FALSE /\ lost = FALSE /\ unseen = FALSE
-----------------------------------------------------------------------------
\* The wake lock.  slipped: two requests were pending at once, or stop() came during one.

AtMost(n) == IF n < MaxRequests THEN n ELSE MaxRequests

\* acquire()
Acquired(w) ==
  IF ~w.desired \/ w.held THEN w
  ELSE [w EXCEPT !.pending = AtMost(@ + 1), !.slipped = @ \/ w.pending > 0]

LockStarted(w) == Acquired([w EXCEPT !.desired = TRUE])

\* Mutant: stop() forgets the sentinel without releasing it.
LockStopped_Forgets(w) ==
  [w EXCEPT !.desired = FALSE, !.held = FALSE, !.strays = AtMost(@ + IF w.held THEN 1 ELSE 0),
            !.slipped = @ \/ w.pending > 0]

\* A request that is pending is not looked after.
LockStopped(w) ==
  [w EXCEPT !.desired = FALSE, !.held = FALSE, !.slipped = @ \/ w.pending > 0]

\* What apply() does with it when the status is s after an event, whichever event it is.
Applied(w, s) ==
  CASE s \in {"connected", "reconnecting"} -> LockStarted(w)
    [] s \in {"ended", "error"}            -> LockStopped(w)
    [] OTHER                               -> w

Apply(s) == status' = s /\ wake' = Applied(wake, s)

\* A sentinel that is replaced, by a lock or by the failure of a request, is lost track of.
LockSettles(granted) ==
  /\ wake.pending > 0
  /\ wake' = [wake EXCEPT !.pending = @ - 1, !.held = granted,
                          !.strays = AtMost(@ + IF wake.held THEN 1 ELSE 0)]
  /\ UNCHANGED <<status, session, pause, marks, unseen>>
-----------------------------------------------------------------------------
\* connect()

Busy == {"negotiating", "connected", "reconnecting"}

\* Mutant: close() leaves the transport as it is.
CloseRun_Unbinds(q) == [q EXCEPT !.listens = FALSE, !.retry = "no"]

\* runtime.close(): of the sockets the one that is held is closed.
CloseRun(q) ==
  [q EXCEPT !.listens = FALSE, !.retry = "no", !.link = "closed", !.socket = "none",
            !.late = @ \/ q.socket # "none"]

\* The page's runtime is closed, among rs, and the manager with it.
Closed(rs, c) == IF c = NoCall THEN rs ELSE [rs EXCEPT ![c] = CloseRun(@)]
ManagerClosed(m, c) == IF c # NoCall /\ m \in Busy THEN "closed" ELSE m

\* Mutant: the page forgets a runtime whose start() has failed without closing it.
Caught_Forgets(rs, m, c) ==
  /\ runs' = rs /\ manager' = ManagerClosed(m, c) /\ runtime' = NoCall
  /\ Apply("error") /\ UNCHANGED form

\* The catch around connect(): it closes the runtime the page has by then, c.
Caught(rs, m, c) ==
  /\ runs' = Closed(rs, c) /\ manager' = ManagerClosed(m, c) /\ runtime' = NoCall
  /\ Apply("error") /\ UNCHANGED form

\* A runtime that has a connection, or seeks one.
Connected(q) == q.socket # "none" \/ q.loose \/ q.stray \/ q.retry # "no"

\* connect() of the transport: a socket it has is replaced, not closed.
Dialled(q) ==
  [q EXCEPT !.link = "connecting", !.socket = "connecting",
            !.loose = @ \/ q.socket = "connecting", !.stray = @ \/ q.socket = "open"]

Sockets == ({c \in Call : runs[c].socket # "none"} \X {"held"})
           \cup ({c \in Call : runs[c].loose} \X {"loose"})
           \cup ({c \in Call : runs[c].stray} \X {"stray"})
MayDial == Cardinality(Sockets) < MaxSockets

\* connect() up to its await.  manager.start() throws while there is a session; the
\* new runtime has taken the place of the old one by then.
Connect(c) ==
  /\ doubled' = (doubled \/ (runtime # NoCall /\ Connected(runs[runtime])))
  /\ over' = FALSE
  /\ IF manager \in Busy
     THEN Caught([runs EXCEPT ![c].at = "failed"], manager, c) /\ UNCHANGED hostPaused
     ELSE /\ MayDial
          /\ manager' = "negotiating" /\ runtime' = c
          /\ LET q == [runs[c] EXCEPT !.at = "starting", !.listens = TRUE]
             IN  runs' = [runs EXCEPT ![c] = Dialled(q)]
          /\ hostPaused' = FALSE
          /\ UNCHANGED <<status, wake, form>>
  /\ UNCHANGED <<sessionPaused, focusPaused, away, overtaken, lost, unseen>>

\* start(): the page has no target and leaves it to the form, or its preparation fails.
NoTarget ==
  /\ runs[0].at = "preparing" /\ runs' = [runs EXCEPT ![0].at = "up"]
  /\ UNCHANGED <<status, manager, runtime, form, pause, wake, marks, unseen>>

PrepareFails ==
  /\ runs[0].at = "preparing"
  /\ Caught([runs EXCEPT ![0].at = "failed"], manager, runtime)
  /\ UNCHANGED <<pause, marks, unseen>>

Prepared == runs[0].at = "preparing" /\ Connect(0)
Submit(c) == form /\ c # 0 /\ runs[c].at = "none" /\ Connect(c)

\* runtime.start() resolves: the media have their offer, and it is sent.
Started(c) ==
  /\ runs[c].at = "offering" /\ runs[c].link = "open" /\ runs[c].socket # "connecting"
  /\ runs' = [runs EXCEPT ![c].at = "up"] /\ form' = FALSE
  /\ UNCHANGED <<status, manager, runtime, pause, wake, marks, unseen>>

\* Its socket fails, or the media, or what was sent.
StartFails(c) ==
  /\ runs[c].at \in {"starting", "offering"}
  /\ Caught([runs EXCEPT ![c].at = "failed"], manager, runtime)
  /\ UNCHANGED <<pause, marks, unseen>>
-----------------------------------------------------------------------------
\* What the runtimes tell the page.

\* A message of the host, on whatever socket of a runtime that listens.
Hears(c) ==
  runs[c].listens /\ runs[c].at = "up" /\ (runs[c].socket = "open" \/ runs[c].stray)

\* The host accepts; a manager that expects no answer throws, and so does a refusal.
Answer(c, accepted) ==
  /\ Hears(c)
  /\ IF accepted /\ manager \in {"negotiating", "reconnecting"}
     THEN /\ manager' = "connected" /\ unseen' = FALSE
          /\ runs' = [runs EXCEPT ![c].retry = "no"]
          /\ Apply("connected")
     ELSE Apply("error") /\ UNCHANGED <<manager, runs, unseen>>
  /\ UNCHANGED <<runtime, form, pause, marks>>

\* Mutant: the manager fails and the page is not told.
MediaFails_Silent(c) ==
  /\ runs[c].listens /\ runs[c].at = "up"
  /\ manager' = IF manager \in Busy THEN "error" ELSE manager
  /\ UNCHANGED <<status, wake, runtime, runs, form, pause, marks, unseen>>

\* The media refuse the answer.
MediaFails(c) ==
  /\ runs[c].listens /\ runs[c].at = "up"
  /\ manager' = IF manager \in Busy THEN "error" ELSE manager
  /\ Apply("error")
  /\ UNCHANGED <<runtime, runs, form, pause, marks, unseen>>

\* Telemetry and other events that leave the status alone.
Event(c) ==
  /\ runs[c].listens /\ Apply(status)
  /\ UNCHANGED <<session, pause, marks, unseen>>

\* session.close of the host: the manager is closed, and the page hears nothing of it.
HostCloses(c) ==
  /\ Hears(c) /\ manager \in Busy
  /\ manager' = "closed" /\ unseen' = TRUE
  /\ UNCHANGED <<status, runtime, runs, form, pause, wake, marks>>
-----------------------------------------------------------------------------
\* The sockets of a runtime, and its attempts to reconnect.

\* fail() of the controller: while it is waiting there is another attempt later, or none left.
Failures(q) == IF q.retry = "no" THEN {q} ELSE {[q EXCEPT !.retry = next] : next \in {"timed", "no"}}
Exhausted(q, p) == q.retry # "no" /\ p.retry = "no"

\* The runtime c, as q, goes on as p; the page is told of an error, or of the last attempt.
Becomes(c, q, p, error) ==
  /\ runs' = [runs EXCEPT ![c] = p]
  /\ IF error \/ Exhausted(q, p) THEN Apply("error") ELSE UNCHANGED <<status, wake>>

\* An attempt that has a connection goes on, cancelled or not: a session that is open becomes
\* `reconnecting'.  Without one, or if the request cannot be sent, the attempt has failed.
MayAsk == manager \in {"connected", "reconnecting"}
Asked(q) == IF MayAsk /\ q.socket # "connecting" THEN {q} ELSE Failures(q)
Asks ==
  /\ manager' = IF MayAsk THEN "reconnecting" ELSE manager
  /\ unseen' = (unseen \/ (MayAsk /\ status = "connected"))

\* A socket has opened, the one that is held or one that was replaced; who awaits it goes on.
Open(q) ==
  (IF q.socket = "connecting" THEN {[q EXCEPT !.socket = "open", !.link = "open"]} ELSE {})
  \cup (IF q.loose THEN {[q EXCEPT !.loose = more, !.stray = TRUE, !.link = "open"] : more \in BOOLEAN}
                   ELSE {})
Opens(c) ==
  /\ \E q \in Open(runs[c]) :
       \/ /\ q.at = "starting" /\ runs' = [runs EXCEPT ![c] = [q EXCEPT !.at = "offering"]]
          /\ UNCHANGED <<status, wake, manager, unseen>>
       \/ \E p \in Asked(q) : Becomes(c, q, p, FALSE) /\ Asks
       \/ runs' = [runs EXCEPT ![c] = q] /\ UNCHANGED <<status, wake, manager, unseen>>
  /\ UNCHANGED <<runtime, form, pause, marks>>

\* A socket fails or is closed by the other side.  A runtime that listens hears of it: an error
\* event reaches the page, a close event does not.  Otherwise the attempt may that awaits it.
Lost(q) ==
  (IF q.socket # "none" THEN {[q EXCEPT !.socket = "none", !.link = "closed"]} ELSE {})
  \cup (IF q.loose THEN {[q EXCEPT !.loose = more, !.link = "closed"] : more \in BOOLEAN} ELSE {})
  \cup (IF q.stray THEN {[q EXCEPT !.stray = more, !.link = "closed"] : more \in BOOLEAN} ELSE {})
  \cup (IF q.late THEN {[q EXCEPT !.late = FALSE, !.link = "closed"]} ELSE {})
LinkLost(c, error) ==
  /\ \E q \in Lost(runs[c]) :
       \E p \in Failures(q) \cup (IF q.listens THEN {} ELSE {q}) :
         Becomes(c, q, p, error /\ q.listens)
  /\ UNCHANGED <<manager, runtime, form, pause, marks, unseen>>

\* run() of the controller: at once if there is a connection, or after connect().
Attempts(q) ==
  LET tries == [q EXCEPT !.retry = "waiting"]
  IN  IF q.link = "open" THEN Asked(tries) ELSE {Dialled(tries)}
TriesAtOnce(q) == IF q.link = "open" THEN Asks ELSE UNCHANGED <<manager, unseen>>

RetryDue(c) ==
  /\ runs[c].retry = "timed" /\ (MayDial \/ runs[c].link = "open")
  /\ \E p \in Attempts(runs[c]) : Becomes(c, runs[c], p, FALSE)
  /\ TriesAtOnce(runs[c])
  /\ UNCHANGED <<runtime, form, pause, marks>>
-----------------------------------------------------------------------------
\* Buttons and window events.

\* The reconnect button cancels a reconnection that is pending, or starts one.  What it
\* gets is a promise, `envelope.payload.attempt' throws, and the page shows an error.
PressReconnect ==
  /\ over' = FALSE
  /\ IF runtime = NoCall THEN Apply("error") /\ UNCHANGED <<runs, manager, unseen, overtaken>>
     ELSE IF runs[runtime].retry # "no"
     THEN /\ runs' = [runs EXCEPT ![runtime].retry = "no"]
          /\ UNCHANGED <<status, wake, manager, unseen, overtaken>>
     ELSE /\ MayDial \/ runs[runtime].link = "open"
          /\ \E p \in Attempts(runs[runtime]) : runs' = [runs EXCEPT ![runtime] = p]
          /\ TriesAtOnce(runs[runtime])
          /\ status' = "error"
          /\ wake' = Applied(Applied(wake, "reconnecting"), "error")
          /\ overtaken' = (overtaken \/ runs[runtime].socket # "none" \/ runs[runtime].late)
  /\ UNCHANGED <<runtime, form, pause, doubled, lost>>

\* Mutant: the button ends the session on the page, and leaves the runtime open.
PressEnd_PageOnly ==
  /\ Apply("ended") /\ over' = (runs[0].at # "preparing")
  /\ UNCHANGED <<session, pause, doubled, overtaken, lost, unseen>>

\* The end button.  The runtime stays the page's, and a start() that is still preparing
\* goes on.
PressEnd ==
  /\ runs' = Closed(runs, runtime) /\ manager' = ManagerClosed(manager, runtime)
  /\ Apply("ended") /\ over' = (runs[0].at # "preparing")
  /\ UNCHANGED <<runtime, form, pause, doubled, overtaken, lost, unseen>>

\* runtime?.requestControl(): whatever keeps it from the host is caught.
Control(paused) ==
  \/ /\ runtime # NoCall /\ runs[runtime].link = "open" /\ runs[runtime].socket = "open"
     /\ hostPaused' = paused /\ UNCHANGED lost
  \/ lost' = TRUE /\ UNCHANGED hostPaused

TogglePause ==
  /\ status \in {"connected", "reconnecting"}
  /\ sessionPaused' = ~sessionPaused /\ Control(~sessionPaused)
  /\ UNCHANGED <<status, session, focusPaused, away, wake, doubled, overtaken, over, unseen>>

\* Mutant: focusPaused is cleared before the status is looked at.
FocusPolicy_Clears(blurred) ==
  IF blurred = focusPaused THEN UNCHANGED <<focusPaused, hostPaused, lost>>
  ELSE IF status # "connected"
  THEN focusPaused' = (focusPaused /\ blurred) /\ UNCHANGED <<hostPaused, lost>>
  ELSE focusPaused' = blurred /\ Control(blurred)

\* applyFocusPolicy(): nothing in a session that is not connected, the return included.
FocusPolicy(blurred) ==
  IF status # "connected" \/ blurred = focusPaused THEN UNCHANGED <<focusPaused, hostPaused, lost>>
  ELSE focusPaused' = blurred /\ Control(blurred)

Blur(blurred) ==
  /\ away' = blurred /\ FocusPolicy(blurred)
  /\ UNCHANGED <<status, session, sessionPaused, wake, doubled, overtaken, over, unseen>>

Reacquired(w) == Acquired(w)

\* The page is hidden, and the browser takes its locks back, or it is visible again.
Visibility(hidden) ==
  /\ away' = hidden /\ FocusPolicy(hidden)
  /\ wake' = IF hidden THEN [wake EXCEPT !.held = FALSE, !.strays = 0] ELSE Reacquired(wake)
  /\ UNCHANGED <<status, session, sessionPaused, doubled, overtaken, over, unseen>>

\* What a call of connect() and its runtime do.
CallNext(c) ==
  \/ Submit(c) \/ Started(c) \/ StartFails(c) \/ MediaFails(c) \/ Event(c)
  \/ HostCloses(c) \/ Opens(c) \/ RetryDue(c)
  \/ \E b \in BOOLEAN : Answer(c, b) \/ LinkLost(c, b)
ConnectionNext ==
  \/ NoTarget \/ PrepareFails \/ Prepared \/ PressReconnect \/ PressEnd
  \/ \E c \in Call : CallNext(c)

WindowNext == TogglePause \/ \E b \in BOOLEAN : Blur(b) \/ Visibility(b) \/ LockSettles(b)

PageNext == ConnectionNext \/ WindowNext

PageSpec == PageInit /\ [][PageNext]_pageVars
-----------------------------------------------------------------------------
PageTypeOK ==
  /\ status \in {"negotiating", "connected", "error", "ended"}
  /\ manager \in {"idle", "negotiating", "connected", "reconnecting", "closed", "error"}
  /\ runtime \in Call \cup {NoCall}
  /\ \A c \in Call : /\ runs[c].at \in {"none", "preparing", "starting", "offering", "up", "failed"}
                     /\ runs[c].link \in {"connecting", "open", "closed"}
                     /\ runs[c].socket \in {"none", "connecting", "open"}
                     /\ runs[c].retry \in {"no", "waiting", "timed"}
  /\ wake.pending \in 0..MaxRequests /\ wake.strays \in 0..MaxRequests

\* The end button ends it: until something else is pressed the page does not come back
\* to `connected', no session is open, and no runtime is left with a connection - but the
\* one of a form that was submitted twice (see the hazards).
EndIsFinal == over => /\ status # "connected"
                      /\ manager \notin Busy
                      /\ doubled \/ \A c \in Call : runs[c].socket = "none"

\* Whatever fails, the page keeps no connection it cannot close: only the page's runtime
\* has one, unless one that had was replaced by a second connect(), and it holds the only one,
\* unless Reconnect was pressed again before an earlier socket was done with: one that still
\* connects is replaced, and opens with nobody to close it.  Retries by themselves leave none.
ConnectionIsPages ==
  \A c \in Call : /\ runs[c].socket # "none" => c = runtime \/ doubled
                  /\ runs[c].loose \/ runs[c].stray => overtaken

\* A host that is paused is so for a reason the page still knows, and can take back, if no
\* control was lost.  Coming back to the window need not take it back.
PauseHasReason == hostPaused /\ ~lost => sessionPaused \/ focusPaused

\* docs/transport.md:100-103: the player "sends a validated `session.control' request with
\* `pause' on blur/hidden visibility, then sends `resume' and resumes local playback when the
\* window returns": while the page is connected no pause for the window's sake outlives its absence.
WindowResumes == status = "connected" /\ focusPaused => away

\* A page that says `connected' has a session that is, if the host has not closed it and
\* no cancelled attempt has asked for a reconnection.
ConnectedIsTrue == status = "connected" => manager = "connected" \/ unseen

\* docs/future-local-validation.md: the lock is for sessions that are connected or
\* reconnecting.  When one has ended or failed no lock is left, if no two requests met and
\* none was pending at the end.
LockEndsWithSession ==
  status \in {"ended", "error"} /\ ~wake.slipped => ~wake.held /\ wake.strays = 0

\* Nothing outlives the page's hold on it, while it plays and after it has ended.
NoStrayConnection == EndIsFinal /\ ConnectionIsPages

\* What the page says of the session, and makes the host do, is so.
PageTellsTruth == ConnectedIsTrue /\ PauseHasReason
=============================================================================
