------------------------ MODULE SessionRuntimeProofs ------------------------
(***************************************************************************)
(* Proofs about a session in the browser: about the reconnect controller,  *)
(* about the session manager, and about the runtime that drives the two.   *)
(***************************************************************************)
EXTENDS SessionRuntime, TLAPS

-----------------------------------------------------------------------------
(***************************************************************************)
(* Proofs about ReconnectController for every number of attempts.          *)
(*                                                                         *)
(* AttemptsBounded is inductive with a type invariant, because of its      *)
(* second conjunct: while a cycle waits, the attempts made are behind the  *)
(* policy's counter, and behind the attempt a pending timer is for.  An    *)
(* idle controller has no timer, so that none fires outside a cycle.       *)
(***************************************************************************)
\* The part of the type invariant that holds whatever the bound on cycles.
Typed ==
  /\ status \in Status
  /\ used \in 0 .. MaxAttempts
  /\ timer \in 0 .. MaxAttempts
  /\ made \in Nat
  /\ cycle \in Nat
  /\ status = "idle" => timer = None

ReconnectInv == Typed /\ AttemptsBounded

USE ReconnectAssumption DEF None

\* fail() in a waiting cycle: the next attempt is one the policy still gives.
LEMMA FailAfterKeeps ==
  ASSUME ReconnectInv, status = "waiting", FailAfter(used), UNCHANGED <<made, cycle>>
  PROVE  ReconnectInv'
<1>1. used \in 0 .. MaxAttempts /\ timer \in 0 .. MaxAttempts /\ made \in Nat
  BY DEF ReconnectInv, Typed
<1>2. made <= used
  BY <1>1 DEF ReconnectInv, AttemptsBounded
<1>3. CASE HasAttempt(used)
  BY <1>1, <1>2, <1>3
  DEF ReconnectInv, Typed, AttemptsBounded, FailAfter, HasAttempt, Status
<1>4. CASE ~HasAttempt(used)
  BY <1>1, <1>2, <1>4
  DEF ReconnectInv, Typed, AttemptsBounded, FailAfter, HasAttempt, Status
<1>5. QED
  BY <1>3, <1>4

\* run(): making attempt n keeps the invariant when at most n attempts of the
\* cycle are made with it.
LEMMA RunKeeps ==
  ASSUME NEW n \in 1 .. MaxAttempts, NEW c, Run(n, c),
         made' \in Nat, made' <= n, cycle' \in Nat
  PROVE  ReconnectInv'
BY DEF Run, ReconnectInv, Typed, AttemptsBounded, HasAttempt, Status

LEMMA ReconnectInductive == ReconnectInv /\ [ReconnectNext]_reconnectVars => ReconnectInv'
<1> SUFFICES ASSUME ReconnectInv, [ReconnectNext]_reconnectVars
             PROVE  ReconnectInv'
  OBVIOUS
<1>1. CASE Start
  <2>1. Run(1, cycle + 1) /\ made' = 1
    BY <1>1 DEF Start
  <2>2. cycle' \in Nat
    BY <1>1 DEF Start, ReconnectInv, Typed
  <2>3. QED
    BY <2>1, <2>2, RunKeeps
<1>2. CASE TimerFires
  <2>1. CASE status \in {"cancelled", "succeeded", "exhausted"}
    BY <1>2, <2>1 DEF TimerFires, ReconnectInv, Typed, AttemptsBounded
  <2>2. CASE status = "waiting"
    <3>1. Run(timer, cycle) /\ made' = made + 1 /\ timer # 0
      BY <1>2, <2>2 DEF TimerFires
    <3>2. timer \in 1 .. MaxAttempts /\ made < timer /\ made \in Nat /\ cycle' \in Nat
      BY <1>2, <2>2, <3>1 DEF TimerFires, ReconnectInv, Typed, AttemptsBounded
    <3>3. QED
      BY <3>1, <3>2, RunKeeps
  <2>3. QED
    BY <1>2, <2>1, <2>2 DEF ReconnectInv, Typed, Status, TimerFires
<1>3. CASE Fail
  BY <1>3, FailAfterKeeps DEF Fail
<1>4. ASSUME NEW c \in calls, Rejected(c)
      PROVE  ReconnectInv'
  <2>1. CASE status = "waiting"
    BY <1>4, <2>1, FailAfterKeeps DEF Rejected
  <2>2. CASE status # "waiting"
    BY <1>4, <2>2 DEF Rejected, ReconnectInv, Typed, AttemptsBounded
  <2>3. QED
    BY <2>1, <2>2
<1>5. ASSUME NEW c \in calls, Fulfilled(c)
      PROVE  ReconnectInv'
  BY <1>5 DEF Fulfilled, ReconnectInv, Typed, AttemptsBounded
<1>6. CASE Cancel
  BY <1>6 DEF Cancel, ReconnectInv, Typed, AttemptsBounded, Status
<1>7. CASE Succeed
  BY <1>7 DEF Succeed, ReconnectInv, Typed, AttemptsBounded, Status
<1>8. CASE Reset
  BY <1>8 DEF Reset, ReconnectInv, Typed, AttemptsBounded, Status
<1>9. CASE UNCHANGED reconnectVars
  BY <1>9 DEF reconnectVars, ReconnectInv, Typed, AttemptsBounded
<1>10. QED
  BY <1>1, <1>2, <1>3, <1>4, <1>5, <1>6, <1>7, <1>8, <1>9 DEF ReconnectNext

LEMMA ReconnectInvariant == ReconnectSpec => []ReconnectInv
<1>1. ReconnectInit => ReconnectInv
  BY DEF ReconnectInit, ReconnectInv, Typed, AttemptsBounded, Status
<1>2. QED
  BY <1>1, ReconnectInductive, PTL DEF ReconnectSpec

\* A cycle makes at most maxAttempts attempts, whatever fails when, for every
\* maxAttempts and any number of cycles.
THEOREM ReconnectAttemptsBounded == ReconnectSpec => []AttemptsBounded
BY ReconnectInvariant, PTL DEF ReconnectInv

\* Once a cycle has ended, only a new start() makes an attempt: a timer that was
\* left running by the failure that exhausted the policy makes none.
THEOREM ReconnectNoAttemptAfterEnd == ReconnectSpec => NoAttemptAfterEnd
<1>1. ReconnectInv /\ [ReconnectNext]_reconnectVars
      => [status # "waiting" /\ made' > made => cycle' # cycle]_reconnectVars
  <2> SUFFICES ASSUME ReconnectInv, ReconnectNext, status # "waiting",
                      made' > made, cycle' = cycle
               PROVE  FALSE
    BY DEF reconnectVars
  <2>1. made \in Nat /\ cycle \in Int
    BY DEF ReconnectInv, Typed
  <2>2. ~Start /\ UNCHANGED <<made, cycle>>
    BY <2>1
    DEF ReconnectInv, Typed, Status, ReconnectNext, Start, TimerFires, Fail, Rejected, Fulfilled,
        Cancel, Succeed, Reset
  <2>3. QED
    BY <2>1, <2>2
<1>2. QED
  BY <1>1, ReconnectInvariant, PTL DEF ReconnectSpec, NoAttemptAfterEnd

-----------------------------------------------------------------------------
(***************************************************************************)
(* Proofs about SessionManager for every window of remembered ids, attempt *)
(* limit and set of messages.                                              *)
(*                                                                         *)
(* None of the three properties is inductive.  Effects stay in order       *)
(* because `latest' is at least the number of every message that had an    *)
(* effect on the current session, which needs that no message of a session *)
(* exists before it is started.  Requests stay bounded because the policy  *)
(* has counted them all in every state from which more can be made.        *)
(***************************************************************************)
\* What had an effect on the current session is not newer than `latest'.
EffectsCounted == \A m \in applied : m.of = session => m.number <= latest

NothingAhead == \A m \in sent : m.of <= started

\* The policy has counted the requests wherever another one can still be made.
RequestsCounted ==
  state \in {"negotiating", "connected", "reconnecting"} => asked <= spent

SessionInv ==
  /\ SessionTypeOK
  /\ EffectsCounted
  /\ NothingAhead
  /\ RequestsCounted
  /\ RequestsBounded
  /\ StaysOver

USE SessionAssumption DEF NoSession

LEMMA RememberType ==
  ASSUME seen \in Seq(Message), NEW m \in Message
  PROVE  Remember(m) \in Seq(Message)
BY DEF Remember

\* A message that moves the state is one that counts.
LEMMA MovesChanges ==
  ASSUME NEW m, Moves(m)
  PROVE  /\ StateChanging(m)
         /\ m.kind \in {"answer", "reconnect", "close"}
BY DEF Moves, Target, StateChanging

\* The state after the receipt of a message that moves it.
LEMMA MovesTo ==
  ASSUME SessionTypeOK, NEW m, Moves(m),
         state' = IF m.kind = "close" THEN "closed" ELSE Target[m.kind]
  PROVE  /\ state \in Open
         /\ state' \in {"connected", "reconnecting", "closed"}
         /\ state = "preparing" => state' = "closed"
<1>1. m.kind \in {"answer", "reconnect", "close"} /\ Target[m.kind] \in Transitions[state]
  BY MovesChanges DEF Moves
<1>2. state \in SessionState
  BY DEF SessionTypeOK
<1>3. QED
  BY <1>1, <1>2 DEF Target, Transitions, SessionState, Open

LEMMA StartStates ==
  ASSUME SessionTypeOK, "preparing" \in Transitions[state]
  PROVE  state \in {"idle", "closed", "error"}
BY DEF SessionTypeOK, Transitions, SessionState

LEMMA StartSessionKeeps ==
  ASSUME SessionInv, StartSession
  PROVE  SessionInv'
<1>1. SessionTypeOK /\ NothingAhead /\ session' = started + 1 /\ started' = started + 1
  BY DEF SessionInv, StartSession
<1>2. SessionTypeOK'
  BY DEF SessionInv, StartSession, SessionTypeOK, SessionState, Forget
<1>3. EffectsCounted' /\ NothingAhead'
  <2>1. \A m \in applied : m.of <= started
    BY <1>1 DEF SessionTypeOK, NothingAhead
  <2>2. \A m \in sent : m.of \in Int
    BY <1>1 DEF SessionTypeOK, Message
  <2>3. started \in Nat /\ applied \subseteq sent
    BY <1>1 DEF SessionTypeOK
  <2>4. UNCHANGED <<sent, applied>>
    BY DEF StartSession
  <2>5. QED
    BY <1>1, <2>1, <2>2, <2>3, <2>4 DEF EffectsCounted, NothingAhead
<1>4. RequestsCounted' /\ RequestsBounded'
  BY DEF StartSession, RequestsCounted, RequestsBounded
<1>5. StaysOver'
  BY <1>1 DEF StartSession, SessionTypeOK, StaysOver
<1>6. QED
  BY <1>2, <1>3, <1>4, <1>5 DEF SessionInv

LEMMA StartRejectedKeeps ==
  ASSUME SessionInv, StartRejected
  PROVE  SessionInv'
<1>1. SessionTypeOK /\ NothingAhead
  BY DEF SessionInv
<1>2. CASE /\ state' = "preparing"
           /\ UNCHANGED <<session, started, sequence, latest, seen, asked>>
  BY <1>2 DEF SessionInv, StartRejected, SessionTypeOK, SessionState, EffectsCounted,
     NothingAhead, RequestsCounted, RequestsBounded, StaysOver
<1>3. CASE state' = "negotiating" /\ started' = started + 1 /\ session' = started'
           /\ Forget /\ asked' = 0
  <2>1. SessionTypeOK'
    BY <1>1, <1>3 DEF StartRejected, SessionTypeOK, SessionState, Forget
  <2>2. EffectsCounted' /\ NothingAhead'
    <3>1. \A m \in applied : m.of <= started
      BY <1>1 DEF SessionTypeOK, NothingAhead
    <3>2. \A m \in sent : m.of \in Int
      BY <1>1 DEF SessionTypeOK, Message
    <3>3. started \in Nat /\ applied \subseteq sent
      BY <1>1 DEF SessionTypeOK
    <3>4. UNCHANGED <<sent, applied>>
      BY DEF StartRejected
    <3>5. QED
      BY <1>1, <1>3, <3>1, <3>2, <3>3, <3>4 DEF EffectsCounted, NothingAhead
  <2>3. RequestsCounted' /\ RequestsBounded'
    BY <1>3 DEF StartRejected, RequestsCounted, RequestsBounded
  <2>4. StaysOver'
    BY <1>1, <1>3 DEF StartRejected, SessionTypeOK, StaysOver
  <2>5. QED
    BY <2>1, <2>2, <2>3, <2>4 DEF SessionInv
<1>4. QED
  BY <1>2, <1>3 DEF StartRejected

LEMMA SendKeeps ==
  ASSUME SessionInv, NEW m \in Message, Send(m)
  PROVE  SessionInv'
BY DEF SessionInv, Send, SessionTypeOK, EffectsCounted, NothingAhead,
   RequestsCounted, RequestsBounded, StaysOver, Message

LEMMA ReceiveKeeps ==
  ASSUME SessionInv, NEW m \in sent, Receive(m)
  PROVE  SessionInv'
<1>1. SessionTypeOK /\ m \in Message /\ m.of = session
  BY DEF SessionInv, SessionTypeOK, Receive
<1>2. m.number \in 1 .. MaxNumber
  BY <1>1 DEF Message
<1>3. seen' \in Seq(Message)
  BY <1>1, RememberType DEF Receive, SessionTypeOK
<1>4. CASE Stale(m)
  <2>1. UNCHANGED <<state, latest, sequence, spent, applied, asked, session, started, sent>>
    BY <1>4 DEF Receive
  <2>2. over' \in {over, over \cup {session}} /\ (session = 0 => over' = over)
    BY DEF Receive, Ends
  <2>3. over' # over => state \in {"closed", "error"}
    BY <2>1 DEF Receive, Ends
  <2>4. SessionTypeOK'
    BY <1>1, <1>3, <2>1, <2>2 DEF SessionTypeOK
  <2>5. StaysOver'
    BY <2>1, <2>2, <2>3 DEF SessionInv, StaysOver
  <2>6. QED
    BY <2>1, <2>4, <2>5
    DEF SessionInv, EffectsCounted, NothingAhead, RequestsCounted, RequestsBounded
<1>5. CASE ~Stale(m) /\ ~Moves(m)
  <2>1. UNCHANGED <<state, spent, applied, asked, session, started, sent>>
    BY <1>5 DEF Receive
  <2>2. /\ latest' = IF StateChanging(m) THEN m.number ELSE latest
        /\ sequence' = IF m.number > sequence THEN m.number ELSE sequence
    BY <1>5 DEF Receive
  <2>3. latest' >= latest /\ latest' \in -1 .. MaxNumber /\ sequence' \in Nat
    BY <1>1, <1>2, <1>5, <2>2 DEF SessionTypeOK, Stale
  <2>4. over' \in {over, over \cup {session}} /\ (session = 0 => over' = over)
    BY DEF Receive, Ends
  <2>5. over' # over => state \in {"closed", "error"}
    BY <2>1 DEF Receive, Ends
  <2>6. SessionTypeOK'
    BY <1>1, <1>3, <2>1, <2>3, <2>4 DEF SessionTypeOK
  <2>7. StaysOver'
    BY <2>1, <2>4, <2>5 DEF SessionInv, StaysOver
  <2>8. EffectsCounted'
    <3>1. \A n \in applied : n.number \in Int
      BY <1>1 DEF SessionTypeOK, Message
    <3>2. latest \in Int /\ latest' \in Int
      BY <1>1, <2>3 DEF SessionTypeOK
    <3>3. QED
      BY <2>1, <2>3, <3>1, <3>2 DEF SessionInv, EffectsCounted
  <2>9. QED
    BY <2>1, <2>6, <2>7, <2>8 DEF SessionInv, NothingAhead, RequestsCounted, RequestsBounded
<1>6. CASE ~Stale(m) /\ Moves(m)
  <2>1. /\ latest' = IF StateChanging(m) THEN m.number ELSE latest
        /\ sequence' = IF m.number > sequence THEN m.number ELSE sequence
        /\ state' = IF m.kind = "close" THEN "closed" ELSE Target[m.kind]
        /\ applied' = applied \cup {m}
        /\ spent' = IF m.kind = "answer" THEN 0 ELSE spent
        /\ asked' = IF m.kind = "answer" THEN 0 ELSE asked
        /\ UNCHANGED <<session, started, sent>>
    BY <1>6 DEF Receive
  <2>2. StateChanging(m)
    BY <1>6, MovesChanges
  <2>3. latest' = m.number /\ latest < m.number /\ sequence' \in Nat
    BY <1>1, <1>2, <1>6, <2>1, <2>2 DEF Stale, SessionTypeOK
  <2>4. /\ state \in Open
        /\ state' \in {"connected", "reconnecting", "closed"}
        /\ state = "preparing" => state' = "closed"
    BY <1>1, <1>6, <2>1, MovesTo
  <2>5. over' \in {over, over \cup {session}} /\ (session = 0 => over' = over)
    BY DEF Receive, Ends
  <2>6. over' # over => state' \in {"closed", "error"}
    BY DEF Receive, Ends
  <2>7. SessionTypeOK'
    BY <1>1, <1>2, <1>3, <2>1, <2>3, <2>4, <2>5 DEF SessionTypeOK, SessionState
  <2>8. StaysOver'
    BY <2>1, <2>4, <2>5, <2>6 DEF SessionInv, StaysOver, Open
  <2>9. EffectsCounted'
    <3>1. \A n \in applied : n.number \in Int
      BY <1>1 DEF SessionTypeOK, Message
    <3>2. latest \in Int /\ m.number \in Int
      BY <1>1, <1>2 DEF SessionTypeOK
    <3>3. QED
      BY <2>1, <2>3, <3>1, <3>2 DEF SessionInv, EffectsCounted
  <2>10. RequestsCounted' /\ RequestsBounded'
    <3>1. state # "preparing" \/ state' = "closed"
      BY <2>4
    <3>2. state \in {"negotiating", "connected", "reconnecting"} \/ state' = "closed"
      BY <2>4, <3>1 DEF Open
    <3>3. asked \in Nat /\ spent \in Nat
      BY <1>1 DEF SessionTypeOK
    <3>4. QED
      BY <2>1, <3>2, <3>3 DEF SessionInv, RequestsCounted, RequestsBounded
  <2>11. QED
    BY <2>1, <2>7, <2>8, <2>9, <2>10 DEF SessionInv, NothingAhead
<1>7. QED
  BY <1>4, <1>5, <1>6

LEMMA RequestReconnectKeeps ==
  ASSUME SessionInv, RequestReconnect
  PROVE  SessionInv'
<1>1. over' \in {over, over \cup {session}} /\ (session = 0 => over' = over)
  BY DEF RequestReconnect, Ends
<1>2. over' # over => state' \in {"closed", "error"}
  BY DEF RequestReconnect, Ends
<1>3. UNCHANGED <<session, started, latest, seen, sent, applied>>
  BY DEF RequestReconnect
<1>4. /\ state \in {"connected", "reconnecting"}
      /\ \/ /\ spent < MaxRequests
            /\ state' = "reconnecting"
            /\ spent' = spent + 1
            /\ sequence' = sequence + 1
            /\ asked' = asked + 1
         \/ /\ state' = "error"
            /\ UNCHANGED <<spent, sequence, asked>>
  BY DEF RequestReconnect
<1>5. SessionTypeOK'
  BY <1>1, <1>3, <1>4 DEF SessionInv, SessionTypeOK, SessionState
<1>6. StaysOver'
  BY <1>1, <1>2, <1>3, <1>4 DEF SessionInv, StaysOver
<1>7. RequestsCounted' /\ RequestsBounded'
  BY <1>4 DEF SessionInv, SessionTypeOK, RequestsCounted, RequestsBounded
<1>8. QED
  BY <1>3, <1>5, <1>6, <1>7 DEF SessionInv, EffectsCounted, NothingAhead

LEMMA EndKeeps ==
  ASSUME SessionInv, FailSession \/ CloseSession
  PROVE  SessionInv'
<1>1. /\ state' \in {"error", "closed"} /\ Ends
      /\ UNCHANGED <<session, started, sequence, latest, seen, spent, sent, applied, asked>>
  BY DEF FailSession, CloseSession
<1>2. SessionTypeOK'
  BY <1>1 DEF SessionInv, SessionTypeOK, SessionState, Ends
<1>3. QED
  BY <1>1, <1>2 DEF SessionInv, EffectsCounted, NothingAhead, RequestsCounted,
     RequestsBounded, StaysOver

LEMMA ResetKeeps ==
  ASSUME SessionInv, ResetSession
  PROVE  SessionInv'
<1>1. SessionTypeOK'
  BY DEF SessionInv, ResetSession, Forget, SessionTypeOK, SessionState
<1>2. EffectsCounted' /\ StaysOver'
  <2>1. \A m \in applied : m.of # 0
    BY DEF SessionInv, SessionTypeOK, Message
  <2>2. 0 \notin over
    BY DEF SessionInv, SessionTypeOK
  <2>3. QED
    BY <2>1, <2>2 DEF ResetSession, EffectsCounted, StaysOver
<1>3. QED
  BY <1>1, <1>2
  DEF SessionInv, ResetSession, NothingAhead, RequestsCounted, RequestsBounded

LEMMA SessionInductive == SessionInv /\ [SessionNext]_managerVars => SessionInv'
<1> SUFFICES ASSUME SessionInv, [SessionNext]_managerVars
             PROVE  SessionInv'
  OBVIOUS
<1>1. CASE UNCHANGED managerVars
  BY <1>1 DEF managerVars, SessionInv, SessionTypeOK, EffectsCounted, NothingAhead,
     RequestsCounted, RequestsBounded, StaysOver
<1>2. QED
  BY <1>1, StartSessionKeeps, StartRejectedKeeps, SendKeeps, ReceiveKeeps,
     RequestReconnectKeeps, EndKeeps, ResetKeeps DEF SessionNext

LEMMA SessionInvariant == SessionSpec => []SessionInv
<1>1. SessionInit => SessionInv
  BY DEF SessionInit, SessionInv, SessionTypeOK, SessionState, EffectsCounted,
     NothingAhead, RequestsCounted, RequestsBounded, StaysOver
<1>2. QED
  BY <1>1, SessionInductive, PTL DEF SessionSpec

\* The manager makes at most maxAttempts reconnect requests in a row.
THEOREM SessionRequestsBounded == SessionSpec => []RequestsBounded
BY SessionInvariant, PTL DEF SessionInv

\* A session that was closed or has failed is over, whatever arrives late.
THEOREM SessionStaysOver == SessionSpec => []StaysOver
BY SessionInvariant, PTL DEF SessionInv

\* Both, as the runs state them.
THEOREM SessionEndsInBounds == SessionSpec => []SessionIsBounded
BY SessionStaysOver, SessionRequestsBounded, PTL DEF SessionIsBounded

\* Messages have their effect once and in order for every size of the window,
\* no window at all included.
THEOREM SessionEffectsInOrder == SessionSpec => EffectsInOrder
<1>1. SessionInv /\ [SessionNext]_managerVars
      => [\A m \in applied' \ applied, n \in applied :
            n.of = m.of => n.number < m.number]_managerVars
  <2> SUFFICES ASSUME SessionInv, SessionNext,
                      NEW m \in applied' \ applied, NEW n \in applied, n.of = m.of
               PROVE  n.number < m.number
    BY DEF managerVars
  <2>1. PICK r \in sent : Receive(r) /\ applied' # applied
    BY DEF SessionNext, StartSession, StartRejected, Send, RequestReconnect,
       FailSession, CloseSession, ResetSession
  <2>2. m = r /\ ~Stale(r) /\ Moves(r) /\ r.of = session
    BY <2>1 DEF Receive
  <2>3. latest < r.number /\ n.number <= latest
    <3>1. r.number \in Int /\ latest \in Int
      BY DEF SessionInv, SessionTypeOK, Message
    <3>2. QED
      BY <2>2, <3>1, MovesChanges DEF Stale, SessionInv, EffectsCounted
  <2>4. n.number \in Int /\ r.number \in Int /\ latest \in Int
    BY DEF SessionInv, SessionTypeOK, Message
  <2>5. QED
    BY <2>2, <2>3, <2>4
<1>2. QED
  BY <1>1, SessionInvariant, PTL DEF SessionSpec, EffectsInOrder

-----------------------------------------------------------------------------
(***************************************************************************)
(* The runtime drives both, whatever its sockets do: each of its steps is  *)
(* a step of the controller and a step of the manager, or leaves them      *)
(* alone.  What is proved of the two above therefore holds of a session in *)
(* the browser, for every number of sockets and messages.                  *)
(***************************************************************************)

\* A failure of the transport is reported to a waiting controller only.
LEMMA FailureIsOne == FailureHeard => [ReconnectNext]_reconnectVars
BY DEF FailureHeard, ReconnectNext, Fail

LEMMA ControllerStep ==
  RuntimeNext => [ReconnectNext]_reconnectVars
<1> SUFFICES ASSUME RuntimeNext PROVE [ReconnectNext]_reconnectVars
  OBVIOUS
<1>1. ASSUME NEW k \in Socket, SocketOpens(k) \/ SocketFails(k) \/ SocketCloses(k)
      PROVE  [ReconnectNext]_reconnectVars
  BY <1>1, FailureIsOne DEF SocketOpens, SocketFails, SocketCloses
<1>2. CASE Begin \/ MediaFails
  BY <1>2 DEF Begin, MediaFails
<1>3. CASE PressReconnect \/ PressCancel
  BY <1>3 DEF PressReconnect, PressCancel, ReconnectNext
<1>4. CASE RetryTimer
  BY <1>4 DEF RetryTimer, ReconnectNext
<1>5. CASE End
  BY <1>5 DEF End, Teardown, ReconnectNext
<1>6. CASE CloseHeard
  BY <1>6, FailureIsOne DEF CloseHeard
<1>7. CASE OfferSent \/ StartFailed
  BY <1>7 DEF OfferSent, StartFailed, Teardown, ReconnectNext
<1>8. ASSUME NEW c \in calls, RequestSent(c) \/ AttemptRejected(c)
      PROVE  [ReconnectNext]_reconnectVars
  BY <1>8 DEF RequestSent, AttemptRejected, ReconnectNext
<1>9. ASSUME NEW m \in Message, HostAnswers(m) PROVE [ReconnectNext]_reconnectVars
  BY <1>9 DEF HostAnswers
<1>10. ASSUME NEW m \in sent, MessageReceived(m) PROVE [ReconnectNext]_reconnectVars
  BY <1>10 DEF MessageReceived, ReconnectNext
<1>11. QED
  BY <1>1, <1>2, <1>3, <1>4, <1>5, <1>6, <1>7, <1>8, <1>9, <1>10 DEF RuntimeNext, DueStep

LEMMA ManagerStep ==
  RuntimeNext => [SessionNext]_managerVars
<1> SUFFICES ASSUME RuntimeNext PROVE [SessionNext]_managerVars
  OBVIOUS
<1>1. ASSUME NEW k \in Socket, SocketOpens(k) \/ SocketFails(k) \/ SocketCloses(k)
      PROVE  [SessionNext]_managerVars
  BY <1>1 DEF SocketOpens, SocketFails, SocketCloses
<1>2. CASE Begin \/ MediaFails
  BY <1>2 DEF Begin, MediaFails, SessionNext
<1>3. CASE PressReconnect \/ PressCancel
  BY <1>3 DEF PressReconnect, PressCancel, Attempt
<1>4. CASE RetryTimer
  BY <1>4 DEF RetryTimer, Attempt
<1>5. CASE End
  BY <1>5 DEF End, Teardown, SessionNext
<1>6. CASE CloseHeard
  BY <1>6 DEF CloseHeard
<1>7. CASE OfferSent \/ StartFailed
  BY <1>7 DEF OfferSent, StartFailed, Teardown, SessionNext
<1>8. ASSUME NEW c \in calls, RequestSent(c) \/ AttemptRejected(c)
      PROVE  [SessionNext]_managerVars
  BY <1>8 DEF RequestSent, AttemptRejected, SessionNext
<1>9. ASSUME NEW m \in Message, HostAnswers(m) PROVE [SessionNext]_managerVars
  BY <1>9 DEF HostAnswers, SessionNext
<1>10. ASSUME NEW m \in sent, MessageReceived(m) PROVE [SessionNext]_managerVars
  BY <1>10 DEF MessageReceived, SessionNext
<1>11. QED
  BY <1>1, <1>2, <1>3, <1>4, <1>5, <1>6, <1>7, <1>8, <1>9, <1>10 DEF RuntimeNext, DueStep

\* The runtime uses the controller as its specification allows.
THEOREM RuntimeUsesController == RuntimeSpec => ControllerImplemented
<1>1. [RuntimeNext]_vars => [ReconnectNext]_reconnectVars
  BY ControllerStep DEF vars, reconnectVars
<1>2. QED
  BY <1>1, PTL DEF RuntimeSpec, Init, ControllerImplemented, ReconnectSpec

\* The runtime uses the manager as its specification allows.
THEOREM RuntimeUsesManager == RuntimeSpec => SessionSpec
<1>1. [RuntimeNext]_vars => [SessionNext]_managerVars
  BY ManagerStep DEF vars, managerVars
<1>2. QED
  BY <1>1, PTL DEF RuntimeSpec, Init, SessionSpec

\* With its sockets, timers and late answers, a session in the browser makes at
\* most maxAttempts attempts in a cycle and none after the cycle has ended, asks
\* for at most maxAttempts reconnections between two connections, does not come
\* back once it is over, and takes the messages of the host in their order.
COROLLARY RuntimeIsBounded ==
  RuntimeSpec => /\ [](AttemptsBounded /\ SessionIsBounded)
                 /\ NoAttemptAfterEnd
                 /\ EffectsInOrder
BY RuntimeUsesController, RuntimeUsesManager, ReconnectAttemptsBounded,
   ReconnectNoAttemptAfterEnd, SessionEndsInBounds, SessionEffectsInOrder, PTL
DEF ControllerImplemented

\* Only an answer connects a session that was not connected.
LEMMA AnswerConnects ==
  ASSUME SessionTypeOK, NEW m, Receive(m), state # "connected", state' = "connected"
  PROVE  Moves(m)
BY DEF Receive

LEMMA OnlyMessagesConnect ==
  ASSUME RuntimeNext, state # "connected", state' = "connected"
  PROVE  \E m \in sent : MessageReceived(m)
<1>1. ~StartSession /\ ~CloseSession /\ ~FailSession /\ ~RequestReconnect
  BY DEF StartSession, CloseSession, FailSession, RequestReconnect
<1>2. state' # state
  OBVIOUS
<1>3. ~\E m \in Message : Send(m)
  BY <1>2 DEF Send
<1>4. ~UNCHANGED managerVars
  BY <1>2 DEF managerVars
<1>5. QED
  BY <1>1, <1>3, <1>4
  DEF RuntimeNext, Begin, PressReconnect, PressCancel, RetryTimer, Attempt, End, Teardown,
      MediaFails, DueStep, CloseHeard, OfferSent, StartFailed, RequestSent, AttemptRejected,
      SocketOpens, SocketFails, SocketCloses, HostAnswers

\* When an answer connects the session again the controller has succeeded, in
\* the same step: no attempt of the cycle is pending any more.
THEOREM RuntimeSettles == RuntimeSpec => RecoveredIsSettled
<1>1. SessionInv /\ [RuntimeNext]_vars
        => [state # "connected" /\ state' = "connected" => status' # "waiting"]_vars
  <2> SUFFICES ASSUME SessionInv, RuntimeNext, state # "connected", state' = "connected"
               PROVE  status' # "waiting"
    BY DEF vars
  <2>1. PICK m \in sent : MessageReceived(m)
    BY OnlyMessagesConnect
  <2>2. Receive(m)
    BY <2>1 DEF MessageReceived, managerVars
  <2>3. Moves(m)
    BY <2>2, AnswerConnects DEF SessionInv
  <2>4. CASE status = "waiting"
    BY <2>1, <2>3, <2>4 DEF MessageReceived, Succeed
  <2>5. CASE status # "waiting"
    BY <2>1, <2>5 DEF MessageReceived, reconnectVars
  <2>6. QED
    BY <2>4, <2>5
<1>2. QED
  BY <1>1, RuntimeUsesManager, SessionInvariant, PTL DEF RuntimeSpec, RecoveredIsSettled
=============================================================================
