--------------------------- MODULE SessionManager ---------------------------
(***************************************************************************)
(* createSessionManager of src/frontend/session/session.mjs: the lifecycle *)
(* of a session in the browser, and which messages change it.              *)
(*                                                                         *)
(* A host numbers the state-changing messages of a session upwards (the    *)
(* agent echoes the number of the request plus one, other hosts count).  A *)
(* message may arrive late, out of order and more than once: signaling and *)
(* the data channel are two paths, and WebTransport sends datagrams.  The  *)
(* "other" messages have numberings of their own (ICE candidates, and the  *)
(* client's own telemetry, which the runtime hands to receive() too).      *)
(* Capabilities and quality are not modelled, except that the manager      *)
(* rejects some answers.                                                   *)
(***************************************************************************)
EXTENDS Integers, Sequences, FiniteSets

CONSTANTS Window,      \* MAX_SEEN_MESSAGE_IDS
          MaxRequests, \* maxAttempts of the recovery policy
          MaxSessions, \* bound: calls of start()
          MaxNumber,   \* bound: numbers of messages
          MaxMessages  \* bound: messages

ASSUME SessionAssumption ==
  /\ Window \in Nat
  /\ MaxRequests \in Nat \ {0}
  /\ MaxSessions \in Nat
  /\ MaxNumber \in Nat
  /\ MaxMessages \in Nat

SessionState == {"idle", "preparing", "negotiating", "connected",
                 "reconnecting", "closing", "closed", "error"}

NoSession == 0 \* session = null; sessions are numbered from 1

\* "answer" accepts the session and is compatible; "refusal" stands for an
\* answer that does not or is not, and for a session.control.
Kind == {"answer", "refusal", "reconnect", "close", "other"}

Message == [of : 1 .. MaxSessions, number : 1 .. MaxNumber, kind : Kind]

VARIABLES
  state,    \* the lifecycle state
  session,  \* the current session, or NoSession
  started,  \* number of sessions started
  sequence, \* the manager's own sequence number
  latest,   \* latestRemoteSequence
  seen,     \* seenMessageOrder
  spent,    \* attempts used of the recovery policy
  sent,     \* every message under way to the manager; none is ever used up
  applied,  \* history: the messages whose receipt changed the state
  asked,    \* history: reconnect requests since the session last connected
  over      \* history: the sessions that were closed or have failed

managerVars ==
  <<state, session, started, sequence, latest, seen, spent, sent, applied, asked, over>>

SessionInit ==
  /\ state = "idle"
  /\ session = NoSession
  /\ started = 0
  /\ sequence = 0
  /\ latest = -1
  /\ seen = <<>>
  /\ spent = 0
  /\ sent = {}
  /\ applied = {}
  /\ asked = 0
  /\ over = {}

\* Mutant: a session that has failed may still be reconnected.
Transitions_ErrorReconnects ==
  [idle         |-> {"preparing"},
   preparing    |-> {"negotiating", "error", "closing"},
   negotiating  |-> {"connected", "reconnecting", "error", "closing"},
   connected    |-> {"reconnecting", "closing", "error"},
   reconnecting |-> {"negotiating", "connected", "closing", "error"},
   closing      |-> {"closed"},
   closed       |-> {"preparing"},
   error        |-> {"preparing", "closed", "reconnecting"}]

\* transitions: the states that may follow each state.
Transitions ==
  [idle         |-> {"preparing"},
   preparing    |-> {"negotiating", "error", "closing"},
   negotiating  |-> {"connected", "reconnecting", "error", "closing"},
   connected    |-> {"reconnecting", "closing", "error"},
   reconnecting |-> {"negotiating", "connected", "closing", "error"},
   closing      |-> {"closed"},
   closed       |-> {"preparing"},
   error        |-> {"preparing", "closed"}]

\* The states in which fail() and close() do something.
Open == {"preparing", "negotiating", "connected", "reconnecting"}

\* The state a message asks for.
Target == [answer |-> "connected", reconnect |-> "reconnecting", close |-> "closing"]

StateChanging(m) == m.kind # "other"

\* The message has its effect: transition() does not throw.
Moves(m) == m.kind \in DOMAIN Target /\ Target[m.kind] \in Transitions[state]

Seen == {seen[i] : i \in 1 .. Len(seen)}

\* rememberMessage(): the window drops its oldest message.
Remember(m) ==
  IF Len(seen) < Window THEN Append(seen, m) ELSE Tail(Append(seen, m))

\* History: the session is over when it is closed or has failed.
Ends ==
  over' = IF state' \in {"closed", "error"} /\ session # NoSession
          THEN over \cup {session} ELSE over

Forget ==
  /\ sequence' = 0
  /\ latest' = -1
  /\ seen' = <<>>
-----------------------------------------------------------------------------
StartSession ==
  /\ "preparing" \in Transitions[state] /\ started < MaxSessions
  /\ state' = "negotiating"
  /\ started' = started + 1
  /\ session' = started'
  /\ Forget
  /\ spent' = 0
  /\ asked' = 0
  /\ UNCHANGED <<sent, applied, over>>

\* start() throws on its options: on the capabilities, and the manager is left
\* "preparing" with the session it had, or on the launch request, and the
\* session is there but nothing was offered.
StartRejected ==
  /\ "preparing" \in Transitions[state] /\ started < MaxSessions
  /\ spent' = 0
  /\ \/ /\ state' = "preparing"
        /\ UNCHANGED <<session, started, sequence, latest, seen, asked>>
     \/ /\ state' = "negotiating"
        /\ started' = started + 1
        /\ session' = started'
        /\ Forget
        /\ asked' = 0
  /\ UNCHANGED <<sent, applied, over>>

\* A message of the current session is sent.  Those of an earlier session may
\* still arrive, and those still to be sent would be refused like them.
Send(m) ==
  /\ m.of = session /\ m \notin sent /\ Cardinality(sent) < MaxMessages
  /\ StateChanging(m) =>
       \A n \in sent : n.of = session /\ StateChanging(n) => n.number < m.number
  /\ sent' = sent \cup {m}
  /\ UNCHANGED <<state, session, started, sequence, latest, seen, spent, applied, asked, over>>

\* Mutant: a duplicate is recognised by the window of remembered ids alone.
Stale_WindowOnly(m) == FALSE

\* A state-changing message that a later one has overtaken.
Stale(m) == StateChanging(m) /\ m.number <= latest

\* receive().  A message of another session is refused, one that is remembered
\* ignored.  A message whose transition is illegal throws, after it was counted.
Receive(m) ==
  /\ m.of = session /\ m \notin Seen
  /\ seen' = Remember(m)
  /\ IF Stale(m)
     THEN UNCHANGED <<state, latest, sequence, spent, applied, asked>>
     ELSE /\ latest' = IF StateChanging(m) THEN m.number ELSE latest
          /\ sequence' = IF m.number > sequence THEN m.number ELSE sequence
          /\ IF Moves(m)
             THEN /\ state' = IF m.kind = "close" THEN "closed" ELSE Target[m.kind]
                  /\ applied' = applied \cup {m}
                  /\ spent' = IF m.kind = "answer" THEN 0 ELSE spent
                  /\ asked' = IF m.kind = "answer" THEN 0 ELSE asked
             ELSE UNCHANGED <<state, applied, spent, asked>>
  /\ Ends
  /\ UNCHANGED <<session, started, sent>>

\* Mutant: the policy's limit is not looked at.
RequestReconnect_Unlimited ==
  /\ state \in {"connected", "reconnecting"}
  /\ state' = "reconnecting"
  /\ spent' = spent + 1
  /\ sequence' = sequence + 1
  /\ asked' = asked + 1
  /\ Ends
  /\ UNCHANGED <<session, started, latest, seen, sent, applied>>

RequestReconnect ==
  /\ state \in {"connected", "reconnecting"}
  /\ IF spent < MaxRequests
     THEN /\ state' = "reconnecting"
          /\ spent' = spent + 1
          /\ sequence' = sequence + 1
          /\ asked' = asked + 1
     ELSE /\ state' = "error"
          /\ UNCHANGED <<spent, sequence, asked>>
  /\ Ends
  /\ UNCHANGED <<session, started, latest, seen, sent, applied>>

FailSession ==
  /\ state \in Open
  /\ state' = "error"
  /\ Ends
  /\ UNCHANGED <<session, started, sequence, latest, seen, spent, sent, applied, asked>>

CloseSession ==
  /\ state \in Open
  /\ state' = "closed"
  /\ Ends
  /\ UNCHANGED <<session, started, sequence, latest, seen, spent, sent, applied, asked>>

ResetSession ==
  /\ state \in {"closed", "error"}
  /\ state' = "idle"
  /\ session' = NoSession
  /\ Forget
  /\ spent' = 0
  /\ UNCHANGED <<started, sent, applied, asked, over>>

SessionNext ==
  \/ StartSession
  \/ StartRejected
  \/ \E m \in Message : Send(m)
  \/ \E m \in sent : Receive(m)
  \/ RequestReconnect
  \/ FailSession
  \/ CloseSession
  \/ ResetSession

SessionSpec == SessionInit /\ [][SessionNext]_managerVars
-----------------------------------------------------------------------------
SessionTypeOK ==
  /\ state \in SessionState
  /\ session \in 0 .. started
  /\ started \in 0 .. MaxSessions
  /\ sequence \in Nat
  /\ latest \in -1 .. MaxNumber
  /\ seen \in Seq(Message)
  /\ spent \in 0 .. MaxRequests
  /\ sent \subseteq Message
  /\ applied \subseteq sent
  /\ over \subseteq 1 .. started
  /\ asked \in Nat

\* Messages have their effect in the order they were sent, each at most once,
\* however late, often and shuffled they arrive, and however small the window of
\* remembered ids is.
EffectsInOrder ==
  [][\A m \in applied' \ applied, n \in applied : n.of = m.of => n.number < m.number]_managerVars

\* A session that was closed or has failed is over: no late message, no answer
\* to a reconnect request and no rejected start() of another brings it back.
StaysOver == session \in over => state \in {"closed", "error", "preparing"}

\* docs/architecture.md, "attempt limits, and success resets": a session asks
\* for at most maxAttempts reconnections between two times it is connected.
RequestsBounded == asked <= MaxRequests

\* A session ends for good, and does not ask for ever.
SessionIsBounded == StaysOver /\ RequestsBounded
=============================================================================
