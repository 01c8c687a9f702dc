---------------------- MODULE PlayerAndSignalingProofs ----------------------
(***************************************************************************)
(* Proofs about the in-memory signaling service, for any number of         *)
(* sessions, participants, tickets, sockets and messages and any limits,   *)
(* and about the player page, for any number of submissions of its form    *)
(* and of wake lock requests.                                              *)
(*                                                                         *)
(* SignalingBroker comes first: its type invariant, its safety invariants  *)
(* and the refinement of Rendezvous.  Then SignalingServer: the service    *)
(* uses the broker as the broker is meant to be used, whatever its sockets *)
(* do, so that what is proved of the broker holds in the service; and its  *)
(* sockets are served whole.  PlayerPage is last.                          *)
(***************************************************************************)
EXTENDS SignalingServer, PlayerPage, FiniteSetTheorems, TLAPS

(***************************************************************************)
(* The inductive invariant.  The safety invariants speak of what the Map   *)
(* reaches now; they survive only because of what holds of every object,   *)
(* reachable or not.                                                       *)
(***************************************************************************)

\* A closure that exists captured an object of its own session.
CaptureInv ==
  \A h \in Handle : phase[h] # "new" =>
    /\ sessionOf[h] \in Session /\ roleOf[h] \in Role /\ objectOf[h] \in Handle
    /\ phase[objectOf[h]] # "new"
    /\ Created(objectOf[h])
    /\ sessionOf[objectOf[h]] = sessionOf[h]

\* Nothing has been built yet under the name of a closure that does not exist.
FreshInv ==
  \A h \in Handle : phase[h] = "new" =>
    /\ participants[h] = AllFree /\ h \notin dropped
    /\ objectOf[h] = None

\* The Map gives a session id an object that was created for that id.
MapInv ==
  \A s \in Session : sessions[s] # None =>
    /\ phase[sessions[s]] # "new"
    /\ Created(sessions[s])
    /\ sessionOf[sessions[s]] = s

\* Whoever holds a role in an object captured that object in that role, and no
\* delivery to it has failed.
SeatInv ==
  \A o \in Handle, r \in Role : participants[o][r] # None =>
    /\ phase[participants[o][r]] # "new"
    /\ objectOf[participants[o][r]] = o
    /\ roleOf[participants[o][r]] = r
    /\ participants[o][r] \notin dropped

\* What the Map reaches has not detached.
LiveInv ==
  \A s \in Session : sessions[s] # None =>
    \A r \in Role : participants[sessions[s]][r] # None =>
      phase[participants[sessions[s]][r]] = "attached"

BrokerInv ==
  BrokerTypeOK /\ CaptureInv /\ FreshInv /\ MapInv /\ SeatInv /\ LiveInv

LEMMA BrokerInitInv == BrokerInit => BrokerInv
  BY BrokerAssumption
  DEF BrokerInit, BrokerInv, BrokerTypeOK, CaptureInv, FreshInv, MapInv, SeatInv,
      LiveInv, AllFree, Role

\* Sweeping only forgets: a session keeps its object or loses it.
LEMMA SweptForgets ==
  ASSUME BrokerTypeOK
  PROVE  /\ Swept \in [Session -> Handle \cup {None}]
         /\ \A s \in Session : Swept[s] # None => Swept[s] = sessions[s]
  BY DEF BrokerTypeOK, Swept, Sweepable

LEMMA AttachInv ==
  ASSUME BrokerInv, NEW h \in Handle, NEW s \in Session, NEW r \in Role,
         Attach(h, s, r)
  PROVE  BrokerInv'
  <1> DEFINE o == IF Swept[s] = None THEN h ELSE Swept[s]
  <1>1. /\ Swept \in [Session -> Handle \cup {None}]
        /\ \A t \in Session : Swept[t] # None => Swept[t] = sessions[t]
    BY SweptForgets DEF BrokerInv
  <1>2. /\ phase[h] = "new"
        /\ sessions' = [Swept EXCEPT ![s] = o]
        /\ participants' = [participants EXCEPT ![o][r] = h]
        /\ idle' = [idle EXCEPT ![o] = 0]
        /\ objectOf' = [objectOf EXCEPT ![h] = o]
        /\ phase' = [phase EXCEPT ![h] = "attached"]
        /\ sessionOf' = [sessionOf EXCEPT ![h] = s]
        /\ roleOf' = [roleOf EXCEPT ![h] = r]
        /\ dropped' = dropped /\ life' = life
    BY DEF Attach
  <1>3. o \in Handle /\ (o # h => o = sessions[s])
    BY <1>1 DEF BrokerInv, BrokerTypeOK
  <1> HIDE DEF o
  <1>4. h # None /\ None \notin Handle
    BY BrokerAssumption
  <1>5. BrokerTypeOK'
    BY <1>1, <1>2, <1>3, BrokerAssumption DEF BrokerInv, BrokerTypeOK
  <1>6. CaptureInv'
    BY <1>2, <1>3, <1>4 DEF BrokerInv, BrokerTypeOK, CaptureInv, FreshInv, MapInv, Created
  <1>7. FreshInv'
    BY <1>2, <1>3, <1>4 DEF BrokerInv, BrokerTypeOK, FreshInv, MapInv
  <1>8. MapInv'
    BY <1>1, <1>2, <1>3, <1>4 DEF BrokerInv, BrokerTypeOK, FreshInv, MapInv, Created
  <1>9. SeatInv'
    BY <1>2, <1>3, <1>4 DEF BrokerInv, BrokerTypeOK, FreshInv, SeatInv, AllFree
  <1>10. LiveInv'
    BY <1>1, <1>2, <1>3, <1>4
    DEF BrokerInv, BrokerTypeOK, FreshInv, MapInv, SeatInv, LiveInv, AllFree
  <1>11. QED
    BY <1>5, <1>6, <1>7, <1>8, <1>9, <1>10 DEF BrokerInv

LEMMA SendInv ==
  ASSUME BrokerInv, NEW h \in Attached, NEW failing \in SUBSET Recipients(h),
         Send(h, failing)
  PROVE  BrokerInv'
  <1> DEFINE o == objectOf[h]
  <1>1. h \in Handle /\ phase[h] # "new" /\ o \in Handle
    BY DEF Attached, BrokerInv, BrokerTypeOK, CaptureInv
  <1>2. failing \subseteq Handle
    BY <1>1 DEF Recipients, BrokerInv, BrokerTypeOK
  <1>3. /\ participants' \in [Handle -> [Role -> Handle \cup {None}]]
        /\ \A p \in Handle, r \in Role :
             /\ participants'[p][r] \in {participants[p][r], None}
             /\ p = o /\ r # roleOf[h] /\ participants[p][r] \in failing
                  => participants'[p][r] = None
             /\ p # o => participants'[p] = participants[p]
    BY <1>1 DEF Send, BrokerInv, BrokerTypeOK
  <1>4. /\ sessions' = sessions /\ phase' = phase /\ sessionOf' = sessionOf
        /\ roleOf' = roleOf /\ objectOf' = objectOf /\ life' = life
        /\ dropped' = dropped \cup failing
        /\ idle' = [idle EXCEPT ![o] = 0]
    BY DEF Send, closureVars
  <1>5. BrokerTypeOK'
    BY <1>1, <1>2, <1>3, <1>4, BrokerAssumption DEF BrokerInv, BrokerTypeOK
  <1>6. CaptureInv' /\ MapInv'
    BY <1>4 DEF BrokerInv, CaptureInv, MapInv, Created
  <1>7. \A g \in failing : /\ g # None /\ phase[g] # "new" /\ objectOf[g] = o
                           /\ participants[o][roleOf[g]] = g /\ roleOf[g] # roleOf[h]
    BY <1>1, BrokerAssumption DEF Recipients, BrokerInv, SeatInv
  <1>8. FreshInv'
    BY <1>1, <1>3, <1>4, <1>7, ZenonT(60) DEF BrokerInv, FreshInv, CaptureInv
  <1>9. SeatInv'
    BY <1>1, <1>3, <1>4, <1>7 DEF BrokerInv, SeatInv
  <1>10. LiveInv'
    BY <1>1, <1>3, <1>4 DEF BrokerInv, BrokerTypeOK, LiveInv
  <1>11. QED
    BY <1>5, <1>6, <1>8, <1>9, <1>10 DEF BrokerInv

LEMMA DetachInv ==
  ASSUME BrokerInv, NEW h \in Attached, Detach(h)
  PROVE  BrokerInv'
  <1> DEFINE o == objectOf[h]
  <1>1. /\ h \in Handle /\ phase[h] = "attached"
        /\ o \in Handle /\ sessionOf[h] \in Session /\ roleOf[h] \in Role
    BY DEF Attached, BrokerInv, CaptureInv
  <1>2. /\ phase' = [phase EXCEPT ![h] = "detached"]
        /\ sessionOf' = sessionOf /\ roleOf' = roleOf /\ objectOf' = objectOf
        /\ dropped' = dropped /\ life' = life
    BY DEF Detach
  <1>3. CASE sessions[sessionOf[h]] = o
    <2>1. /\ participants' = [participants EXCEPT ![o] = Vacated(h)]
          /\ idle' = [idle EXCEPT ![o] = 0]
          /\ sessions' = [sessions EXCEPT ![sessionOf[h]] =
                            IF Vacated(h) = AllFree THEN None ELSE @]
      BY <1>3 DEF Detach
    <2>2. /\ participants' \in [Handle -> [Role -> Handle \cup {None}]]
          /\ \A p \in Handle, r \in Role :
               /\ participants'[p][r] \in {participants[p][r], None}
               /\ p = o /\ r = roleOf[h] => participants'[p][r] = None
               /\ p # o => participants'[p] = participants[p]
      BY <1>1, <2>1 DEF Vacated, BrokerInv, BrokerTypeOK
    <2>3. /\ sessions' \in [Session -> Handle \cup {None}]
          /\ \A s \in Session : sessions'[s] # None => sessions'[s] = sessions[s]
      BY <1>1, <2>1 DEF BrokerInv, BrokerTypeOK
    <2>4. BrokerTypeOK'
      BY <1>1, <1>2, <2>1, <2>2, <2>3, BrokerAssumption DEF BrokerInv, BrokerTypeOK
    <2>5. CaptureInv' /\ MapInv'
      BY <1>1, <1>2, <2>3 DEF BrokerInv, BrokerTypeOK, CaptureInv, MapInv, Created
    <2>6. FreshInv'
      BY <1>1, <1>2, <2>2 DEF BrokerInv, BrokerTypeOK, FreshInv, CaptureInv
    <2>7. SeatInv'
      BY <1>1, <1>2, <2>2 DEF BrokerInv, BrokerTypeOK, SeatInv
    <2>8. LiveInv'
      BY <1>1, <1>2, <2>2, <2>3 DEF BrokerInv, BrokerTypeOK, SeatInv, LiveInv
    <2>9. QED
      BY <2>4, <2>5, <2>6, <2>7, <2>8 DEF BrokerInv
  <1>4. CASE sessions[sessionOf[h]] # o
    <2>1. participants' = participants /\ idle' = idle /\ sessions' = sessions
      BY <1>4 DEF Detach
    <2>2. \A s \in Session : sessions[s] # o
      BY <1>1, <1>4, BrokerAssumption DEF BrokerInv, MapInv, CaptureInv
    <2>3. BrokerTypeOK' /\ CaptureInv' /\ FreshInv' /\ MapInv' /\ SeatInv'
      BY <1>1, <1>2, <2>1
      DEF BrokerInv, BrokerTypeOK, CaptureInv, FreshInv, MapInv, SeatInv, Created
    <2>4. LiveInv'
      BY <1>1, <1>2, <2>1, <2>2 DEF BrokerInv, BrokerTypeOK, SeatInv, LiveInv
    <2>5. QED
      BY <2>3, <2>4 DEF BrokerInv
  <1>5. QED
    BY <1>3, <1>4

LEMMA SweepInv == BrokerInv /\ Sweep => BrokerInv'
  <1> SUFFICES ASSUME BrokerInv, Sweep PROVE BrokerInv'
    OBVIOUS
  <1>1. /\ sessions' \in [Session -> Handle \cup {None}]
        /\ \A s \in Session : sessions'[s] # None => sessions'[s] = sessions[s]
    BY SweptForgets DEF Sweep, BrokerInv
  <1>2. UNCHANGED <<participants, idle, phase, sessionOf, roleOf, objectOf, dropped, life>>
    BY DEF Sweep, closureVars
  <1>3. BrokerTypeOK' /\ CaptureInv' /\ FreshInv' /\ SeatInv'
    BY <1>1, <1>2 DEF BrokerInv, BrokerTypeOK, CaptureInv, FreshInv, SeatInv, Created
  <1>4. MapInv' /\ LiveInv'
    BY <1>1, <1>2 DEF BrokerInv, MapInv, LiveInv, Created
  <1>5. QED
    BY <1>3, <1>4 DEF BrokerInv

\* Time and tickets touch neither the objects nor the closures.
LEMMA ClockInv ==
  ASSUME BrokerInv,
         Tick \/ \E s \in Session, r \in Role, ttl \in TicketTtls : IssueTicket(s, r, ttl)
  PROVE  BrokerInv'
  <1>1. UNCHANGED <<sessions, participants, phase, sessionOf, roleOf, objectOf, dropped>>
    BY DEF Tick, IssueTicket, closureVars
  <1>2. idle' \in [Handle -> 0 .. SessionTtl + 1]
    BY BrokerAssumption DEF Tick, IssueTicket, BrokerInv, BrokerTypeOK
  <1>3. life' \in [Session -> [Role -> Nat]]
    <2>1. CASE Tick
      <3>1. \A s \in Session, r \in Role :
              life[s][r] \in Nat /\ (life[s][r] # 0 => life[s][r] - 1 \in Nat)
        BY DEF BrokerInv, BrokerTypeOK
      <3>2. life' = [s \in Session |->
                      [r \in Role |-> IF life[s][r] = 0 THEN 0 ELSE life[s][r] - 1]]
        BY <2>1 DEF Tick
      <3>3. QED
        BY <3>1, <3>2
    <2>2. ASSUME NEW s \in Session, NEW r \in Role, NEW ttl \in TicketTtls,
                 IssueTicket(s, r, ttl)
          PROVE  life' \in [Session -> [Role -> Nat]]
      BY <2>2, BrokerAssumption DEF IssueTicket, BrokerInv, BrokerTypeOK
    <2>3. QED
      BY <2>1, <2>2
  <1>4. BrokerTypeOK'
    BY <1>1, <1>2, <1>3 DEF BrokerInv, BrokerTypeOK
  <1>5. CaptureInv' /\ FreshInv' /\ MapInv' /\ SeatInv' /\ LiveInv'
    BY <1>1 DEF BrokerInv, CaptureInv, FreshInv, MapInv, SeatInv, LiveInv, Created
  <1>6. QED
    BY <1>4, <1>5 DEF BrokerInv

LEMMA BrokerNextInv == BrokerInv /\ [BrokerNext]_brokerVars => BrokerInv'
  <1> SUFFICES ASSUME BrokerInv, [BrokerNext]_brokerVars PROVE BrokerInv'
    OBVIOUS
  <1>1. CASE UNCHANGED brokerVars
    BY <1>1
    DEF brokerVars, closureVars, BrokerInv, BrokerTypeOK, CaptureInv, FreshInv, MapInv,
        SeatInv, LiveInv, Created
  <1>2. CASE \E s \in Session, r \in Role, ttl \in TicketTtls : IssueTicket(s, r, ttl)
    BY <1>2, ClockInv
  <1>3. CASE \E h \in Handle, s \in Session, r \in Role : Attach(h, s, r)
    BY <1>3, AttachInv
  <1>4. CASE \E s \in Session, r \in Role : AttachRejected(s, r)
    BY <1>4, SweepInv DEF AttachRejected
  <1>5. CASE \E h \in Attached : \E failing \in SUBSET Recipients(h) : Send(h, failing)
    BY <1>5, SendInv
  <1>6. CASE \E h \in Attached : Detach(h)
    BY <1>6, DetachInv
  <1>7. CASE Sweep
    BY <1>7, SweepInv
  <1>8. CASE Tick
    BY <1>8, ClockInv
  <1>9. QED
    BY <1>1, <1>2, <1>3, <1>4, <1>5, <1>6, <1>7, <1>8 DEF BrokerNext

\* Every reachable state of the broker satisfies the inductive invariant.
THEOREM BrokerInvariance == BrokerSpec => []BrokerInv
  BY BrokerInitInv, BrokerNextInv, PTL DEF BrokerSpec

\* Type correctness of the broker, for any sessions, participants and limits.
THEOREM BrokerTypeCorrect == BrokerSpec => []BrokerTypeOK
  <1>1. BrokerInv => BrokerTypeOK
    BY DEF BrokerInv
  <1>2. QED
    BY <1>1, BrokerInvariance, PTL

\* Whoever the Map reaches under (session, role) can be talked to: it attached
\* for that pair, has not detached and no delivery to it has failed.
THEOREM RoutingIsSound == BrokerSpec => []RoutingSound
  <1>1. BrokerInv => RoutingSound
    BY DEF BrokerInv, BrokerTypeOK, CaptureInv, MapInv, SeatInv, LiveInv, RoutingSound, Live
  <1>2. QED
    BY <1>1, BrokerInvariance, PTL

\* Messages stay inside the sender's session and go to the other role, and
\* through the Map they never reach a detached participant.
THEOREM DeliveryIsScoped == BrokerSpec => []DeliveryScoped
  <1>1. ASSUME BrokerInv, NEW h \in Attached, NEW g \in Recipients(h)
        PROVE  /\ sessionOf[g] = sessionOf[h] /\ roleOf[g] # roleOf[h]
               /\ sessions[sessionOf[h]] = objectOf[h] => phase[g] = "attached"
    <2>1. /\ h \in Handle /\ objectOf[h] \in Handle /\ sessionOf[h] \in Session
          /\ sessionOf[objectOf[h]] = sessionOf[h] /\ objectOf[h] # None
      BY <1>1, BrokerAssumption DEF Attached, BrokerInv, CaptureInv
    <2>2. PICK r \in Role \ {roleOf[h]} : g = participants[objectOf[h]][r]
      BY DEF Recipients
    <2>3. g # None /\ g \in Handle
      BY <1>1, <2>1, <2>2 DEF Recipients, BrokerInv, BrokerTypeOK
    <2>4. phase[g] # "new" /\ objectOf[g] = objectOf[h] /\ roleOf[g] = r
      BY <1>1, <2>1, <2>2, <2>3 DEF BrokerInv, SeatInv
    <2>5. sessionOf[objectOf[g]] = sessionOf[g]
      BY <1>1, <2>3, <2>4 DEF BrokerInv, CaptureInv
    <2>6. sessions[sessionOf[h]] = objectOf[h] => phase[g] = "attached"
      BY <1>1, <2>1, <2>2, <2>3 DEF BrokerInv, LiveInv
    <2>7. QED
      BY <2>1, <2>2, <2>4, <2>5, <2>6
  <1>2. BrokerInv => DeliveryScoped
    BY <1>1 DEF DeliveryScoped
  <1>3. QED
    BY <1>2, BrokerInvariance, PTL

LEMMA LiveIsFinite == ASSUME NEW map PROVE IsFiniteSet(Live(map))
  BY BrokerAssumption, FS_Subset DEF Live

LEMMA CapacityStep ==
  ASSUME BrokerInv, CapacityBound, [BrokerNext]_brokerVars
  PROVE  CapacityBound'
  <1>1. CASE \E h \in Handle, s \in Session, r \in Role : Attach(h, s, r)
    <2>1. PICK h \in Handle, s \in Session, r \in Role : Attach(h, s, r)
      BY <1>1
    <2>2. /\ Swept \in [Session -> Handle \cup {None}]
          /\ \A t \in Session : Swept[t] # None => Swept[t] = sessions[t]
      BY SweptForgets DEF BrokerInv
    <2>3. sessions' = [Swept EXCEPT ![s] = IF Swept[s] = None THEN h ELSE Swept[s]]
      BY <2>1 DEF Attach
    <2>4. CASE Swept[s] = None
      <3>1. Cardinality(Live(Swept)) < MaxSessions
        BY <2>1, <2>4 DEF Attach, RoleFree, HasRoom
      <3>2. Live(sessions') = Live(Swept) \cup {s} /\ s \notin Live(Swept)
        BY <2>2, <2>3, <2>4, BrokerAssumption DEF Live
      <3>3. Cardinality(Live(sessions')) = Cardinality(Live(Swept)) + 1
        BY <3>2, LiveIsFinite, FS_AddElement
      <3>4. QED
        BY <3>1, <3>3, LiveIsFinite, FS_CardinalityType, BrokerAssumption
        DEF CapacityBound
    <2>5. CASE Swept[s] # None
      <3>1. Live(sessions') \subseteq Live(sessions)
        BY <2>2, <2>3, <2>5 DEF Live
      <3>2. Cardinality(Live(sessions')) <= Cardinality(Live(sessions))
        BY <3>1, LiveIsFinite, FS_Subset
      <3>3. QED
        BY <3>2, LiveIsFinite, FS_CardinalityType, BrokerAssumption DEF CapacityBound
    <2>6. QED
      BY <2>4, <2>5
  <1>2. CASE ~ \E h \in Handle, s \in Session, r \in Role : Attach(h, s, r)
    <2>1. \A s \in Session : sessions'[s] # None => sessions[s] # None
      <3>1. CASE Sweep \/ \E s \in Session, r \in Role : AttachRejected(s, r)
        BY <3>1, SweptForgets DEF Sweep, AttachRejected, BrokerInv
      <3>2. CASE \E h \in Attached : Detach(h)
        BY <3>2 DEF Detach, BrokerInv, BrokerTypeOK
      <3>3. CASE sessions' = sessions
        BY <3>3
      <3>4. QED
        BY <1>2, <3>1, <3>2, <3>3
        DEF BrokerNext, brokerVars, IssueTicket, Send, Tick
    <2>2. Live(sessions') \subseteq Live(sessions)
      BY <2>1 DEF Live
    <2>3. Cardinality(Live(sessions')) <= Cardinality(Live(sessions))
      BY <2>2, LiveIsFinite, FS_Subset
    <2>4. QED
      BY <2>3, LiveIsFinite, FS_CardinalityType, BrokerAssumption DEF CapacityBound
  <1>3. QED
    BY <1>1, <1>2

\* The Map never holds more than maxSessions sessions.
THEOREM CapacityIsBounded == BrokerSpec => []CapacityBound
  <1>1. BrokerInit => CapacityBound
    <2>1. ASSUME BrokerInit PROVE Live(sessions) = {}
      BY <2>1 DEF BrokerInit, Live
    <2>2. QED
      BY <2>1, FS_EmptySet, BrokerAssumption DEF CapacityBound
  <1>2. BrokerInv /\ CapacityBound /\ [BrokerNext]_brokerVars => CapacityBound'
    BY CapacityStep
  <1>3. QED
    BY <1>1, <1>2, BrokerInvariance, PTL DEF BrokerSpec
-----------------------------------------------------------------------------
(***************************************************************************)
(* The refinement of Rendezvous, one lemma per kind of step.               *)
(***************************************************************************)

LEMMA SweptSeats ==
  ASSUME BrokerInv, NEW s \in Session
  PROVE  /\ Swept[s] # None => Swept[s] = sessions[s] /\ s \notin Expired
         /\ Swept[s] = None => s \in Expired \/ Seats[s] = AllFree
  BY DEF Swept, Sweepable, Expired, Live, Seats, BrokerInv, BrokerTypeOK

\* Distinct sessions have distinct objects, and no closure yet to come has one.
LEMMA ObjectsDistinct ==
  ASSUME BrokerInv, NEW s \in Session, NEW t \in Session, s # t,
         sessions[s] # None
  PROVE  sessions[s] # sessions[t]
  BY DEF BrokerInv, MapInv

LEMMA AttachRefines ==
  ASSUME BrokerInv, NEW h \in Handle, NEW s \in Session, NEW r \in Role,
         Attach(h, s, r)
  PROVE  Promise!Join(h, s, r)
  <1> DEFINE o == IF Swept[s] = None THEN h ELSE Swept[s]
  <1>1. /\ phase[h] = "new"
        /\ RoleFree(s, r)
        /\ sessions' = [Swept EXCEPT ![s] = o]
        /\ participants' = [participants EXCEPT ![o][r] = h]
        /\ idle' = [idle EXCEPT ![o] = 0]
        /\ phase' = [phase EXCEPT ![h] = "attached"]
    BY DEF Attach
  <1>2. Swept \in [Session -> Handle \cup {None}]
    BY SweptForgets DEF BrokerInv
  <1>3. o \in Handle /\ None \notin Handle
    BY <1>2, BrokerAssumption
  <1>4. \A t \in Session : t # s /\ Swept[t] # None => Swept[t] = sessions[t] /\ Swept[t] # o
    BY <1>1, SweptSeats, ObjectsDistinct DEF BrokerInv, MapInv
  <1>5. /\ sessions' \in [Session -> Handle \cup {None}]
        /\ sessions'[s] = o
        /\ \A t \in Session : t # s => sessions'[t] = Swept[t]
    BY <1>1, <1>2, <1>3
  <1>6. /\ \A p \in Handle : p # o => participants'[p] = participants[p] /\ idle'[p] = idle[p]
        /\ participants'[o] = [participants[o] EXCEPT ![r] = h]
        /\ idle'[o] = 0
    BY <1>1, <1>3 DEF BrokerInv, BrokerTypeOK
  <1>7. participants[o] = Promise!Cleared(Expired)[s]
    <2>1. CASE Swept[s] = None
      <3>1. participants[o] = AllFree
        BY <2>1, <1>1 DEF BrokerInv, FreshInv
      <3>2. Promise!Cleared(Expired)[s] = AllFree
        BY <2>1, SweptSeats DEF Promise!Cleared, Promise!Empty, AllFree
      <3>3. QED
        BY <3>1, <3>2
    <2>2. CASE Swept[s] # None
      <3>1. s \notin Expired /\ o = sessions[s] /\ o # None
        BY <2>2, SweptSeats
      <3>2. Promise!Cleared(Expired)[s] = participants[o]
        BY <3>1 DEF Promise!Cleared, Seats
      <3>3. QED
        BY <3>2
    <2>3. QED
      BY <2>1, <2>2
  <1> HIDE DEF o
  <1>8. \A t \in Session : t # s => Seats'[t] = Promise!Cleared(Expired)[t]
    <2> SUFFICES ASSUME NEW t \in Session, t # s
                 PROVE  Seats'[t] = Promise!Cleared(Expired)[t]
      OBVIOUS
    <2>1. CASE Swept[t] = None
      BY <2>1, <1>5, SweptSeats DEF Seats, Promise!Cleared, Promise!Empty, AllFree
    <2>2. CASE Swept[t] # None
      <3>1. Seats'[t] = participants[Swept[t]]
        BY <2>2, <1>2, <1>4, <1>5, <1>6 DEF Seats
      <3>2. Promise!Cleared(Expired)[t] = participants[sessions[t]]
        BY <2>2, SweptSeats DEF Promise!Cleared, Seats
      <3>3. QED
        BY <3>1, <3>2, <2>2, <1>4
    <2>3. QED
      BY <2>1, <2>2
  <1>9. Seats'[s] = [Promise!Cleared(Expired)[s] EXCEPT ![r] = h]
    BY <1>3, <1>5, <1>6, <1>7 DEF Seats
  <1>10. Seats' = [Promise!Cleared(Expired) EXCEPT ![s][r] = h]
    BY <1>8, <1>9, ZenonT(60) DEF Seats, Promise!Cleared
  <1>11. Promise!Cleared(Expired)[s][r] = None
    <2>1. CASE Swept[s] = None
      BY <2>1, SweptSeats DEF Promise!Cleared, Promise!Empty, AllFree
    <2>2. CASE Swept[s] # None
      BY <2>2, <1>1, <1>7 DEF RoleFree, o
    <2>3. QED
      BY <2>1, <2>2
  <1>12. Entered' = Entered \cup {h} /\ h \notin Entered
    BY <1>1 DEF Entered, BrokerInv, BrokerTypeOK
  <1>13. Expired' = {}
    <2>1. ASSUME NEW t \in Session, sessions'[t] # None
          PROVE  ~(idle'[sessions'[t]] > SessionTtl)
      <3>1. CASE t = s
        BY <3>1, <1>5, <1>6, BrokerAssumption
      <3>2. CASE t # s
        <4>1. /\ Swept[t] # None /\ sessions'[t] = Swept[t]
              /\ Swept[t] = sessions[t] /\ Swept[t] # o /\ Swept[t] \in Handle
          BY <2>1, <3>2, <1>2, <1>4, <1>5
        <4>2. idle'[sessions'[t]] = idle[sessions[t]]
          BY <4>1, <1>6
        <4>3. t \notin Expired
          BY <4>1, SweptSeats
        <4>4. QED
          BY <4>1, <4>2, <4>3 DEF Expired, Live
      <3>3. QED
        BY <3>1, <3>2
    <2>2. QED
      BY <2>1 DEF Expired, Live
  <1>14. QED
    BY <1>10, <1>11, <1>12, <1>13 DEF Promise!Join

\* Activity in an object the Map still has: the seats of some roles are lost
\* and the session is young again.
LEMMA ReleaseRefines ==
  ASSUME BrokerInv, NEW s \in Session, NEW R \in SUBSET Role,
         sessions[s] # None,
         idle' = [idle EXCEPT ![sessions[s]] = 0],
         participants' = [participants EXCEPT ![sessions[s]] =
                            [r \in Role |-> IF r \in R THEN None ELSE @[r]]],
         sessions' \in [Session -> Handle \cup {None}],
         \A t \in Session : t # s => sessions'[t] = sessions[t],
         \/ sessions'[s] = sessions[s]
         \/ sessions'[s] = None /\ participants'[sessions[s]] = AllFree,
         Entered' = Entered
  PROVE  Promise!Release(s, R)
  <1>1. sessions[s] \in Handle
    BY DEF BrokerInv, BrokerTypeOK
  <1>2. \A t \in Session : t # s => sessions[t] # sessions[s]
    BY ObjectsDistinct
  <1>3. participants'[sessions[s]] =
          [r \in Role |-> IF r \in R THEN None ELSE participants[sessions[s]][r]]
    BY <1>1 DEF BrokerInv, BrokerTypeOK
  <1>4. Seats'[s] = [r \in Role |-> IF r \in R THEN None ELSE Seats[s][r]]
    BY <1>1, <1>3, BrokerAssumption DEF Seats
  <1>5. \A t \in Session : t # s => Seats'[t] = Seats[t]
    BY <1>1, <1>2 DEF Seats, BrokerInv, BrokerTypeOK
  <1>6. Seats' = [Seats EXCEPT ![s] = [r \in Role |-> IF r \in R THEN None ELSE @[r]]]
    <2>1. Seats = [t \in Session |-> Seats[t]] /\ Seats' = [t \in Session |-> Seats'[t]]
      BY DEF Seats
    <2>2. QED
      BY <2>1, <1>4, <1>5
  <1>7. idle'[sessions[s]] = 0
        /\ \A t \in Session : t # s /\ sessions[t] # None => idle'[sessions[t]] = idle[sessions[t]]
    BY <1>1, <1>2 DEF BrokerInv, BrokerTypeOK
  <1>8. Expired' = Expired \ {s}
    BY <1>1, <1>7, BrokerAssumption DEF Expired, Live
  <1>9. QED
    BY <1>6, <1>8 DEF Promise!Release

\* An object the Map does not have is nobody's object in the Map.
LEMMA OrphanSteps ==
  ASSUME BrokerInv, NEW h \in Attached, sessions[sessionOf[h]] # objectOf[h],
         NEW s \in Session
  PROVE  sessions[s] # objectOf[h]
  BY BrokerAssumption DEF Attached, BrokerInv, CaptureInv, MapInv

LEMMA SendRefines ==
  ASSUME BrokerInv, NEW h \in Attached, NEW failing \in SUBSET Recipients(h),
         Send(h, failing)
  PROVE  [Promise!RNext]_(Promise!rvars)
  <1> DEFINE o == objectOf[h]
             R == {r \in Role : r # roleOf[h] /\ participants[o][r] \in failing}
  <1>1. h \in Handle /\ o \in Handle /\ sessionOf[h] \in Session
    BY DEF Attached, BrokerInv, CaptureInv
  <1>2. /\ sessions' = sessions /\ phase' = phase
        /\ idle' = [idle EXCEPT ![o] = 0]
        /\ participants' = [participants EXCEPT ![o] =
                               [r \in Role |-> IF r \in R THEN None ELSE @[r]]]
    BY DEF Send, closureVars
  <1>3. Entered' = Entered
    BY <1>2 DEF Entered
  <1>4. sessions' \in [Session -> Handle \cup {None}]
    BY <1>2 DEF BrokerInv, BrokerTypeOK
  <1> HIDE DEF R
  <1>5. CASE sessions[sessionOf[h]] = o
    <2>1. R \in SUBSET Role /\ o # None
      BY <1>1, BrokerAssumption DEF R
    <2>2. Promise!Release(sessionOf[h], R)
      BY <1>1, <1>2, <1>3, <1>4, <1>5, <2>1, ReleaseRefines
    <2>3. QED
      BY <2>1, <2>2, <1>1 DEF Promise!RNext
  <1>6. CASE sessions[sessionOf[h]] # o
    <2>1. \A s \in Session : sessions[s] # o
      BY <1>6, OrphanSteps
    <2>2. Seats' = Seats /\ Expired' = Expired
      BY <2>1, <1>1, <1>2 DEF Seats, Expired, Live, BrokerInv, BrokerTypeOK
    <2>3. QED
      BY <2>2, <1>3 DEF Promise!rvars
  <1>7. QED
    BY <1>5, <1>6

LEMMA DetachRefines ==
  ASSUME BrokerInv, NEW h \in Attached, Detach(h)
  PROVE  [Promise!RNext]_(Promise!rvars)
  <1> DEFINE o == objectOf[h]
             s == sessionOf[h]
             R == {roleOf[h]}
  <1>1. /\ h \in Handle /\ phase[h] = "attached"
        /\ o \in Handle /\ s \in Session /\ roleOf[h] \in Role
    BY DEF Attached, BrokerInv, CaptureInv
  <1>2. Entered' = Entered
    BY <1>1 DEF Detach, Entered, BrokerInv, BrokerTypeOK
  <1>3. CASE sessions[s] = o
    <2>1. /\ participants' = [participants EXCEPT ![o] = Vacated(h)]
          /\ idle' = [idle EXCEPT ![o] = 0]
          /\ sessions' = [sessions EXCEPT ![s] = IF Vacated(h) = AllFree THEN None ELSE @]
      BY <1>3 DEF Detach
    <2>2. Vacated(h) = [r \in Role |-> IF r \in R THEN None
                                       ELSE participants[o][r]]
      BY <1>1 DEF Vacated, BrokerInv, BrokerTypeOK
    <2>3. participants' = [participants EXCEPT ![o] =
                             [r \in Role |-> IF r \in R THEN None ELSE @[r]]]
      BY <2>1, <2>2
    <2>4. /\ sessions' \in [Session -> Handle \cup {None}]
          /\ \A t \in Session : t # s => sessions'[t] = sessions[t]
          /\ \/ sessions'[s] = sessions[s]
             \/ sessions'[s] = None /\ participants'[o] = AllFree
      BY <1>1, <2>1 DEF BrokerInv, BrokerTypeOK
    <2>5. o # None /\ R \in SUBSET Role
      BY <1>1, BrokerAssumption
    <2>6. idle' = [idle EXCEPT ![o] = 0]
      BY <2>1
    <2> HIDE DEF R, o, s
    <2>7. Promise!Release(s, R)
      BY <1>1, <1>2, <1>3, <2>3, <2>4, <2>5, <2>6, ReleaseRefines
    <2>8. QED
      BY <2>5, <2>7, <1>1 DEF Promise!RNext
  <1>4. CASE sessions[s] # o
    <2>1. Seats' = Seats /\ Expired' = Expired
      BY <1>4 DEF Detach, Seats, Expired, Live
    <2>2. QED
      BY <2>1, <1>2 DEF Promise!rvars
  <1>5. QED
    BY <1>3, <1>4

LEMMA SweepRefines ==
  ASSUME BrokerInv, Sweep
  PROVE  Promise!Clear(Expired)
  <1>1. /\ sessions' = Swept /\ participants' = participants
        /\ idle' = idle /\ phase' = phase
    BY DEF Sweep, closureVars
  <1>2. \A s \in Session : Seats'[s] = Promise!Cleared(Expired)[s]
    <2> SUFFICES ASSUME NEW s \in Session
                 PROVE  Seats'[s] = Promise!Cleared(Expired)[s]
      OBVIOUS
    <2>1. CASE Swept[s] = None
      BY <2>1, <1>1, SweptSeats DEF Seats, Promise!Cleared, Promise!Empty, AllFree
    <2>2. CASE Swept[s] # None
      BY <2>2, <1>1, SweptSeats DEF Seats, Promise!Cleared
    <2>3. QED
      BY <2>1, <2>2
  <1>3. Seats' = Promise!Cleared(Expired)
    BY <1>2 DEF Seats, Promise!Cleared
  <1>4. Expired' = {}
    <2>1. \A s \in Session : Swept[s] # None => ~(idle[Swept[s]] > SessionTtl)
      BY SweptSeats DEF Expired, Live
    <2>2. QED
      BY <1>1, <2>1 DEF Expired, Live
  <1>5. Entered' = Entered
    BY <1>1 DEF Entered
  <1>6. QED
    BY <1>3, <1>4, <1>5 DEF Promise!Clear

LEMMA TickRefines ==
  ASSUME BrokerInv, Tick
  PROVE  Promise!Expire
  <1>1. sessions' = sessions /\ participants' = participants /\ phase' = phase
    BY DEF Tick, closureVars
  <1>2. Seats' = Seats /\ Entered' = Entered
    BY <1>1 DEF Seats, Entered
  <1>3. \A o \in Handle : idle[o] > SessionTtl => idle'[o] > SessionTtl
    BY BrokerAssumption DEF Tick, BrokerInv, BrokerTypeOK
  <1>4. Expired' \in SUBSET Session
    BY DEF Expired, Live
  <1>5. \A s \in Live(sessions) : sessions[s] \in Handle
    BY DEF Live, BrokerInv, BrokerTypeOK
  <1>6. Expired \subseteq Expired'
    BY <1>1, <1>3, <1>5 DEF Expired, Live
  <1>7. QED
    BY <1>2, <1>4, <1>6 DEF Promise!Expire

LEMMA StepRefines ==
  ASSUME BrokerInv, [BrokerNext]_brokerVars
  PROVE  [Promise!RNext]_(Promise!rvars)
  <1>1. CASE \/ UNCHANGED brokerVars
             \/ \E s \in Session, r \in Role, ttl \in TicketTtls : IssueTicket(s, r, ttl)
    <2>1. /\ sessions' = sessions /\ participants' = participants
          /\ idle' = idle /\ phase' = phase
      BY <1>1 DEF brokerVars, closureVars, IssueTicket
    <2>2. Seats' = Seats /\ Entered' = Entered /\ Expired' = Expired
      BY <2>1 DEF Seats, Entered, Expired
    <2>3. QED
      BY <2>2 DEF Promise!rvars
  <1>2. CASE \E h \in Handle, s \in Session, r \in Role : Attach(h, s, r)
    BY <1>2, AttachRefines DEF Promise!RNext
  <1>3. CASE Sweep \/ \E s \in Session, r \in Role : AttachRejected(s, r)
    <2>1. Sweep
      BY <1>3 DEF AttachRejected
    <2>2. QED
      BY <2>1, SweepRefines DEF Promise!RNext
  <1>4. CASE \E h \in Attached : \E failing \in SUBSET Recipients(h) : Send(h, failing)
    BY <1>4, SendRefines
  <1>5. CASE \E h \in Attached : Detach(h)
    BY <1>5, DetachRefines
  <1>6. CASE Tick
    BY <1>6, TickRefines DEF Promise!RNext
  <1>7. QED
    BY <1>1, <1>2, <1>3, <1>4, <1>5, <1>6 DEF BrokerNext

\* The broker implements Rendezvous: a role of a session is held by one
\* participant at a time, granted to each at most once, and granted again only
\* after it was freed or the session expired.
THEOREM BrokerKeepsPromise == BrokerSpec => KeepsPromise
  <1>1. BrokerInit => Promise!RInit
    <2>1. ASSUME BrokerInit
          PROVE  /\ Seats = [s \in Session |-> AllFree]
                 /\ Entered = {} /\ Expired = {}
      BY <2>1 DEF BrokerInit, Seats, Entered, Expired, Live
    <2>2. QED
      BY <2>1 DEF Promise!RInit, Promise!Empty, AllFree
  <1>2. BrokerInv /\ [BrokerNext]_brokerVars => [Promise!RNext]_(Promise!rvars)
    BY StepRefines
  <1>3. QED
    BY <1>1, <1>2, BrokerInvariance, PTL DEF BrokerSpec, KeepsPromise, Promise!RSpec

-----------------------------------------------------------------------------
(***************************************************************************)
(* The service.                                                            *)
(***************************************************************************)
SocketTypeOK ==
  /\ wire \in [Handle -> {"new", "open", "ending", "destroyed", "closed"}]
  /\ sockets \subseteq Handle /\ down \subseteq Handle /\ failed \subseteq Handle
  /\ join \in [Handle -> Join]

FlowTypeOK ==
  /\ pending \in [Handle -> Seq(Nat)]
  /\ written \in [Handle -> Nat]
  /\ relayed \in [Handle -> Seq(Nat)]

\* A participant that is attached belongs to a join that settles, or to a socket that is up:
\* one that has joined and was cleaned up has detached.
HolderInv ==
  \A c \in Handle :
    /\ wire[c] = "new" => join[c] = "none"
    /\ wire[c] = "new" \/ c \in sockets \/ c \in down
    /\ phase[c] = "attached" => join[c] = "settling" \/ (join[c] = "joined" /\ c \notin down)

\* What waits continues what was relayed, and of a socket that is up nothing is missing.
Flows(rel, pend, wr, up) ==
  /\ rel = UpTo(Len(rel))
  /\ \A i \in 1..Len(pend) : pend[i] = Len(rel) + i
  /\ up => wr = Len(rel) + Len(pend)

Up(c) == c \notin down \cup failed

FlowInv == \A c \in Handle : Flows(relayed[c], pending[c], written[c], Up(c))

ServerInv == BrokerInv /\ SocketTypeOK /\ FlowTypeOK /\ HolderInv /\ FlowInv
-----------------------------------------------------------------------------
\* Relaying a message is a send of its participant, or nothing to the broker.
LEMMA RelayEffect ==
  ASSUME NEW c \in Handle, NEW n, Relay(c, n)
  PROVE  /\ \/ UNCHANGED brokerVars
            \/ c \in Attached /\ \E failing \in SUBSET Recipients(c) : Send(c, failing)
         /\ phase' = phase
         /\ UNCHANGED <<socketVars, join, serving>>
         /\ \/ failed' = failed \cup {c} /\ relayed' = relayed
            \/ /\ relayed' = [relayed EXCEPT ![c] = Append(@, n)]
               /\ failed' \in {failed, failed \cup {c}}
<1>1. PICK kind \in Kind :
        IF kind = "refused" \/ phase[c] # "attached"
        THEN Throws(c) /\ UNCHANGED <<brokerVars, relayed>>
        ELSE /\ \E failing \in SUBSET Recipients(c) : Send(c, failing)
             /\ relayed' = [relayed EXCEPT ![c] = Append(@, n)]
             /\ failed' = IF kind = "close" THEN failed \cup {c} ELSE failed
             /\ UNCHANGED <<socketVars, join, serving>>
  BY DEF Relay
<1>2. CASE kind = "refused" \/ phase[c] # "attached"
  BY <1>1, <1>2 DEF Throws, brokerVars, closureVars
<1>3. CASE ~(kind = "refused" \/ phase[c] # "attached")
  BY <1>1, <1>3 DEF Send, closureVars, Attached
<1> QED
  BY <1>2, <1>3

\* The cleanup of a socket detaches its participant, if there is one, the first time.
LEMMA CleanupEffect ==
  ASSUME NEW c \in Handle, Cleanup(c)
  PROVE  /\ \/ UNCHANGED brokerVars
            \/ c \in Attached /\ Detach(c)
         /\ down' = down \cup {c} /\ sockets' = sockets \ {c}
         /\ (c \notin down /\ join[c] = "joined" /\ phase[c] = "attached") => Detach(c)
  BY DEF Cleanup, Attached

\* What the broker sees of a step is a step of its own.
LEMMA ServerStepsBroker ==
  ASSUME [Next]_vars
  PROVE  [BrokerNext]_brokerVars
<1>1. CASE Continuation
  <2>1. PICK c \in Handle : Fail(c) \/ (c \notin failed /\ Flush(c))
    BY <1>1 DEF Continuation
  <2>2. CASE Fail(c)
    BY <2>2, CleanupEffect DEF Fail, BrokerNext
  <2>3. CASE Flush(c)
    BY <2>3, RelayEffect DEF Flush, BrokerNext
  <2> QED
    BY <2>1, <2>2, <2>3
<1>2. ASSUME NEW c \in Handle, Upgrade(c) \/ Frame(c) \/ Settle(c) \/ SocketClosed(c)
      PROVE  [BrokerNext]_brokerVars
  <2>1. CASE Upgrade(c) \/ BadFrame(c) \/ EndFrame(c) \/ JoinRejected(c)
    BY <2>1 DEF Upgrade, BadFrame, EndFrame, JoinRejected
  <2>2. ASSUME NEW s \in Session, NEW r \in Role, JoinFrame(c, s, r) \/ JoinRefused(c, s, r)
        PROVE  BrokerNext
    BY <2>2 DEF JoinFrame, JoinRefused, BrokerNext
  <2>3. ASSUME Message(c)
        PROVE  [BrokerNext]_brokerVars
    <3>1. CASE join[c] = "joined"
      BY <2>3, <3>1, RelayEffect DEF Message, BrokerNext
    <3>2. CASE join[c] # "joined"
      BY <2>3, <3>2 DEF Message
    <3> QED
      BY <3>1, <3>2
  <2>4. CASE JoinSettled(c)
    BY <2>4 DEF JoinSettled, Detach, BrokerNext
  <2>5. CASE SocketClosed(c)
    BY <2>5, CleanupEffect DEF SocketClosed, BrokerNext
  <2> QED
    BY <1>2, <2>1, <2>2, <2>3, <2>4, <2>5 DEF Frame, Settle
<1>3. CASE Close
  BY <1>3 DEF Close
<1>4. CASE BrokerStep
  BY <1>4 DEF BrokerStep, BrokerNext
<1>5. CASE UNCHANGED vars
  BY <1>5 DEF vars
<1> QED
  BY <1>1, <1>2, <1>3, <1>4, <1>5 DEF Next
-----------------------------------------------------------------------------
\* A message that is read waits, or is relayed when nothing waits; or its socket is given up.
LEMMA FlowsRead ==
  ASSUME NEW rel \in Seq(Nat), NEW pend \in Seq(Nat), NEW wr \in Nat, Flows(rel, pend, wr, TRUE),
         NEW n \in Nat, n = wr + 1
  PROVE  /\ Flows(rel, Append(pend, n), wr + 1, TRUE)
         /\ pend = <<>> => Flows(Append(rel, n), pend, wr + 1, TRUE)
<1>1. /\ Len(rel) \in Nat /\ Len(pend) \in Nat /\ wr = Len(rel) + Len(pend)
      /\ Len(Append(pend, n)) = Len(pend) + 1 /\ Len(Append(rel, n)) = Len(rel) + 1
  BY DEF Flows
<1>2. ASSUME NEW i \in 1..Len(Append(pend, n))
      PROVE  Append(pend, n)[i] = Len(rel) + i
  <2>1. CASE i = Len(pend) + 1
    BY <1>1, <2>1
  <2>2. CASE i \in 1..Len(pend)
    BY <2>2 DEF Flows
  <2> QED
    BY <1>1, <2>1, <2>2
<1>3. ASSUME pend = <<>> PROVE Append(rel, n) = UpTo(Len(Append(rel, n)))
  BY <1>1, <1>3 DEF Flows, UpTo
<1>4. Flows(rel, Append(pend, n), wr + 1, TRUE)
  BY <1>1, <1>2 DEF Flows
<1>5. pend = <<>> => Flows(Append(rel, n), pend, wr + 1, TRUE)
  BY <1>1, <1>3 DEF Flows
<1> QED
  BY <1>4, <1>5

\* The first message that waits is relayed, and the others still continue it.
LEMMA FlowsFlushed ==
  ASSUME NEW rel \in Seq(Nat), NEW pend \in Seq(Nat), NEW wr \in Nat, NEW up \in BOOLEAN,
         Flows(rel, pend, wr, up), pend # <<>>
  PROVE  Flows(Append(rel, Head(pend)), Tail(pend), wr, up)
<1>1. /\ Len(rel) \in Nat /\ Len(pend) \in Nat \ {0} /\ Head(pend) = pend[1]
      /\ Len(Tail(pend)) = Len(pend) - 1
      /\ \A i \in 1..Len(Tail(pend)) : i + 1 \in 1..Len(pend) /\ Tail(pend)[i] = pend[i + 1]
  OBVIOUS
<1>2. Head(pend) = Len(rel) + 1
  BY <1>1 DEF Flows
<1>3. /\ Append(rel, Head(pend)) = UpTo(Len(rel) + 1)
      /\ Len(Append(rel, Head(pend))) = Len(rel) + 1
  <2>1. rel = UpTo(Len(rel)) /\ Len(rel) \in Nat
    BY <1>1 DEF Flows
  <2>2. Append(rel, Len(rel) + 1) = UpTo(Len(rel) + 1) /\ Len(Append(rel, Len(rel) + 1)) = Len(rel) + 1
    BY <2>1 DEF UpTo
  <2> QED
    BY <1>2, <2>2
<1>4. \A i \in 1..Len(Tail(pend)) : Tail(pend)[i] = (Len(rel) + 1) + i
  BY <1>1 DEF Flows
<1>5. up => wr = (Len(rel) + 1) + Len(Tail(pend))
  BY <1>1 DEF Flows
<1> QED
  BY <1>3, <1>4, <1>5 DEF Flows

\* Nothing more is asked of a socket that is given up, nor of one whose queue is dropped then.
LEMMA FlowsExcused ==
  ASSUME NEW rel, NEW pend, NEW wr, NEW up, Flows(rel, pend, wr, up), NEW any
  PROVE  Flows(rel, pend, any, FALSE) /\ Flows(rel, <<>>, any, FALSE)
  BY DEF Flows

\* The service starts without sockets.
LEMMA ServerInitInv == Init => ServerInv
<1> SUFFICES ASSUME Init PROVE ServerInv
  OBVIOUS
<1>1. BrokerInv
  BY BrokerInitInv DEF Init
<1>2. \A c \in Handle : pending[c] = <<>> /\ relayed[c] = <<>> /\ written[c] = 0
  BY DEF Init
<1>3. SocketTypeOK /\ HolderInv
  BY DEF Init, SocketTypeOK, HolderInv, Join, BrokerInit
<1>4. FlowTypeOK
  BY DEF Init, FlowTypeOK
<1>5. Flows(<<>>, <<>>, 0, TRUE) /\ Flows(<<>>, <<>>, 0, FALSE)
  <2>1. <<>> = UpTo(0) /\ Len(<<>>) = 0
    BY DEF UpTo
  <2> QED
    BY <2>1 DEF Flows
<1>6. FlowInv
  BY <1>2, <1>5 DEF FlowInv, Up
<1> QED
  BY <1>1, <1>3, <1>4, <1>6 DEF ServerInv

\* A step that reads and relays nothing keeps the flow, if no socket that is given up returns.
LEMMA FlowKept ==
  ASSUME FlowTypeOK, FlowInv, UNCHANGED relayVars, \A c \in Handle : Up(c)' => Up(c)
  PROVE  FlowTypeOK' /\ FlowInv'
<1>1. FlowTypeOK'
  BY DEF FlowTypeOK, relayVars
<1>2. ASSUME NEW c \in Handle PROVE Flows(relayed'[c], pending'[c], written'[c], Up(c)')
  <2>1. Flows(relayed[c], pending[c], written[c], Up(c))
    BY DEF FlowInv
  <2>2. CASE Up(c)'
    BY <2>1, <2>2 DEF Flows, relayVars
  <2>3. CASE ~Up(c)'
    BY <2>1, <2>3 DEF Flows, relayVars
  <2> QED
    BY <2>2, <2>3
<1> QED
  BY <1>1, <1>2 DEF FlowInv

\* A step of one socket leaves the flow of the others as it is.
LEMMA FlowOfOne ==
  ASSUME FlowInv, NEW c \in Handle, Flows(relayed'[c], pending'[c], written'[c], Up(c)'),
         \A d \in Handle : d # c => /\ relayed'[d] = relayed[d] /\ pending'[d] = pending[d]
                                    /\ written'[d] = written[d]
         , down' = down, failed \subseteq failed', failed' \subseteq failed \cup {c}
  PROVE  FlowInv'
<1> SUFFICES ASSUME NEW d \in Handle
             PROVE  Flows(relayed'[d], pending'[d], written'[d], Up(d)')
  BY DEF FlowInv
<1>1. CASE d = c
  BY <1>1
<1>2. CASE d # c
  BY <1>2, ZenonT(60) DEF FlowInv, Up, Flows
<1> QED
  BY <1>1, <1>2

\* A message that is read waits for the join, or is relayed.
LEMMA MessageFlows ==
  ASSUME ServerInv, ~Due, NEW c \in Handle, Message(c)
  PROVE  FlowTypeOK' /\ FlowInv'
<1> DEFINE n == written[c] + 1
<1>1. /\ written' = [written EXCEPT ![c] = @ + 1] /\ Up(c) = TRUE
      /\ written[c] \in Nat /\ n \in Nat /\ relayed[c] \in Seq(Nat) /\ pending[c] \in Seq(Nat)
  <2>1. written[c] \in Nat /\ relayed[c] \in Seq(Nat) /\ pending[c] \in Seq(Nat)
    BY DEF ServerInv, FlowTypeOK
  <2>2. n \in Nat
    BY <2>1
  <2>3. written' = [written EXCEPT ![c] = @ + 1] /\ Up(c) = TRUE
    BY DEF Message, Listening, Due, Up
  <2> QED
    BY <2>1, <2>2, <2>3
<1>2. Flows(relayed[c], pending[c], written[c], TRUE)
  BY <1>1 DEF ServerInv, FlowInv
<1>3. /\ Flows(relayed[c], Append(pending[c], n), written[c] + 1, TRUE)
      /\ pending[c] = <<>> => Flows(Append(relayed[c], n), pending[c], written[c] + 1, TRUE)
  BY <1>1, <1>2, FlowsRead
<1>4. written' \in [Handle -> Nat] /\ written'[c] = written[c] + 1
      /\ \A d \in Handle : d # c => written'[d] = written[d]
  BY <1>1 DEF ServerInv, FlowTypeOK
<1>5. CASE join[c] = "joined"
  <2>1. pending[c] = <<>> /\ pending' = pending /\ Relay(c, n) /\ down' = down
    BY <1>5, RelayEffect DEF Message, Due, socketVars
  <2>2. CASE failed' = failed \cup {c} /\ relayed' = relayed
    <3>1. Up(c)' = FALSE
      BY <2>2 DEF Up
    <3>2. Flows(relayed'[c], pending'[c], written'[c], Up(c)')
      BY <1>2, <2>1, <2>2, <3>1, FlowsExcused
    <3>3. FlowInv'
      BY <1>4, <2>1, <2>2, <3>2, FlowOfOne DEF ServerInv
    <3> QED
      BY <1>4, <2>1, <2>2, <3>3 DEF ServerInv, FlowTypeOK
  <2>3. CASE /\ relayed' = [relayed EXCEPT ![c] = Append(@, n)]
             /\ failed' \in {failed, failed \cup {c}}
    <3>1. relayed' \in [Handle -> Seq(Nat)] /\ relayed'[c] = Append(relayed[c], n)
          /\ \A d \in Handle : d # c => relayed'[d] = relayed[d]
      BY <1>1, <1>3, <2>3 DEF ServerInv, FlowTypeOK
    <3>2. Flows(relayed'[c], pending'[c], written'[c], TRUE)
      BY <1>3, <1>4, <2>1, <3>1
    <3>3. Up(c)' \in BOOLEAN
      BY DEF Up
    <3>4. Flows(relayed'[c], pending'[c], written'[c], Up(c)')
      BY <3>2, <3>3, FlowsExcused
    <3>5. FlowInv'
      BY <1>4, <2>1, <2>3, <3>1, <3>4, FlowOfOne DEF ServerInv
    <3> QED
      BY <1>4, <2>1, <3>1, <3>5 DEF ServerInv, FlowTypeOK
  <2> QED
    BY <2>1, <2>2, <2>3, RelayEffect
<1>6. CASE join[c] # "joined"
  <2>1. pending' = [pending EXCEPT ![c] = Append(@, n)] /\ UNCHANGED <<relayed, down, failed>>
    BY <1>6 DEF Message, socketVars
  <2>2. /\ pending' \in [Handle -> Seq(Nat)] /\ pending'[c] = Append(pending[c], n)
        /\ \A d \in Handle : d # c => pending'[d] = pending[d]
    BY <1>1, <2>1 DEF ServerInv, FlowTypeOK
  <2>3. Up(c)' = TRUE
    BY <1>1, <2>1 DEF Up
  <2>4. Flows(relayed'[c], pending'[c], written'[c], Up(c)')
    BY <1>3, <1>4, <2>1, <2>2, <2>3
  <2>5. FlowInv'
    BY <1>4, <2>1, <2>2, <2>4, FlowOfOne DEF ServerInv
  <2> QED
    BY <1>4, <2>1, <2>2, <2>5 DEF ServerInv, FlowTypeOK
<1> QED
  BY <1>5, <1>6

\* The queue of a join is worked off in order, or dropped with its socket.
LEMMA FlushFlows ==
  ASSUME ServerInv, NEW c \in Handle, Flush(c)
  PROVE  FlowTypeOK' /\ FlowInv'
<1> DEFINE n == Head(pending[c])
<1>1. /\ pending[c] # <<>> /\ Relay(c, n) /\ written' = written /\ c \notin failed
      /\ pending' = [pending EXCEPT ![c] = IF c \in failed' THEN <<>> ELSE Tail(@)]
      /\ down' = down
  BY RelayEffect DEF Flush, socketVars
<1>2. /\ pending[c] \in Seq(Nat) /\ n \in Nat
      /\ relayed[c] \in Seq(Nat) /\ written[c] \in Nat
      /\ Tail(pending[c]) \in Seq(Nat) /\ <<>> \in Seq(Nat)
  <2>1. pending[c] \in Seq(Nat) /\ relayed[c] \in Seq(Nat) /\ written[c] \in Nat
    BY DEF ServerInv, FlowTypeOK
  <2>2. n \in Nat /\ Tail(pending[c]) \in Seq(Nat)
    BY <1>1, <2>1
  <2> QED
    BY <2>1, <2>2
<1>3. Up(c) \in BOOLEAN /\ Flows(relayed[c], pending[c], written[c], Up(c))
  BY DEF ServerInv, FlowInv, Up
<1>4. Flows(Append(relayed[c], n), Tail(pending[c]), written[c], Up(c))
  BY <1>1, <1>2, <1>3, FlowsFlushed
<1>5. /\ pending' \in [Handle -> Seq(Nat)]
      /\ pending'[c] = IF c \in failed' THEN <<>> ELSE Tail(pending[c])
      /\ \A d \in Handle : d # c => pending'[d] = pending[d]
  BY <1>1, <1>2 DEF ServerInv, FlowTypeOK
<1>6. CASE failed' = failed \cup {c} /\ relayed' = relayed
  <2>1. Up(c)' = FALSE
    BY <1>6 DEF Up
  <2>2. Flows(relayed'[c], pending'[c], written'[c], Up(c)')
    BY <1>1, <1>3, <1>5, <1>6, <2>1, FlowsExcused, ZenonT(60)
  <2>3. FlowInv'
    BY <1>1, <1>5, <1>6, <2>2, FlowOfOne DEF ServerInv
  <2> QED
    BY <1>1, <1>5, <1>6, <2>3 DEF ServerInv, FlowTypeOK
<1>7. CASE /\ relayed' = [relayed EXCEPT ![c] = Append(@, n)]
           /\ failed' \in {failed, failed \cup {c}}
  <2>1. relayed' \in [Handle -> Seq(Nat)] /\ relayed'[c] = Append(relayed[c], n)
        /\ \A d \in Handle : d # c => relayed'[d] = relayed[d]
    BY <1>2, <1>7 DEF ServerInv, FlowTypeOK
  <2>2. Flows(relayed'[c], pending'[c], written'[c], Up(c)')
    <3>1. CASE c \in failed'
      <4>1. Up(c)' = FALSE
        BY <3>1 DEF Up
      <4>2. Flows(Append(relayed[c], n), <<>>, written[c], FALSE)
        BY <1>4, FlowsExcused
      <4> QED
        BY <1>1, <1>5, <2>1, <3>1, <4>1, <4>2
    <3>2. CASE c \notin failed'
      <4>1. Up(c)' = Up(c)
        BY <1>1, <1>7, <3>2 DEF Up
      <4> QED
        BY <1>1, <1>4, <1>5, <2>1, <3>2, <4>1
    <3> QED
      BY <3>1, <3>2
  <2>3. FlowInv'
    BY <1>1, <1>5, <1>7, <2>1, <2>2, FlowOfOne DEF ServerInv
  <2> QED
    BY <1>1, <1>5, <2>1, <2>3 DEF ServerInv, FlowTypeOK
<1> QED
  BY <1>1, <1>6, <1>7, RelayEffect
-----------------------------------------------------------------------------
\* What the steps of the broker do to a participant.
LEMMA DetachEffect ==
  ASSUME BrokerTypeOK, NEW c \in Handle, Detach(c)
  PROVE  phase'[c] = "detached" /\ \A d \in Handle : d # c => phase'[d] = phase[d]
  BY DEF Detach, BrokerTypeOK

\* The cleanup of a socket leaves it without a participant; nobody else loses one.
LEMMA CleanupHolders ==
  ASSUME BrokerTypeOK, SocketTypeOK, HolderInv, NEW c \in Handle, Cleanup(c), join' = join,
         \A d \in Handle : wire'[d] = "new" <=> wire[d] = "new"
  PROVE  HolderInv' /\ sockets' \subseteq Handle /\ down' \subseteq Handle
<1>1. /\ down' = down \cup {c} /\ sockets' = sockets \ {c}
      /\ (c \notin down /\ join[c] = "joined" /\ phase[c] = "attached") => Detach(c)
      /\ UNCHANGED brokerVars \/ Detach(c)
  BY CleanupEffect
<1>2. \A d \in Handle : d # c => phase'[d] = phase[d]
  BY <1>1, DetachEffect DEF brokerVars, closureVars
<1>3. phase'[c] = "attached" => join[c] = "settling"
  <2>1. CASE Detach(c)
    BY <2>1, DetachEffect
  <2>2. CASE UNCHANGED brokerVars /\ ~Detach(c)
    BY <1>1, <2>2 DEF brokerVars, closureVars, HolderInv
  <2> QED
    BY <1>1, <2>1, <2>2
<1>4. HolderInv'
  <2>1. ASSUME NEW d \in Handle
        PROVE  /\ wire'[d] = "new" => join'[d] = "none"
               /\ wire'[d] = "new" \/ d \in sockets' \/ d \in down'
    BY <1>1 DEF HolderInv, Cleanup, SocketTypeOK
  <2>2. ASSUME NEW d \in Handle, phase'[d] = "attached"
        PROVE  join'[d] = "settling" \/ (join'[d] = "joined" /\ d \notin down')
    BY <1>1, <1>2, <1>3, <2>2 DEF HolderInv
  <2> QED
    BY <2>1, <2>2 DEF HolderInv
<1> QED
  BY <1>1, <1>4 DEF SocketTypeOK

\* Every step keeps track of who holds a participant.
LEMMA HolderStep ==
  ASSUME ServerInv, [Next]_vars
  PROVE  SocketTypeOK' /\ HolderInv'
<1> USE DEF ServerInv
<1>1. ASSUME NEW c \in Handle, NEW n, Relay(c, n) PROVE SocketTypeOK' /\ HolderInv'
  <2>1. phase' = phase /\ UNCHANGED <<wire, sockets, down, join>> /\ failed' \subseteq Handle
    BY <1>1, RelayEffect DEF socketVars, SocketTypeOK
  <2> QED
    BY <2>1 DEF SocketTypeOK, HolderInv
<1>2. ASSUME NEW c \in Handle, Fail(c) PROVE SocketTypeOK' /\ HolderInv'
  <2>1. /\ failed' = failed \ {c} /\ Cleanup(c) /\ join' = join
        /\ wire' = [wire EXCEPT ![c] = IF @ = "open" THEN "ending" ELSE @]
    BY <1>2 DEF Fail
  <2>2. \A d \in Handle : wire'[d] = "new" <=> wire[d] = "new"
    BY <2>1 DEF SocketTypeOK
  <2>3. HolderInv' /\ sockets' \subseteq Handle /\ down' \subseteq Handle
    BY <2>1, <2>2, CleanupHolders DEF BrokerInv
  <2> QED
    BY <2>1, <2>3 DEF SocketTypeOK
<1>3. ASSUME NEW c \in Handle, SocketClosed(c) PROVE SocketTypeOK' /\ HolderInv'
  <2>1. /\ failed' = failed /\ Cleanup(c) /\ join' = join
        /\ wire' = [wire EXCEPT ![c] = "closed"]
    BY <1>3 DEF SocketClosed
  <2>2. \A d \in Handle : wire'[d] = "new" <=> wire[d] = "new"
    BY <1>3, <2>1 DEF SocketClosed, SocketTypeOK
  <2>3. HolderInv' /\ sockets' \subseteq Handle /\ down' \subseteq Handle
    BY <2>1, <2>2, CleanupHolders DEF BrokerInv
  <2> QED
    BY <2>1, <2>3 DEF SocketTypeOK
<1>4. ASSUME NEW c \in Handle, Upgrade(c) PROVE SocketTypeOK' /\ HolderInv'
  BY <1>4 DEF Upgrade, SocketTypeOK, HolderInv, brokerVars, closureVars
<1>5. ASSUME NEW c \in Handle, NEW s \in Session, NEW r \in Role, JoinFrame(c, s, r)
      PROVE  SocketTypeOK' /\ HolderInv'
  BY <1>5 DEF JoinFrame, Attach, Readable, SocketTypeOK, HolderInv, socketVars, Join, BrokerInv, BrokerTypeOK
<1>6. ASSUME NEW c \in Handle, NEW s \in Session, NEW r \in Role, JoinRefused(c, s, r)
      PROVE  SocketTypeOK' /\ HolderInv'
  BY <1>6 DEF JoinRefused, AttachRejected, Sweep, Throws, Readable, SocketTypeOK, HolderInv, socketVars,
     closureVars, Join
<1>7. ASSUME NEW c \in Handle, BadFrame(c) \/ EndFrame(c) PROVE SocketTypeOK' /\ HolderInv'
  BY <1>7 DEF BadFrame, EndFrame, Throws, SocketTypeOK, HolderInv, socketVars, brokerVars, closureVars
<1>8. ASSUME NEW c \in Handle, Message(c) PROVE SocketTypeOK' /\ HolderInv'
  <2>1. CASE join[c] = "joined"
    BY <1>1, <1>8, <2>1 DEF Message
  <2>2. CASE join[c] # "joined"
    BY <1>8, <2>2 DEF Message, SocketTypeOK, HolderInv, socketVars, brokerVars, closureVars
  <2> QED
    BY <2>1, <2>2
<1>9. ASSUME NEW c \in Handle, JoinSettled(c) PROVE SocketTypeOK' /\ HolderInv'
  <2>1. CASE c \in down
    BY <1>9, <2>1, DetachEffect DEF JoinSettled, BrokerInv, SocketTypeOK, HolderInv, socketVars, Join
  <2>2. CASE c \notin down
    BY <1>9, <2>2 DEF JoinSettled, SocketTypeOK, HolderInv, socketVars, Join, brokerVars, closureVars
  <2> QED
    BY <2>1, <2>2
<1>10. ASSUME NEW c \in Handle, JoinRejected(c) PROVE SocketTypeOK' /\ HolderInv'
  BY <1>10 DEF JoinRejected, SocketTypeOK, HolderInv, socketVars, Join, brokerVars, closureVars
<1>11. CASE Close
  BY <1>11 DEF Close, SocketTypeOK, HolderInv, brokerVars, closureVars
<1>12. CASE BrokerStep
  BY <1>12 DEF BrokerStep, IssueTicket, Sweep, Tick, SocketTypeOK, HolderInv, serverVars, socketVars, closureVars
<1>13. CASE UNCHANGED vars
  BY <1>13 DEF vars, serverVars, socketVars, brokerVars, closureVars, SocketTypeOK, HolderInv
<1>14. ASSUME NEW c \in Handle, Flush(c) PROVE SocketTypeOK' /\ HolderInv'
  BY <1>1, <1>14 DEF Flush
<1> QED
  BY <1>2, <1>3, <1>4, <1>5, <1>6, <1>7, <1>8, <1>9, <1>10, <1>11, <1>12, <1>13, <1>14
  DEF Next, Continuation, Frame, Settle

\* Every step keeps the messages in order.
LEMMA FlowStep ==
  ASSUME ServerInv, [Next]_vars
  PROVE  FlowTypeOK' /\ FlowInv'
<1>1. ASSUME UNCHANGED <<relayVars, down, failed>> PROVE FlowTypeOK' /\ FlowInv'
  BY <1>1, FlowKept DEF ServerInv, Up
<1>2. ASSUME NEW c \in Handle, Fail(c) \/ SocketClosed(c) PROVE FlowTypeOK' /\ FlowInv'
  <2>1. down' = down \cup {c} /\ failed \ {c} \subseteq failed' /\ UNCHANGED relayVars
    BY <1>2, CleanupEffect DEF Fail, SocketClosed
  <2> QED
    BY <2>1, FlowKept DEF ServerInv, Up
<1>3. ASSUME NEW c \in Handle, UNCHANGED <<relayVars, down>>, failed' = failed \cup {c}
      PROVE  FlowTypeOK' /\ FlowInv'
  BY <1>3, FlowKept DEF ServerInv, Up
<1>4. ASSUME Continuation PROVE FlowTypeOK' /\ FlowInv'
  BY <1>2, <1>4, FlushFlows DEF Continuation
<1>5. ASSUME ~Due, NEW c \in Handle, Upgrade(c) \/ Frame(c) \/ Settle(c) \/ SocketClosed(c)
      PROVE  FlowTypeOK' /\ FlowInv'
  <2>1. CASE Upgrade(c) \/ EndFrame(c) \/ JoinSettled(c)
    BY <1>1, <2>1 DEF Upgrade, EndFrame, JoinSettled, socketVars
  <2>2. CASE BadFrame(c) \/ JoinRejected(c)
    BY <1>3, <2>2 DEF BadFrame, JoinRejected, Throws, socketVars
  <2>3. ASSUME NEW s \in Session, NEW r \in Role, JoinFrame(c, s, r) \/ JoinRefused(c, s, r)
        PROVE  FlowTypeOK' /\ FlowInv'
    BY <1>1, <1>3, <2>3 DEF JoinFrame, JoinRefused, Throws, socketVars
  <2>4. ASSUME Message(c) PROVE FlowTypeOK' /\ FlowInv'
    BY <1>5, <2>4, MessageFlows
  <2> QED
    BY <1>2, <1>5, <2>1, <2>2, <2>3, <2>4 DEF Frame, Settle
<1>6. CASE Close \/ BrokerStep \/ UNCHANGED vars
  BY <1>1, <1>6 DEF Close, BrokerStep, vars, serverVars, socketVars
<1> QED
  BY <1>4, <1>5, <1>6 DEF Next

\* The invariant of the service.
THEOREM ServerInvariance == Spec => []ServerInv
<1>1. Init => ServerInv
  BY ServerInitInv
<1>2. ServerInv /\ [Next]_vars => ServerInv'
  <2> SUFFICES ASSUME ServerInv, [Next]_vars PROVE ServerInv'
    OBVIOUS
  <2>1. BrokerInv'
    BY ServerStepsBroker, BrokerNextInv DEF ServerInv
  <2> QED
    BY <2>1, HolderStep, FlowStep DEF ServerInv
<1> QED
  BY <1>1, <1>2, PTL DEF Spec

\* The sockets of the service are a caller that the broker may have: whatever is proved of the
\* broker holds in the service.
THEOREM ServiceUsesBroker == Spec => BrokerSpec
<1>1. Init => BrokerInit
  BY DEF Init
<1>2. [Next]_vars => [BrokerNext]_brokerVars
  BY ServerStepsBroker
<1> QED
  BY <1>1, <1>2, PTL DEF Spec, BrokerSpec

\* So the service routes only to participants that are attached, to the other role of the
\* session, and keeps the promise that a role is given to one participant at a time.
COROLLARY ServiceIsSound == Spec => [](RoutingSound /\ DeliveryScoped) /\ KeepsPromise
  BY ServiceUsesBroker, RoutingIsSound, DeliveryIsScoped, BrokerKeepsPromise, PTL

\* The messages of a socket are relayed in the order it wrote them, none skipped while it is up;
\* and no role is held for a socket that is gone, whatever order joins and closes come in.
THEOREM SocketsAreServed == Spec => []SocketsAreSound
<1>1. ServerInv => RelayedInOrder
  BY DEF ServerInv, FlowInv, Flows, Up, RelayedInOrder
<1>2. ServerInv => NoLeakedRole
  BY DEF ServerInv, HolderInv, NoLeakedRole, Attached
<1>3. ServerInv => SocketsAreSound
  BY <1>1, <1>2 DEF SocketsAreSound
<1> QED
  BY <1>3, ServerInvariance, PTL

-----------------------------------------------------------------------------
(***************************************************************************)
(* The player page.  Its properties speak of sockets; a runtime that only  *)
(* waits for its next attempt gets one later.  The invariant is therefore  *)
(* about every runtime that holds a socket or seeks one (Holds), says that *)
(* an open session has a runtime to end it with, and - what keeps retries  *)
(* from losing a socket - that a runtime that has not been overtaken is    *)
(* Steady: its transport's state is that of its only socket, and it waits  *)
(* for a timer without one that still connects.  The locks of the browser  *)
(* are kept apart from what the controller has been told.                  *)
(***************************************************************************)
RunType == [at : {"none", "preparing", "starting", "offering", "up", "failed"}, listens : BOOLEAN,
            link : {"connecting", "open", "closed"}, socket : {"none", "connecting", "open"},
            loose : BOOLEAN, stray : BOOLEAN, late : BOOLEAN, retry : {"no", "waiting", "timed"}]
WakeType == [desired : BOOLEAN, held : BOOLEAN, strays : 0..MaxRequests,
             pending : 0..MaxRequests, slipped : BOOLEAN]
Finished == {"ended", "error"}
Fresh == {"none", "preparing"}

SessionTypes ==
  /\ status \in {"negotiating", "connected", "error", "ended"}
  /\ manager \in {"idle", "negotiating", "connected", "reconnecting", "closed", "error"}
  /\ runtime \in Call \cup {NoCall}
  /\ runs \in [Call -> RunType]
PauseTypes == sessionPaused \in BOOLEAN /\ focusPaused \in BOOLEAN /\ hostPaused \in BOOLEAN

Holds(q) == q.socket # "none" \/ q.retry # "no"
Unused(q) == ~Holds(q) /\ ~q.loose /\ ~q.stray /\ ~q.late
Steady(q) ==
  /\ ~q.loose /\ ~q.stray
  /\ q.socket = "none" => q.link = "closed"
  /\ q.socket # "none" => q.link = q.socket
  /\ q.late => q.socket = "none" /\ q.retry = "no"
  /\ q.retry = "timed" => q.socket # "connecting"

\* A runtime that holds a socket or seeks one is the page's, or one was replaced.
HoldersInv == \A c \in Call : Holds(runs[c]) => c = runtime \/ doubled

\* A call that has not been made has nothing, and without a second press every runtime is steady.
UnusedInv == \A c \in Call : runs[c].at \in Fresh => Unused(runs[c])
SteadyInv == overtaken \/ \A c \in Call : Steady(runs[c])

\* A session that is open has a runtime that closes it.
OwnerInv == /\ manager \in Busy => runtime # NoCall
            /\ runtime # NoCall => runs[runtime].at \notin Fresh

\* After the end nothing is left that could bring the session back.
OverInv ==
  over => /\ status # "connected"
          /\ manager \notin Busy
          /\ runs[0].at # "preparing"
          /\ doubled \/ \A c \in Call : ~Holds(runs[c])

\* While requests come one at a time none is made that a lock is there for.
LockSound(w) ==
  ~w.slipped => /\ w.strays = 0
                /\ w.pending <= 1
                /\ w.pending > 0 => ~w.held

\* A controller that has been stopped neither holds a lock nor waits for one.
LockOff(w) == ~w.desired /\ (~w.slipped => ~w.held /\ w.pending = 0)

LockInv == /\ wake \in WakeType
           /\ LockSound(wake)
           /\ status \in Finished => LockOff(wake)

SessionInv == SessionTypes /\ HoldersInv /\ UnusedInv /\ SteadyInv /\ OwnerInv /\ OverInv
PageInv == SessionInv /\ PauseTypes /\ PauseHasReason /\ ConnectedIsTrue /\ LockInv
-----------------------------------------------------------------------------
\* The wake lock.

\* A request keeps the controller in order, and is none when it has been stopped.
LEMMA RequestIsSound ==
  ASSUME NEW w \in WakeType, LockSound(w)
  PROVE  /\ Acquired(w) \in WakeType
         /\ LockSound(Acquired(w))
         /\ LockOff(w) => LockOff(Acquired(w))
<1>1. CASE ~w.desired \/ w.held
  BY <1>1 DEF Acquired
<1>2. CASE w.desired /\ ~w.held
  <2>1. /\ w.pending + 1 \in Nat
        /\ AtMost(w.pending + 1) \in 0..MaxRequests
        /\ w.pending = 0 => AtMost(w.pending + 1) = 1
    BY PlayerAssumption DEF AtMost, WakeType
  <2>2. Acquired(w) = [w EXCEPT !.pending = AtMost(@ + 1), !.slipped = @ \/ w.pending > 0]
    BY <1>2 DEF Acquired
  <2>3. Acquired(w) \in WakeType
    BY <2>1, <2>2 DEF WakeType
  <2>4. LockSound(Acquired(w))
    BY <1>2, <2>1, <2>2 DEF WakeType, LockSound
  <2> QED BY <1>2, <2>3, <2>4 DEF LockOff
<1> QED BY <1>1, <1>2

\* stop() leaves nothing behind but what it did not know of.
LEMMA StopIsSound ==
  ASSUME NEW w \in WakeType, LockSound(w)
  PROVE  LockStopped(w) \in WakeType /\ LockSound(LockStopped(w)) /\ LockOff(LockStopped(w))
<1>1. LockStopped(w) \in WakeType
  <2>1. (w.slipped \/ (w.pending > 0)) \in BOOLEAN
    OBVIOUS
  <2> QED BY <2>1 DEF LockStopped, WakeType
<1>2. /\ ~LockStopped(w).desired /\ ~LockStopped(w).held
      /\ LockStopped(w).strays = w.strays /\ LockStopped(w).pending = w.pending
      /\ LockStopped(w).slipped <=> w.slipped \/ w.pending > 0
  BY DEF LockStopped, WakeType
<1>3. w.pending \in Nat
  BY DEF WakeType
<1>4. LockSound(LockStopped(w)) /\ LockOff(LockStopped(w))
  BY <1>2, <1>3 DEF LockSound, LockOff
<1> QED BY <1>1, <1>4

\* What apply() does with it, for the status it shows.
LEMMA AppliedIsSound ==
  ASSUME NEW w \in WakeType, LockSound(w), NEW s
  PROVE  /\ Applied(w, s) \in WakeType
         /\ LockSound(Applied(w, s))
         /\ s \in Finished => LockOff(Applied(w, s))
<1>1. CASE s \in {"connected", "reconnecting"}
  <2>1. Applied(w, s) = Acquired([w EXCEPT !.desired = TRUE])
    BY <1>1 DEF Applied, LockStarted
  <2>2. [w EXCEPT !.desired = TRUE] \in WakeType /\ LockSound([w EXCEPT !.desired = TRUE])
    BY DEF WakeType, LockSound
  <2> QED BY <1>1, <2>1, <2>2, RequestIsSound DEF Finished
<1>2. CASE s \in Finished
  BY <1>2, StopIsSound DEF Applied, Finished
<1>3. CASE s \notin {"connected", "reconnecting"} /\ s \notin Finished
  BY <1>3 DEF Applied, Finished
<1> QED BY <1>1, <1>2, <1>3

\* Every event but the buttons' and the window's goes through apply().
LEMMA ApplyKeepsLock == ASSUME LockInv, NEW s, Apply(s) PROVE LockInv'
  BY AppliedIsSound DEF LockInv, Apply

\* The steps of the lock, one by one.
LEMMA LockStep == ASSUME PageInv, [PageNext]_pageVars PROVE LockInv'
<1> LockInv
  BY DEF PageInv
<1>1. ASSUME UNCHANGED <<status, wake>> PROVE LockInv'
  BY <1>1 DEF LockInv
<1>2. ASSUME NEW granted \in BOOLEAN, LockSettles(granted) PROVE LockInv'
  <2>1. /\ wake.pending - 1 \in 0..MaxRequests
        /\ AtMost(wake.strays + IF wake.held THEN 1 ELSE 0) \in 0..MaxRequests
        /\ wake.strays = 0 /\ ~wake.held => AtMost(wake.strays + IF wake.held THEN 1 ELSE 0) = 0
    BY <1>2, PlayerAssumption DEF LockSettles, LockInv, WakeType, AtMost
  <2>2. wake' \in WakeType
    BY <1>2, <2>1 DEF LockSettles, LockInv, WakeType
  <2>3. LockSound(wake')
    BY <1>2, <2>1 DEF LockSettles, LockInv, WakeType, LockSound
  <2>4. status \in Finished => wake.slipped
    BY <1>2 DEF LockSettles, LockInv, LockOff, WakeType
  <2> QED BY <1>2, <2>2, <2>3, <2>4 DEF LockSettles, LockInv, LockOff, WakeType
<1>3. ASSUME PressReconnect PROVE LockInv'
  <2>1. CASE runtime = NoCall
    BY <1>3, <2>1, ApplyKeepsLock DEF PressReconnect
  <2>2. CASE runtime # NoCall /\ runs[runtime].retry # "no"
    BY <1>1, <1>3, <2>2 DEF PressReconnect
  <2>3. CASE runtime # NoCall /\ ~(runs[runtime].retry # "no")
    <3>1. status' = "error" /\ wake' = Applied(Applied(wake, "reconnecting"), "error")
      BY <1>3, <2>3 DEF PressReconnect
    <3>2. Applied(wake, "reconnecting") \in WakeType /\ LockSound(Applied(wake, "reconnecting"))
      BY AppliedIsSound DEF LockInv
    <3> QED BY <3>1, <3>2, AppliedIsSound DEF LockInv, Finished
  <2> QED BY <2>1, <2>2, <2>3
<1>4. ASSUME NEW hidden \in BOOLEAN, Visibility(hidden) PROVE LockInv'
  <2>1. CASE hidden
    <3>1. wake' = [wake EXCEPT !.held = FALSE, !.strays = 0] /\ status' = status
      BY <1>4, <2>1 DEF Visibility
    <3>2. wake' \in WakeType
      <4>1. 0 \in 0..MaxRequests
        BY PlayerAssumption
      <4> QED BY <3>1, <4>1 DEF LockInv, WakeType
    <3>3. LockSound(wake') /\ (LockOff(wake) => LockOff(wake'))
      BY <3>1 DEF LockInv, LockSound, LockOff, WakeType
    <3> QED BY <3>1, <3>2, <3>3 DEF LockInv
  <2>2. CASE ~hidden
    BY <1>4, <2>2, RequestIsSound DEF Visibility, LockInv, Reacquired
  <2> QED BY <2>1, <2>2
<1>5. ASSUME NEW c \in Call, Connect(c) PROVE LockInv'
  BY <1>1, <1>5, ApplyKeepsLock DEF Connect, Caught
<1>6. ASSUME NEW c \in Call, StartFails(c) \/ MediaFails(c) \/ Event(c) PROVE LockInv'
  BY <1>6, ApplyKeepsLock DEF StartFails, Caught, MediaFails, Event
<1>7. ASSUME NEW c \in Call, NEW b \in BOOLEAN, Answer(c, b) \/ LinkLost(c, b) PROVE LockInv'
  BY <1>1, <1>7, ApplyKeepsLock DEF Answer, LinkLost, Becomes
<1>8. ASSUME PrepareFails \/ PressEnd PROVE LockInv'
  BY <1>8, ApplyKeepsLock DEF PrepareFails, Caught, PressEnd
<1>9. ASSUME UNCHANGED pageVars PROVE LockInv'
  BY <1>1, <1>9 DEF pageVars
<1>10. ASSUME NoTarget \/ TogglePause PROVE LockInv'
  BY <1>1, <1>10 DEF NoTarget, TogglePause
<1>11. ASSUME NEW c \in Call, NEW b \in BOOLEAN, Started(c) \/ HostCloses(c) \/ Blur(b) PROVE LockInv'
  BY <1>1, <1>11 DEF Started, HostCloses, Blur
<1>13. ASSUME NEW c \in Call, Opens(c) \/ RetryDue(c) PROVE LockInv'
  BY <1>1, <1>13, ApplyKeepsLock DEF Opens, RetryDue, Becomes
<1>12. 0 \in Call
  BY PlayerAssumption DEF Call
<1> QED
  BY <1>2, <1>3, <1>4, <1>5, <1>6, <1>7, <1>8, <1>9, <1>10, <1>11, <1>12, <1>13
  DEF PageNext, ConnectionNext, CallNext, WindowNext, Prepared, Submit
-----------------------------------------------------------------------------
\* The pauses and what the status says.

\* A control either reaches the host or is lost.
LEMMA ControlEffect ==
  ASSUME NEW paused \in BOOLEAN, Control(paused), hostPaused \in BOOLEAN
  PROVE  hostPaused' \in BOOLEAN /\ (hostPaused' /\ ~lost' => paused)
<1>1. CASE hostPaused' = paused
  BY <1>1
<1>2. CASE lost' = TRUE /\ hostPaused' = hostPaused
  BY <1>2
<1> QED BY <1>1, <1>2 DEF Control

LEMMA FocusEffect ==
  ASSUME PauseTypes, PauseHasReason, NEW blurred \in BOOLEAN, FocusPolicy(blurred),
         sessionPaused' = sessionPaused
  PROVE  PauseTypes' /\ PauseHasReason'
<1>1. CASE UNCHANGED <<focusPaused, hostPaused, lost>>
  BY <1>1 DEF PauseTypes, PauseHasReason
<1>2. CASE focusPaused' = blurred /\ Control(blurred)
  <2>1. hostPaused' \in BOOLEAN /\ (hostPaused' /\ ~lost' => blurred)
    BY <1>2, ControlEffect DEF PauseTypes
  <2> QED BY <1>2, <2>1 DEF PauseTypes, PauseHasReason
<1> QED BY <1>1, <1>2 DEF FocusPolicy

\* A host is not paused for a reason the page has forgotten.
LEMMA PauseStep == ASSUME PageInv, [PageNext]_pageVars PROVE PauseTypes' /\ PauseHasReason'
<1> PauseTypes /\ PauseHasReason
  BY DEF PageInv
<1> DEFINE Goal == PauseTypes /\ PauseHasReason
<1>1. ASSUME UNCHANGED <<pause, lost>> PROVE Goal'
  BY <1>1 DEF pause, PauseTypes, PauseHasReason
<1>2. ASSUME NEW c \in Call, Connect(c) PROVE Goal'
  <2>1. /\ UNCHANGED <<sessionPaused, focusPaused, lost>>
        /\ hostPaused' = FALSE \/ hostPaused' = hostPaused
    <3>1. CASE manager \in Busy
      BY <1>2, <3>1 DEF Connect
    <3>2. CASE manager \notin Busy
      BY <1>2, <3>2 DEF Connect
    <3> QED BY <3>1, <3>2
  <2>2. CASE hostPaused' = FALSE
    BY <2>1, <2>2 DEF PauseTypes, PauseHasReason
  <2>3. CASE hostPaused' = hostPaused
    BY <2>1, <2>3 DEF PauseTypes, PauseHasReason
  <2> QED BY <2>1, <2>2, <2>3
<1>3. ASSUME TogglePause PROVE Goal'
  <2>1. hostPaused' \in BOOLEAN /\ (hostPaused' /\ ~lost' => ~sessionPaused)
    BY <1>3, ControlEffect DEF TogglePause, PauseTypes
  <2> QED BY <1>3, <2>1 DEF TogglePause, PauseTypes, PauseHasReason
<1>4. ASSUME NEW b \in BOOLEAN, Blur(b) \/ Visibility(b) PROVE Goal'
  BY <1>4, FocusEffect DEF Blur, Visibility
<1>5. ASSUME UNCHANGED pageVars PROVE Goal'
  BY <1>1, <1>5 DEF pageVars, marks
<1>6. ASSUME NoTarget \/ PrepareFails \/ PressReconnect \/ PressEnd PROVE Goal'
  BY <1>1, <1>6 DEF NoTarget, PrepareFails, PressReconnect, PressEnd, marks
<1>7. ASSUME NEW c \in Call,
             \/ Started(c) \/ StartFails(c) \/ MediaFails(c) \/ Event(c)
             \/ HostCloses(c) \/ RetryDue(c) \/ Opens(c)
      PROVE  Goal'
  BY <1>1, <1>7 DEF Started, StartFails, MediaFails, Event, HostCloses, RetryDue, Opens, marks
<1>8. ASSUME NEW c \in Call, NEW b \in BOOLEAN,
             LockSettles(b) \/ Answer(c, b) \/ LinkLost(c, b)
      PROVE  Goal'
  BY <1>1, <1>8 DEF LockSettles, Answer, LinkLost, marks
<1>9. 0 \in Call
  BY PlayerAssumption DEF Call
<1> QED
  BY <1>2, <1>3, <1>4, <1>5, <1>6, <1>7, <1>8, <1>9
  DEF PageNext, ConnectionNext, CallNext, WindowNext, Prepared, Submit

\* The status follows the manager wherever the page is told of a change.
LEMMA TruthStep == ASSUME PageInv, [PageNext]_pageVars PROVE ConnectedIsTrue'
<1> ConnectedIsTrue
  BY DEF PageInv
<1>1. ASSUME UNCHANGED <<status, manager, unseen>> PROVE ConnectedIsTrue'
  BY <1>1 DEF ConnectedIsTrue
<1>2. ASSUME status' \in Finished PROVE ConnectedIsTrue'
  BY <1>2 DEF ConnectedIsTrue, Finished
<1>3. ASSUME NEW c \in Call, Connect(c) PROVE ConnectedIsTrue'
  <2>1. CASE manager \in Busy
    BY <1>2, <1>3, <2>1 DEF Connect, Caught, Apply, Finished
  <2>2. CASE manager \notin Busy
    BY <1>3, <2>2 DEF Connect, Busy, ConnectedIsTrue
  <2> QED BY <2>1, <2>2
<1>4. ASSUME NEW c \in Call, NEW b \in BOOLEAN, Answer(c, b) PROVE ConnectedIsTrue'
  BY <1>4 DEF Answer, Apply, ConnectedIsTrue
<1>5. ASSUME NEW c \in Call, HostCloses(c) PROVE ConnectedIsTrue'
  BY <1>5 DEF HostCloses, ConnectedIsTrue
<1>6. ASSUME Asks, UNCHANGED status PROVE ConnectedIsTrue'
  BY <1>6 DEF Asks, MayAsk, ConnectedIsTrue
<1>7. ASSUME NEW c \in Call, NEW b \in BOOLEAN,
             PrepareFails \/ PressEnd \/ StartFails(c) \/ MediaFails(c) \/ LinkLost(c, b)
      PROVE  ConnectedIsTrue'
  BY <1>1, <1>2, <1>7
  DEF PrepareFails, PressEnd, StartFails, Caught, MediaFails, LinkLost, Becomes, Apply, Finished
<1>8. ASSUME PressReconnect PROVE ConnectedIsTrue'
  BY <1>1, <1>2, <1>8 DEF PressReconnect, Apply, Finished
<1>9. ASSUME NEW c \in Call, NEW b \in BOOLEAN,
             \/ Started(c) \/ Event(c) \/ NoTarget \/ TogglePause
             \/ LockSettles(b) \/ Blur(b) \/ Visibility(b) \/ UNCHANGED pageVars
      PROVE  ConnectedIsTrue'
  BY <1>1, <1>9
  DEF Started, Event, Apply, NoTarget, TogglePause, LockSettles, Blur, Visibility, pageVars, session
<1>11. ASSUME NEW c \in Call, NEW q, NEW p, Becomes(c, q, p, FALSE), Asks PROVE ConnectedIsTrue'
  BY <1>2, <1>6, <1>11 DEF Becomes, Apply, Finished
<1>12. ASSUME NEW c \in Call, NEW q, NEW p, Becomes(c, q, p, FALSE), UNCHANGED <<manager, unseen>>
       PROVE  ConnectedIsTrue'
  BY <1>1, <1>2, <1>12 DEF Becomes, Apply, Finished
<1>13. ASSUME NEW c \in Call, Opens(c) PROVE ConnectedIsTrue'
  BY <1>1, <1>11, <1>13 DEF Opens
<1>14. ASSUME NEW c \in Call, RetryDue(c) PROVE ConnectedIsTrue'
  BY <1>11, <1>12, <1>14 DEF RetryDue, TriesAtOnce
<1>10. 0 \in Call
  BY PlayerAssumption DEF Call
<1> QED
  BY <1>3, <1>4, <1>5, <1>7, <1>8, <1>9, <1>10, <1>13, <1>14
  DEF PageNext, ConnectionNext, CallNext, WindowNext, Prepared, Submit
-----------------------------------------------------------------------------
\* The connections.

\* close() of a runtime takes away the socket it holds and what would bring another.
LEMMA CloseEffect ==
  ASSUME NEW rs \in [Call -> RunType], NEW c \in Call \cup {NoCall}
  PROVE  /\ Closed(rs, c) \in [Call -> RunType]
         /\ \A d \in Call : /\ Closed(rs, c)[d].at = rs[d].at
                            /\ Holds(Closed(rs, c)[d]) => d # c /\ Holds(rs[d])
                            /\ Unused(rs[d]) => Unused(Closed(rs, c)[d])
                            /\ Steady(rs[d]) => Steady(Closed(rs, c)[d])
<1>1. CASE c = NoCall
  <2>1. NoCall \notin Call
    BY PlayerAssumption DEF Call, NoCall
  <2> QED BY <1>1, <2>1 DEF Closed
<1>2. CASE c # NoCall
  <2>1. ASSUME NEW q \in RunType
        PROVE  /\ CloseRun(q) \in RunType /\ CloseRun(q).at = q.at
               /\ ~Holds(CloseRun(q))
               /\ Unused(q) => Unused(CloseRun(q))
               /\ Steady(q) => Steady(CloseRun(q))
    BY ZenonT(60) DEF CloseRun, RunType, Holds, Unused, Steady
  <2>2. Closed(rs, c) = [rs EXCEPT ![c] = CloseRun(rs[c])] /\ rs[c] \in RunType
    BY <1>2 DEF Closed
  <2>3. \A d \in Call : Closed(rs, c)[d] = IF d = c THEN CloseRun(rs[c]) ELSE rs[d]
    BY <1>2, <2>2
  <2>4. Closed(rs, c) \in [Call -> RunType]
    BY <1>2, <2>1, <2>2
  <2> QED BY <1>2, <2>1, <2>2, <2>3, <2>4
<1> QED BY <1>1, <1>2

\* The catch around connect(): what it closes is closed for good, and no session is left
\* open that had an owner.
LEMMA CatchEffect ==
  ASSUME SessionTypes, NEW rs \in [Call -> RunType], NEW c \in Call \cup {NoCall},
         Caught(rs, manager, c), manager \in Busy => c # NoCall
  PROVE  /\ SessionTypes'
         /\ status' = "error" /\ runtime' = NoCall /\ manager' \notin Busy
         /\ runs' = Closed(rs, c)
<1>1. runs' = Closed(rs, c) /\ runs' \in [Call -> RunType]
  BY CloseEffect DEF Caught
<1>2. /\ status' = "error" /\ runtime' = NoCall /\ manager' \notin Busy
      /\ manager' \in {"idle", "negotiating", "connected", "reconnecting", "closed", "error"}
  BY DEF Caught, Apply, ManagerClosed, Busy, SessionTypes
<1> QED BY <1>1, <1>2 DEF SessionTypes

\* What a runtime does by itself: it neither gains a hold, nor what a retry could lose.
Quiet(q, p) ==
  /\ p \in RunType
  /\ p.at \in Fresh => p.at = q.at
  /\ Holds(p) => Holds(q)
  /\ Unused(q) => Unused(p)
  /\ Steady(q) => Steady(p)

LEMMA QuietTrans == ASSUME NEW q, NEW m, NEW p, Quiet(q, m), Quiet(m, p) PROVE Quiet(q, p)
  BY DEF Quiet

\* fail() of the controller changes nothing but what it waits for.
LEMMA RetryIsAll ==
  ASSUME NEW q \in RunType, NEW p \in Failures(q)
  PROVE  /\ p \in RunType /\ p.at = q.at
         /\ Holds(p) => Holds(q)
         /\ Unused(q) => Unused(p)
         /\ Steady(q) /\ q.socket # "connecting" => Steady(p)
<1>1. CASE q.retry = "no"
  BY <1>1 DEF Failures
<1>2. CASE q.retry # "no"
  <2>1. PICK next \in {"timed", "no"} : p = [q EXCEPT !.retry = next]
    BY <1>2 DEF Failures
  <2> QED BY <1>2, <2>1 DEF RunType, Holds, Unused, Steady
<1> QED BY <1>1, <1>2

LEMMA AskedQuiet ==
  ASSUME NEW q \in RunType, NEW p \in Asked(q), Steady(q) => q.socket # "connecting"
  PROVE  Quiet(q, p)
<1>1. CASE p = q
  BY <1>1 DEF Quiet
<1>2. CASE p # q
  <2>1. p \in Failures(q)
    BY <1>2 DEF Asked
  <2> QED BY <2>1, RetryIsAll DEF Quiet
<1> QED BY <1>1, <1>2

LEMMA OpenQuiet ==
  ASSUME NEW q \in RunType, NEW p \in Open(q)
  PROVE  Quiet(q, p) /\ (Steady(p) => p.socket # "connecting")
<1>1. CASE p \in (IF q.socket = "connecting" THEN {[q EXCEPT !.socket = "open", !.link = "open"]} ELSE {})
  <2>1. q.socket = "connecting" /\ p = [q EXCEPT !.socket = "open", !.link = "open"]
    BY <1>1
  <2> QED BY <2>1 DEF Quiet, RunType, Holds, Unused, Steady, Fresh
<1>2. CASE q.loose /\ \E more \in BOOLEAN : p = [q EXCEPT !.loose = more, !.stray = TRUE, !.link = "open"]
  <2>1. PICK more \in BOOLEAN : p = [q EXCEPT !.loose = more, !.stray = TRUE, !.link = "open"]
    BY <1>2
  <2> QED BY <1>2, <2>1 DEF Quiet, RunType, Holds, Unused, Steady, Fresh
<1> QED BY <1>1, <1>2 DEF Open

LEMMA LostQuiet ==
  ASSUME NEW q \in RunType, NEW p \in Lost(q)
  PROVE  Quiet(q, p) /\ (Steady(q) => p.socket # "connecting")
<1>1. CASE q.socket # "none" /\ p = [q EXCEPT !.socket = "none", !.link = "closed"]
  BY <1>1 DEF Quiet, RunType, Holds, Unused, Steady, Fresh
<1>2. CASE q.loose /\ \E more \in BOOLEAN : p = [q EXCEPT !.loose = more, !.link = "closed"]
  <2>1. PICK more \in BOOLEAN : p = [q EXCEPT !.loose = more, !.link = "closed"]
    BY <1>2
  <2> QED BY <1>2, <2>1 DEF Quiet, RunType, Holds, Unused, Steady, Fresh
<1>3. CASE q.stray /\ \E more \in BOOLEAN : p = [q EXCEPT !.stray = more, !.link = "closed"]
  <2>1. PICK more \in BOOLEAN : p = [q EXCEPT !.stray = more, !.link = "closed"]
    BY <1>3
  <2> QED BY <1>3, <2>1 DEF Quiet, RunType, Holds, Unused, Steady, Fresh
<1>4. CASE q.late /\ p = [q EXCEPT !.late = FALSE, !.link = "closed"]
  BY <1>4 DEF Quiet, RunType, Holds, Unused, Steady, Fresh
<1> QED BY <1>1, <1>2, <1>3, <1>4 DEF Lost

\* connect() of the transport loses nothing if there is no socket, nor one that is still to end.
LEMMA DialledEffect ==
  ASSUME NEW q \in RunType
  PROVE  /\ Dialled(q) \in RunType /\ Dialled(q).at = q.at
         /\ Steady(q) /\ q.socket = "none" /\ ~q.late /\ q.retry # "timed" => Steady(Dialled(q))
  BY ZenonT(60) DEF Dialled, RunType, Steady

\* An attempt that is due, and one that the button asks for.
LEMMA AttemptsEffect ==
  ASSUME NEW q \in RunType, NEW p \in Attempts(q)
  PROVE  /\ p \in RunType /\ p.at = q.at
         /\ q.retry # "no" => Holds(q)
         /\ Steady(q) /\ q.socket # "connecting" /\ ~q.late => Steady(p)
<1> DEFINE tries == [q EXCEPT !.retry = "waiting"]
<1>1. /\ tries \in RunType /\ tries.at = q.at /\ tries.socket = q.socket /\ tries.link = q.link
      /\ tries.late = q.late /\ tries.retry = "waiting"
      /\ Steady(q) /\ ~q.late => Steady(tries)
  BY DEF RunType, Steady
<1>2. CASE q.link = "open"
  <2>1. p \in Asked(tries)
    BY <1>2 DEF Attempts
  <2>2. CASE Steady(q) /\ q.socket # "connecting" /\ ~q.late
    <3>1. Quiet(tries, p)
      BY <1>1, <2>1, <2>2, AskedQuiet
    <3>2. p.at = tries.at
      BY <1>1, <2>1 DEF Asked, Failures, RunType
    <3> QED BY <1>1, <2>2, <3>1, <3>2 DEF Quiet, Holds
  <2>3. CASE ~(Steady(q) /\ q.socket # "connecting" /\ ~q.late)
    <3>1. p = tries \/ p \in Failures(tries)
      BY <2>1 DEF Asked
    <3>2. p \in RunType /\ p.at = tries.at
      BY <1>1, <3>1, RetryIsAll
    <3> QED BY <1>1, <2>3, <3>2 DEF Holds
  <2> QED BY <2>2, <2>3
<1>3. CASE q.link # "open"
  <2>1. p = Dialled(tries)
    BY <1>3 DEF Attempts
  <2>2. Steady(q) /\ q.socket # "connecting" => q.socket = "none"
    BY <1>3 DEF Steady, RunType
  <2> QED BY <1>1, <2>1, <2>2, DialledEffect DEF Holds
<1> QED BY <1>2, <1>3

\* A step in which a runtime does what it does by itself.
LEMMA QuietStep ==
  ASSUME SessionInv, NEW c \in Call, NEW p, runs' = [runs EXCEPT ![c] = p], Quiet(runs[c], p),
         UNCHANGED <<runtime, doubled, overtaken, over>>,
         manager' \in {"idle", "negotiating", "connected", "reconnecting", "closed", "error"},
         manager' \in Busy => manager \in Busy,
         status' \in {status, "error"} \/ (status' = "connected" /\ manager \in Busy)
  PROVE  SessionInv'
<1> USE DEF SessionInv
<1>0. /\ 0 \in Call /\ NoCall \notin Call
      /\ runs \in [Call -> RunType] /\ runs[c] \in RunType /\ p \in RunType
  BY PlayerAssumption DEF Call, NoCall, SessionTypes, Quiet
<1>1. \A d \in Call : runs'[d] = IF d = c THEN p ELSE runs[d]
  BY <1>0
<1>2. SessionTypes'
  BY <1>0 DEF SessionTypes
<1>3. \A d \in Call : /\ Holds(runs'[d]) => Holds(runs[d])
                      /\ runs'[d].at \in Fresh => runs[d].at = runs'[d].at
                      /\ Unused(runs[d]) => Unused(runs'[d])
                      /\ Steady(runs[d]) => Steady(runs'[d])
  BY <1>1 DEF Quiet
<1>4. HoldersInv' /\ UnusedInv' /\ SteadyInv'
  BY <1>3 DEF HoldersInv, UnusedInv, SteadyInv
<1>5. OwnerInv'
  <2>1. runtime # NoCall => runtime \in Call
    BY DEF SessionTypes
  <2> QED BY <1>3, <2>1 DEF OwnerInv
<1>6. OverInv'
  <2>1. over => status' # "connected"
    BY DEF OverInv
  <2>2. runs'[0].at = "preparing" => runs[0].at = "preparing"
    BY <1>0, <1>3 DEF Fresh
  <2> QED BY <1>3, <2>1, <2>2 DEF OverInv
<1> QED BY <1>2, <1>4, <1>5, <1>6

\* What the catch leaves behind.
LEMMA CatchStep ==
  ASSUME SessionInv, NEW c \in Call, NEW d \in Call \cup {NoCall}, UNCHANGED overtaken,
         Caught([runs EXCEPT ![c].at = "failed"], manager, d), manager \in Busy => d # NoCall,
         \A e \in Call : Holds(runs[e]) => e = d \/ doubled',
         over' => over /\ doubled' = doubled /\ d = runtime
  PROVE  SessionInv'
<1> USE DEF SessionInv
<1> DEFINE rs == [runs EXCEPT ![c].at = "failed"]
<1>0. /\ 0 \in Call /\ NoCall \notin Call
      /\ runs \in [Call -> RunType] /\ \A e \in Call : runs[e] \in RunType
  BY PlayerAssumption DEF Call, NoCall, SessionTypes
<1>1. rs \in [Call -> RunType]
  BY <1>0 DEF RunType
<1>2. \A e \in Call : /\ rs[e].at \in {runs[e].at, "failed"} /\ (Holds(rs[e]) <=> Holds(runs[e]))
                      /\ Unused(runs[e]) => Unused(rs[e])
                      /\ Steady(runs[e]) => Steady(rs[e])
  BY <1>0 DEF RunType, Holds, Unused, Steady
<1> HIDE DEF rs
<1>3. Caught(rs, manager, d)
  BY DEF rs
<1>4. /\ SessionTypes' /\ status' = "error" /\ runtime' = NoCall /\ manager' \notin Busy
      /\ runs' = Closed(rs, d)
  BY <1>1, <1>3, CatchEffect
<1>5. \A e \in Call : /\ runs'[e].at = rs[e].at
                      /\ Holds(runs'[e]) => e # d /\ Holds(rs[e])
                      /\ Unused(rs[e]) => Unused(runs'[e])
                      /\ Steady(rs[e]) => Steady(runs'[e])
  BY <1>1, <1>4, CloseEffect
<1>6. HoldersInv'
  BY <1>2, <1>5 DEF HoldersInv
<1>7. UnusedInv' /\ SteadyInv'
  BY <1>2, <1>5 DEF UnusedInv, SteadyInv, Fresh
<1>8. OwnerInv'
  BY <1>4 DEF OwnerInv
<1>9. OverInv'
  <2>1. over => runs'[0].at # "preparing"
    BY <1>0, <1>2, <1>5 DEF OverInv
  <2> QED BY <1>2, <1>4, <1>5, <2>1 DEF OverInv
<1> QED BY <1>4, <1>6, <1>7, <1>8, <1>9

LEMMA SessionStep == ASSUME PageInv, [PageNext]_pageVars PROVE SessionInv'
<1> SessionInv
  BY DEF PageInv
<1> USE DEF SessionInv
<1>0. /\ 0 \in Call /\ NoCall \notin Call
      /\ runs \in [Call -> RunType] /\ \A c \in Call : runs[c] \in RunType
      /\ manager \in {"idle", "negotiating", "connected", "reconnecting", "closed", "error"}
  BY PlayerAssumption DEF Call, NoCall, SessionTypes
<1>1. ASSUME UNCHANGED session, UNCHANGED <<doubled, overtaken, over>>,
             status' \in {status, "error"} PROVE SessionInv'
  BY <1>1 DEF session, SessionTypes, HoldersInv, UnusedInv, SteadyInv, OwnerInv, OverInv
<1>2. ASSUME NEW c \in Call, runs[c].at \in Fresh, Connect(c) PROVE SessionInv'
  <2>1. /\ over' = FALSE /\ overtaken' = overtaken
        /\ doubled' = (doubled \/ (runtime # NoCall /\ Connected(runs[runtime])))
    BY <1>2 DEF Connect
  <2>2. \A e \in Call : Holds(runs[e]) => doubled'
    <3> SUFFICES ASSUME NEW e \in Call, Holds(runs[e]) PROVE doubled'
      OBVIOUS
    <3>1. e = runtime \/ doubled
      BY DEF HoldersInv
    <3>2. e = runtime => runtime # NoCall /\ Connected(runs[runtime])
      BY <1>0 DEF Holds, Connected
    <3> QED BY <2>1, <3>1, <3>2
  <2>3. CASE manager \in Busy
    <3>1. Caught([runs EXCEPT ![c].at = "failed"], manager, c) /\ c # NoCall
      BY <1>0, <1>2, <2>3 DEF Connect
    <3> QED BY <2>1, <2>2, <3>1, CatchStep
  <2>4. CASE manager \notin Busy
    <3> DEFINE q == [runs[c] EXCEPT !.at = "starting", !.listens = TRUE]
    <3>1. /\ manager' = "negotiating" /\ runtime' = c /\ status' = status
          /\ runs' = [runs EXCEPT ![c] = Dialled(q)]
      BY <1>2, <2>4 DEF Connect
    <3>2. Unused(runs[c])
      BY <1>2 DEF UnusedInv
    <3>3. /\ q \in RunType /\ q.at = "starting" /\ q.socket = "none" /\ ~q.late /\ q.retry = "no"
          /\ Steady(runs[c]) => Steady(q)
      BY <1>0, <3>2, ZenonT(60) DEF RunType, Unused, Holds, Steady
    <3> HIDE DEF q
    <3>4. /\ Dialled(q) \in RunType /\ Dialled(q).at = "starting"
          /\ Steady(runs[c]) => Steady(Dialled(q))
      BY <3>3, DialledEffect
    <3>5. \A e \in Call : runs'[e] = IF e = c THEN Dialled(q) ELSE runs[e]
      BY <1>0, <3>1
    <3>6. SessionTypes'
      BY <1>0, <3>1, <3>4 DEF SessionTypes
    <3>7. HoldersInv'
      BY <2>2, <3>1, <3>5 DEF HoldersInv
    <3>8. UnusedInv' /\ SteadyInv'
      BY <2>1, <3>4, <3>5 DEF UnusedInv, SteadyInv, Fresh
    <3>9. OwnerInv'
      <4>1. c # NoCall
        BY <1>0
      <4> QED BY <3>1, <3>4, <3>5, <4>1 DEF OwnerInv, Fresh
    <3> QED BY <2>1, <3>6, <3>7, <3>8, <3>9 DEF OverInv
  <2> QED BY <2>3, <2>4
<1>3. ASSUME NEW c \in Call, StartFails(c) \/ (c = 0 /\ PrepareFails) PROVE SessionInv'
  <2>1. Caught([runs EXCEPT ![c].at = "failed"], manager, runtime) /\ UNCHANGED <<doubled, overtaken, over>>
    BY <1>3 DEF StartFails, PrepareFails, marks
  <2>2. /\ runtime \in Call \cup {NoCall} /\ (manager \in Busy => runtime # NoCall)
        /\ \A e \in Call : Holds(runs[e]) => e = runtime \/ doubled'
    BY <2>1 DEF SessionTypes, OwnerInv, HoldersInv
  <2> QED BY <2>1, <2>2, CatchStep
<1>4. ASSUME PressEnd PROVE SessionInv'
  <2>1. /\ runs' = Closed(runs, runtime) /\ manager' = ManagerClosed(manager, runtime)
        /\ status' = "ended" /\ over' = (runs[0].at # "preparing")
        /\ UNCHANGED <<runtime, doubled, overtaken>>
    BY <1>4 DEF PressEnd, Apply
  <2>2. /\ runs' \in [Call -> RunType]
        /\ \A d \in Call : /\ runs'[d].at = runs[d].at
                           /\ Holds(runs'[d]) => d # runtime /\ Holds(runs[d])
                           /\ Unused(runs[d]) => Unused(runs'[d])
                           /\ Steady(runs[d]) => Steady(runs'[d])
    BY <2>1, CloseEffect DEF SessionTypes
  <2>3. /\ manager' \notin Busy
        /\ manager' \in {"idle", "negotiating", "connected", "reconnecting", "closed", "error"}
    BY <2>1 DEF ManagerClosed, OwnerInv, Busy, SessionTypes
  <2>4. SessionTypes' /\ HoldersInv' /\ UnusedInv' /\ SteadyInv'
    BY <2>1, <2>2, <2>3 DEF SessionTypes, HoldersInv, UnusedInv, SteadyInv
  <2>5. OwnerInv'
    <3>1. runtime # NoCall => runtime \in Call
      BY DEF SessionTypes
    <3> QED BY <2>1, <2>2, <2>3, <3>1 DEF OwnerInv
  <2>6. OverInv'
    <3>1. doubled \/ \A d \in Call : ~Holds(runs'[d])
      BY <2>2 DEF HoldersInv
    <3> QED BY <1>0, <2>1, <2>2, <2>3, <3>1 DEF OverInv
  <2> QED BY <2>4, <2>5, <2>6
<1>5. ASSUME NEW c \in Call, NEW b \in BOOLEAN, Answer(c, b) PROVE SessionInv'
  <2>1. CASE b /\ manager \in {"negotiating", "reconnecting"}
    <3> DEFINE p == [runs[c] EXCEPT !.retry = "no"]
    <3>1. /\ manager \in Busy /\ manager' = "connected" /\ status' = "connected"
          /\ runs' = [runs EXCEPT ![c] = p] /\ UNCHANGED <<runtime, doubled, overtaken, over>>
      BY <1>5, <2>1 DEF Answer, Apply, Busy, marks
    <3>2. Quiet(runs[c], p)
      BY <1>0 DEF Quiet, RunType, Holds, Unused, Steady, Fresh
    <3> HIDE DEF p
    <3> QED BY <3>1, <3>2, QuietStep
  <2>2. CASE ~(b /\ manager \in {"negotiating", "reconnecting"})
    BY <1>1, <1>5, <2>2 DEF Answer, Apply, session, marks
  <2> QED BY <2>1, <2>2
<1>6. ASSUME NEW c \in Call, MediaFails(c) \/ HostCloses(c) PROVE SessionInv'
  <2>1. /\ manager' \in {manager, "error", "closed"} /\ status' \in {status, "error"}
        /\ UNCHANGED <<runs, runtime, doubled, overtaken, over>>
    BY <1>6 DEF MediaFails, HostCloses, Apply, marks
  <2> QED BY <2>1 DEF SessionTypes, HoldersInv, UnusedInv, SteadyInv, OwnerInv, OverInv, Busy
<1>7. ASSUME NEW c \in Call, NEW b \in BOOLEAN, LinkLost(c, b) PROVE SessionInv'
  <2>1. PICK q \in Lost(runs[c]) : \E p \in Failures(q) \cup (IF q.listens THEN {} ELSE {q}) :
          Becomes(c, q, p, b /\ q.listens)
    BY <1>7 DEF LinkLost
  <2>2. PICK p \in Failures(q) \cup (IF q.listens THEN {} ELSE {q}) : Becomes(c, q, p, b /\ q.listens)
    BY <2>1
  <2>3. /\ runs' = [runs EXCEPT ![c] = p] /\ status' \in {status, "error"}
        /\ UNCHANGED <<manager, runtime, doubled, overtaken, over>>
    BY <1>7, <2>2 DEF LinkLost, Becomes, Apply, marks
  <2>4. Quiet(runs[c], q) /\ q \in RunType /\ (Steady(runs[c]) => q.socket # "connecting")
    BY <1>0, <2>1, LostQuiet DEF Quiet
  <2>5. Quiet(runs[c], p)
    <3>1. CASE p = q
      BY <2>4, <3>1
    <3>2. CASE p \in Failures(q)
      BY <2>4, <3>2, RetryIsAll DEF Quiet
    <3> QED BY <2>2, <3>1, <3>2
  <2> QED BY <1>0, <2>3, <2>5, QuietStep
<1>8. ASSUME NEW c \in Call, RetryDue(c) PROVE SessionInv'
  <2>1. PICK p \in Attempts(runs[c]) : Becomes(c, runs[c], p, FALSE)
    BY <1>8 DEF RetryDue
  <2>2. /\ runs[c].retry = "timed" /\ runs' = [runs EXCEPT ![c] = p] /\ status' \in {status, "error"}
        /\ UNCHANGED <<runtime, doubled, overtaken, over>>
        /\ manager' = manager \/ (manager \in Busy /\ manager' = "reconnecting")
    BY <1>8, <2>1 DEF RetryDue, Becomes, Apply, TriesAtOnce, Asks, MayAsk, Busy, marks
  <2>3. Quiet(runs[c], p)
    <3>1. /\ p \in RunType /\ p.at = runs[c].at /\ Holds(runs[c]) /\ ~Unused(runs[c])
          /\ Steady(runs[c]) /\ runs[c].socket # "connecting" /\ ~runs[c].late => Steady(p)
      BY <1>0, <2>1, <2>2, AttemptsEffect DEF Holds, Unused
    <3>2. Steady(runs[c]) => runs[c].socket # "connecting" /\ ~runs[c].late
      BY <2>2 DEF Steady
    <3> QED BY <3>1, <3>2 DEF Quiet
  <2> QED BY <1>0, <2>2, <2>3, QuietStep
<1>9. ASSUME NEW c \in Call, Opens(c) PROVE SessionInv'
  <2>1. PICK q \in Open(runs[c]) :
          \/ /\ q.at = "starting" /\ runs' = [runs EXCEPT ![c] = [q EXCEPT !.at = "offering"]]
             /\ UNCHANGED <<status, wake, manager, unseen>>
          \/ \E p \in Asked(q) : Becomes(c, q, p, FALSE) /\ Asks
          \/ runs' = [runs EXCEPT ![c] = q] /\ UNCHANGED <<status, wake, manager, unseen>>
    BY <1>9 DEF Opens
  <2>2. UNCHANGED <<runtime, doubled, overtaken, over>>
    BY <1>9 DEF Opens, marks
  <2>3. Quiet(runs[c], q) /\ q \in RunType /\ (Steady(q) => q.socket # "connecting")
    BY <1>0, <2>1, OpenQuiet DEF Quiet
  <2>4. CASE runs' = [runs EXCEPT ![c] = [q EXCEPT !.at = "offering"]] /\ UNCHANGED <<status, manager>>
    <3>1. Quiet(q, [q EXCEPT !.at = "offering"])
      BY <2>3 DEF Quiet, RunType, Holds, Unused, Steady, Fresh
    <3>2. Quiet(runs[c], [q EXCEPT !.at = "offering"])
      BY <2>3, <3>1, QuietTrans
    <3> QED BY <1>0, <2>2, <2>4, <3>2, QuietStep
  <2>5. ASSUME NEW p \in Asked(q), Becomes(c, q, p, FALSE), Asks PROVE SessionInv'
    <3>1. Quiet(runs[c], p)
      BY <2>3, <2>5, AskedQuiet, QuietTrans
    <3>2. /\ runs' = [runs EXCEPT ![c] = p] /\ status' \in {status, "error"}
          /\ manager' = manager \/ (manager \in Busy /\ manager' = "reconnecting")
      BY <2>5 DEF Becomes, Apply, Asks, MayAsk, Busy
    <3> QED BY <1>0, <2>2, <3>1, <3>2, QuietStep
  <2>6. CASE runs' = [runs EXCEPT ![c] = q] /\ UNCHANGED <<status, manager>>
    BY <1>0, <2>2, <2>3, <2>6, QuietStep
  <2> QED BY <2>1, <2>4, <2>5, <2>6
<1>10. ASSUME PressReconnect PROVE SessionInv'
  <2>1. /\ over' = FALSE /\ status' \in {status, "error"} /\ UNCHANGED <<runtime, doubled>>
        /\ manager' = manager \/ (manager \in Busy /\ manager' = "reconnecting")
    BY <1>10 DEF PressReconnect, Apply, TriesAtOnce, Asks, MayAsk, Busy
  <2>2. CASE runtime = NoCall
    BY <1>10, <2>1, <2>2
    DEF PressReconnect, SessionTypes, HoldersInv, UnusedInv, SteadyInv, OwnerInv, OverInv, Busy
  <2>3. CASE runtime # NoCall
    <3> DEFINE q == runs[runtime]
    <3>1. runtime \in Call /\ q \in RunType /\ q.at \notin Fresh
      BY <1>0, <2>3 DEF SessionTypes, OwnerInv
    <3>2. PICK p \in RunType : /\ runs' = [runs EXCEPT ![runtime] = p]
                               /\ p.at = q.at
                               /\ overtaken' \/ (~overtaken /\ (Steady(q) => Steady(p)))
      <4>1. CASE q.retry # "no"
        <5> DEFINE p == [q EXCEPT !.retry = "no"]
        <5>1. runs' = [runs EXCEPT ![runtime] = p] /\ overtaken' = overtaken
          BY <1>10, <2>3, <4>1 DEF PressReconnect
        <5>2. p \in RunType /\ p.at = q.at /\ (Steady(q) => Steady(p))
          BY <3>1 DEF RunType, Steady
        <5> QED BY <5>1, <5>2
      <4>2. CASE q.retry = "no"
        <5>1. /\ \E p \in Attempts(q) : runs' = [runs EXCEPT ![runtime] = p]
              /\ overtaken' = (overtaken \/ q.socket # "none" \/ q.late)
          BY <1>10, <2>3, <4>2 DEF PressReconnect
        <5>2. PICK p \in Attempts(q) : runs' = [runs EXCEPT ![runtime] = p]
          BY <5>1
        <5>3. /\ p \in RunType /\ p.at = q.at
              /\ Steady(q) /\ q.socket # "connecting" /\ ~q.late => Steady(p)
          BY <3>1, AttemptsEffect
        <5>4. overtaken' \/ (~overtaken /\ q.socket = "none" /\ ~q.late)
          BY <5>1
        <5> QED BY <5>2, <5>3, <5>4
      <4> QED BY <4>1, <4>2
    <3> HIDE DEF q
    <3>3. \A e \in Call : runs'[e] = IF e = runtime THEN p ELSE runs[e]
      BY <1>0, <3>1, <3>2
    <3>4. SessionTypes'
      BY <1>0, <2>1, <3>1, <3>2 DEF SessionTypes
    <3>5. HoldersInv' /\ UnusedInv'
      BY <2>1, <3>1, <3>2, <3>3 DEF HoldersInv, UnusedInv
    <3>6. SteadyInv'
      BY <3>1, <3>2, <3>3 DEF SteadyInv, q
    <3>7. OwnerInv'
      BY <2>1, <2>3, <3>1, <3>2, <3>3 DEF OwnerInv
    <3> QED BY <2>1, <3>4, <3>5, <3>6, <3>7 DEF OverInv
  <2> QED BY <2>2, <2>3
<1>11. ASSUME NEW c \in Call, Started(c) \/ (c = 0 /\ NoTarget) PROVE SessionInv'
  <2> DEFINE p == [runs[c] EXCEPT !.at = "up"]
  <2>1. runs' = [runs EXCEPT ![c] = p] /\ UNCHANGED <<status, manager, runtime, doubled, overtaken, over>>
    BY <1>11 DEF Started, NoTarget, marks
  <2>2. Quiet(runs[c], p)
    BY <1>0 DEF Quiet, RunType, Holds, Unused, Steady, Fresh
  <2> HIDE DEF p
  <2> QED BY <1>0, <2>1, <2>2, QuietStep
<1>12. ASSUME NEW c \in Call, NEW b \in BOOLEAN,
              \/ Event(c) \/ TogglePause \/ LockSettles(b) \/ Blur(b) \/ Visibility(b)
              \/ UNCHANGED pageVars
       PROVE  SessionInv'
  BY <1>1, <1>12 DEF Event, Apply, TogglePause, LockSettles, Blur, Visibility, pageVars, marks
<1>13. \A c \in Call : Submit(c) => runs[c].at \in Fresh /\ Connect(c)
  BY DEF Submit, Fresh
<1>14. Prepared => runs[0].at \in Fresh /\ Connect(0)
  BY DEF Prepared, Fresh
<1> QED
  BY <1>0, <1>2, <1>3, <1>4, <1>5, <1>6, <1>7, <1>8, <1>9, <1>10, <1>11, <1>12, <1>13, <1>14
  DEF PageNext, ConnectionNext, CallNext, WindowNext
-----------------------------------------------------------------------------
LEMMA PageInitInv == PageInit => PageInv
<1> SUFFICES ASSUME PageInit PROVE PageInv
  OBVIOUS
<1>1. /\ \A c \in Call : Unused(runs[c]) /\ Steady(runs[c])
      /\ runs \in [Call -> RunType]
  BY DEF PageInit, NoRun, RunType, Unused, Holds, Steady
<1>2. SessionInv
  BY <1>1 DEF PageInit, SessionInv, SessionTypes, HoldersInv, UnusedInv, SteadyInv, OwnerInv, OverInv, Unused, Busy
<1>3. LockInv
  BY PlayerAssumption DEF PageInit, LockInv, LockSound, LockOff, WakeType, Finished
<1> QED
  BY <1>2, <1>3 DEF PageInit, PageInv, PauseTypes, PauseHasReason, ConnectedIsTrue

\* The inductive invariant holds in every reachable state.
THEOREM PageInvariance == PageSpec => []PageInv
<1>1. PageInv /\ [PageNext]_pageVars => PageInv'
  BY SessionStep, LockStep, PauseStep, TruthStep DEF PageInv
<1> QED BY <1>1, PageInitInv, PTL DEF PageSpec

\* Every variable has its type.
THEOREM PageTypeCorrect == PageSpec => []PageTypeOK
<1>1. PageInv => PageTypeOK
  BY DEF PageInv, SessionInv, SessionTypes, RunType, LockInv, WakeType, PageTypeOK
<1> QED BY <1>1, PageInvariance, PTL

\* However buttons, answers, retries and sockets that fail or open late interleave over several
\* calls of connect(), the page keeps hold of every socket, and what was ended by its button is
\* over - but for a second connect() that replaced a runtime with a connection, and for a press
\* of Reconnect before an earlier socket was done with.
THEOREM PageHoldsConnections == PageSpec => []NoStrayConnection
<1>1. PageInv => EndIsFinal
  BY DEF PageInv, SessionInv, OverInv, Holds, EndIsFinal
<1>2. PageInv => ConnectionIsPages
  BY DEF PageInv, SessionInv, HoldersInv, SteadyInv, Holds, Steady, ConnectionIsPages
<1> QED BY <1>1, <1>2, PageInvariance, PTL DEF NoStrayConnection

\* A page that says `connected' has a session that is, unless it was not told; and a host
\* that is paused is so for a reason the page knows, unless a control was lost.  That the window's
\* return takes its reason back, as docs/transport.md has it, is no part of this: it need not.
THEOREM PageIsTruthful == PageSpec => []PageTellsTruth
<1>1. PageInv => PageTellsTruth
  BY DEF PageInv, PageTellsTruth
<1> QED BY <1>1, PageInvariance, PTL

\* When the session has ended or failed the screen may sleep again.
THEOREM PageFreesLock == PageSpec => []LockEndsWithSession
<1>1. PageInv => LockEndsWithSession
  BY DEF PageInv, LockInv, LockSound, LockOff, Finished, LockEndsWithSession
<1> QED BY <1>1, PageInvariance, PTL
=============================================================================
