--------------------------- MODULE SignalingBroker ---------------------------
(***************************************************************************)
(* The in-memory signaling broker of signaling/broker.mjs.                 *)
(*                                                                         *)
(* A successful attach() returns a participant: a closure that captures    *)
(* the session OBJECT it joined, its role and a private `detached' flag.   *)
(* The Map `sessions' gives the object that currently answers to a session *)
(* id.  The closure keeps its object for life, the Map does not: a swept   *)
(* session is forgotten by the Map while its closures are still held.      *)
(*                                                                         *)
(* A participant is a member of Handle (one per successful attach); a      *)
(* session object is named by the participant whose attach created it.     *)
(*                                                                         *)
(* Time is relative.  idle[o] is the age of o.lastActivityAt, capped one   *)
(* past the TTL (all sweep() can tell apart); life[s][r] is how long the   *)
(* longest-lived ticket issued for (s, r) is still valid.                  *)
(***************************************************************************)
EXTENDS Integers, FiniteSets

CONSTANTS Session,     \* session ids
          Handle,      \* participants, one per successful attach
          None,        \* no object, no participant
          MaxSessions, \* options.maxSessions
          SessionTtl,  \* options.sessionTtlMs, in clock ticks
          TicketTtls   \* the ttlMs values issueTicket is called with, in ticks

ASSUME BrokerAssumption ==
  /\ None \notin Handle
  /\ MaxSessions \in Nat \ {0}
  /\ SessionTtl \in Nat
  /\ TicketTtls \subseteq Nat
  /\ IsFiniteSet(Session)

Role == {"client", "host"}

VARIABLES
  sessions,     \* [Session -> object or None]: the Map
  participants, \* [object -> [Role -> Handle or None]]: session.participants
  idle,         \* [object -> age of session.lastActivityAt]
  phase,        \* [Handle -> "new", "attached" or "detached"]: the closure
  sessionOf,    \* [Handle -> sessionId captured by the closure]
  roleOf,       \* [Handle -> role captured by the closure]
  objectOf,     \* [Handle -> session object captured by the closure]
  dropped,      \* handles removed after a failing delivery (droppedDeliveries)
  life          \* [Session -> [Role -> remaining ticket lifetime]]

closureVars == <<phase, sessionOf, roleOf, objectOf>>
brokerVars == <<sessions, participants, idle, closureVars, dropped, life>>

AllFree == [r \in Role |-> None]

BrokerInit ==
  /\ sessions = [s \in Session |-> None]
  /\ participants = [o \in Handle |-> AllFree]
  /\ idle = [o \in Handle |-> 0]
  /\ phase = [h \in Handle |-> "new"]
  /\ sessionOf = [h \in Handle |-> None]
  /\ roleOf = [h \in Handle |-> None]
  /\ objectOf = [h \in Handle |-> None]
  /\ dropped = {}
  /\ life = [s \in Session |-> [r \in Role |-> 0]]

(***************************************************************************)
(* sweep(): forget the sessions that are past the TTL or have nobody in    *)
(* them.  It edits the Map only; the objects live on in the closures.      *)
(***************************************************************************)
Sweepable(s) ==
  /\ sessions[s] # None
  /\ \/ idle[sessions[s]] > SessionTtl
     \/ participants[sessions[s]] = AllFree

Swept == [s \in Session |-> IF Sweepable(s) THEN None ELSE sessions[s]]

Live(map) == {s \in Session : map[s] # None}

\* stats() and sweep(), which any caller may invoke at any time.
Sweep ==
  /\ sessions' = Swept
  /\ UNCHANGED <<participants, idle, closureVars, dropped, life>>

\* issueTicket(): a ticket is a bearer token that can be presented any number
\* of times until it expires; an older, shorter-lived one adds nothing.
IssueTicket(s, r, ttl) ==
  /\ life' = [life EXCEPT ![s][r] = IF ttl > @ THEN ttl ELSE @]
  /\ UNCHANGED <<sessions, participants, idle, closureVars, dropped>>

(***************************************************************************)
(* attach(): sweep, verify the ticket, find or create the session object   *)
(* and take the role in it.  A rejected call has swept all the same.       *)
(***************************************************************************)
TicketValid(s, r) == life[s][r] > 0

HasRoom == Cardinality(Live(Swept)) < MaxSessions

\* Mutant: joining an existing session does not look at the role.
RoleFree_Unchecked(s, r) == Swept[s] # None \/ HasRoom

RoleFree(s, r) ==
  IF Swept[s] = None THEN HasRoom ELSE participants[Swept[s]][r] = None

Attach(h, s, r) ==
  /\ phase[h] = "new"
  /\ TicketValid(s, r)
  /\ RoleFree(s, r)
  /\ LET o == IF Swept[s] = None THEN h ELSE Swept[s]
     IN  /\ sessions' = [Swept EXCEPT ![s] = o]
         /\ participants' = [participants EXCEPT ![o][r] = h]
         /\ idle' = [idle EXCEPT ![o] = 0]
         /\ objectOf' = [objectOf EXCEPT ![h] = o]
  /\ phase' = [phase EXCEPT ![h] = "attached"]
  /\ sessionOf' = [sessionOf EXCEPT ![h] = s]
  /\ roleOf' = [roleOf EXCEPT ![h] = r]
  /\ UNCHANGED <<dropped, life>>

AttachRejected(s, r) ==
  /\ ~TicketValid(s, r) \/ ~RoleFree(s, r)
  /\ Sweep

(***************************************************************************)
(* participant.send(): hand the message to everybody else in the captured  *)
(* object.  A recipient whose send throws loses its place in the object,   *)
(* but its closure is not told.  A `session.close' reaches the recipient   *)
(* like any other message and then makes the call throw (the name `detach' *)
(* is not in scope at that point), so it too leaves the sender attached.   *)
(***************************************************************************)
Attached == {h \in Handle : phase[h] = "attached"}

\* Mutant: the sender's own role is not skipped.
Recipients_WithSender(h) ==
  {participants[objectOf[h]][r] : r \in Role} \ {None}

Recipients(h) ==
  {participants[objectOf[h]][r] : r \in Role \ {roleOf[h]}} \ {None}

Send(h, failing) ==
  /\ h \in Attached
  /\ failing \subseteq Recipients(h)
  /\ participants' =
       [participants EXCEPT ![objectOf[h]] =
          [r \in Role |-> IF r # roleOf[h] /\ @[r] \in failing THEN None ELSE @[r]]]
  /\ dropped' = dropped \cup failing
  /\ idle' = [idle EXCEPT ![objectOf[h]] = 0]
  /\ UNCHANGED <<sessions, closureVars, life>>

(***************************************************************************)
(* participant.detach(): once per closure, and only if the Map still has   *)
(* the captured object.  It frees the ROLE in that object, whoever holds   *)
(* it by now.                                                              *)
(***************************************************************************)
Vacated(h) == [participants[objectOf[h]] EXCEPT ![roleOf[h]] = None]

\* Mutant: detaching does not free the role.
Detach_KeepsRole(h) ==
  /\ h \in Attached
  /\ phase' = [phase EXCEPT ![h] = "detached"]
  /\ UNCHANGED <<participants, idle, sessions, sessionOf, roleOf, objectOf, dropped, life>>

Detach(h) ==
  /\ h \in Attached
  /\ phase' = [phase EXCEPT ![h] = "detached"]
  /\ IF sessions[sessionOf[h]] = objectOf[h]
     THEN /\ participants' = [participants EXCEPT ![objectOf[h]] = Vacated(h)]
          /\ idle' = [idle EXCEPT ![objectOf[h]] = 0]
          /\ sessions' = [sessions EXCEPT ![sessionOf[h]] =
                            IF Vacated(h) = AllFree THEN None ELSE @]
     ELSE UNCHANGED <<participants, idle, sessions>>
  /\ UNCHANGED <<sessionOf, roleOf, objectOf, dropped, life>>

\* One tick of options.clock.
Created(o) == objectOf[o] = o

Tick ==
  /\ idle' = [o \in Handle |-> IF Created(o) /\ idle[o] <= SessionTtl
                               THEN idle[o] + 1 ELSE idle[o]]
  /\ life' = [s \in Session |->
                [r \in Role |-> IF life[s][r] = 0 THEN 0 ELSE life[s][r] - 1]]
  /\ UNCHANGED <<sessions, participants, closureVars, dropped>>

BrokerNext ==
  \/ \E s \in Session, r \in Role, ttl \in TicketTtls : IssueTicket(s, r, ttl)
  \/ \E h \in Handle, s \in Session, r \in Role : Attach(h, s, r)
  \/ \E s \in Session, r \in Role : AttachRejected(s, r)
  \/ \E h \in Attached : \E failing \in SUBSET Recipients(h) : Send(h, failing)
  \/ \E h \in Attached : Detach(h)
  \/ Sweep
  \/ Tick

BrokerSpec == BrokerInit /\ [][BrokerNext]_brokerVars
-----------------------------------------------------------------------------
\* Every variable has its type: participants and objects are handles, ages
\* and lifetimes are bounded by the TTLs.
BrokerTypeOK ==
  /\ sessions \in [Session -> Handle \cup {None}]
  /\ participants \in [Handle -> [Role -> Handle \cup {None}]]
  /\ idle \in [Handle -> 0 .. SessionTtl + 1]
  /\ phase \in [Handle -> {"new", "attached", "detached"}]
  /\ sessionOf \in [Handle -> Session \cup {None}]
  /\ roleOf \in [Handle -> Role \cup {None}]
  /\ objectOf \in [Handle -> Handle \cup {None}]
  /\ dropped \in SUBSET Handle
  /\ life \in [Session -> [Role -> Nat]]

\* A routed participant is one that can use the route: whoever the Map reaches
\* under (session, role) is the closure created for exactly that pair, it has
\* not detached and no delivery to it has failed.
RoutingSound ==
  \A s \in Live(sessions), r \in Role :
    LET h == participants[sessions[s]][r]
    IN  h # None =>
          /\ phase[h] = "attached"
          /\ h \notin dropped
          /\ sessionOf[h] = s /\ roleOf[h] = r /\ objectOf[h] = sessions[s]

\* A message only ever goes to the opposite role of the sender's own session,
\* even from a participant whose session the Map has forgotten or replaced,
\* and through a session in the Map it never goes to a detached participant.
DeliveryScoped ==
  \A h \in Attached : \A g \in Recipients(h) :
    /\ sessionOf[g] = sessionOf[h]
    /\ roleOf[g] # roleOf[h]
    /\ sessions[sessionOf[h]] = objectOf[h] => phase[g] = "attached"

\* The Map never holds more than maxSessions sessions, although sessions whose
\* participants were dropped stay in it until the next sweep.
CapacityBound == Cardinality(Live(sessions)) <= MaxSessions

\* The refinement mapping: the seats are what the Map reaches, those who ever
\* entered are the closures that exist, and the expired sessions are the ones
\* whose age alone lets a sweep clear them.
Seats == [s \in Session |-> IF sessions[s] = None THEN AllFree
                            ELSE participants[sessions[s]]]

Entered == {h \in Handle : phase[h] # "new"}

Expired == {s \in Live(sessions) : idle[sessions[s]] > SessionTtl}

Promise == INSTANCE Rendezvous WITH
  Free <- None, seat <- Seats, entered <- Entered, expired <- Expired

\* A role of a session is granted to one participant at a time, to each at most
\* once, and only when it is free or the session has expired.
KeepsPromise == Promise!RSpec

\* Handles and sessions can be renamed (for TLC).
Renamings(S) == {f \in [S -> S] : \A x \in S : \E y \in S : f[y] = x}
Symmetry == {f : f \in Renamings(Handle) \cup Renamings(Session)}
=============================================================================
