----------------------------- MODULE RedisBroker -----------------------------
(***************************************************************************)
(* The clustered signaling broker of signaling/redis-broker.mjs.           *)
(*                                                                         *)
(* Several service instances share one Redis.  A role of a session is      *)
(* owned by a key that is SET with NX and a TTL and is never renewed; its  *)
(* value names the INSTANCE, not the participant.  Messages go through a   *)
(* channel per session, to which the participants of an instance add their *)
(* listeners over the one `subscriber' connection of that instance.        *)
(*                                                                         *)
(* Every await is a step boundary: a participant waits for SET, then for   *)
(* SUBSCRIBE, later for UNSUBSCRIBE and for the EVAL that deletes the key. *)
(* The subscriber connection executes its commands in the order they were  *)
(* issued (pipe).  The key remembers which participant claimed it, which   *)
(* the code does not: only the instance of that participant is compared.   *)
(* Each command may fail, and may have been executed all the same when the *)
(* connection is lost before the answer.                                   *)
(* Sending changes no state unless the message is a session.close.         *)
(***************************************************************************)
EXTENDS Integers, Sequences, FiniteSets, TLC

CONSTANTS Session, Instance, Handle,
          None,
          MaxSessions \* options.maxSessions

ASSUME RedisAssumption == None \notin Handle \cup Instance /\ MaxSessions \in Nat \ {0}

Role == {"client", "host"}
Seat == Session \X Role

VARIABLES
  lock,      \* [Seat -> Handle or None]: the keys in Redis
  local,     \* [Instance -> [Seat -> Handle or None]]: the Map `local'
  mode,      \* [Instance -> "open", "closed", "quit" or "crashed"]
  listeners, \* [Instance -> the handles whose channel listener is registered]
  pipe,      \* [Instance -> sequence of handles]: SUBSCRIBE and UNSUBSCRIBE
  phase, seatOf, at, \* of each participant: the await it is in, seat, instance
  lapsed,    \* participants whose key expired before they had left
  failed     \* those whose SET lost its answer or whose EVAL failed

redisVars == <<lock, local, mode, listeners, pipe, phase, seatOf, at, lapsed, failed>>

NoSeats == [x \in Seat |-> None]

RedisInit ==
  /\ lock = NoSeats
  /\ local = [i \in Instance |-> NoSeats]
  /\ mode = [i \in Instance |-> "open"]
  /\ listeners = [i \in Instance |-> {}]
  /\ pipe = [i \in Instance |-> <<>>]
  /\ phase = [h \in Handle |-> "new"]
  /\ seatOf = [h \in Handle |-> None]
  /\ at = [h \in Handle |-> None]
  /\ lapsed = {}
  /\ failed = {}

Goto(h, p) == phase' = [phase EXCEPT ![h] = p]

Issue(h) == pipe' = [pipe EXCEPT ![at[h]] = Append(@, h)]

Seated(i) == {x \in Seat : local[i][x] # None}

(***************************************************************************)
(* attach(): the local checks, and SET NX PX is issued.  The checks are    *)
(* not repeated when it is answered.                                       *)
(***************************************************************************)
Attach(h, i, x) ==
  /\ phase[h] = "new"
  /\ mode[i] = "open"
  /\ local[i][x] = None
  /\ Cardinality(Seated(i)) < MaxSessions * 2
  /\ Goto(h, "claiming")
  /\ seatOf' = [seatOf EXCEPT ![h] = x]
  /\ at' = [at EXCEPT ![h] = i]
  /\ UNCHANGED <<lock, local, mode, listeners, pipe, lapsed, failed>>

\* Mutant: the key is set without NX.
KeyFree_NoNX(x) == TRUE

KeyFree(x) == lock[x] = None

\* SET is answered `OK': the participant is entered and subscribes.
Claimed(h) ==
  /\ phase[h] = "claiming"
  /\ KeyFree(seatOf[h])
  /\ lock' = [lock EXCEPT ![seatOf[h]] = h]
  /\ local' = [local EXCEPT ![at[h]][seatOf[h]] = h]
  /\ Goto(h, "subscribing")
  /\ Issue(h)
  /\ UNCHANGED <<mode, listeners, seatOf, at, lapsed, failed>>

\* SET was executed and its answer is lost: attach() throws, and nobody has the key.
ClaimLost(h) ==
  /\ phase[h] = "claiming"
  /\ KeyFree(seatOf[h])
  /\ lock' = [lock EXCEPT ![seatOf[h]] = h]
  /\ Goto(h, "gone")
  /\ failed' = failed \cup {h}
  /\ UNCHANGED <<local, mode, listeners, pipe, seatOf, at, lapsed>>

\* SET is answered with nil, or fails: attach() throws and nobody was made.
ClaimRefused(h) ==
  /\ phase[h] = "claiming"
  /\ Goto(h, "new")
  /\ seatOf' = [seatOf EXCEPT ![h] = None]
  /\ at' = [at EXCEPT ![h] = None]
  /\ UNCHANGED <<lock, local, mode, listeners, pipe, lapsed, failed>>

\* The head of the subscriber's pipe is executed.
Heads(h) == pipe[at[h]] # <<>> /\ Head(pipe[at[h]]) = h

Executed(h) == pipe' = [pipe EXCEPT ![at[h]] = Tail(@)]

\* Mutant: a channel has one listener in an instance.
Subscribed_Replaces(h) ==
  /\ phase[h] = "subscribing"
  /\ Heads(h)
  /\ mode[at[h]] # "quit"
  /\ listeners' = [listeners EXCEPT ![at[h]] = {h}]
  /\ Executed(h)
  /\ Goto(h, "attached")
  /\ UNCHANGED <<lock, local, mode, seatOf, at, lapsed, failed>>

Subscribed(h) ==
  /\ phase[h] = "subscribing"
  /\ Heads(h)
  /\ mode[at[h]] # "quit"
  /\ listeners' = [listeners EXCEPT ![at[h]] = @ \cup {h}]
  /\ Executed(h)
  /\ Goto(h, "attached")
  /\ UNCHANGED <<lock, local, mode, seatOf, at, lapsed, failed>>

Forgotten(h) == [local EXCEPT ![at[h]][seatOf[h]] = None]

SubscribeFails(h) ==
  /\ phase[h] = "subscribing"
  /\ Heads(h)
  /\ local' = Forgotten(h)
  /\ Executed(h)
  /\ Goto(h, "releasing")
  /\ UNCHANGED <<lock, mode, listeners, seatOf, at, lapsed, failed>>

(***************************************************************************)
(* The messages.  A listener hears what the other role of its session says *)
(* in any instance, until it is unsubscribed, detached or not.             *)
(***************************************************************************)
Opposite(g, h) ==
  /\ seatOf[g][1] = seatOf[h][1]
  /\ seatOf[g][2] # seatOf[h][2]

Reached(h) == {g \in UNION {listeners[i] : i \in Instance} : Opposite(g, h)}

(***************************************************************************)
(* detach(): by the service when the socket has closed, or by send() after *)
(* a session.close was published.  unsubscribe() names the channel and no  *)
(* listener, so that it removes all of the instance's.                     *)
(***************************************************************************)
Detach(h) ==
  /\ phase[h] = "attached"
  /\ local' = Forgotten(h)
  /\ Goto(h, "leaving")
  /\ Issue(h)
  /\ UNCHANGED <<lock, mode, listeners, seatOf, at, lapsed, failed>>

OfChannel(h) == {g \in listeners[at[h]] : seatOf[g][1] = seatOf[h][1]}

Unsubscribed(h) ==
  /\ phase[h] = "leaving"
  /\ Heads(h)
  /\ \/ listeners' = [listeners EXCEPT ![at[h]] = @ \ OfChannel(h)]
     \/ UNCHANGED listeners \* it was rejected; `finally' goes on
  /\ Executed(h)
  /\ Goto(h, "releasing")
  /\ UNCHANGED <<lock, local, mode, seatOf, at, lapsed, failed>>

\* release(): the key is deleted if its value is this instance.
Mine(h) == lock[seatOf[h]] # None /\ at[lock[seatOf[h]]] = at[h]

\* Mutant: the key is left to its TTL.
Released_NotDeleted(h) ==
  /\ phase[h] = "releasing"
  /\ Goto(h, "gone")
  /\ UNCHANGED <<lock, local, mode, listeners, pipe, seatOf, at, lapsed, failed>>

Released(h) ==
  /\ phase[h] = "releasing"
  /\ \/ /\ lock' = [lock EXCEPT ![seatOf[h]] = IF Mine(h) THEN None ELSE @]
        /\ UNCHANGED failed
     \/ failed' = failed \cup {h} /\ UNCHANGED lock \* nobody tries again
  /\ Goto(h, "gone")
  /\ UNCHANGED <<local, mode, listeners, pipe, seatOf, at, lapsed>>

\* close() throws at the first participant, which has no method detach();
\* with nobody entered it ends both connections.
Close(i) ==
  /\ mode[i] = "open"
  /\ mode' = [mode EXCEPT ![i] = IF Seated(i) = {} THEN "quit" ELSE "closed"]
  /\ UNCHANGED <<lock, local, listeners, pipe, phase, seatOf, at, lapsed, failed>>

Gone == {h \in Handle : phase[h] = "gone"}

\* The TTL of a key runs out, whatever its owner does.
Expire(x) ==
  /\ lock[x] # None
  /\ lock' = [lock EXCEPT ![x] = None]
  /\ lapsed' = lapsed \cup ({lock[x]} \ Gone)
  /\ UNCHANGED <<local, mode, listeners, pipe, phase, seatOf, at, failed>>

\* An instance stops: all it had is lost, except its keys.
Crash(i) ==
  /\ mode[i] # "crashed"
  /\ mode' = [mode EXCEPT ![i] = "crashed"]
  /\ local' = [local EXCEPT ![i] = NoSeats]
  /\ listeners' = [listeners EXCEPT ![i] = {}]
  /\ pipe' = [pipe EXCEPT ![i] = <<>>]
  /\ phase' = [h \in Handle |-> IF at[h] # i THEN phase[h]
                                ELSE IF phase[h] = "claiming" THEN "new" ELSE "gone"]
  /\ LET lost == {h \in Handle : at[h] = i /\ phase[h] = "claiming"}
     IN  /\ seatOf' = [h \in Handle |-> IF h \in lost THEN None ELSE seatOf[h]]
         /\ at' = [h \in Handle |-> IF h \in lost THEN None ELSE at[h]]
  /\ UNCHANGED <<lock, lapsed, failed>>

Progress(h) ==
  \/ Claimed(h) \/ ClaimLost(h) \/ ClaimRefused(h) \/ Subscribed(h) \/ SubscribeFails(h)
  \/ Unsubscribed(h) \/ Released(h)

RedisNext ==
  \/ \E h \in Handle, i \in Instance, x \in Seat : Attach(h, i, x)
  \/ \E h \in Handle : Progress(h)
  \/ \E h \in Handle : Detach(h)
  \/ \E i \in Instance : Close(i)
  \/ \E i \in Instance : Crash(i)
  \/ \E x \in Seat : Expire(x)

RedisSpec == RedisInit /\ [][RedisNext]_redisVars
-----------------------------------------------------------------------------
\* Every variable has its type, and a pipe holds no handle twice.
RedisTypeOK ==
  /\ lock \in [Seat -> Handle \cup {None}]
  /\ local \in [Instance -> [Seat -> Handle \cup {None}]]
  /\ mode \in [Instance -> {"open", "closed", "quit", "crashed"}]
  /\ listeners \in [Instance -> SUBSET Handle]
  /\ \A i \in Instance : \A m, n \in 1 .. Len(pipe[i]) :
       /\ pipe[i][m] \in Handle /\ at[pipe[i][m]] = i
       /\ pipe[i][m] = pipe[i][n] => m = n
  /\ phase \in [Handle -> {"new", "claiming", "subscribing", "attached",
                           "leaving", "releasing", "gone"}]
  /\ seatOf \in [Handle -> Seat \cup {None}]
  /\ at \in [Handle -> Instance \cup {None}]
  /\ lapsed \subseteq Handle /\ failed \subseteq Handle

Entered == {h \in Handle : phase[h] \in {"subscribing", "attached"}}

\* No key of this seat ever ran out under somebody who still had it.
Unlapsed(x) == \A h \in lapsed : seatOf[h] # x

\* The key keeps the role exclusive over all instances for as long as no
\* participant outlives its TTL: two that have the same role, or a participant
\* without the key, are only found after an expiry.
RoleExclusive ==
  \A h \in Entered : Unlapsed(seatOf[h]) =>
    /\ lock[seatOf[h]] = h
    /\ \A g \in Entered : seatOf[g] = seatOf[h] => g = h

\* An attached participant hears its peers, from whatever instance they send,
\* unless somebody of its own session has detached from its own instance.
DeafOnlyByNeighbour ==
  \A g, h \in Handle : phase[g] = "attached" /\ phase[h] = "attached" /\ Opposite(g, h)
    => \/ g \in Reached(h)
       \/ \E n \in Handle \ {g} :
            /\ phase[n] \in {"releasing", "gone"}
            /\ at[n] = at[g] /\ seatOf[n][1] = seatOf[g][1]

\* A key has an owner who is there or on its way out, also when the subscription fails or the
\* broker is closed under it.  It is left behind, and the role taken until the TTL runs out, in
\* two cases: the instance has stopped, or a command about the key did not come back.
KeyHasOwner ==
  \A x \in Seat : lock[x] # None =>
    \/ seatOf[lock[x]] = x /\ phase[lock[x]] # "gone"
    \/ mode[at[lock[x]]] = "crashed"
    \/ lock[x] \in failed

\* The seats of the abstract broker are the keys.
Keys == [s \in Session |-> [r \in Role |-> lock[<<s, r>>]]]

EverHadKey == {h \in Handle : phase[h] \notin {"new", "claiming"}}

Promise == INSTANCE Rendezvous WITH
  Free <- None, seat <- Keys, entered <- EverHadKey, expired <- {}

\* The keys give each role of a session to one participant at a time, and to
\* each at most once, as the in-memory broker does.
RedisKeepsPromise == Promise!RSpec

\* The keys, and the channels, say who is attached.
RolesAreSound == RoleExclusive /\ KeyHasOwner /\ DeafOnlyByNeighbour

\* Handles, instances and sessions are interchangeable.
Symmetry == Permutations(Handle) \cup Permutations(Instance) \cup Permutations(Session)
=============================================================================
