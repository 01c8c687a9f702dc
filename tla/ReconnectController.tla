------------------------- MODULE ReconnectController -------------------------
(***************************************************************************)
(* createReconnectController of src/frontend/session/reconnect-controller, *)
(* with the policy of recovery.mjs.                                        *)
(*                                                                         *)
(* The status "waiting" stands for two situations: an attempt was made and *)
(* its outcome is open, or the next attempt is scheduled and its timer     *)
(* runs.  An attempt is an asynchronous call; its promise may be rejected  *)
(* at any later time, in another cycle too (a cycle begins with start()).  *)
(* How long a timer runs is abstracted from.                               *)
(***************************************************************************)
EXTENDS Integers

CONSTANTS MaxAttempts, \* policy.maxAttempts
          MaxCycles    \* bound: calls of start()

ASSUME ReconnectAssumption == MaxAttempts \in Nat \ {0} /\ MaxCycles \in Nat

Status == {"idle", "waiting", "succeeded", "cancelled", "exhausted"}

None == 0 \* no timer

VARIABLES
  status, \* current.state; "attempting" lasts only while attempt() is called
  used,   \* the policy's attempt counter
  timer,  \* the attempt the pending timer is for, or None
  calls,  \* attempts whose promise is open: [cycle, attempt]
  cycle,  \* number of start() calls
  made,   \* number of attempts made in this cycle
  open    \* some attempt of this cycle was fulfilled: its answer is awaited

reconnectVars == <<status, used, timer, calls, cycle, made, open>>

ReconnectInit ==
  /\ status = "idle"
  /\ used = 0
  /\ timer = None
  /\ calls = {}
  /\ cycle = 0
  /\ made = 0
  /\ open = FALSE

\* policy.next() still gives an attempt after n of them.
HasAttempt(n) == n < MaxAttempts

\* fail(): give up, or schedule the next attempt, which replaces a pending one.
\* Giving up leaves a pending timer alone.
FailAfter(n) ==
  IF HasAttempt(n)
  THEN /\ status' = "waiting"
       /\ used' = n + 1
       /\ timer' = n + 1
  ELSE /\ status' = "exhausted"
       /\ used' = n
       /\ UNCHANGED timer

\* run(): make attempt n of cycle c.  attempt() returns a promise, or throws at
\* once.
Run(n, c) ==
  \/ /\ status' = "waiting"
     /\ used' = n
     /\ timer' = None
     /\ calls' = calls \cup {[cycle |-> c, attempt |-> n]}
  \/ /\ UNCHANGED calls
     /\ IF HasAttempt(n)
        THEN status' = "waiting" /\ used' = n + 1 /\ timer' = n + 1
        ELSE status' = "exhausted" /\ used' = n /\ timer' = None

\* start(): a new cycle, unless one is active.
Start ==
  /\ status # "waiting" /\ cycle < MaxCycles
  /\ cycle' = cycle + 1
  /\ made' = 1
  /\ open' = FALSE
  /\ Run(1, cycle + 1)

\* Mutant: a timer that fires runs its attempt whatever has happened since.
TimerFires_Unchecked ==
  /\ timer # None
  /\ Run(timer, cycle)
  /\ made' = made + 1
  /\ UNCHANGED <<cycle, open>>

\* The timer fires.  In a cycle that was given up it does nothing.
TimerFires ==
  /\ timer # None
  /\ IF status \in {"cancelled", "succeeded", "exhausted"}
     THEN /\ timer' = None
          /\ UNCHANGED <<status, used, calls, made>>
     ELSE /\ Run(timer, cycle)
          /\ made' = made + 1
  /\ UNCHANGED <<cycle, open>>

\* fail() called from outside: the transport reports an error or has closed.
Fail ==
  /\ status = "waiting"
  /\ FailAfter(used)
  /\ UNCHANGED <<calls, cycle, made, open>>

\* The promise of an attempt is rejected: fail(), if a cycle is active by now.
Rejected(c) ==
  /\ c \in calls
  /\ calls' = calls \ {c}
  /\ IF status = "waiting" THEN FailAfter(used) ELSE UNCHANGED <<status, used, timer>>
  /\ UNCHANGED <<cycle, made, open>>

Fulfilled(c) ==
  /\ c \in calls
  /\ calls' = calls \ {c}
  /\ open' = (open \/ c.cycle = cycle)
  /\ UNCHANGED <<status, used, timer, cycle, made>>

Cancel ==
  /\ status' = "cancelled"
  /\ timer' = None
  /\ UNCHANGED <<used, calls, cycle, made, open>>

Succeed ==
  /\ status' = "succeeded"
  /\ timer' = None
  /\ used' = 0
  /\ UNCHANGED <<calls, cycle, made, open>>

Reset ==
  /\ status' = "idle"
  /\ timer' = None
  /\ used' = 0
  /\ UNCHANGED <<calls, cycle, made, open>>

ReconnectNext ==
  \/ Start
  \/ TimerFires
  \/ Fail
  \/ \E c \in calls : Rejected(c) \/ Fulfilled(c)
  \/ Cancel
  \/ Succeed
  \/ Reset

ReconnectSpec == ReconnectInit /\ [][ReconnectNext]_reconnectVars
-----------------------------------------------------------------------------
ReconnectTypeOK ==
  /\ status \in Status
  /\ used \in 0 .. MaxAttempts
  /\ timer \in 0 .. MaxAttempts
  /\ calls \subseteq [cycle : 1 .. MaxCycles, attempt : 1 .. MaxAttempts]
  /\ cycle \in 0 .. MaxCycles
  /\ made \in Nat
  /\ open \in BOOLEAN

\* docs/transport.md, "no reconnect loop is unbounded": a cycle makes at most
\* maxAttempts attempts, one that is scheduled included, whatever failures of
\* this cycle, or late ones of an earlier cycle, are reported to it.
AttemptsBounded ==
  /\ made <= MaxAttempts
  /\ status = "waiting" =>
       IF timer = None THEN made <= used ELSE made < timer /\ timer = used

\* "The player can cancel pending work": once a cycle was cancelled, has
\* succeeded or was given up, nothing but a new start() makes an attempt.
NoAttemptAfterEnd ==
  [][status # "waiting" /\ made' > made => cycle' # cycle]_reconnectVars

=============================================================================
