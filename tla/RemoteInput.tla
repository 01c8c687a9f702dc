------------------------------ MODULE RemoteInput ------------------------------
(***************************************************************************)
(* What the player holds on its keyboard, controllers and screen, on its   *)
(* way to the host.  Keys and controllers share no state and have a        *)
(* specification each.                                                     *)
(***************************************************************************)
EXTENDS Integers, Sequences, SequencesExt, FiniteSetsExt, TLC
-----------------------------------------------------------------------------
(***************************************************************************)
(* A key of the player's keyboard on its way to the host: the player page  *)
(* (keyboardInput, emitInput and the sticky keys of                        *)
(* input/sticky-keys.mjs), signaling (what goes into an open data channel  *)
(* reaches no host), the executor of host/input.mjs and the X11 adapter,   *)
(* which starts one xdotool process per event and waits for none before    *)
(* the next.                                                               *)
(***************************************************************************)
CONSTANTS Modifier, Letter, \* the keys
          Rate,             \* maxEventsPerSecond
          MaxStrokes,       \* bound: keys pressed or lifted
          MaxFaults         \* bound: xdotool processes that fail, connections that break

ASSUME KeyAssumption == Modifier \cap Letter = {} /\ Rate \in Nat \ {0}

VARIABLES down,      \* the keys the player holds
          focus,     \* where their events go: "page", "control" (a text field) or "away"
          sticky,    \* the preference
          latched,   \* of the sticky keys controller
          connected,
          wire,      \* events under way through signaling, in order: [key, pressed, number]
          running,   \* the events whose xdotool process has not ended
          budget,    \* events the executor takes before its window ends
          executor,  \* "open" or "failed"
          held,      \* the keys the host's X server takes for held
          number,    \* of the last event
          latest,    \* [Key -> number of its last event]
          done,      \* [Key -> number of the last event executed]
          unseen,    \* keys that moved while the page did not look
          amiss,     \* keys with an event that was refused, lost or executed out of order
          strokes, faults
keyVars == <<down, focus, sticky, latched, connected, wire, running, budget, executor, held,
             number, latest, done, unseen, amiss, strokes, faults>>

Key == Modifier \cup Letter

KeysInit ==
  /\ down = {} /\ focus = "page" /\ sticky \in BOOLEAN /\ latched = {} /\ connected = TRUE
  /\ wire = <<>> /\ running = {} /\ budget = Rate /\ executor = "open" /\ held = {}
  /\ number = 0 /\ latest = [k \in Key |-> 0] /\ done = [k \in Key |-> 0]
  /\ unseen = {} /\ amiss = {} /\ strokes = 0 /\ faults = 0
-----------------------------------------------------------------------------
Event(k, pressed) == [key |-> k, pressed |-> pressed]

\* Mutant: a key that is lifted leaves the modifiers latched.
Process_Keeps(k, pressed) ==
  IF ~sticky \/ k \in Letter THEN <<latched, <<Event(k, pressed)>>>>
  ELSE IF ~pressed THEN <<latched, <<>>>>
  ELSE IF k \in latched THEN <<latched \ {k}, <<Event(k, FALSE)>>>>
  ELSE <<latched \cup {k}, <<Event(k, TRUE)>>>>

Releases == [i \in 1..Cardinality(latched) |-> Event(SetToSeq(latched)[i], FALSE)]

\* process(): the modifiers that stay latched, and the events to send.
Process(k, pressed) ==
  IF ~sticky THEN <<latched, <<Event(k, pressed)>>>>
  ELSE IF k \in Letter THEN
         IF pressed THEN <<latched, <<Event(k, TRUE)>>>>
         ELSE <<{}, <<Event(k, FALSE)>> \o Releases>>
  ELSE IF ~pressed THEN <<latched, <<>>>>
  ELSE IF k \in latched THEN <<latched \ {k}, <<Event(k, FALSE)>>>>
  ELSE <<latched \cup {k}, <<Event(k, TRUE)>>>>

KeysOf(events) == {events[i].key : i \in DOMAIN events}

\* emitInput(): runtime.send() throws when no way is open, and the error is swallowed.
Emit(events) ==
  LET numbered == [i \in DOMAIN events |->
                     [key |-> events[i].key, pressed |-> events[i].pressed, number |-> number + i]]
  IN  /\ number' = number + Len(events)
      /\ latest' = [k \in Key |-> Max({latest[k]} \cup
                      {numbered[i].number : i \in {j \in DOMAIN events : events[j].key = k}})]
      /\ IF connected THEN wire' = wire \o numbered /\ UNCHANGED amiss
         ELSE amiss' = amiss \cup KeysOf(events) /\ UNCHANGED wire

\* A key goes down or up; the page looks at it only when no control has the focus.
Stroke(k, pressed) ==
  /\ strokes < MaxStrokes /\ strokes' = strokes + 1
  /\ (k \in down) # pressed
  /\ down' = IF pressed THEN down \cup {k} ELSE down \ {k}
  /\ IF focus = "page"
     THEN /\ latched' = Process(k, pressed)[1]
          /\ Emit(Process(k, pressed)[2])
          /\ unseen' = unseen \ {k}
     ELSE unseen' = unseen \cup {k} /\ UNCHANGED <<latched, number, latest, wire, amiss>>
  /\ UNCHANGED <<focus, sticky, connected, running, budget, executor, held, done, faults>>

\* The blur handler releases the sticky keys; a control of the page takes the focus silently.
Focus(to) ==
  /\ to # focus /\ focus' = to
  /\ IF to = "away" THEN latched' = {} /\ Emit(Releases)
     ELSE UNCHANGED <<latched, number, latest, wire, amiss>>
  /\ UNCHANGED <<down, sticky, connected, running, budget, executor, held, done, unseen,
                 strokes, faults>>

\* dispatch(): the state and the rate are looked at when the event arrives, the process starts.
Dispatch ==
  /\ wire # <<>> /\ wire' = Tail(wire)
  /\ IF executor = "open" /\ budget > 0
     THEN running' = running \cup {Head(wire)} /\ budget' = budget - 1 /\ UNCHANGED amiss
     ELSE amiss' = amiss \cup {Head(wire).key} /\ UNCHANGED <<running, budget>>
  /\ UNCHANGED <<down, focus, sticky, latched, connected, executor, held, number, latest, done,
                 unseen, strokes, faults>>

\* checkRate() begins a new window.
SecondPasses ==
  /\ budget < Rate /\ budget' = Rate
  /\ UNCHANGED <<down, focus, sticky, latched, connected, wire, running, executor, held, number,
                 latest, done, unseen, amiss, strokes, faults>>

\* The X server takes the events as their processes come.  A key is all right again once its
\* last event is the last that was executed.
ExecutionEnds(e) ==
  /\ e \in running /\ running' = running \ {e}
  /\ held' = IF e.pressed THEN held \cup {e.key} ELSE held \ {e.key}
  /\ done' = [done EXCEPT ![e.key] = Max({@, e.number})]
  /\ amiss' = IF e.number < done[e.key] THEN amiss \cup {e.key}
              ELSE IF e.number = latest[e.key] THEN amiss \ {e.key} ELSE amiss
  /\ UNCHANGED <<down, focus, sticky, latched, connected, wire, budget, executor, number, latest,
                 unseen, strokes, faults>>

\* xdotool fails to start or ends with an error: the executor takes no event any more.
ExecutionFails(e) ==
  /\ e \in running /\ running' = running \ {e}
  /\ faults < MaxFaults /\ faults' = faults + 1
  /\ executor' = "failed" /\ amiss' = amiss \cup {e.key}
  /\ UNCHANGED <<down, focus, sticky, latched, connected, wire, budget, held, number, latest,
                 done, unseen, strokes>>

\* The connection breaks: the host executes what it has, and releases nothing.
Break ==
  /\ connected /\ connected' = FALSE
  /\ faults < MaxFaults /\ faults' = faults + 1
  /\ wire' = <<>> /\ amiss' = amiss \cup KeysOf(wire)
  /\ UNCHANGED <<down, focus, sticky, latched, running, budget, executor, held, number, latest,
                 done, unseen, strokes>>

Reconnect ==
  /\ ~connected /\ connected' = TRUE
  /\ UNCHANGED <<down, focus, sticky, latched, wire, running, budget, executor, held, number,
                 latest, done, unseen, amiss, strokes, faults>>

KeysNext ==
  \/ \E k \in Key, pressed \in BOOLEAN : Stroke(k, pressed)
  \/ \E to \in {"page", "control", "away"} : Focus(to)
  \/ Dispatch \/ SecondPasses \/ Break \/ Reconnect
  \/ \E e \in running : ExecutionEnds(e) \/ ExecutionFails(e)

KeysSpec == KeysInit /\ [][KeysNext]_keyVars
-----------------------------------------------------------------------------
\* What the player means to hold: a sticky modifier from one press to the next, to the end of
\* the chord or until the page loses the focus, any other key while it is down.
Meant(k) == IF sticky /\ k \in Modifier THEN k \in latched ELSE k \in down

\* Once nothing is under way the host holds exactly the keys the player means to hold, apart
\* from those with an event the page did not see, that was refused by the rate limit or by a
\* failed executor, that was lost with the connection or overtaken by the next one.  A sticky
\* modifier is not held past the end of its chord, nor while the page is away.
KeysFollow ==
  wire = <<>> /\ running = {} =>
    \A k \in Key \ amiss :
      /\ done[k] = latest[k]
      /\ k \notin unseen => (k \in held) = Meant(k)
      /\ sticky /\ k \in Modifier /\ k \in held =>
           /\ focus # "away"
           /\ \A l \in Letter \ (amiss \cup unseen) : done[l] > done[k] => l \in down
-----------------------------------------------------------------------------
(***************************************************************************)
(* Controllers and touch controls of the session page on their way to the  *)
(* host (player/player.mjs: the polling, mapperForGamepad, emitInput and   *)
(* the touch controls; input/input.mjs, input/policy.mjs,                  *)
(* input/touch-controls.mjs).  The page polls what the browser says of the *)
(* controllers and sends what differs from the poll before; touches are    *)
(* sent as they happen.  A controller has one button and one axis; its     *)
(* model decides what the button is called.                                *)
(***************************************************************************)
CONSTANTS Finger,
          MaxMoves   \* bound: moves of fingers and controllers, answers of the host

VARIABLES pads,      \* the controllers the browser has, by index, NoPad where there is none
          previous,  \* what the page saw of them at its last poll
          touching,  \* the fingers on the touch button
          linked,
          limit,     \* controllers the session has slots for
          allows,    \* the input policy
          atHost,    \* what the host takes for held, and the axes
          padAmiss,  \* controls with an event that was not sent, or that another source undid
          moves
padVars == <<pads, previous, touching, linked, limit, allows, atHost, padAmiss, moves>>

Slot == 0..1
Button == [named |-> "confirm", plain |-> "button-0"]   \* by the profile of the model
NoPad == [model |-> "none", pressed |-> FALSE, axis |-> 0]
PadState == [model : DOMAIN Button, pressed : BOOLEAN, axis : -1..1]

PadInit ==
  /\ pads = [i \in Slot |-> NoPad] /\ previous = [i \in Slot |-> NoPad]
  /\ touching = {} /\ linked = FALSE /\ limit = 2 /\ allows = {"gamepad", "touch"}
  /\ atHost = [i \in Slot |-> [held |-> {}, axis |-> 0]] /\ padAmiss = {} /\ moves = 0
-----------------------------------------------------------------------------
Direction(axis) == CASE axis < 0 -> {"moveUp"} [] axis > 0 -> {"moveDown"} [] OTHER -> {}
Name(pad) == IF pad = NoPad THEN {} ELSE {Button[pad.model]}

\* The controls of a controller that are not at rest.
Held(pad) ==
  (IF pad.pressed THEN Name(pad) ELSE {}) \union Direction(pad.axis)
    \union (IF pad.axis = 0 THEN {} ELSE {"axis"})

Touched == IF touching # {} /\ "touch" \in allows THEN {"confirm"} ELSE {}

\* What is held, as far as the page knows; the touch controls are the first controller's.
Source(i) == Held(previous[i]) \union (IF i = 0 THEN Touched ELSE {})

Move == moves < MaxMoves /\ moves' = moves + 1

\* The player plugs a controller in or out, presses or moves it.
MovePad(i) ==
  /\ Move
  /\ \E pad \in PadState \union {NoPad} : pad # pads[i] /\ pads' = [pads EXCEPT ![i] = pad]
  /\ UNCHANGED <<previous, touching, linked, limit, allows, atHost, padAmiss>>

\* Mutant: a direction is let go only when the stick is in the middle again.
AxisTold_Jump(kept, was, now) ==
  (IF now = 0 THEN kept \ Direction(was) ELSE kept) \union Direction(now)

\* mapAxisTransition()
AxisTold(kept, was, now) == (kept \ Direction(was)) \union Direction(now)

\* The events of a controller that was polled: of its button when it was not seen before or has
\* changed, under the name the profile has for it now, and of the axis when it has moved.
Told(h, was, pad) ==
  LET button == IF was # NoPad /\ was.pressed = pad.pressed THEN h.held
                ELSE IF pad.pressed THEN h.held \union Name(pad) ELSE h.held \ Name(pad)
  IN  IF was.axis = pad.axis THEN [h EXCEPT !.held = button]
      ELSE [held |-> AxisTold(button, was.axis, pad.axis), axis |-> pad.axis]

\* The controllers that are polled: the first ones, as many as there are slots.
Polled(i) ==
  "gamepad" \in allows /\ pads[i] # NoPad /\ (i = 0 \/ limit = 2 \/ pads[0] = NoPad)

\* What a poll leaves wrong at the host: a controller that is no longer polled lets nothing go,
\* one that took the place of another has other names, and a button may be touched as well.
Wronged(i) ==
  LET was == previous[i]
  IN  IF ~Polled(i) THEN Held(was)
      ELSE (IF was = NoPad \/ was.model = pads[i].model THEN {} ELSE Name(was) \union Name(pads[i]))
           \union (IF i = 0 /\ (was = NoPad \/ was.pressed) THEN Touched \ Held(pads[i]) ELSE {})

\* The poll; nothing is sent without a session.
Poll ==
  /\ atHost' = IF ~linked THEN atHost
               ELSE [i \in Slot |-> IF Polled(i) THEN Told(atHost[i], previous[i], pads[i])
                                    ELSE atHost[i]]
  /\ previous' = [i \in Slot |-> IF Polled(i) THEN pads[i] ELSE NoPad]
  /\ padAmiss' = IF ~linked THEN padAmiss
                 ELSE padAmiss \union UNION {{i} \X Wronged(i) : i \in Slot}
  /\ UNCHANGED <<pads, touching, linked, limit, allows, moves>>

\* pointerdown, pointerup and pointercancel of the touch button.
Touch(f) ==
  /\ Move
  /\ touching' = IF f \in touching THEN touching \ {f} ELSE touching \union {f}
  /\ IF ~linked \/ "touch" \notin allows THEN UNCHANGED <<atHost, padAmiss>>
     ELSE IF f \notin touching
     THEN atHost' = [atHost EXCEPT ![0].held = @ \union {"confirm"}] /\ UNCHANGED padAmiss
     ELSE /\ atHost' = [atHost EXCEPT ![0].held = @ \ {"confirm"}]
          /\ padAmiss' = IF touching = {f} /\ "confirm" \notin Held(previous[0]) THEN padAmiss
                         ELSE padAmiss \union {<<0, "confirm">>}
  /\ UNCHANGED <<pads, previous, linked, limit, allows>>

\* The host's answer: what was pressed before it came, or under another policy, the host does
\* not know of, or does not see released.
Answered(slots, policy) ==
  /\ Move /\ linked' = TRUE /\ limit' = slots /\ allows' = policy
  /\ padAmiss' = padAmiss \union (IF linked THEN {} ELSE UNION {{i} \X Source(i) : i \in Slot})
                    \union (IF touching = {} THEN {} ELSE {<<0, "confirm">>})
  /\ UNCHANGED <<pads, previous, touching, atHost>>

PadNext ==
  \/ Poll
  \/ \E i \in Slot : MovePad(i)
  \/ \E f \in Finger : Touch(f)
  \/ \E slots \in 1..2, policy \in SUBSET {"gamepad", "touch"} : Answered(slots, policy)

PadSpec == PadInit /\ [][PadNext]_padVars
-----------------------------------------------------------------------------
\* However the controllers and fingers move between two polls, the host holds exactly what the
\* page has last seen held: nothing is stuck, nothing is missed, but for the controls named in
\* `padAmiss', whose release the page does not send.
PadsFollow ==
  \A i \in Slot :
    /\ \A c \in {"confirm", "button-0", "moveUp", "moveDown"} :
         <<i, c>> \notin padAmiss => (c \in atHost[i].held <=> linked /\ c \in Source(i))
    /\ <<i, "axis">> \notin padAmiss /\ linked => atHost[i].axis = previous[i].axis
===============================================================================
