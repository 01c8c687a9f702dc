----------------------------- MODULE PageHandoff -----------------------------
(***************************************************************************)
(* What the pages of one tab leave for one another in the browser's        *)
(* storage: the launch a user prepared (launch/handoff.mjs), the host that *)
(* has just been paired (host/host.mjs), the session to resume             *)
(* (session/recovery-handoff.mjs) and the one to log in to                 *)
(* (session/auto-login.mjs), and what the player page makes of them.  The  *)
(* intent of a launch (launch/intent.mjs) is saved for entries of the      *)
(* dashboard's catalogue only, which never comes: nothing is in its slot.  *)
(*                                                                         *)
(* What is made has a number.  The endpoint, the id and the ticket of a    *)
(* session have the number of what they were made with; a record has the   *)
(* three, which the address of the page (player.html?signal=...), or the   *)
(* user in the form, may have put together.                                *)
(***************************************************************************)
EXTENDS Naturals

CONSTANT MaxMade  \* bound: launches, pairings, sessions and links

ASSUME HandoffAssumption == MaxMade \in Nat

VARIABLES page,       \* the page of the tab
          prefs,      \* restoreSession, autoLogin, clearOnExit, customSignalingUrl is set
          store,      \* [Slot -> the record, NoRecord when there is none]
          stale,      \* slots whose record is past its life
          memory,     \* [Slot -> what the page read when it was loaded]
          query,      \* of the player's address: signal, session and ticket
          form,       \* its three fields
          stage,      \* of the player: "loaded", "form", "playing", "ended"
          offer,      \* the last offer: [how, endpoint, session, ticket, code, launch]
          offered,    \* launches in earlier offers
          ended,      \* sessions the user ended and nothing has tried to join again
          signedOut,  \* the newest number when the user last signed out in this tab
          apart,      \* <<ticket, endpoint>>, one of them named by an address or typed
          made
handoffVars == <<page, prefs, store, stale, memory, query, form, stage, offer, offered, ended,
                 signedOut, apart, made>>

Part == {"endpoint", "session", "ticket"}
Whole(n) == [p \in Part |-> n]
NoRecord == Whole(0)
Default == MaxMade + 1  \* customSignalingUrl, and the session 'ses-browser-host'

Slot == {"pair", "launch", "recovery", "auto"}
Nothing == [s \in Slot |-> NoRecord]
Transient == {"pair", "launch", "recovery"}  \* TRANSIENT_SESSION_KEYS
Provider == {"pair", "recovery"}             \* PROVIDER_SESSION_KEYS
NoOffer == [how |-> "none", endpoint |-> 0, session |-> 0, ticket |-> 0, code |-> 0, launch |-> 0]

HandoffInit ==
  /\ page = "dashboard"
  /\ prefs \in [restore : BOOLEAN, autoLogin : BOOLEAN, clear : BOOLEAN, custom : BOOLEAN]
  /\ store = Nothing /\ stale = {} /\ memory = Nothing /\ stage = "loaded"
  /\ query = NoRecord /\ form = NoRecord /\ apart = {}
  /\ offer = NoOffer /\ offered = {} /\ ended = {} /\ signedOut = 0 /\ made = 0
-----------------------------------------------------------------------------
Without(record, slots) == [s \in Slot |-> IF s \in slots THEN NoRecord ELSE record[s]]
Fresh(kept, old, s) == IF s \in old THEN NoRecord ELSE kept[s]
FirstOf(n, m) == IF n # 0 THEN n ELSE m

\* What a page reads as it is loaded: the player whatever there is, the dashboard the session
\* to resume.
Reads(to, kept, old) ==
  CASE to = "player" -> [s \in Slot |-> IF s # "auto" THEN Fresh(kept, old, s) ELSE NoRecord]
    [] to = "dashboard" -> [Nothing EXCEPT !.recovery =
                              IF prefs.restore THEN Fresh(kept, old, "recovery") ELSE NoRecord]
    [] OTHER -> Nothing

\* What it removes: the pairing it has taken, a session past its life.  A launch stays until it
\* has been offered.
Empties(to, old) ==
  CASE to = "player" -> {"pair"} \cup ({"recovery"} \cap old)
    [] to = "dashboard" -> IF prefs.restore THEN {"recovery"} \cap old ELSE {}
    [] OTHER -> {}

\* Mutant: the session to resume is taken whether or not a host was paired.
Resumable_Always(read) == IF prefs.restore THEN read.recovery ELSE NoRecord

\* recoveryHandoff of the player.
Resumable(read) ==
  IF prefs.restore /\ read.pair = NoRecord THEN read.recovery ELSE NoRecord

\* Each of the three is taken from the address, else from the pairing, which has an endpoint
\* only, else from the session to resume, else from the settings.
Resolved(asked, read) ==
  LET old == Resumable(read)
  IN  [NoRecord EXCEPT
         !.endpoint = FirstOf(asked.endpoint,
                        FirstOf(read.pair.endpoint,
                          FirstOf(old.endpoint, IF prefs.custom THEN Default ELSE 0))),
         !.session = FirstOf(asked.session, old.session),
         !.ticket = FirstOf(asked.ticket, old.ticket)]

Filled(asked, read) ==
  LET found == Resolved(asked, read) IN [found EXCEPT !.session = FirstOf(@, Default)]

\* The player's pagehide handler, if that is the page that is left, and the next page, with what
\* its address asks for.
Load(to, asked, kept, old) ==
  LET left == IF page = "player" /\ prefs.clear THEN Without(kept, Transient) ELSE kept
      read == Reads(to, left, old)
      filled == IF to = "player" THEN Filled(asked, read) ELSE NoRecord
  IN  /\ page' = to /\ stage' = "loaded" /\ memory' = read
      /\ store' = Without(left, Empties(to, old))
      /\ stale' = {s \in old : store'[s] # NoRecord}
      /\ query' = asked /\ form' = filled
      /\ apart' = IF asked.endpoint # asked.ticket
                  THEN apart \cup {<<filled.ticket, filled.endpoint>>} ELSE apart
      /\ UNCHANGED <<prefs, offer, offered, ended, signedOut>>

\* An address of the application, or the player once more.
Go(to) ==
  /\ \/ Load(to, NoRecord, store, stale)
     \/ to = "player" /\ page = "player" /\ Load(to, query, store, stale)
  /\ UNCHANGED made

Make == made < MaxMade /\ made' = made + 1

\* A link to the player that names some of the three.
OpenLink(named) ==
  /\ Make
  /\ Load("player", [p \in Part |-> IF p \in named THEN made + 1 ELSE 0], store, stale)

\* A page writes its record and goes to another, which may not come: offline, or because the
\* user goes elsewhere before it has loaded.
Leave(to, slot) ==
  LET written == [store EXCEPT ![slot] = Whole(made + 1)]
  IN  /\ Make
      /\ \/ Load(to, NoRecord, written, stale \ {slot})
         \/ /\ store' = written /\ stale' = stale \ {slot}
            /\ UNCHANGED <<page, prefs, memory, query, form, stage, offer, offered, ended,
                           signedOut, apart>>

\* The emulation page saves a launch and goes to the host page; the host page saves a pairing
\* and goes to the player.
PrepareLaunch == page = "emulation" /\ Leave("host", "launch")

PairHost == page = "host" /\ Leave("player", "pair")

\* Where a connection that has all three is remembered, unless its endpoint is one of WebTransport
\* or the storage refuses.
Remembers ==
  (IF prefs.restore THEN {"recovery"} ELSE {}) \cup (IF prefs.autoLogin THEN {"auto"} ELSE {})

\* connect(): what is remembered is written before the runtime is started; the launch is
\* forgotten once the offer has been sent.  The offer has the pairing code whoever it is for, and
\* one without a ticket the id of the session that was read (connectionSessionId).
Connect(how, to, saves) ==
  LET new == IF to.ticket # 0 /\ saves THEN Remembers ELSE {}
      saved == [s \in Slot |-> IF s \in new THEN to ELSE store[s]]
      done == IF memory.launch # NoRecord THEN {"launch"} ELSE {}
      id == IF to.ticket # 0 THEN to.session ELSE FirstOf(query.session, memory.recovery.session)
  IN  /\ ended' = ended \ {id}
      /\ \/ /\ stage' = "form" /\ store' = saved /\ stale' = stale \ new
            /\ UNCHANGED <<offer, offered>>
         \/ /\ stage' = "playing"
            /\ store' = Without(saved, done) /\ stale' = stale \ (new \cup done)
            /\ offer' = [how |-> how, endpoint |-> to.endpoint, session |-> id,
                         ticket |-> to.ticket, code |-> memory.pair.endpoint,
                         launch |-> memory.launch.session]
            /\ offered' = offered \cup ({offer.launch} \ {0})
      /\ UNCHANGED <<page, prefs, memory, query, signedOut>>

\* start(): with all three at once; else the host that was paired, else the session to log in to.
Start(saves) ==
  /\ page = "player" /\ stage = "loaded"
  /\ LET to == Resolved(query, memory)
         known == \A p \in Part : to[p] # 0
         paired == memory.pair # NoRecord
         auto == IF prefs.autoLogin THEN Fresh(store, stale, "auto") ELSE NoRecord
     IN  \/ /\ known
            /\ Connect(IF query = NoRecord THEN "recovery" ELSE "link", to, saves)
         \/ /\ ~known /\ paired
            /\ Connect(IF query = NoRecord THEN "pair" ELSE "link",
                       [NoRecord EXCEPT !.endpoint = to.endpoint], saves)
         \/ ~known /\ ~paired /\ auto # NoRecord /\ Connect("auto", auto, saves)
         \/ /\ ~known /\ ~paired /\ auto = NoRecord /\ stage' = "form"
            /\ UNCHANGED <<page, prefs, store, stale, memory, query, offer, offered, ended,
                           signedOut>>
  /\ UNCHANGED <<form, apart, made>>

\* The user types some of the fields, or takes all of them as they are; each must have something.
Submit(typed, saves) ==
  /\ page = "player" /\ stage = "form"
  /\ IF typed = {} THEN UNCHANGED made ELSE Make
  /\ form' = [p \in Part |-> IF p \in typed THEN made + 1 ELSE form[p]]
  /\ \A p \in Part : form'[p] # 0
  /\ apart' = IF ("endpoint" \in typed) # ("ticket" \in typed)
              THEN apart \cup {<<form'.ticket, form'.endpoint>>} ELSE apart
  /\ Connect("form", form', saves)

Leaves == ended' = IF stage = "playing" THEN ended \cup ({offer.session} \ {0}) ELSE ended

\* Mutant: a session that is ended can be resumed.
End_Keeps ==
  /\ page = "player" /\ stage # "ended" /\ stage' = IF stage = "playing" THEN "ended" ELSE stage
  /\ store' = IF prefs.clear THEN Without(store, Transient) ELSE store
  /\ stale' = {s \in stale : store'[s] # NoRecord}
  /\ Leaves
  /\ UNCHANGED <<page, prefs, memory, query, form, offer, offered, signedOut, apart, made>>

\* The End button: the session to log in to is kept, and so is the form if it is shown.
End ==
  /\ page = "player" /\ stage # "ended" /\ stage' = IF stage = "playing" THEN "ended" ELSE stage
  /\ store' = Without(store, IF prefs.clear THEN Transient ELSE {"recovery"})
  /\ stale' = {s \in stale : store'[s] # NoRecord}
  /\ Leaves
  /\ UNCHANGED <<page, prefs, memory, query, form, offer, offered, signedOut, apart, made>>

\* clear-provider-sessions of the settings, here or in another tab, whose sessionStorage is
\* not this one's.
SignOut(here) ==
  /\ here => page = "settings"
  /\ store' = Without(store, IF here THEN Provider \cup {"auto"} ELSE {"auto"})
  /\ stale' = {s \in stale : store'[s] # NoRecord}
  /\ signedOut' = IF here THEN made ELSE signedOut
  /\ UNCHANGED <<page, prefs, memory, query, form, stage, offer, offered, ended, apart, made>>

\* Five minutes, ten minutes or thirty days.
TimePasses(past) ==
  /\ stale' = {s \in stale \cup past : store[s] # NoRecord} /\ stale' # stale
  /\ UNCHANGED <<page, prefs, store, memory, query, form, stage, offer, offered, ended,
                 signedOut, apart, made>>

HandoffNext ==
  \/ \E to \in {"dashboard", "emulation", "host", "player", "settings"} : Go(to)
  \/ \E named \in SUBSET Part \ {{}} : OpenLink(named)
  \/ PrepareLaunch \/ PairHost \/ End
  \/ \E saves \in BOOLEAN :
       Start(saves) \/ \E typed \in SUBSET Part : Submit(typed, saves)
  \/ \E here \in BOOLEAN : SignOut(here)
  \/ \E past \in {{"pair"}, Transient, Slot} : TimePasses(past)

HandoffSpec == HandoffInit /\ [][HandoffNext]_handoffVars
-----------------------------------------------------------------------------
\* However the user moves between the pages, they send a ticket to no endpoint but the one it was
\* issued for, unless an address or the user named one of the two without the other: the pages
\* then keep them together, and send them together again.  A pairing code goes to no host but its
\* own unless the endpoint was named or typed.  What is joined without an address or the form has
\* not been forgotten by a sign-out in this tab; a session that was ended is joined again by its
\* address, by the form or by the automatic login only; a launch is offered once.
HandoffIsScoped ==
  [][stage' = "playing" /\ stage # "playing" =>
       /\ offer'.ticket \in {0, offer'.endpoint} \/ <<offer'.ticket, offer'.endpoint>> \in apart'
       /\ offer'.how \notin {"link", "form"} =>
            /\ offer'.code \in {0, offer'.endpoint}
            /\ \A p \in Part : offer'[p] = 0 \/ offer'[p] > signedOut
       /\ offer'.how \in {"recovery", "pair"} => offer'.session \notin ended
       /\ offer'.launch # 0 => offer'.launch \notin offered \cup {offer.launch}]_handoffVars
=============================================================================
