# Formal models of Spartan Gaming

TLA+ modules, TLC configurations and TLAPS proofs for the parts of Spartan
Gaming whose correctness depends on the order in which things happen: the
signaling services, the native host, the session and its pages in the browser,
the desktop shell, and the programs that install, deploy and release them.
Paths below are relative to the root of the repository.

## 1. The system

A browser *client* plays on a *host*. They find each other through a
*signaling* service (or talk to the host directly), pair with a one-time code,
negotiate a session, and stream media over WebRTC. Around that are a dashboard
of services and games, a library, browser emulation, a desktop application that
shows all of it, and the programs that bring adapters, certificates and releases
into place. Everything is JavaScript on an event loop: there are no threads, and
all concurrency is the interleaving of callbacks, timers and the continuations
of `await`, of several pages over one storage, and of several processes over one
directory or one Redis.

| component | source | state it keeps | operations |
| --- | --- | --- | --- |
| In-memory broker | `signaling/broker.mjs` | Map of sessions, participants per role, last activity | issueTicket, attach, send, detach, sweep, stats |
| Redis broker | `signaling/redis-broker.mjs` | role keys in Redis, local participants, subscriptions | attach, send, detach, close |
| Signaling service | `signaling/agent.mjs` | per socket: buffer, participant, joining, pending, detached | upgrade, frames, rate limit, join, cleanup, close |
| Managed process and pipeline | `host/process.mjs` | state, child, waiting stop() calls | start, stop, child events, timers |
| Host agent | `host/agent.mjs`, `pairing.mjs`, `game-launcher.mjs` | connections, sessions, pairing code, game process | upgrade, session messages, cleanup, shutdown |
| Native session and media | `host/werift-runtime.mjs`, `native-host.mjs`, `native-media.mjs`, `publisher.mjs`, `audio.mjs`, `rtp-packetizer.mjs` | pipelines, peer, RTP sequence, Ogg pages | offer, start, frame, stop, close |
| Host configuration | `host/config.mjs`, `environment.mjs`, the loaders | what is enabled, what is ready | start of the host, its capabilities |
| Host input | `host/input.mjs`, `input-adapter-mux.mjs`, page side in `player.mjs`, `input/` | held controls, rate limit, adapter | poll, emit, dispatch, release |
| App host | `host/app-host.mjs` | links of two sockets | upgrade, forward, close |
| Adapter installer | `host/adapter-*.mjs`, `scripts/emulators/update.mjs` | version directories, `current.json` | install, seed, update, activate |
| Session manager | `src/frontend/session/session.mjs` | state, sequence numbers, seen ids, agreement | start, receive, reconnect, fail, close, reset |
| Session runtime and transports | `session/runtime.mjs`, `transport/transport.mjs` | sockets, peer, pending candidates | start, signaling events, attempts, close |
| Reconnect controller and policy | `reconnect-controller.mjs`, `recovery.mjs` | attempt, state, timer | start, run, fail, succeed, cancel |
| Adaptive quality | `session/quality.mjs`, `telemetry.mjs` | profile, counters | ingest, setProfile, request |
| Player page | `player/player.mjs`, `player/wake-lock.mjs`, `capture/capture.mjs` | runtime, status, pauses, lock, recorders | start, form, buttons, focus, record |
| Host page | `src/frontend/host/host-page.mjs`, `host.mjs`, `readiness.mjs` | profiles in storage, one in the editor, a preview | save, remove, import, pair, check, capture |
| Browser host | `src/frontend/host/browser-*.mjs` | publisher, runtime | capture, start, offers, stop |
| Browser emulation | `src/frontend/emulation/`, `adapters/` | plan, profiles, adapters, runtime, bridge | pick, plan, load, start, save, hand off |
| What pages leave for one another | `launch/`, `session/*-handoff.mjs`, `auto-login.mjs` | records with lives in the storages | write, read, put into an address, type, clear |
| Dashboard | `dashboard/`, `startup/` | the games of the user, favourites, a session to resume | draw, add, resume; its script ends before the catalogue and links |
| Library | `src/frontend/library/` | IndexedDB, a Map and a page of cards per tab | list, update, delete, favourite |
| Settings, profiles, workspaces | `settings/`, `profiles/`, `workspaces/` | one storage, a copy per page | save, import, reset, rename, remove |
| Desktop shell | `desktop/electron/` | window, provider view, policy, log, permissions, sign-ins | windows, links, settings, quit, update, clear |
| Deployment and evidence | `scripts/deployment/`, `scripts/native/`, `scripts/roadmap/` | certificates, reports | rotate, roll out, sign, verify, assess |

How they interact. The signaling service calls the broker's `attach` for a
socket's join frame and gets a participant whose `send` it calls for every later
frame; the broker calls back the `send` given to `attach` of the other
participant, which writes to its socket. The host agent owns one game launcher,
a managed process, and stops it from three places: a `session.close` frame, the
cleanup of a connection, and its shutdown; with native media a session owns an
encoder and a capture process as well. In the browser the session runtime drives
the session manager from signaling and peer events; the reconnect controller
asks the runtime for another attempt. Pages know of each other by records in
local and session storage only; the desktop shell knows of its pages by the
calls of `preload.cjs`.

Hard behaviours: a socket that closes during an `await` of its own handler; a
late continuation or event of something already given up (a join, a launch, a
reconnect attempt, a permission prompt, a clearing); a process that ignores its
signal; one step of several failing or the program being killed between two;
records read by one page and written back by another; messages that are
repeated, late or lost; keys that expire. `PROJECT.json` lists each with its line
under `hazards`, with what its property leaves out.

What makes each part correct:

| component | correct when |
| --- | --- |
| brokers | a role of a session has one holder at a time; a message reaches only the other role of its own session; sessions are bounded, and go for known reasons only |
| signaling service | messages of a socket keep their order across the asynchronous join and any cut into chunks; no order of join, failure and close leaves a role taken for nobody |
| managed process, native session | the reported state is true of the child and never goes back; what a stop returns from is dead or was sent SIGKILL; a closed session leaves nothing running and an accepted one has everything |
| host agent | the one-time code lets one session in; a game that runs has somebody who will stop it, unless its connection was lost while it was being started |
| session manager, negotiation, quality | messages take effect once and in order however they arrive; what is over stays over; both sides go by the same agreement and profile; a profile changes one step at a time for a reason |
| reconnection | bounded attempts per cycle, none after its end; a recovered session is left alone; retries end |
| player page | what it shows agrees with the manager; every pause can be taken back; nothing is left when a session ends |
| input and media | what the host holds follows what the player does; every frame and page arrives whole |
| installer, rotation, releases | what is current is whole after a crash at any step; a report that counts was earned by the run it is from |
| pages and records | nothing that was acknowledged is lost, nothing goes to another profile, session or workspace, and a page shows what there is |
| desktop shell | settings take effect in the order they were made, a link waits for a window, a running session is asked for before a quit; what nobody is asked about was answered before |

## 2. The modules

Thirty-two modules model code, `Rendezvous` is a promise they keep, five are
for TLC (four sums of modules, and `MCPlayerPage`), and eight hold proofs.

| module | models | run |
| --- | --- | --- |
| `Rendezvous` | what a signaling broker promises, however it is built | `broker`, `redis_broker` |
| `SignalingBroker` | `signaling/broker.mjs` | `broker` |
| `SignalingServer` | the service of `signaling/agent.mjs`; extends `SignalingBroker` | `signaling_server` |
| `SocketBytes` | its frames as a stream of chunks with the rate limiter; the sockets the app host forwards | `host_parts` |
| `RedisBroker` | `signaling/redis-broker.mjs` over several instances | `redis_broker` |
| `ManagedProcess` | `createManagedProcess` of `host/process.mjs` | `host_parts` |
| `HostAgent` | the session control of `host/agent.mjs`; extends `ManagedProcess` | `host_parts` |
| `NativeHost` | one native session with its pipelines; extends `ManagedProcess` | `native_host` |
| `MediaFraming` | the RTP packetizer and the Ogg demuxer | `host_parts` |
| `HostMachine` | configuration, loaders, readiness, capabilities; the checks of machines | `host_parts` |
| `RemoteInput` | keys, controllers and touches from the page to the host | `host_parts` |
| `AdapterInstaller` | installs, seeds, updates and activation on one root | `adapter_installer` |
| `Deployment` | rotation of certificates, rollouts and assessment | `host_parts` |
| `SessionManager` | `createSessionManager` | `page_parts` |
| `StreamQuality`, `PeerExchange` | the agreement and the quality, the candidates of player and host | `page_parts` |
| `ReconnectController` | the controller with its policy | `session_runtime` |
| `SessionRuntime` | the runtime; extends `SessionManager`, `ReconnectController` | `session_runtime` |
| `PlayerPage` | the session page and its wake lock | `player_page` |
| `BrowserHost`, `Capture` | the page that hosts, the recordings | `browser_parts` |
| `BrowserEmulation`, `EmulationPlan`, `AdapterPages` | the emulator of a page, its launch plan, its adapters | `page_parts`, `browser_parts` |
| `PageHandoff` | what pages leave for one another | `page_parts` |
| `Library` | the records of the library, and what its pages show | `page_parts` |
| `HostPages` | the page of hosts and the profiles it keeps | `page_parts` |
| `Dashboard` | several dashboards over one storage, as far as they come | `desktop_shell`, `dashboard_links` |
| `SettingsPages`, `Workspaces` | settings pages, workspaces and favourites | `desktop_shell` |
| `DesktopShell`, `ProviderSessions`, `DiagnosticLog` | the main process, the services it shows, its log | `desktop_shell`, `browser_parts`, `page_parts` |
| `PlayerAndSignalingProofs` | theorems about `SignalingBroker`, `SignalingServer` and `PlayerPage` | |
| `SessionRuntimeProofs` | theorems about `SessionManager`, `ReconnectController` and `SessionRuntime` | |
| `ManagedProcessProofs`, `NativeHostProofs` | theorems about the module of that name | |
| `HostAndBrokerProofs` | theorems about `RedisBroker` and parts of `MCHostParts`: `HostAgent`, `RemoteInput`, `HostMachine`, `Deployment`, the links of `SocketBytes` | |
| `BrowserPartsProofs` | theorems about the parts of `MCBrowserParts`, each by itself and in the sum | |
| `DesktopProofs` | theorems about the parts of `MCDesktopShell`, and about `AdapterInstaller` | |
| `PagePartsProofs` | theorems about the parts of `MCPageParts` but the session, which `SessionRuntimeProofs` has | |
| `MCHostParts`, `MCBrowserParts`, `MCPageParts`, `MCDesktopShell` | sums of modules | the run of that name |
| `MCPlayerPage` | `PlayerPage` looked at twice: its connections with the window at rest, and its window with one socket | `player_page` |

Conventions. A handler of the event loop runs without interruption, so it is
one action; a handler with an `await` is one action up to the `await` and
another from there. What JavaScript runs as a microtask comes before the next
event: `Due` (or `due`) keeps other events out until it has run. A step that may
fail has the failure as an alternative at its own `await`, with everything the
`catch` blocks do. Operators with a suffix such as `_Unchecked`, marked
"Mutant", are plausible mistakes in the definition that follows them; the
specifications do not use them, they serve to show that each property notices a
mistake. Variables said to be "for the properties" are history.

A *sum* (`MC…`) is one specification of several parts that share no state. Its
variable `part`, chosen in the initial state, says which one is in motion; the
others rest in an initial state. So a run of a sum checks each part in all its
behaviours, and no part multiplies the states of another. A property of a sum is
the conjunction of what its parts are to keep; each conjunct is a named property
of its module, with a mutant of that module. What is proved of a part's own
specification carries over to the sum, as a step of the sum is a step of one
part or of none (`StepOfAPart` in the proofs). Parts that do interact are composed
in one module instead: `SignalingServer` on the broker, `HostAgent` and
`NativeHost` on processes, `SessionRuntime` on manager, controller and sockets.

### Signaling: SignalingBroker, Rendezvous, SignalingServer, SocketBytes, RedisBroker

In `SignalingBroker` the Map is `sessions`, a session object is named by the
participant that created it (`participants`, `idle`), and a participant is the
closure that `attach` returns with the values it captured (`sessionOf`,
`roleOf`, `objectOf`) and its `detached` flag (`phase`). Closures keep their
object when the Map forgets it. `Send` takes the set of recipients whose own
`send` throws. Time is relative: ages are capped one above the TTL, the only
thing `sweep` can tell apart. `session.close` is not special in `Send`: the code
calls `detach()`, a name that is not in scope there, and throws after the
message was delivered.

`Rendezvous` is the abstract service: seats are granted once, to one holder, if
free or expired. `KeepsPromise` and `RedisKeepsPromise` are the two refinements,
with the seats read off the Map and off the keys of Redis.

`SignalingServer` has per socket: its state on the wire, the `detached` flag
(`down`), where its join is (`join`), the queue `pending`. Messages are numbers;
what one is, nobody looks at before `send()` does. The in-memory broker settles
a join in the next microtask; the service also accepts an injected broker, so
that any event may come between. A handler that throws puts its
socket in `failed`, whose `fail()` only half-closes: the frames the peer goes on
writing are still parsed. `SocketBytes` is the layer below: a stream of headers
and bodies cut anywhere, with `parseFrames` and the limiter; a second
specification in it has the links of the app host.

`RedisBroker` has the keys with their owners and lives, the subscriptions, and
what each participant waits for; commands fail, or are executed and lose their
answer (`failed`), instances crash, keys expire at any time. The subscriber connection executes commands in order (`pipe`).

### The host: ManagedProcess, HostAgent, NativeHost, HostMachine, MediaFraming, RemoteInput, AdapterInstaller

`state` of `ManagedProcess` is the wrapper's, `os` the child's; the child's
events are actions of their own, so that the wrapper may lag behind. `stopping`
says where each `stop()` call is. `HostAgent` composes it with connections,
sessions, the code and the two awaits of `handleMessage`: an offer waiting for
the game (`launching`) and a close frame waiting for it to stop (`closing`). An
offer whose connection was lost meanwhile is `overtaken`: what it adds to
`sessions` when the game has started nobody will clean up.
`NativeHost` has three threads of control, `offer`, `close` and `sink`; what a
thread still has to do is the sequence `todo[t]`, and a failure replaces it by
the steps of the `catch` blocks. `HostMachine` is what the host comes up
as for every configuration and package, and whether what it shows is what it
serves; the checks a machine is put through are a second specification in it.
`MediaFraming` and `RemoteInput` hold two specifications each. `AdapterInstaller`
goes file by file: `dirs`, `staged` and `current.json`, three runs, faults,
kills, and an agent that activates what is current meanwhile; a directory that a
failing run could not remove after it was published is left, and ends what
`Converges` promises (`abandoned`), as a kill does.

### The session: SessionManager, StreamQuality, PeerExchange, ReconnectController, SessionRuntime, PlayerPage

`SessionManager` has the session's state, the numbers that decide whether a
message is new (`latest`, `seen`), and the policy's counter (`spent`). Messages
that were sent stay in `sent`, and may be received at any later time, in any
order and more than once; that stands for the two paths a message can take and
for datagrams. The negotiation of `StreamQuality` runs over every pair of
capability records with one field of each kind, and of each kind one that the
notices look at and one that they do not (`Told`); what two lists have in common is
the set of its places in the preferred one, of which the code uses the first. In its
adaptation of quality the host has noted nothing (`Unasked`) until a request
comes, as it does not read the quality of the offer. That adaptation and
`PeerExchange` have both ends and what is on the way. `ReconnectController` has the timer and the promises of attempts
that are still open (`calls`), which may be rejected in a later cycle.
`SessionRuntime` joins manager and controller with a transport that can have
several sockets at once, as `connect()` while another one is under way makes a
second socket whose handlers share `state`, `socket` and `connectReject` with
the first. `PlayerPage` is a level above: which runtime the page has, the
calls of connect() with what each runtime has or seeks (`runs`), what the page shows, why it is
paused, who holds the wake lock. A socket that is replaced while it connects is
held by nobody and may open all the same.

### The pages and the desktop

A page is modelled as what it has read, what it shows, and what it waits for;
two pages stand for any others over the same storage. `Library` computes what
is rendered with the operators that the code's render functions translate to
(`Rendered`), so that its properties can compare what is on the screen with what
it should be now. `Dashboard` goes as far as the page does: its script throws at
`dashboard.mjs:1184`, and what stays are the handlers registered before
(`Registered`), the games the user adds and the session to resume. `Workspaces`
has such a dashboard beside the workspaces page. In `PageHandoff` what is made has
a number, and the endpoint, the id and the ticket of a session have that of what
they were made with; the address of the player's page and the fields of its form
may put three numbers together, as the code takes each part where it finds it.
`DiagnosticLog` has a read that fails: it gives an empty log, which the operation
then writes (`Overwritten` in the property).
`HostPages` has several tabs over the profiles in storage, and what each still
waits for: answers of hosts, files being read, displays that were asked for.
`EmulationPlan` and `AdapterPages` keep files and manifests as records of what
the checks look at; the feed of releases is there with the cores, so that it is
empty at first; adapters embedded in the page are in the session from the start.
`DesktopShell` has the window that may be gone while
`windowRef` still names it, or not have loaded its page (`unloaded`), the calls that await, the policy as the module's
variable. `ProviderSessions` has a jar of sign-ins for each partition, the
Map of answers and the dialogs that are open; a question with no window to ask in
is refused; a clearing goes partition by partition.

## 3. What the runs show

| run | instance | shows |
| --- | --- | --- |
| `broker` | 2 session ids, 3 participants, 1 slot, TTL 1 | `RoutingSound`, `DeliveryScoped`, and `KeepsPromise`: the broker implements `Rendezvous` |
| `signaling_server` | 2 sockets, 2 messages in all | `SocketsAreSound`: messages in order, no role leaks; `CloseFreesRoles` |
| `redis_broker` | 2 sessions, 3 participants, 2 instances, 1 slot | `RolesAreSound`, and `RedisKeepsPromise` with the promise that expiring keys can keep |
| `native_host` | a game, an encoder, a capture; three threads | `NothingLeftRunning`, `AcceptedIsStarted`, `EverythingEnds` |
| `adapter_installer` | 3 runs, 2 files, 2 faults | `InstallIsWhole`; the newest version gets installed (`Converges`) |
| `session_runtime` | 1 session, 2 cycles of up to 2 attempts, so up to 5 sockets | `ControllerImplemented`, `RecoveredIsSettled`, `NoAttemptAfterEnd`, `RetriesEnd` |
| `player_page` | `start()`, one submit and up to 3 sockets with the window at rest; `start()` and 2 lock requests with everything the window does | `NoStrayConnection`, `PageTellsTruth`, `LockEndsWithSession`, no deadlock |
| `host_parts` | twelve parts: processes, the agent (3 inbound connections of which 2 are allowed, 1 outbound, a game), packets, sound, keys, pads, certificates, wire, app host, checks, evidence, start | `ReportsTruth`, `StopLeavesNoSurvivor`, `AgentOwnsPlay`, `TrafficIsWhole`, `InputFollows`, `ToolsAreSafe`; a stopped game ends and close frames are answered (`StoppedGamesEnd`) |
| `browser_parts` | six parts: browser host, recordings, plan, adapters, files of adapters, services | `DoneAsAsked`, `StopFreesRole` |
| `page_parts` | ten parts: session, negotiation, quality, candidates, hand-off, library records, library pages, emulator, log, page of hosts | `SessionIsBounded`, `EffectsInOrder`, `PlayerAndHostAgree`, `QualityIsSteady`, `HandoffIsScoped`, `RecordsKept`, `PagesShowState` |
| `desktop_shell` | the main process, settings pages, workspaces, dashboards | `SettingsTakeEffect`, `LinkWaitsForWindow`, `QuitAsksFirst`, `PagesAreCurrent`, `WritesStayScoped` |
| `dashboard_links` | one dashboard, one link | violated: `LinkIsQueued`, what `docs/development.md:245-246` says of a link |

The instances in full are in the `about` of each run in `PROJECT.json`, with its
module and configuration: `tlc -config PageParts.cfg MCPageParts` repeats a run,
`tlapm SessionRuntimeProofs.tla` the proofs of a module.

Why these bounds are enough to show something. Three participants are what it
takes for one to be dropped, a second to take its role and the first to come
back; two session ids and one slot make capacity bite. Two sockets are both
roles, and the peer that fails; two messages are what can be put out of order.
Three `stop()` calls are the three places the agent stops the game from. Three
installs are a seed, a seed that comes late with an old version, and an update;
two files make a package that can be half there. A window of one id makes
messages outlive the memory of them at once. Two cycles are what a late
rejection needs to fall into a cycle that is not its own. Two pages are a writer
and one that has missed the write; two settings calls overlap, a third would
find what the second finds. Bytes up to four and a payload of three give start
codes of both lengths, length prefixes, units shorter than, as long as and longer
than a payload; three sequence numbers wrap. Three games on pages of two make a
second page that filters empty. The bounds that cut behaviour are constants
named `Max…` and marked "bound" where they are declared; `MaxConnections`,
`MaxAttempts`, `MaxRequests`, `Window`, `SessionTtl`, `Rate`, `Limit`,
`MaxPending`, `PageSize`, `MaxEntries` and the like are the code's own limits
made small.

`CHECK_DEADLOCK FALSE` is set where the system may stop: a host that has
exited, a page without a bound left to use up. `player_page`, `broker`,
`signaling_server` and `adapter_installer` check that there is always a next step.

Symmetry (`Symmetry` of `SignalingBroker` and `RedisBroker`) permutes
participants, and sessions or instances, which the modules treat alike; it is
used in runs without liveness only.

Fairness. The event loop runs continuations and delivers events that are due:
weak fairness of `Continuation`, `DueStep`, `Step`, the wrapper's events and the
timer; strong fairness in `SignalingServer`, where the settling of an injected
broker's answer and a socket's close event may come in turns with other work. A
socket that is connecting opens or fails, which the operating system's
connection timeout sees to. A peer's answer in `NativeHost` settles
(`PeerSettles`): the code awaits no more than the peer's own computation there.
SIGKILL ends a process; SIGTERM need not. A run of the installer that was killed
or has failed is started again, as the programs are at each start, and a run
that is at work goes on; faults are finitely many (`MaxFaults`). No peer, player
or operator has to do anything.

### What the code does that it says it does not, or surely should not

One run expects a violation, `dashboard_links`. `dashboard.mjs:1184` calls
`renderConsoleMode()`, which no file defines or imports, and the page's script ends
there with a `ReferenceError`, before `onDeepLink(handleDeepLink)` and
`loadCatalog()`. TLC's three states are a page that opens and a link that comes:
`docs/development.md:245-246` says "the dashboard queues it until catalogs are
ready", and nobody has it. With the catalogue every launch of a service, its history
and its shelves are missing too, and with the launches the intents that the player
would read; so none of these is modelled.

The other properties say what the code keeps, and leave out, by a named
condition, what it does not. What they leave out is listed here; `PROJECT.json` has the lines under `hazards`. "Says" quotes a doc
or a comment.

Signaling and host:

- A participant whose delivery failed loses its role at `broker.mjs:118`; when
  it detaches later, line 128 frees the role whoever holds it by then, and with
  the last role the session. `signaling/README.md:11-12` says sessions are
  removed after detach or inactivity. `redis-broker.mjs:137` unsubscribes the
  whole channel at the first detach, while :40-42 keeps it for the other role;
  the role's key is never renewed (:93). When the EVAL of `release()` is
  rejected (:65), or the answer to an executed SET is lost (:93), nobody asks
  again and the role stays taken until its TTL runs out.
- After a close frame the service parses what is left in its buffer only when
  another chunk comes; after a refused opcode the rest of the buffer is dropped;
  the host's limiter counts chunks and frames, so that about half of the
  documented messages are allowed. The signaling agent handles no SIGTERM.
- A connection that closes while its offer awaits `launcher.start()` cleans up
  before `gameStarted` is set (`agent.mjs:646`); the game keeps running.
  `docs/host-support.md:134-135` says it is stopped (`GameEndsWithSession` of
  `HostAgent`, which TLC finds violated in six states). A shutdown forgets a game
  that is starting (`agent.mjs:919`, :925).
- The one-time code is consumed (`agent.mjs:606`) before the launch request is
  looked at, while `host/README.md:72-74` says a failed attempt does not strand
  a valid retry. A native host with a game configured refuses offers without a
  launch, and one with AAC sound refuses all of them, after that point as well.
- `host/signaling.mjs` connects once and never again.
- `rtp-packetizer.mjs` takes a length prefix 0,0,0,1 for a start code;
  `publisher.mjs:184` treats every chunk of a pipe as a whole frame;
  `ivfFrames` reads the first chunk only. `audio.mjs` leaves its handler
  attached after a failure.
- `app-host.mjs` keeps an agent connection whose page has gone before the
  upgrade was answered, and drops the upstream's first bytes.
- Every key event is an `xdotool` process that nobody waits for, so that a press
  and its release may change places; the limiter may drop a release; keys that
  are held when a connection closes are not released; a `failed` executor stays
  so. A controller that is unplugged, or a key lifted without focus, releases
  nothing; either of pad and touch releases what both hold.
- A host shows input and `opus` whether or not it can serve them; the driver of
  another platform's package is loaded and used; a backend `Disabled` does not
  stop the package's own virtual pad; `HEVC` means h264.
- A certificate's rotation that fails to remove the second backup deletes the
  pair it has published (`tls-rotation.mjs:89-90`). A rollout takes nothing
  back, and its report may be an older one's; nothing compares dates. A
  manifest is written with `totalBytes`, which `sign-release.mjs:32` leaves out
  when it compares and `verify-release.mjs` does not when it verifies: one that
  was signed as it was sent never verifies. An
  adapter that is a plain artifact can be installed and never activated.

Session and player page:

- One failing socket is reported up to three times, and each report takes a
  number from the policy: of five attempts the first and the fourth are made.
  A cancelled attempt that is connecting makes its request when the socket opens
  (`runtime.mjs:186`, against `docs/transport.md:29`).
- An answer the manager ignores as stale still makes the controller succeed
  (`runtime.mjs:120`). `close()` while `start()` awaits leaves that promise
  unsettled, or sends the offer afterwards.
- Once the player's own data channel is open every message goes into it
  (`runtime.mjs:46-52`), and no host of the repository reads one. A browser host
  drops candidates that come before its answer; a native host may refuse them.
- A change of quality made by local telemetry is not sent; `poor` samples at the
  lowest profile count as good (`quality.mjs:172`); `decodeFps` is always 0
  (`telemetry.mjs:46`); the manager changes its profile before a send that
  throws.
- `player.mjs:691` reads `payload` of a promise: the page shows an error while
  the reconnection runs. A second submit replaces the runtime of the first.
  Reconnect, cancel, Reconnect while the first socket connects makes a second one
  in its place (`transport.mjs:129-136`); the first opens later, joins the
  session, and neither the page nor its End button can close it.
- A session that lost its connection while the window was away stays paused when
  the window comes back (`player.mjs:735`); `docs/transport.md:100-103` says that
  a resume is sent then (`WindowResumes` of `PlayerPage`, which TLC finds violated
  in nine states). One that the user paused is resumed by it.
- The page tells nothing of an audio codec, rumble, gyro, slots, steering range,
  input or trigger mode that it does not get
  (`negotiation-notices.mjs:5-56`); the host notes requests of quality without
  encoding by them (`agent.mjs:690-698`) and does not read the one in the offer.
- An option `Disabled` becomes `Automatic` when the host differs, and is
  reported as a missing driver (`host/session.mjs:233-240`).
- A publisher or runtime of the browser host that is replaced while it waits
  keeps its microphone or its role. An instant replay loses its first chunk with
  the container's header; a recording begun while another one is stopping shares
  its buffer; `recording` is not renewed for a new stream.
- Records for resuming are saved before the runtime is started
  (`player.mjs:112`), so that an ended session can be resumed; a sign-out in one
  tab leaves pending launches and resumable sessions of others; a pairing code
  is sent with an offer to whatever endpoint is typed next (:585). The endpoint,
  the id and the ticket are taken from the page's address, the pairing and the
  stored session one by one (:598-606), and the fields of the form edited one by
  one (:646-653), so that a stored ticket may go to an endpoint that an address
  names; what was put together is stored and used again.

Pages and desktop:

- Two updates of a game that overlap undo one another, and one may bring back a
  game that was removed (`store.mjs:68-72`); every scan ends with a
  `ReferenceError` (`scanner/index.mjs:88`). The library's collections filter
  nothing (`listGames` does not look at `collection`); a page number past the end
  says "No games found" while a typed text waits; overlapping clicks turn a
  game's highlight over; the edit page does not exist.
- The page of hosts leaves a preview running without a button when the last
  profile is removed (`host-page.mjs:57` returns before :62); a display that is
  granted after its publisher was closed stays captured (`browser-publisher.mjs:171`);
  saving a profile under another one's id replaces that one.
- The emulation page's handlers work with the newest runtime whatever plan they
  are of; a stop during a load is overridden; a plan outlives the profile it was
  made with and always takes the first file; profiles of a named platform never
  match.
- `install-available` offers the first candidate whatever its trust; a bundle
  that is rejected replaces the records all the same.
- A settings page writes its whole stale record, so that another tab's change is
  lost; the saving line may speak for ever, or of another save; an import wipes
  the stored secrets. Workspaces of another tab are lost alike; favourites of a
  removed workspace come back with its name.
- On a dashboard as it is, without a catalogue: an added game has no page to
  launch, a stored launch is "no longer available", a star on a game is dropped
  (its id has a colon, which `normalizeIds` refuses, `library-state.mjs:15-25`).
  The import of ROMs calls `importFromPaths` with records and fails always.
- A window that fails to load its page (`main.mjs:471`) neither gets its link nor
  clears it, and the first one leaves the `activate` handler (:661) unregistered.
- A diagnostics file that cannot be read counts as empty
  (`diagnostic-log.mjs:115-117`): the next entry takes the place of all of them,
  and is reported as recorded.
- Adapters that whoever embeds the emulation page put into it
  (`browser-adapters.mjs:45-48`) are run without a manifest, and are the first to
  be asked.
- The quit guard asks when the last window is gone (`main.mjs:666`); an older
  settings call ends with the newer policy, and writes its file last (:599).
- Clearing the sign-ins: `providerSessionPartitions()`, "every partition owned
  by Spartan's provider player" (`provider-session.mjs:39`), has
  `…-<profile>`, while isolated views, the default, use `…-<profile>-<account>`:
  their sign-ins stay. Sign-ins in memory last until the application ends. An
  answer to a site's question that was open during the clearing is kept
  afterwards, and one that is given under `Block by default` still grants.

## 4. What is proved

The proofs hold for every value of the constants that meets the assumption the
module names: any number of sessions, participants, sockets, instances,
processes, callers, connections, messages, installs and calls, and any limit.
The assumptions say that limits are natural numbers, positive where the code
needs one, and that names are told apart:

- `BrokerAssumption`, `RedisAssumption`: `None` is no participant (nor, for
  Redis, an instance); `MaxSessions` is positive.
- `AgentAssumption`: the processes of an agent are its one game, and the callers
  of `stop()` are the three places in `agent.mjs` that call it.
- `InstallerAssumption`: seeders and later runs are runs, a package has at least
  one file.
- `ShellAssumption`: settings are pairs of switches; one dialog at a time at
  least.
- `NativeAssumption`: the processes are the game, the encoder and the capture,
  the callers of `stop()` the three threads of control.
- `AdaptersAssumption`: versions are numbers, bundles and feeds are sequences of
  manifests. `SitesAssumption`: there is a profile.
- `DashboardAssumption`: `NoLink` is no link. `ExchangeAssumption`: at least one candidate may wait.
- `NegotiationAssumption`: the automatic input backend is one, the one that a
  record of capabilities may wrongly name is none.
- `LibraryAssumption`: filters are sets of titles, and no title is the game that
  is not there. `HostPagesAssumption`: what is stored at first was stored by the
  pages, each profile once; absence is no profile. `EmulationAssumption`: there is a plan.
- `KeyAssumption`: no letter is a modifier, and the rate is positive.
- `ServerAssumption`, `SessionAssumption`, `ReconnectAssumption`,
  `PlayerAssumption`, `BrowserHostAssumption`, `CaptureAssumption`,
  `QualityAssumption`, `HandoffAssumption`: numbers only. `ManagedProcess`,
  `EmulationPlan`, `SettingsPages`, `Workspaces`, `HostMachine` and `Deployment`
  need none.

| theorem | says | argument |
| --- | --- | --- |
| `BrokerTypeCorrect`, `RoutingIsSound`, `DeliveryIsScoped`, `CapacityIsBounded` | the invariants of the broker | `BrokerInv` |
| `BrokerKeepsPromise` | the broker implements `Rendezvous` | each action is a `Join`, `Release`, `Clear`, `Expire` or stutter of the seats, under `BrokerInv` |
| `ServiceUsesBroker`, `ServiceIsSound` | the service is a client that the broker allows (`Spec => BrokerSpec`), so what is proved of the broker holds in the service | each step of a socket is one of the broker's or leaves its variables alone |
| `SocketsAreServed` | `SocketsAreSound` | `ServerInv` |
| `RedisTypeCorrect`, `RedisRolesAreSound` | types; `RolesAreSound` | `RedisInv` |
| `RedisIsRendezvous` | the keys in Redis implement the promise that expiring keys can keep | each step is one of `Rendezvous` or a stutter, under `RedisInv` |
| `ProcessReportsTruth`, `ProcessForwardOnly`, `ProcessNoSurvivor` | the safety of a managed process | `ProcessInv` |
| `AgentUsesProcess`, `AgentLeavesNoSurvivor` | the agent uses its game's process as `ManagedProcess` allows, so no stop leaves a survivor | each step is one of `ProcessNext` or a stutter |
| `AgentTypeCorrect`, `AgentPlayIsOwned` | types; `PlayIsOwned` of the agent by itself, `AgentOwnsPlay` in the sum | `AgentInv` |
| `SessionEffectsInOrder`, `SessionEndsInBounds` | `EffectsInOrder` and `SessionIsBounded` | `SessionInv` |
| `ReconnectAttemptsBounded`, `ReconnectNoAttemptAfterEnd` | the safety of the controller | `ReconnectInv` |
| `RuntimeUsesController`, `RuntimeUsesManager`, `RuntimeIsBounded` | the runtime implements the specifications of the controller and of the manager, so the four theorems above hold in it | step by step |
| `RuntimeSettles` | `RecoveredIsSettled` | `SessionInv`: only a message that is received connects a session |
| `PageTypeCorrect`, `PageHoldsConnections`, `PageIsTruthful`, `PageFreesLock` | types; `NoStrayConnection`, `PageTellsTruth`, `LockEndsWithSession` | `PageInv` |
| `SettingsTakeEffectThm`, `LinkWaitsForWindowThm`, `QuitAsksFirstThm` | the three properties of the desktop's main process | `ShellInv` |
| `InstallerTypeCorrect`, `InstallsAreWhole` | types; `InstallIsWhole` | `InstallerInv` |
| `NativeUsesProcess` | the native host uses its three processes as `ManagedProcess` allows | each step is one of `ProcessNext` or a stutter |
| `NativeLeavesNothing`, `NativeAcceptsStarted` | `NothingLeftRunning`, `AcceptedIsStarted` | `NativeInv` |
| `HostsObey`, `StoppedRolesAreFree` | `CaptureObeys` and `StopFreesRole` | `HostingInv` |
| `RecordingsStayWhole`, `LaunchesAreAsked`, `AdaptersStayApproved`, `SitesStayApart` | what recordings, launch plans, adapters and provider sessions are to keep | `CaptureInv`, `PlanInv`, `PagesInv`, `SitesInv` |
| `PartsDoAsAsked` | `DoneAsAsked`, the five together | a step of the sum is one of a part |
| `KeysStayFollowed`, `PadsStayFollowed` | `KeysFollow`, `PadsFollow` | `KeysInv`, `PadInv` |
| `InputStaysFollowed` | `InputFollows`, the two together | a step of the sum is one of a part |
| `RotationsAreSafe`, `EvidenceStaysReal`, `ChecksStayHonest`, `HostsComeUpHonest` | `PairIsSafe`, `EvidenceIsReal`, `ChecksAreHonest`, `HostComesUpHonest` | `RotationInv`, `EvidenceInv`, `HardwareInv`, `BootInv` |
| `ToolsStaySafe` | `ToolsAreSafe`, the four together | a step of the sum is one of a part |
| `SettingsStayScoped`, `WorkspacesStayUsable`, `GamesStayKept` | what settings pages, workspaces and dashboards are to keep | `SettingsInv`, `WorkspacesInv`, `DashboardInv` |
| `PagesStayCurrent`, `PagesWriteTheirOwn` | `PagesAreCurrent`, `WritesStayScoped`, the three together | a step of the sum is one of a part |
| `AgreementHolds`, `CandidatesDoArrive` | both sides go by one agreement; candidates arrive once | `AgreementInv`, `ExchangeInv` |
| `QualityStaysSteady`, `HandoffStaysScoped` | `QualityIsSteady`, `HandoffIsScoped` | `QualityInv`, `HandoffInv` |
| `PagesAndHostDoAgree`, `PagesStayScoped` | `PlayerAndHostAgree`, and the other two in the sum | a step of the sum is one of a part |
| `GamesAreShown`, `ShelvesAreShown`, `HostPagesStayTrue` | what the emulator's page, the library and the page of hosts show | `EmulationInv`, `ShelfInv`, `HostPagesInv` |
| `UpdatesAreKept`, `LogIsRemembered` | `NoUpdateLost`, `LogRemembers` | `LibraryInv`, `LogInv` |
| `PagesDoShowState`, `RecordsAreKept` | `PagesShowState`, `RecordsKept`, those five together | a step of the sum is one of a part |
| `LinksStayTied` | `LinksEndTogether` | `LinksInv` |

The invariants, and why the properties are not inductive by themselves:

- `BrokerInv`. `RoutingSound` speaks of what the Map reaches; a detach edits the
  object its closure captured. So it takes facts about all objects, forgotten
  ones too: a closure's object was created for the closure's session
  (`CaptureInv`), a seat is held by a closure of that object and role that was
  not dropped (`SeatInv`), the Map gives an id an object made for it (`MapInv`),
  nothing exists under an unused name (`FreshInv`), and whoever the Map reaches
  has not detached (`LiveInv`).
- `ServerInv`. A role leaks when an attached participant has nobody left who
  will detach it: `HolderInv` gives each one a join that is going to settle, or a
  socket that has joined and is not down. The order of messages needs that the
  queue of a socket continues what it has relayed so far (`FlowInv`).
- `RedisInv`. Between a command and its answer a key may run out, another
  participant may claim it and the instance may crash. A participant awaits one
  command at a time and no command is in a pipe twice (`PipeInv`), a key names
  whoever claimed that seat, who is gone only after a crash or a command that
  failed (`KeyInv`), and stays its participant's until the end
  of `release()` unless it has lapsed (`OwnInv`, `LapsedInv`), and who is
  attached is subscribed (`ListenInv`).
- `ProcessInv`. `ReportsTruth` needs the pairs of wrapper and child states that
  can occur (`ChildInv`), with the fact that a stopping process was signalled.
- `AgentInv` adds to `ProcessInv` which connections may be paired, whatever
  offers wait for their game (`PairedInv`), which states the game can be in
  beside each of them (`GameInv`), who has to do with a game that runs
  (`OwnerInv`), and that such a connection is open or was overtaken (`AnswerInv`).
- `SessionInv`. `EffectsInOrder` is about messages that have left the window:
  every message that had an effect has a number up to `latest`
  (`EffectsCounted`), and no message is from a session yet to come
  (`NothingAhead`). `SessionIsBounded` needs `asked` to be what the policy counts
  (`RequestsCounted`).
- `ReconnectInv` bounds the attempts made by the number the timer or the policy
  has reached; a late rejection then moves the number but not the attempts.
- `PageInv`. A runtime that seeks a connection is as good as one that has it:
  `HoldersInv` covers both, as an attempt may come after the page has gone on. While
  no socket was replaced each runtime knows the one it has (`SteadyInv`); an open
  session has a runtime that closes it (`OwnerInv`), and what was ended is over in
  every runtime, too (`OverInv`). A lock that nobody knows takes two requests at a
  time (`LockInv`).
- `ShellInv`. What takes effect is the last call that was applied; so the queue
  of saves has to be in the order of the calls, and its last entry what the
  shell goes by (`QueueInv`); the power blocker and the tray agree with the
  policy (`PolicyInv`); before the shell is ready nothing plays, and when it has
  quit no window is left (`PlaceInv`); whoever is quitting was asked (`QuitInv`).
- `InstallerInv`. A version directory may be taken back by the run that published
  it, as long as it is not current. At most one run holds a version between its
  publishing and its switch (`HoldInv`); a version that was ever current is whole
  and held by nobody (`CurrentInv`); what a run has unpacked is what its step
  says (`UnpackInv`); and a reader, be it a run or the agent, has read a version
  that was current at some time (`ReadersInv`, `ActivationInv`).

- `NativeInv`. Three threads take turns at every await, and each may find that
  another has done its work, or has ended the session under its feet. Which
  sequences `todo[t]` can be is not what matters but what is still in them: for
  everything that runs (the game, the publisher, each process of the pipeline)
  there is a thread that owes its stopping, or a session that will still be
  closed (`GameInv`, `PublisherInv`, `PipelineInv`, over `Owed(t)`). The hard case
  is an offer that publishes after `close()` was there: until it comes to its own
  cleaning no other thread has a turn (`Belated`, `TurnInv`). `ProcessInv` is used
  again, as nothing else touches the processes.
- `KeysInv`. What the host holds says nothing while events are under way. The last
  event of a key says how the player means to hold it (`MeantInv`); it is under
  way, or was the last executed, or the key is amiss (`LastInv`); and when it was
  the last executed the host holds the key accordingly (`HeldInv`). That a
  modifier is not held past its chord is a fact about the page: the letters that
  moved after it was latched are still down (`ChordInv`).
- `PadInv` is `PadsFollow` itself: the events of a poll make of what the host
  held before it what the page has seen at it, whatever moved in between, unless
  a control is named among those that are amiss.
- `RotationInv`. What is under the names of each file is a function of how many
  awaits are behind as long as nothing has failed (`GoesWell`); after one error
  the undo steps reverse those that had been done, and both new files are taken
  away before either old one comes back (`GoesBack`).
- `EvidenceInv`. What a rollout has seen when it reports is known from how far it
  has come (`PhaseInv`, `EndInv`); a report that passes the gate is backed by what
  was seen (`BackedInv`), and every gate that is behind has judged what it asks
  for (`VerdictInv`).
- `HardwareInv`. A report is written after the cleaning, so the steps it claims
  must have been recorded before it and no failure forgotten (`PerformedInv`,
  `ReportsInv`); what runs or is pressed is known from the next operation
  (`MediaInv`, `PressedInv`).
- `BootInv`. What a host advertises was decided from a configuration and an
  environment that were read before it, and still holds of both when an input
  arrives (`LoadedInv`, `ServingInv`).
- `HostingInv`. Publishers and runtimes that were replaced while they awaited go
  on. What a publisher captures hangs on its stream unless a `close()` cut into
  its capture (`Kempt`), and a runtime that is not the page's has been closed, or
  was replaced while it was starting (`Settles`).
- `CaptureInv`. Until two recordings overlap there is one live recorder at most,
  and chunks are saved by nobody else while it is on; a replay's recorder is that
  of the stream shown.
- `PlanInv`, `PagesInv`. A plan shows what is picked at every instant, so each
  change of the form has to renew or clear it; an offer of an update is newer than
  every usable release of the feed, whatever was read in between.
- `SitesInv`. A decision is the last answer about its key (`Recalled`); a
  clearing that has been past the shared partition left nothing there but what
  came since (`Swept`), whatever other clearings are still under way.
- `SettingsInv`. The line about saving belongs to one save of many that are still
  under way (`LineHolds`).
- `WorkspacesInv`. A page's own copy always has a workspace in use, although
  another page may have removed it from storage; a dashboard shows the one in use
  in its copy, with the favourites that are in storage or would be taken over
  (`ShowsOwn`).
- `DashboardInv`. A game is added when no form before has named it, so that every
  form has its game in storage and the games are the first forms of each
  (`GamesInv`).
- `AgreementInv`. The host takes the first of the player's choices that it has;
  of that one item the player takes the same, so that the second negotiation
  repeats the first.
- `QualityInv`. The count of good samples is that of the last ones (`CountInv`),
  and what the host has noted is what the last request that came asks for; what does
  not adapt is asked for as it was first (`FixedInv`).
- `HandoffInv`. What is made gets greater numbers, so that what a sign-out removes
  is told by its number from what was made since. Every record that has all three
  parts has its own ticket for its endpoint, or a pair that is in `apart` (`Goes`):
  in the storage (`KeptFits`), and in what the player's page has read, in its form
  and in what these resolve to together (`PageFits`). What was ended or offered is
  neither kept nor about to be used.
- `ExchangeInv`. Each candidate is in one place: on a wire, pending or given
  (`OnceInv`), and none is nowhere unless a named hazard lost it (`CameInv`).
- `EmulationInv`. What a page shows depends on the calls that have not settled:
  none is under way but those that the state of the newest plan allows
  (`CallsInOrder`), until one of the named asides.
- `ShelfInv`. The grid shows *some* view of the records as they are (that of the
  controls, unless a typed text is not yet reckoned with), and the page number is
  one that there is.
- `HostPagesInv`. What is beside the editor was asked for with the profile that is
  edited (`ShownInv`); a publisher is closed when another takes its place and only
  then, whatever its display and its video are still waiting for (`CaptureInv`).
- `LibraryInv`. Unless one of the named lapses has happened one write at most is
  queued; its page is the only one that has not missed a write, and its Map was
  the record.
- `LogInv`. Operations take turns (`InTurn`), so that a draft is made of what those
  before it left: it already holds what the file will have to hold once it is moved
  into place (`DraftsInv`), and more so when entries age or later calls fail
  meanwhile. An entry left out for want of room has as many younger ones after it.
- `LinksInv`. Until the agent has answered nothing is tied; a page's socket that is
  closed still has its close event to come, or told it too early, or has taken the
  agent's with it, and the other way round.

The three sums start each part but one at rest in a state that may not be initial
for it; `NegotiationRests` says what holds then. Three kinds of facts are used
again and again and are lemmas of their own: a set of numbers has a least one
(`LeastNumber`, from `WFMin`) and a bounded one a greatest, what `RemoveAt`,
`Append` and the like make of sequences without repetitions, and how the number
of elements of a finite set changes.

`CapacityBound`, `ForwardOnly`, `AttemptsBounded` and the types are stated by
theorems only; the runs that would repeat them on an instance gave way to others.

Only model-checked:

- Liveness (`CloseFreesRoles`, `StoppedGamesEnd`, `EverythingEnds`,
  `Converges`, `RetriesEnd`): TLAPS as it is used here does not reason about
  fairness.
- `TrafficIsWhole` but for `LinksEndTogether`: what a packetizer, a parser, a
  demuxer or a rate limiter makes of a whole stream is a recursive function or a
  fold over data, which takes induction.

## 5. What is not modelled

- Data and its tables: `settings/settings-data.mjs` (1 779 lines of controls),
  the catalogues, the codec and platform tables, the texts of pages.
- The wiring of pages: HTML, the lookup of elements, formatting. The modules
  have what the handlers decide, not how it is laid out.
- Scripts that drive a browser or build packages (`scripts/playwright/`,
  `scripts/app/package.mjs`, `scripts/chromium/`): they run one step after the
  other and end at the first failure.
- HTTP routes, TLS, schemas, signatures and the reading of archives, the
  construction of ffmpeg and game command lines, the probing of encoders: each is
  a choice of its outcome.
- ICE, WebRTC media, Redis, the operating system's processes, the emulator cores
  and the games: external, only what the code can observe of them appears.
- Native code (`native/`, `android/`, `chromium/`) and `vendor/`.
- Parts without concurrent behaviour or not in use: the social pages, whose
  modules `friends.mjs` and `matchmaking.mjs` do not load, multiplayer records,
  metadata providers (whose base class cannot be used), save-state files.
- In modelled parts: more than one `start()` of a runtime; two sessions of one
  millisecond, which `ses-${Date.now()}` would give one id; accounts of a
  service other than the default; updates of the desktop application beyond the
  restart prompt. The notes of the components in `PROJECT.json` name the rest.

The map covers somewhat less than a quarter of the lines of the implementation.
What is left is mostly of the kinds above; each remaining file of logic is small
and works one call at a time.

## 6. Plan

The model is as wide as planned, and its safety properties are proved but for the
four conjuncts of `TrafficIsWhole` that are about a whole stream of bytes. Those
would take induction over data; what is left to do without it is to widen the
model to the small files that the notes of the components name.

A theorem about a part of a sum is a theorem about that part's own
specification (`…Spec` in its module).
