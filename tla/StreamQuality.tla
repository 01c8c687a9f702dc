--------------------------- MODULE StreamQuality ----------------------------
(***************************************************************************)
(* What is streamed: the capabilities that player and host agree on when   *)
(* a session starts, and the quality that they adapt it to meanwhile.      *)
(***************************************************************************)
EXTENDS Integers, Sequences, FiniteSets, SequencesExt

-----------------------------------------------------------------------------
(***************************************************************************)
(* What a player and a host agree on: the offer of the session manager     *)
(* (start() and normalizeCapabilities() of session/session.mjs), the       *)
(* host's answer (host/session.mjs), the manager's reading of it           *)
(* (receive()), and what the page says of the difference                   *)
(* (session/negotiation-notices.mjs).                                      *)
(*                                                                         *)
(* A capability record has a field for each kind: lists in order of        *)
(* preference, limits, switches, and options with a default.  Of each kind *)
(* the page looks at some (`Told') and not at others: `sounds' is the list *)
(* of audio codecs, `slots' stands for the player slots and the steering   *)
(* range, `rumble' for every switch but HDR, `mode' for the input and the  *)
(* trigger mode, `size' for the picture, its rate and the channels,        *)
(* `backend' for the two backends.                                         *)
(***************************************************************************)
CONSTANTS Transport, Codec, Sound,  \* names
          Backend,           \* the values of an option
          Automatic,         \* its default, which stands for any
          Invalid,           \* a value the option does not have
          MaxSize            \* the greatest limit

ASSUME NegotiationAssumption == Automatic \in Backend /\ Invalid \notin Backend

VARIABLES player, server,  \* the capabilities of the two
          phase,           \* of the session manager: "idle", "preparing", ...
          answer,          \* the host's answer: [accepted, capabilities], or NoAnswer
          negotiated,      \* of the session manager
          notices          \* what the page says was adjusted
negotiationVars == <<player, server, phase, answer, negotiated, notices>>

ListField == {"transports", "codecs", "sounds"}
LimitField == {"size", "slots"}
SwitchField == {"hdr", "rumble"}
OptionField == {"backend", "mode"}

Lists(S) == {s \in UNION {[1..n -> S] : n \in 1..Cardinality(S)} : IsInjective(s)}
Capabilities == [transports : Lists(Transport), codecs : Lists(Codec), sounds : Lists(Sound),
                 size : 1..MaxSize, slots : 1..MaxSize, hdr : BOOLEAN, rumble : BOOLEAN,
                 backend : Backend \cup {Invalid}, mode : Backend]
NoAnswer == [accepted |-> FALSE, capabilities |-> <<>>]

\* normalizeCapabilities() of the host's own capabilities succeeds when it starts.
NegotiationInit ==
  /\ player \in Capabilities /\ server \in {c \in Capabilities : c.backend # Invalid}
  /\ phase = "idle" /\ answer = NoAnswer /\ negotiated = <<>> /\ notices = {}
-----------------------------------------------------------------------------
\* normalizeCapabilities() throws on a value that is out of range.
Valid(c) == c.backend # Invalid

\* What intersect() keeps of a list, as places in it, and the item it keeps first.
Intersect(preferred, offered) == {i \in DOMAIN preferred : preferred[i] \in Range(offered)}
First(preferred, offered) ==
  preferred[CHOOSE i \in Intersect(preferred, offered) :
              \A j \in Intersect(preferred, offered) : i <= j]

Least(m, n) == IF m < n THEN m ELSE n

\* negotiateCapabilities() throws when nothing is left of a list.
Compatible(local, remote) ==
  /\ Valid(local) /\ Valid(remote)
  /\ \A f \in ListField : Intersect(local[f], remote[f]) # {}

\* Mutant: an option the two do not share is the player's.
Agreed_Insists(f, mine, theirs) ==
  CASE f \in ListField   -> <<First(mine, theirs)>>
    [] f \in LimitField  -> Least(mine, theirs)
    [] f \in SwitchField -> mine /\ theirs
    [] f \in OptionField -> mine

\* What becomes of one field; advertised() makes a list of the codec that was found.
Agreed(f, mine, theirs) ==
  CASE f \in ListField   -> <<First(mine, theirs)>>
    [] f \in LimitField  -> Least(mine, theirs)
    [] f \in SwitchField -> mine /\ theirs
    [] f \in OptionField -> IF mine = theirs THEN mine ELSE Automatic

Negotiate(local, remote) == [f \in DOMAIN local |-> Agreed(f, local[f], remote[f])]

\* start(): the manager is `preparing' before normalizeCapabilities() can throw.
Offer ==
  /\ phase = "idle"
  /\ phase' = IF Valid(player) THEN "negotiating" ELSE "preparing"
  /\ UNCHANGED <<player, server, answer, negotiated, notices>>

\* negotiateHostOffer(): the offer is the first argument, the order of its lists counts.
Answer ==
  /\ phase = "negotiating" /\ answer = NoAnswer
  /\ answer' = IF Compatible(player, server)
               THEN [accepted |-> TRUE, capabilities |-> Negotiate(player, server)]
               ELSE [accepted |-> FALSE, capabilities |-> <<"refused">>]
  /\ UNCHANGED <<player, server, phase, negotiated, notices>>

\* describeNegotiationAdjustments() looks at these and at no other field.
Told == {"transports", "codecs", "size", "hdr", "backend"}

Notices(requested, result) ==
  {f \in Told : \/ f \in ListField /\ requested[f][1] # result[f][1]
                \/ f \in LimitField /\ result[f] < requested[f]
                \/ f \in SwitchField /\ requested[f] /\ ~result[f]
                \/ f \in OptionField /\ requested[f] # Automatic /\ result[f] = Automatic}

\* receive(): an answer that does not accept is thrown out, one that does is negotiated anew.
ReceiveAnswer ==
  /\ phase = "negotiating" /\ answer # NoAnswer
  /\ IF answer.accepted /\ Compatible(player, answer.capabilities)
     THEN /\ phase' = "connected"
          /\ negotiated' = Negotiate(player, answer.capabilities)
          /\ notices' = Notices(player, negotiated')
     ELSE phase' = "refused" /\ UNCHANGED <<negotiated, notices>>
  /\ UNCHANGED <<player, server, answer>>

NegotiationNext == Offer \/ Answer \/ ReceiveAnswer

NegotiationSpec == NegotiationInit /\ [][NegotiationNext]_negotiationVars
-----------------------------------------------------------------------------
Shared(f) == {v \in Range(player[f]) : v \in Range(server[f])}
Within(result, c) ==
  /\ \A f \in ListField : Range(result[f]) \subseteq Range(c[f])
  /\ \A f \in LimitField : result[f] <= c[f]
  /\ \A f \in SwitchField : result[f] => c[f]
  /\ \A f \in OptionField : result[f] \in {c[f], Automatic}

\* The result gives the player other than it asked for, or less.
Differs(f) ==
  IF f \in ListField THEN negotiated[f][1] # player[f][1] ELSE negotiated[f] # player[f]

\* What the host has accepted the player accepts too, and both come to the same result, which
\* exceeds the limits of neither and takes the first of the player's choices that the host has;
\* the host refuses only when there is none.  Of the transport, the video codec, the picture,
\* HDR, the channels and the backends the page says exactly what the result gives the player
\* less of; of the audio codec, the other switches, the slots and the modes it says nothing,
\* however much less they are (negotiation-notices.mjs:5-56).
SameAgreement ==
  /\ answer.accepted => Within(answer.capabilities, player) /\ Within(answer.capabilities, server)
  /\ phase = "connected" =>
       /\ negotiated = answer.capabilities
       /\ \A f \in ListField : \A i \in DOMAIN player[f] :
            player[f][i] \in Shared(f) => \E j \in 1..i : negotiated[f] = <<player[f][j]>>
       /\ notices = {f \in Told : Differs(f)}
  /\ phase = "refused" => ~answer.accepted /\ \E f \in ListField : Shared(f) = {}

-----------------------------------------------------------------------------
(***************************************************************************)
(* Adaptive quality: createQualityController (session/quality.mjs) inside  *)
(* the session manager, fed by the player's own telemetry, by that of the  *)
(* host and by the user (session/runtime.mjs, player/player.mjs), and the  *)
(* host that is asked for a profile (host/agent.mjs).                      *)
(*                                                                         *)
(* Profiles are 1 (best) to Profiles.  A request goes into the data channel*)
(* when it is open, which no host of the repository reads, else through    *)
(* signaling.  A sample is the class classifyNetworkHealth gives it.       *)
(***************************************************************************)
CONSTANTS Profiles,      \* how many
          UpgradeAfter,  \* upgradeAfter
          MaxSamples,    \* bound: samples
          MaxManual      \* bound: choices of the user

ASSUME QualityAssumption == Profiles \in Nat \ {0} /\ UpgradeAfter \in Nat \ {0}

VARIABLES current,   \* the controller's profile
          fixed,     \* fixedProfile
          goodSamples,
          adaptive,  \* <<adaptiveBitrate, adaptiveResolution>>
          shown,     \* the profile the page shows
          route,     \* the way a message takes: "none", "signaling", "data"
          requests,  \* under way through signaling
          host,      \* lastQuality of the host: the last request it has taken
          astray,    \* why the host may not know the player's profile
          recent,    \* the classes of the samples since the profile last changed
          samples, choices
qualityVars == <<current, fixed, goodSamples, adaptive, shown, route, requests, host,
                 astray, recent, samples, choices>>

Health == {"poor", "fair", "good"}

\* requestProfile(): a dimension that is not adaptive stays the fixed profile's.
Request(index, base) ==
  [bitrate |-> IF adaptive[1] THEN index ELSE base, size |-> IF adaptive[2] THEN index ELSE base]

\* lastQuality is null: the host does not read the profile that the offer tells.
Unasked == [bitrate |-> 0, size |-> 0]

QualityInit ==
  /\ current \in 1..Profiles /\ fixed = current /\ shown = current
  /\ goodSamples = 0 /\ adaptive \in BOOLEAN \X BOOLEAN
  /\ route = "signaling" /\ requests = <<>>
  /\ host = Unasked
  /\ astray = {"unasked"} /\ recent = <<>> /\ samples = 0 /\ choices = 0
-----------------------------------------------------------------------------
\* Mutant: a fair sample does not start the count anew.
Ingested_Lenient(health) ==
  IF adaptive = <<FALSE, FALSE>> THEN <<current, goodSamples>>
  ELSE IF health = "poor" /\ current < Profiles THEN <<current + 1, 0>>
  ELSE IF health = "fair" THEN <<current, goodSamples>>
  ELSE IF goodSamples + 1 >= UpgradeAfter /\ current > 1 THEN <<current - 1, 0>>
  ELSE <<current, goodSamples + 1>>

\* ingest(): the new profile and count.  A poor sample at the last profile counts as good.
Ingested(health) ==
  IF adaptive = <<FALSE, FALSE>> THEN <<current, goodSamples>>
  ELSE IF health = "poor" /\ current < Profiles THEN <<current + 1, 0>>
  ELSE IF health = "fair" THEN <<current, 0>>
  ELSE IF goodSamples + 1 >= UpgradeAfter /\ current > 1 THEN <<current - 1, 0>>
  ELSE <<current, goodSamples + 1>>

Sample(health) ==
  /\ samples < MaxSamples /\ samples' = samples + 1
  /\ current' = Ingested(health)[1]
  /\ goodSamples' = Ingested(health)[2]
  /\ recent' = IF current' # current THEN <<>> ELSE Append(recent, health)
  /\ UNCHANGED <<fixed, adaptive, route, host, choices>>

\* Mutant: of two requests under way only the first stays.
SendRequest_Once(index, base) ==
  CASE route = "none" -> astray' = astray \cup {"unsent"} /\ UNCHANGED requests
    [] route = "data" -> astray' = {"unread"} /\ UNCHANGED requests
    [] route = "signaling" ->
         /\ requests' = IF requests = <<>> THEN <<Request(index, base)>> ELSE requests
         /\ astray' = {}

\* send() throws when neither way is open.
SendRequest(index, base) ==
  CASE route = "none" -> astray' = astray \cup {"unsent"} /\ UNCHANGED requests
    [] route = "data" -> astray' = {"unread"} /\ UNCHANGED requests
    [] route = "signaling" -> requests' = Append(requests, Request(index, base)) /\ astray' = {}

\* The telemetry of this page: the profile follows, the host is not asked.
LocalSample(health) ==
  /\ Sample(health)
  /\ shown' = current'
  /\ astray' = IF current' # current THEN astray \cup {"local"} ELSE astray
  /\ UNCHANGED requests

\* telemetry.health from the host or from a page event.
RemoteSample(health) ==
  /\ Sample(health)
  /\ IF current' # current THEN SendRequest(current', fixed)
     ELSE UNCHANGED <<requests, astray>>
  /\ shown' \in {shown, current'}    \* only the page event shows it

\* The user's choice: the manager takes it before send() can throw.
Choose(index) ==
  /\ choices < MaxManual /\ choices' = choices + 1
  /\ current' = index /\ fixed' = index /\ goodSamples' = 0 /\ recent' = <<>>
  /\ SendRequest(index, index)
  /\ shown' = IF route = "none" THEN shown ELSE index
  /\ UNCHANGED <<adaptive, route, host, samples>>

\* The data channel opens or closes, signaling goes down or comes back.  What was under way is
\* lost with signaling.
RouteChanges(to) ==
  /\ to # route /\ route' = to
  /\ requests' = IF to = "none" THEN <<>> ELSE requests
  /\ astray' = IF to = "none" /\ requests # <<>> THEN astray \cup {"lost"} ELSE astray
  /\ UNCHANGED <<current, fixed, goodSamples, adaptive, shown, host, recent, samples,
                 choices>>

\* The host records the request it receives; the agent's own session encodes nothing by it.
HostTakes ==
  /\ requests # <<>> /\ requests' = Tail(requests) /\ host' = Head(requests)
  /\ UNCHANGED <<current, fixed, goodSamples, adaptive, shown, route, astray, recent,
                 samples, choices>>

QualityNext ==
  \/ \E health \in Health : LocalSample(health) \/ RemoteSample(health)
  \/ \E index \in 1..Profiles : Choose(index)
  \/ \E to \in {"none", "signaling", "data"} : RouteChanges(to)
  \/ HostTakes

QualitySpec == QualityInit /\ [][QualityNext]_qualityVars
-----------------------------------------------------------------------------
Fixes(r) == (~adaptive[1] => r.bitrate = fixed) /\ (~adaptive[2] => r.size = fixed)

\* Once nothing is under way, the last request that the host has recorded is what the player's
\* profile asks for, unless the player has sent none yet, or the last change came from the
\* page's own telemetry, could not be sent, was lost with signaling or went into the data
\* channel, which no host reads; and the host is never asked for another value of a dimension
\* that is not adaptive than the user chose last, whatever the network does.
HostInStep ==
  /\ requests = <<>> /\ astray = {} => host = Request(current, fixed)
  /\ requests # <<>> /\ astray = {} => Last(requests) = Request(current, fixed)
  /\ choices = 0 => \A r \in Range(requests) \cup ({host} \ {Unasked}) : Fixes(r)

\* The controller does not swing: the profile gets better by one step and only when
\* UpgradeAfter samples on end, all since it last changed, gave no reason against it, and
\* worse by one step at a time.
QualityIsSteady ==
  [][current' # current /\ choices' = choices =>
       \/ /\ current' = current - 1
          /\ Len(recent) >= UpgradeAfter - 1
          /\ \A i \in (Len(recent) - UpgradeAfter + 2)..Len(recent) :
               recent[i] = "good" \/ (recent[i] = "poor" /\ current = Profiles)
       \/ current' = current + 1]_qualityVars
=============================================================================
