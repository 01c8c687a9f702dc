----------------------------- MODULE MCPageParts -----------------------------
(***************************************************************************)
(* Parts of the application that share no state, one of them in each       *)
(* behaviour: the session manager, the negotiation, the exchange of the    *)
(* peers, the adaptive quality, what the pages leave for one another, the  *)
(* library's database and its pages, a browser emulator, the diagnostics   *)
(* file, the page of hosts.                                                *)
(***************************************************************************)
EXTENDS SessionManager, StreamQuality, PageHandoff, Library, BrowserEmulation,
        DiagnosticLog, PeerExchange, HostPages

VARIABLE part
pagePartsVars == <<part, managerVars, negotiationVars, qualityVars, handoffVars, libraryVars,
                   emulationVars, logVars, exchangeVars, libraryPageVars, hostPageVars>>

\* The fields that the page tells of are looked at together, and so are the others.
Plain == [transports |-> <<"webrtc">>, codecs |-> <<"av1">>, sounds |-> <<"opus">>, size |-> 1,
          slots |-> 1, hdr |-> FALSE, rumble |-> FALSE, backend |-> Automatic, mode |-> Automatic]
Looked(c) == \/ \A f \in Told : c[f] = Plain[f]
             \/ \A f \in DOMAIN Plain \ Told : c[f] = Plain[f]
Offered == {c \in Capabilities : Looked(c)}

\* The parts that are not looked at keep one of their initial states.
NoNegotiation ==
  /\ player = Plain /\ server = player /\ phase = "idle" /\ answer = NoAnswer
  /\ negotiated = <<>> /\ notices = {}
NoQuality == QualityInit /\ current = 1 /\ adaptive = <<FALSE, FALSE>>
NoHandoff == HandoffInit /\ prefs = [r \in DOMAIN prefs |-> FALSE]
NoEmulation == EmulationInit /\ ~autosave
NoExchange == ExchangeInit /\ kind = "native" /\ carrier = "socket"
NoHosts == saved = <<>> /\ HostPagesInit

\* Nothing was stored yet, or two hosts.
StoredHosts ==
  {<<>>, <<[id |-> "h1", endpoint |-> "lan"], [id |-> "h2", endpoint |-> "lan"]>>}

PagePartsInit ==
  /\ SessionInit /\ LibraryInit /\ LogInit /\ LibraryPagesInit
  /\ \/ part \in {"session", "library", "log", "shelves"} /\ NoHosts
          /\ NoNegotiation /\ NoQuality /\ NoHandoff /\ NoEmulation /\ NoExchange
     \/ part = "hosts" /\ HostPagesInit
          /\ NoNegotiation /\ NoQuality /\ NoHandoff /\ NoEmulation /\ NoExchange
     \/ part = "negotiation" /\ NoHosts
          /\ player \in Offered /\ server \in Offered
          /\ NegotiationInit /\ NoQuality /\ NoHandoff /\ NoEmulation /\ NoExchange
     \/ part = "quality" /\ NoHosts
          /\ NoNegotiation /\ QualityInit /\ NoHandoff /\ NoEmulation /\ NoExchange
     \/ part = "handoff" /\ NoHosts
          /\ NoNegotiation /\ NoQuality /\ HandoffInit /\ NoEmulation /\ NoExchange
     \/ part = "emulation" /\ NoHosts
          /\ NoNegotiation /\ NoQuality /\ NoHandoff /\ EmulationInit /\ NoExchange
     \/ part = "exchange" /\ NoHosts
          /\ NoNegotiation /\ NoQuality /\ NoHandoff /\ NoEmulation /\ ExchangeInit

Others(p) ==
  /\ UNCHANGED part
  /\ p # "session"     => UNCHANGED managerVars
  /\ p # "negotiation" => UNCHANGED negotiationVars
  /\ p # "quality"     => UNCHANGED qualityVars
  /\ p # "handoff"     => UNCHANGED handoffVars
  /\ p # "library"     => UNCHANGED libraryVars
  /\ p # "emulation"   => UNCHANGED emulationVars
  /\ p # "log"         => UNCHANGED logVars
  /\ p # "exchange"    => UNCHANGED exchangeVars
  /\ p # "shelves"     => UNCHANGED libraryPageVars
  /\ p # "hosts"       => UNCHANGED hostPageVars

PagePartsNext ==
  \/ part = "session"     /\ SessionNext     /\ Others("session")
  \/ part = "negotiation" /\ NegotiationNext /\ Others("negotiation")
  \/ part = "quality"     /\ QualityNext     /\ Others("quality")
  \/ part = "handoff"     /\ HandoffNext     /\ Others("handoff")
  \/ part = "library"     /\ LibraryNext     /\ Others("library")
  \/ part = "emulation"   /\ EmulationNext   /\ Others("emulation")
  \/ part = "log"         /\ LogNext         /\ Others("log")
  \/ part = "exchange"    /\ ExchangeNext    /\ Others("exchange")
  \/ part = "shelves"     /\ LibraryPagesNext /\ Others("shelves")
  \/ part = "hosts"       /\ HostPagesNext   /\ Others("hosts")

PagePartsSpec == PagePartsInit /\ [][PagePartsNext]_pagePartsVars

\* The player and the host go by the same capabilities and the same profile, and their peers
\* learn each other's candidates.
PlayerAndHostAgree == SameAgreement /\ HostInStep /\ CandidatesArrive

\* The application's own records keep what was written to them.
RecordsKept == NoUpdateLost /\ LogRemembers

\* What a page shows is what there is: the game that plays, the games of the library, the host
\* that a one-time code is for.
PagesShowState == PageShowsGame /\ LibraryIsShown /\ HostPageIsTrue
=============================================================================
