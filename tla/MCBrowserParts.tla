---------------------------- MODULE MCBrowserParts ----------------------------
(***************************************************************************)
(* What pages do for their user with displays, files and adapters; the     *)
(* parts share no state and one of them is in each behaviour: a page that  *)
(* hosts with its display, the recordings of a page that plays, the launch *)
(* plan of the emulation page, the adapters of its session and of the      *)
(* manager, and what the desktop keeps of the services it shows.           *)
(***************************************************************************)
EXTENDS BrowserHost, Capture, EmulationPlan, AdapterPages, ProviderSessions

VARIABLE part
browserPartsVars == <<part, vars, captureVars, planVars, adapterVars, siteVars>>

\* Two runtimes of one id, one of them not approved, and one for a browser.
RuntimeRecords ==
  {[id |-> "local", kind |-> "native", platform |-> "any", trust |-> trust] :
     trust \in {"user-approved", "unverified"}}
  \cup {[id |-> "wasm", kind |-> "browser", platform |-> "browser", trust |-> "user-approved"]}

\* Releases of one adapter: an old one, three newer of which each lacks something, and two of the
\* newest, one with nothing to download and one that was withdrawn; and one of another core.
Record(version, trust, target, artifact, genuine) ==
  [status |-> "manifest", id |-> TheCore, version |-> version, trust |-> trust, offered |-> TRUE,
   platforms |-> {target}, artifact |-> artifact, genuine |-> genuine]
Old == Record(1, "signed", "universal", TRUE, TRUE)
Unsigned == Record(2, "unsigned", "linux", TRUE, TRUE)
Native == Record(2, "signed", "linux", TRUE, FALSE)
Forged == Record(2, "signed", "universal", TRUE, FALSE)
Bare == Record(3, "signed", "universal", FALSE, TRUE)
Withdrawn == [Record(3, "signed", "universal", TRUE, TRUE) EXCEPT !.offered = FALSE]
Other == [Old EXCEPT !.id = "another core"]
Manifests == {Old, Unsigned, Native, Forged, Bare, Withdrawn, Other}
Bundles == {<<>>, <<Old, Unsigned>>} \cup {<<manifest>> : manifest \in Manifests}
Feeds == {<<Unsigned, Native>>, <<Forged, Native>>, <<Old, Forged, Withdrawn>>, <<Unsigned>>,
          <<Forged, Bare>>}

BrowserPartsInit ==
  /\ part \in {"host", "recording", "launch", "adapters", "loads", "sites"}
  /\ part # "adapters" => platform = "linux"
  /\ part # "loads" => embedded = {}
  /\ HostInit /\ CaptureInit /\ PlanInit /\ PagesInit /\ SitesInit

Others(p) ==
  /\ UNCHANGED part
  /\ p # "host"      => UNCHANGED vars
  /\ p # "recording" => UNCHANGED captureVars
  /\ p # "launch"    => UNCHANGED planVars
  /\ p \notin {"adapters", "loads"} => UNCHANGED adapterVars
  /\ p # "sites"     => UNCHANGED siteVars

BrowserPartsNext ==
  \/ part = "host"      /\ BrowserNext /\ Others("host")
  \/ part = "recording" /\ CaptureNext /\ Others("recording")
  \/ part = "launch"    /\ PlanNext    /\ Others("launch")
  \/ part = "adapters"  /\ ManagerNext /\ Others("adapters")
  \/ part = "loads"     /\ LoaderNext  /\ Others("loads")
  \/ part = "sites"     /\ SitesNext   /\ Others("sites")

BrowserPartsSpec == BrowserPartsInit /\ [][BrowserPartsNext]_browserPartsVars

\* What is captured, launched and loaded is what was asked for: the host shares what its user
\* shares at this instant, the player keeps the present stream and each recording whole and apart,
\* a plan holds what was picked, adapters are verified, and a site is answered as its user did.
DoneAsAsked ==
  /\ CaptureObeys /\ ReplayIsOfStream /\ RecordingsAreWhole
  /\ LaunchIsAsked /\ AdaptersAreApproved /\ SitesAreKeptApart
=============================================================================
