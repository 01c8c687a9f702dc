------------------------------ MODULE AdapterPages ------------------------------
(***************************************************************************)
(* Adapters as the pages handle them: the manager (adapters/manager-page,  *)
(* manager, manifest-registry, install), which offers the release of an    *)
(* emulator and writes the request the host's updater carries out, and the *)
(* emulation page's loading of a signed adapter into the session           *)
(* (browser-adapter-loader, browser-adapters).                             *)
(*                                                                         *)
(* A manifest is [id, version, trust, platforms, offered, artifact,        *)
(* genuine]: `offered' is a status that allows a launch, `genuine' that    *)
(* its signature, by a trusted signer, and its bytes verify.  One core is  *)
(* looked at, and every manifest is of an emulator.                        *)
(***************************************************************************)
EXTENDS Integers, Sequences, SequencesExt

CONSTANTS Manifest, Bundle, Feed, \* manifests; the bundles and feeds made of them, in sequences
          Platform,
          TheCore,                \* the core whose adapter is managed
          MaxLoads                \* bound: loads at a time

ASSUME AdaptersAssumption ==
  /\ \A manifest \in Manifest : manifest.version \in Nat
  /\ Bundle \subseteq Seq(Manifest) /\ Feed \subseteq Seq(Manifest)

VARIABLES records,  \* the bundle that was imported
          feed,     \* the release feed, once the page has loaded it with the cores
          platform, \* the platform chosen
          unsigned, \* unsigned adapters are allowed
          release,  \* what the row of the core offers
          asked,    \* the last request that was written
          pending,  \* the manifest chosen for the session
          enabled,  \* the button that loads it
          checking, \* the manifests whose loads are under way
          active,   \* the adapters of the session
          embedded  \* the ids of those that whoever embeds the page put into it (for the properties)
adapterVars == <<records, feed, platform, unsigned, release, asked, pending, enabled, checking,
                 active, embedded>>
managerOnly == <<pending, enabled, checking, active, embedded>>
loaderOnly == <<records, feed, platform, unsigned, release, asked, embedded>>

NoOffer == [status |-> "none"]
Offered(status, from, manifest, readiness) ==
  [status |-> status, from |-> from, manifest |-> manifest, readiness |-> readiness]

Fits(manifest, target) == target \in manifest.platforms \/ "universal" \in manifest.platforms
\* evaluateAdapterManifest().
Evaluate(manifest, target, allowed) ==
  IF ~Fits(manifest, target) \/ ~manifest.offered THEN "unavailable"
  ELSE IF manifest.trust = "signed" THEN "ready"
  ELSE IF manifest.trust = "unsigned" /\ allowed THEN "ready-unsigned" ELSE "blocked"

\* Where a list has manifests of the core, and the first of them.
Of(list) == {i \in DOMAIN list : list[i].id = TheCore}
First(list) == list[CHOOSE i \in Of(list) : \A j \in Of(list) : i <= j]

\* compareVersions(): the newest of the feed first, and those of one version as they come.
\* Mutant: the candidates are not sorted.
Newest_First(places) == CHOOSE i \in places : \A j \in places : i <= j
Newest(places) ==
  CHOOSE i \in places : \A j \in places :
    \/ feed'[j].version < feed'[i].version
    \/ feed'[j].version = feed'[i].version /\ i <= j

\* createAdapterUpdatePlan(): the newest candidate that is newer, fits and may be used.
Usable(manifest) == Evaluate(manifest, platform', unsigned') \in {"ready", "ready-unsigned"}
UpdatePlan(current) ==
  LET newer == {i \in Of(feed') : feed'[i].version > current.version /\ Usable(feed'[i])}
      selected == feed'[Newest(newer)]
  IN IF newer = {} THEN NoOffer
     ELSE Offered("update-available", current.version, selected,
                  Evaluate(selected, platform', unsigned'))

\* createAdapterManagerModel(): two records of one id make it throw; without an installed adapter
\* the first of the feed is offered, as if it were signed.
Duplicates(bundle) == \E i, j \in DOMAIN bundle : i # j /\ bundle[i].id = bundle[j].id
Row ==
  IF Of(feed') = {} THEN NoOffer
  ELSE IF Of(records') = {} THEN Offered("install-available", 0, First(feed'), "ready")
  ELSE UpdatePlan(First(records'))
\* rebuild(): if the model throws, the rows stay as they were.
Rebuild == release' = IF Duplicates(records') THEN release ELSE Row

\* discoverBrowserEmulatorAdapters(): adapters that are in the page already are registered as they
\* are, without a manifest.  Two of one id, and the page does not start.
Embedded(id) == [id |-> id, trust |-> "embedded"]

PagesInit ==
  /\ records = <<>> /\ feed = <<>> /\ platform \in Platform /\ unsigned = FALSE
  /\ release = NoOffer /\ asked = NoOffer
  /\ pending = NoOffer /\ enabled = FALSE /\ checking = <<>>
  /\ embedded \in SUBSET {manifest.id : manifest \in Manifest}
  /\ active = {Embedded(id) : id \in embedded}

-----------------------------------------------------------------------------
\* load(): the cores have come, so there are rows, and with them what was injected into the page:
\* a bundle, unless there is none, and the feed; the settings say of unsigned ones.  Where the
\* cores never come there is nothing to offer.
LoadManager(bundle, releases, allowed) ==
  /\ feed = <<>>
  /\ records' \in {records, bundle} /\ feed' = releases /\ unsigned' = allowed
  /\ UNCHANGED <<platform, asked, managerOnly>>
  /\ Rebuild
\* The manager's fields.  A bundle that is rejected is kept nevertheless.
Import(bundle) ==
  /\ records' = bundle /\ UNCHANGED <<feed, platform, unsigned, asked, managerOnly>>
  /\ Rebuild
Choose(target) ==
  /\ platform' = target /\ UNCHANGED <<records, feed, unsigned, asked, managerOnly>>
  /\ Rebuild
Allow ==
  /\ unsigned' = ~unsigned /\ UNCHANGED <<records, feed, platform, asked, managerOnly>>
  /\ Rebuild

\* createAdapterReleaseInstallRequest(), after the user's consent.  The request is for the platform
\* chosen now, the row may be of an earlier one.
\* Mutant: the platform is not compared again.
Installable_AnyPlatform(offer) ==
  offer.readiness = "ready" /\ offer.manifest.trust = "signed" /\ offer.manifest.artifact
\* Mutant: the readiness of the plan stands for the manifest's trust.
Installable_Ready(offer) ==
  offer.readiness = "ready" /\ Fits(offer.manifest, platform) /\ offer.manifest.artifact
Installable(offer) ==
  /\ offer.readiness = "ready" /\ offer.manifest.trust = "signed"
  /\ Fits(offer.manifest, platform) /\ offer.manifest.artifact
AskInstall ==
  /\ release # NoOffer /\ Installable(release)
  /\ asked' = [status |-> "asked", manifest |-> release.manifest, platform |-> platform,
               from |-> IF release.status = "install-available" THEN release.manifest.version
                        ELSE release.from]
  /\ UNCHANGED <<records, feed, platform, unsigned, release, managerOnly>>

-----------------------------------------------------------------------------
ChooseManifest(manifest) ==
  /\ pending' = manifest /\ enabled' = TRUE
  /\ UNCHANGED <<checking, active, loaderOnly>>
NotAManifest == pending' = NoOffer /\ enabled' = FALSE /\ UNCHANGED <<checking, active, loaderOnly>>

\* The click is the consent.  The button is off while a manifest is checked, until another one is
\* chosen.
Load ==
  /\ enabled /\ pending # NoOffer /\ Len(checking) < MaxLoads
  /\ enabled' = FALSE /\ checking' = Append(checking, pending)
  /\ UNCHANGED <<pending, active, loaderOnly>>

\* loadVerifiedBrowserEmulatorAdapter() and register(): a browser adapter that may be used, with a
\* trusted key and bytes that verify, whose id is not taken.
\* Mutant: what has been checked is not what is run.
Genuine_Signed(manifest) == Evaluate(manifest, "browser", FALSE) = "ready"
Genuine(manifest) == Evaluate(manifest, "browser", FALSE) = "ready" /\ manifest.genuine
\* Mutant: what is embedded is replaced.
Taken_Loaded(manifest) == \E other \in active : other.id = manifest.id /\ other.trust = "signed"
Taken(manifest) == \E other \in active : other.id = manifest.id
Verified(i) ==
  /\ Genuine(checking[i]) /\ ~Taken(checking[i])
  /\ checking' = RemoveAt(checking, i) /\ active' = active \cup {checking[i]}
  /\ pending' = NoOffer /\ enabled' = FALSE
  /\ UNCHANGED loaderOnly
\* A check or the download fails.
Refused(i) ==
  /\ checking' = RemoveAt(checking, i) /\ enabled' = (pending # NoOffer)
  /\ UNCHANGED <<pending, active, loaderOnly>>

ManagerNext ==
  \/ \E bundle \in Bundle, releases \in Feed, allowed \in BOOLEAN :
       LoadManager(bundle, releases, allowed)
  \/ \E bundle \in Bundle : Import(bundle)
  \/ \E target \in Platform : Choose(target)
  \/ Allow \/ AskInstall

LoaderNext ==
  \/ \E manifest \in Manifest : ChooseManifest(manifest)
  \/ NotAManifest \/ Load
  \/ \E i \in DOMAIN checking : Verified(i) \/ Refused(i)

\* The two pages share no state.
PagesNext == ManagerNext \/ LoaderNext

PagesSpec == PagesInit /\ [][PagesNext]_adapterVars

-----------------------------------------------------------------------------
\* A request that was written can be carried out: a signed release with an artifact for the
\* platform it names, never a step back, and for an update no newer release of the feed that could
\* be used is passed over.  Rows that outlive a rejected bundle do not change that.
RequestIsInstallable ==
  asked # NoOffer =>
    /\ asked.manifest.trust = "signed" /\ asked.manifest.artifact
    /\ Fits(asked.manifest, asked.platform)
    /\ asked.manifest.version >= asked.from
    /\ asked.manifest.version > asked.from =>
         \A i \in Of(feed) :
           feed[i].trust = "signed" /\ feed[i].offered /\ "universal" \in feed[i].platforms
             => feed[i].version <= asked.manifest.version

\* Whatever came into the session was signed by a trusted signer and verified, one adapter per id:
\* what was embedded in the page is trusted as it is, and nothing that is loaded takes its place.
\* A manifest that waits can be loaded unless one is being checked.
SessionIsVerified ==
  /\ \A id \in embedded : Embedded(id) \in active
  /\ \A manifest \in active \ {Embedded(id) : id \in embedded} :
       manifest.trust = "signed" /\ manifest.genuine
  /\ \A manifest, other \in active : manifest.id = other.id => manifest = other
  /\ pending # NoOffer /\ checking = <<>> => enabled

AdaptersAreApproved == RequestIsInstallable /\ SessionIsVerified
=============================================================================
