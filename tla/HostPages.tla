------------------------------- MODULE HostPages -------------------------------
(***************************************************************************)
(* The page of hosts (host/host-page.mjs), open in several tabs over the   *)
(* profiles in storage (host/host.mjs): a profile is edited, its host is   *)
(* asked how ready it is (host/readiness.mjs), a one-time code is made     *)
(* into a request to pair, and a display is captured as a preview.  The    *)
(* editor shows one profile and is rendered as a whole; what was awaited   *)
(* for an earlier rendering comes later.                                   *)
(*                                                                         *)
(* A profile is its id and its endpoint.  What the player does with the    *)
(* request is in PageHandoff, a page that really hosts in BrowserHost.     *)
(***************************************************************************)
EXTENDS Integers, Sequences, FiniteSets, SequencesExt

CONSTANTS HostTab, HostId,
          Endpoint,      \* endpoints that are accepted
          Lacks,         \* what a host may lack, see Blocking
          Stored,        \* the lists of profiles that may be in storage at first
          Absent,
          MaxHostClicks  \* bound: what the user does

VARIABLES saved,      \* the profiles in storage, the newest last
          desk,       \* [HostTab -> the page in it]
          handed,     \* [HostTab -> the request its session storage has for the player]
          expected,   \* [HostId -> the endpoint last saved] (for the properties)
          hostClicks
hostPageVars == <<saved, desk, handed, expected, hostClicks>>

HostProfiles == [id : HostId, endpoint : Endpoint]
Ids(list) == {host.id : host \in Range(list)}

OnceEach(list) == \A i, j \in DOMAIN list : list[i].id = list[j].id => i = j

\* What is in storage at first was written by the pages; Absent stands for no id and no profile.
ASSUME HostPagesAssumption ==
  /\ Absent \notin HostId \cup HostProfiles
  /\ \A list \in Stored : list \in Seq(HostProfiles) /\ OnceEach(list)

\* The record with this id in a list, or Absent.
InList(list, id) ==
  IF id \in Ids(list) THEN CHOOSE host \in Range(list) : host.id = id ELSE Absent
Edited(page) == InList(page.hosts, page.selected)

EndpointsOf(list) ==
  [id \in HostId |-> IF id \in Ids(list) THEN InList(list, id).endpoint ELSE Absent]

\* hosts[0]?.hostId || null
FirstId(list) == IF list = <<>> THEN Absent ELSE list[1].id

\* A page that was loaded
NewPage ==
  [hosts |-> saved, selected |-> FirstId(saved), request |-> Absent, health |-> Absent,
   checks |-> <<>>, files |-> {}, previews |-> <<>>, current |-> 0, stoppable |-> FALSE]

HostPagesInit ==
  /\ saved \in Stored
  /\ desk = [t \in HostTab |-> NewPage] /\ handed = [t \in HostTab |-> Absent]
  /\ expected = EndpointsOf(saved)
  /\ hostClicks = 0
-----------------------------------------------------------------------------
\* close() of a publisher: a capture that is still asked for is not called off.
Stopped(preview) ==
  [preview EXCEPT !.closed = TRUE, !.live = FALSE, !.stray = preview.at = "asked"]
StopCurrent(page) ==
  IF page.current = 0 THEN page
  ELSE [page EXCEPT !.previews[page.current] = Stopped(@), !.current = 0]

\* Mutant: the preview goes on behind the next profile.
EditorRendered_Keeps(page) ==
  [page EXCEPT !.request = Absent, !.health = Absent, !.stoppable = FALSE,
               !.checks = [i \in DOMAIN @ |-> [@[i] EXCEPT !.seen = FALSE]]]

\* renderEditor(): another editor, without a preview; where there is no profile to show it returns
\* before the publisher is closed.
EditorRendered(page) ==
  LET bare == [page EXCEPT !.request = Absent, !.health = Absent, !.stoppable = FALSE,
                           !.checks = [i \in DOMAIN @ |-> [@[i] EXCEPT !.seen = FALSE]]]
  IN  IF Edited(page) = Absent THEN bare ELSE StopCurrent(bare)

\* Mutant: only the list is rendered.
Selected_ListOnly(page, list, id) == [page EXCEPT !.hosts = list, !.selected = id]

\* selectHost(), and the end of whatever changes the list.
Selected(page, list, id) == EditorRendered([page EXCEPT !.hosts = list, !.selected = id])

Click == hostClicks < MaxHostClicks /\ hostClicks' = hostClicks + 1

SelectHost(t) ==
  /\ Click
  /\ \E host \in Range(desk[t].hosts) :
       desk' = [desk EXCEPT ![t] = Selected(@, @.hosts, host.id)]
  /\ UNCHANGED <<saved, handed, expected>>
-----------------------------------------------------------------------------
\* createHostProfileStore(): every operation reads the storage again.
\* No id is there twice, so that filter() leaves out one record at most.
Removed(list, id) ==
  IF id \in Ids(list) THEN RemoveAt(list, CHOOSE i \in DOMAIN list : list[i].id = id) ELSE list

\* Mutant: a profile is saved into the list that the page shows.
SavedWith_Stale(page, host) == Append(Removed(page.hosts, host.id), host)

\* save()
SavedWith(page, host) == Append(Removed(saved, host.id), host)

\* A new host has a random id.
AddHost(t) ==
  /\ Click
  /\ \E id \in HostId \ Ids(saved), endpoint \in Endpoint :
       LET host == [id |-> id, endpoint |-> endpoint]
       IN  /\ \A u \in HostTab : id \notin Ids(desk[u].hosts)
           /\ saved' = SavedWith(desk[t], host)
           /\ expected' = [expected EXCEPT ![id] = endpoint]
           /\ desk' = [desk EXCEPT ![t] = Selected(@, saved', id)]
  /\ UNCHANGED handed

\* An endpoint that is not accepted changes nothing.  A profile that gets another id replaces the
\* one that has it.
SaveProfile(t) ==
  /\ Edited(desk[t]) # Absent /\ Click
  /\ \E host \in HostProfiles :
       LET before == desk[t].selected
           list == SavedWith(desk[t], host)
       IN  /\ saved' = IF host.id = before THEN list ELSE Removed(list, before)
           /\ expected' = [id \in HostId |-> IF id = host.id THEN host.endpoint
                                             ELSE IF id = before THEN Absent ELSE expected[id]]
           /\ desk' = [desk EXCEPT ![t] = Selected(@, saved', host.id)]
  /\ UNCHANGED handed

RemoveHost(t) ==
  /\ Edited(desk[t]) # Absent /\ Click
  /\ saved' = Removed(saved, desk[t].selected)
  /\ expected' = [expected EXCEPT ![desk[t].selected] = Absent]
  /\ desk' = [desk EXCEPT ![t] = Selected(@, saved', FirstId(saved'))]
  /\ UNCHANGED handed

\* A file is an export, or something with a profile that is not accepted; it is read first.
PickFile(t) ==
  /\ Click
  /\ \E file \in [valid : BOOLEAN, list : {<<>>} \cup {<<host>> : host \in HostProfiles}] :
       desk' = [desk EXCEPT ![t].files = @ \cup {file}]
  /\ UNCHANGED <<saved, handed, expected>>

\* import(): every profile is looked at before any is written.
FileIsRead(t) ==
  /\ \E file \in desk[t].files :
       LET page == [desk[t] EXCEPT !.files = @ \ {file}]
           list == file.list
       IN  IF ~file.valid
           THEN desk' = [desk EXCEPT ![t] = page] /\ UNCHANGED <<saved, expected>>
           ELSE /\ saved' = list /\ desk' = [desk EXCEPT ![t] = Selected(page, list, FirstId(list))]
                /\ expected' = EndpointsOf(list)
  /\ UNCHANGED <<handed, hostClicks>>
-----------------------------------------------------------------------------
\* The page is loaded again, or after the player.
LoadHostPage(t) ==
  /\ Click /\ desk' = [desk EXCEPT ![t] = NewPage]
  /\ UNCHANGED <<saved, handed, expected>>

\* "Generate": createHostConnectionProfile(), for a code that is well formed.
RequestPairing(t) ==
  /\ Edited(desk[t]) # Absent /\ Click
  /\ desk' = [desk EXCEPT ![t].request = Edited(desk[t])]
  /\ UNCHANGED <<saved, handed, expected>>

\* "Connect in player": the code that is shown, for the profile that is shown.
ConnectInPlayer(t) ==
  /\ desk[t].request # Absent /\ Click
  /\ handed' = [handed EXCEPT ![t] = [entered |-> desk[t].request, host |-> Edited(desk[t])]]
  /\ desk' = [desk EXCEPT ![t] = NewPage]
  /\ UNCHANGED <<saved, expected>>

\* createHostPreflight()
Blocking(lacking) == lacking \ {"audio", "input"}

CheckHealth(t) ==
  /\ Edited(desk[t]) # Absent /\ Click
  /\ desk' = [desk EXCEPT ![t].health = Absent,
                          ![t].checks = Append(@, [host |-> Edited(desk[t]), seen |-> TRUE])]
  /\ UNCHANGED <<saved, handed, expected>>

\* Mutant: the place of the result is looked up when there is one.
HealthShown_Late(page, check, outcome) == [page EXCEPT !.health = outcome]

\* The result goes to the editor that the check was asked for in.
HealthShown(page, check, outcome) == IF check.seen THEN [page EXCEPT !.health = outcome] ELSE page

\* The host answers, or not.
HostAnswers(t) ==
  /\ \E i \in DOMAIN desk[t].checks, lacking \in Lacks \cup {Absent} :
       LET page == desk[t]
           check == page.checks[i]
           outcome == [of |-> check.host,
                       blocking |-> IF lacking = Absent THEN Absent ELSE Blocking(lacking)]
           rest == [page EXCEPT !.checks = RemoveAt(page.checks, i)]
       IN  desk' = [desk EXCEPT ![t] = HealthShown(rest, check, outcome)]
  /\ UNCHANGED <<saved, handed, expected, hostClicks>>
-----------------------------------------------------------------------------
\* "Choose display": a publisher takes the place of the last one and asks.
CaptureDisplay(t) ==
  /\ Edited(desk[t]) # Absent /\ Click
  /\ LET page == StopCurrent(desk[t])
         asked == [at |-> "asked", live |-> FALSE, closed |-> FALSE, stray |-> FALSE]
     IN  desk' = [desk EXCEPT ![t] = [page EXCEPT !.previews = Append(@, asked),
                                                  !.current = Len(page.previews) + 1]]
  /\ UNCHANGED <<saved, handed, expected>>

Step(t, page) ==
  /\ desk' = [desk EXCEPT ![t] = page] /\ UNCHANGED <<saved, handed, expected, hostClicks>>

\* Mutant: the page forgets its publisher as it is.
CaptureFails_Forgets(page) == [page EXCEPT !.current = 0]

\* The catch block closes the publisher the page has now.
CaptureFails(page) == StopCurrent(page)

\* A display is granted.  A peer that is closed takes no track, and where no profile is shown
\* there is nothing to show it in: both go to the catch block.
DisplayIsGranted(t) ==
  \E k \in DOMAIN desk[t].previews :
    LET preview == desk[t].previews[k]
        page == [desk[t] EXCEPT !.previews[k].live = TRUE]
    IN  /\ preview.at = "asked"
        /\ IF preview.closed \/ Edited(page) = Absent
           THEN Step(t, CaptureFails([page EXCEPT !.previews[k].at = "over"]))
           ELSE Step(t, [page EXCEPT !.previews[k].at = "granted"])

DisplayIsRefused(t) ==
  \E k \in DOMAIN desk[t].previews :
    /\ desk[t].previews[k].at = "asked"
    /\ Step(t, CaptureFails([desk[t] EXCEPT !.previews[k].at = "over"]))

\* play() has settled; its picture is there or not.
PreviewPlays(t) ==
  \E k \in DOMAIN desk[t].previews :
    LET page == [desk[t] EXCEPT !.previews[k].at = "over"]
    IN  /\ desk[t].previews[k].at = "granted"
        /\ Step(t, IF Edited(page) = Absent THEN CaptureFails(page)
                      ELSE [page EXCEPT !.stoppable = TRUE])

StopPreview(t) ==
  /\ Edited(desk[t]) # Absent /\ desk[t].stoppable /\ Click
  /\ desk' = [desk EXCEPT ![t] = [StopCurrent(@) EXCEPT !.stoppable = FALSE]]
  /\ UNCHANGED <<saved, handed, expected>>

HostPagesNext ==
  \E t \in HostTab :
    \/ SelectHost(t) \/ AddHost(t) \/ SaveProfile(t) \/ RemoveHost(t) \/ PickFile(t)
    \/ FileIsRead(t) \/ LoadHostPage(t) \/ RequestPairing(t) \/ ConnectInPlayer(t)
    \/ CheckHealth(t) \/ HostAnswers(t)
    \/ CaptureDisplay(t) \/ DisplayIsGranted(t) \/ DisplayIsRefused(t) \/ PreviewPlays(t)
    \/ StopPreview(t)

HostPagesSpec == HostPagesInit /\ [][HostPagesNext]_hostPageVars
-----------------------------------------------------------------------------
\* A one-time code goes to the host it was entered for, and what is said of a host's readiness
\* is said beside that host, however late its answer.
CodesGoToTheirHost ==
  \A t \in HostTab :
    LET page == desk[t]
    IN  /\ page.request # Absent => page.request = Edited(page)
        /\ handed[t] # Absent => handed[t].entered = handed[t].host
        /\ page.health # Absent => page.health.of = Edited(page)

\* The storage has each profile as it was last saved, whichever tab has saved it, and once; a tab
\* shows a profile as long as it has any.
ProfilesAreKept ==
  /\ Len(saved) = Cardinality(Ids(saved))
  /\ expected = EndpointsOf(saved)
  /\ \A t \in HostTab : desk[t].hosts # <<>> => Edited(desk[t]) # Absent

\* A display that is captured is the one that the page can stop, and the button is there.  It is
\* not where a capture was closed before it was granted, or no profile is shown.
PreviewIsHeld ==
  \A t \in HostTab : \A k \in DOMAIN desk[t].previews :
    LET preview == desk[t].previews[k]
    IN  preview.live /\ ~preview.stray =>
          /\ k = desk[t].current
          /\ preview.at = "over" /\ Edited(desk[t]) # Absent => desk[t].stoppable

HostPageIsTrue == CodesGoToTheirHost /\ ProfilesAreKept /\ PreviewIsHeld
=============================================================================
