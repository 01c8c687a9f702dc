------------------------------ MODULE Dashboard ------------------------------
(***************************************************************************)
(* Dashboards open side by side, as far as they come: the page's script    *)
(* calls renderConsoleMode(), which no file defines, and ends there with   *)
(* an error (dashboard/dashboard.mjs:1184).  The handlers it has           *)
(* registered until then stay: the games the user adds, the views of them, *)
(* the session to resume.  The listener for links of the desktop, the      *)
(* catalogue and with it every launch never come.                          *)
(* The games are in local storage (dashboard/library-state.mjs), the       *)
(* record for resuming in the session storage of each tab, written by the  *)
(* player's page.                                                          *)
(***************************************************************************)
EXTENDS Integers, Sequences, SequencesExt

CONSTANTS Window,    \* tabs
          Game,      \* what identifies a game: a platform and its id there
          Name,      \* what the user calls it
          Link,      \* what a link of the desktop names
          NoLink,
          MaxAdds,   \* bound: games added
          MaxLinks   \* bound: links

ASSUME DashboardAssumption == NoLink \notin Link

VARIABLES inApp,     \* the desktop application, with one window and links, or a browser
          restore,   \* the setting that offers to resume a session
          games,     \* the games in storage, in the order they were added
          recovery,  \* whether the tab's session storage has a session to resume
          dash,      \* the tabs
          entered,   \* every form that was saved, oldest first (for the property)
          links
dashboardVars == <<inApp, restore, games, recovery, dash, entered, links>>

GameRecord == [game : Game, name : Name]
Away == [at |-> "away", handlers |-> {}, resume |-> FALSE, cards |-> <<>>,
         queued |-> NoLink, asked |-> NoLink]

DashboardInit ==
  /\ inApp \in BOOLEAN /\ restore \in BOOLEAN
  /\ games = <<>> /\ entered = <<>> /\ links = 0
  /\ recovery = [t \in Window |-> FALSE]
  /\ dash = [t \in Window |-> Away]

Here(t) == dash[t].at = "dashboard"
-----------------------------------------------------------------------------
\* resolveStartupRoute(): where the first page of the application goes, by the setting; with a
\* launch to continue it is the dashboard again, with a filter.
StartupRoutes(resume) == {"dashboard"} \union (IF resume THEN {"player"} ELSE {})

\* What the script has registered before it throws; "link" and "catalogue" would come after.
Registered == {"cards", "resume"}

\* The page is loaded; at the start of the application it may go on to the player.
LoadPage(t) ==
  /\ dash[t].at = "away" /\ (inApp => \A u \in Window : dash[u].at = "away")
  /\ LET resume == restore /\ recovery[t]
     IN  \E at \in StartupRoutes(resume) :
           dash' = [dash EXCEPT ![t] =
             IF at = "player" THEN [Away EXCEPT !.at = at]
             ELSE [Away EXCEPT !.at = at, !.handlers = Registered, !.resume = resume]]
  /\ UNCHANGED <<inApp, restore, games, recovery, entered, links>>

Go(t, where) == [dash EXCEPT ![t] = [Away EXCEPT !.at = where]]

GoAway(t) ==
  /\ Here(t) /\ dash' = Go(t, "away")
  /\ UNCHANGED <<inApp, restore, games, recovery, entered, links>>

\* The player leaves a session that can be resumed, or none.
LeavePlayer(t) ==
  /\ dash[t].at = "player" /\ dash' = Go(t, "away")
  /\ \E left \in BOOLEAN : recovery' = [recovery EXCEPT ![t] = left]
  /\ UNCHANGED <<inApp, restore, games, entered, links>>

\* render(): every view reads the games anew, and those of the catalogue only draw none.
Draw(t) ==
  /\ Here(t) /\ "cards" \in dash[t].handlers
  /\ \E cards \in {games, <<>>} : dash' = [dash EXCEPT ![t].cards = cards]
  /\ UNCHANGED <<inApp, restore, games, recovery, entered, links>>

\* Mutant: a game that is added once more is kept once more.
Added_Again(g) == Append(games, g)

\* add() of the games: one that is there already stays as it is.
Added(g) == IF \E h \in ToSet(games) : h.game = g.game THEN games ELSE Append(games, g)

\* The form is saved.  Without a catalogue the platform is not known, and the game gets neither
\* a link nor a page of a store, so that its card's button only says so.
AddGame(t) ==
  /\ Here(t) /\ "cards" \in dash[t].handlers /\ Len(entered) < MaxAdds
  /\ \E g \in GameRecord :
       /\ games' = Added(g) /\ entered' = Append(entered, g)
       /\ \E cards \in {games', <<>>} : dash' = [dash EXCEPT ![t].cards = cards]
  /\ UNCHANGED <<inApp, restore, recovery, links>>

\* The button that resumes; that of a launch of an earlier version only says that it is gone.
Resume(t) ==
  /\ Here(t) /\ "resume" \in dash[t].handlers /\ dash[t].resume
  /\ dash' = Go(t, "player")
  /\ UNCHANGED <<inApp, restore, games, recovery, entered, links>>

\* The shell sends a link to its window; handleDeepLink() would keep it for the catalogue.
LinkArrives(t) ==
  /\ inApp /\ Here(t) /\ links < MaxLinks /\ links' = links + 1
  /\ \E e \in Link :
       dash' = [dash EXCEPT ![t].asked = e,
                            ![t].queued = IF "link" \in dash[t].handlers THEN e ELSE @]
  /\ UNCHANGED <<inApp, restore, games, recovery, entered>>

DashboardNext ==
  \E t \in Window :
    \/ LoadPage(t) \/ GoAway(t) \/ LeavePlayer(t) \/ Draw(t) \/ AddGame(t) \/ Resume(t)
    \/ LinkArrives(t)

DashboardSpec == DashboardInit /\ [][DashboardNext]_dashboardVars
-----------------------------------------------------------------------------
\* The games of all dashboards together are the first forms that were saved for each, and
\* none twice, whichever pages saved them; a card is of a game that is there, by the name it
\* has there; and a session that is offered to be resumed has its record.
GamesAreKept ==
  /\ ToSet(games) = {entered[i] : i \in {j \in DOMAIN entered :
                       \A k \in 1 .. j - 1 : entered[k].game # entered[j].game}}
  /\ \A i, j \in DOMAIN games : games[i].game = games[j].game => i = j
  /\ \A t \in Window : /\ ToSet(dash[t].cards) \subseteq ToSet(games)
                       /\ dash[t].resume => recovery[t]

\* What docs/development.md:243-247 says of a link: "the dashboard queues it until catalogs are
\* ready".  The listener is registered after the line that throws.
LinkIsQueued == \A t \in Window : dash[t].queued = dash[t].asked
=============================================================================
