----------------------------- MODULE Workspaces -----------------------------
(***************************************************************************)
(* The workspaces of a profile and the favourites kept in each of them     *)
(* (workspaces/workspaces.mjs, workspaces/workspaces-page.mjs,             *)
(* dashboard/library-state.mjs, dashboard/dashboard.mjs).  The workspaces  *)
(* page and the dashboard read the list when they are loaded and write     *)
(* their own copy of it from then on; favourites are read again for every  *)
(* change.  The dashboard never has a catalogue (dashboard.mjs:1184        *)
(* throws), so that its cards are of the user's own games, whose ids no    *)
(* list of favourites takes: the favourites are those of earlier versions. *)
(* A name is abstracted to one word, so that a second workspace of that    *)
(* name gets a number.                                                     *)
(***************************************************************************)
EXTENDS Integers, Sequences, SequencesExt

CONSTANTS Page,        \* pages of the profile, each the dashboard or the workspaces page
          Backend,     \* entries of the catalogue
          MaxEdits     \* bound: changes to the workspaces

VARIABLES stored,      \* the record of the workspaces in storage, NoRecord before the first change
          favs,        \* favourites in storage, by workspace
          legacy,      \* favourites of the version that knew no workspaces
          pages,       \* the open pages
          edits
workspaceVars == <<stored, favs, legacy, pages, edits>>

Id == {"gaming", "family", "family-2", "family-3"}
NoRecord == [list |-> <<>>, active |-> "gaming"]
FirstList == [list |-> <<"gaming", "family">>, active |-> "gaming"]
Closed == [kind |-> "closed", mine |-> FirstList, shown |-> "gaming", favorites |-> {}]

WorkspacesInit ==
  /\ stored = NoRecord /\ legacy \in SUBSET Backend
  /\ favs \in {<<>>} \union [{"family"} -> SUBSET Backend]
  /\ pages = [p \in Page |-> Closed]
  /\ edits = 0

Dashboard(p) == pages[p].kind = "dashboard"
Manager(p) == pages[p].kind = "workspaces"
Ids(record) == ToSet(record.list)
-----------------------------------------------------------------------------
\* Mutant: every workspace takes them over.
TakesOver_Any(w) == w \notin DOMAIN favs /\ legacy # {}

\* read() of the favourites: the first reading in `gaming' takes over those of the old version.
TakesOver(w) == w = "gaming" /\ w \notin DOMAIN favs /\ legacy # {}
Kept(w, entries) == [v \in DOMAIN favs \union {w} |-> IF v = w THEN entries ELSE favs[v]]
Settled(w) == IF TakesOver(w) THEN Kept(w, legacy) ELSE favs
FavoritesOf(w) == LET now == Settled(w) IN IF w \in DOMAIN now THEN now[w] ELSE {}

\* createWorkspaceStore(), and what the dashboard makes of it.
OpenPage(p) ==
  /\ pages[p].kind = "closed"
  /\ LET record == IF stored.list = <<>> THEN FirstList ELSE stored
         w      == record.active
     IN  \/ /\ pages' = [pages EXCEPT ![p] = [@ EXCEPT !.kind = "workspaces", !.mine = record]]
            /\ UNCHANGED favs
         \/ /\ pages' = [pages EXCEPT ![p] = [kind |-> "dashboard", mine |-> record, shown |-> w,
                                              favorites |-> FavoritesOf(w)]]
            /\ favs' = Settled(w)
  /\ UNCHANGED <<stored, legacy, edits>>

LeavePage(p) ==
  /\ pages[p].kind # "closed"
  /\ pages' = [pages EXCEPT ![p] = Closed]
  /\ UNCHANGED <<stored, favs, legacy, edits>>

\* persist(): the page's own list is the stored one.
Persist(p, record) ==
  /\ edits < MaxEdits /\ edits' = edits + 1
  /\ stored' = record
  /\ UNCHANGED legacy

\* setActive() from the workspaces page.
UseWorkspace(p) ==
  /\ Manager(p)
  /\ \E w \in Ids(pages[p].mine) :
       LET record == [pages[p].mine EXCEPT !.active = w]
       IN  Persist(p, record) /\ pages' = [pages EXCEPT ![p].mine = record]
  /\ UNCHANGED favs

\* Mutant: the first number is not looked up.
UniqueId_Second(list) == IF ~Contains(list, "family") THEN "family" ELSE "family-2"

\* uniqueId()
UniqueId(list) ==
  IF ~Contains(list, "family") THEN "family"
  ELSE IF ~Contains(list, "family-2") THEN "family-2" ELSE "family-3"

CreateWorkspace(p) ==
  /\ Manager(p) /\ ~Contains(pages[p].mine.list, "family-3")
  /\ LET w      == UniqueId(pages[p].mine.list)
         record == [list |-> Append(pages[p].mine.list, w), active |-> w]
     IN  Persist(p, record) /\ pages' = [pages EXCEPT ![p].mine = record]
  /\ UNCHANGED favs

\* The list without w, which is in it once.
Dropped(list, w) == RemoveAt(list, CHOOSE i \in DOMAIN list : list[i] = w)

\* Mutant: the workspace in use may be the one that is gone.
Without_KeepsActive(record, w) == [record EXCEPT !.list = Dropped(@, w)]

\* remove(): the first one that is left is in use when the one in use goes.
Without(record, w) ==
  LET rest == Dropped(record.list, w)
  IN  [list |-> rest, active |-> IF record.active = w THEN rest[1] ELSE record.active]

\* The card of a pinned workspace has no such button.
RemoveWorkspace(p) ==
  /\ Manager(p) /\ Len(pages[p].mine.list) > 1
  /\ \E w \in Ids(pages[p].mine) \ {"gaming"} :
       LET record == Without(pages[p].mine, w)
       IN  Persist(p, record) /\ pages' = [pages EXCEPT ![p].mine = record]
  /\ UNCHANGED favs

\* The export of another profile: distinct workspaces, pinned ones or not, and one in use, which
\* is the first when the file names one it does not hold.
ImportWorkspaces(p) ==
  /\ Manager(p)
  /\ \E ids \in SUBSET {"gaming", "family", "family-2"} \ {{}} : \E w \in ids :
       LET record == [list |-> SetToSeq(ids), active |-> w]
       IN  Persist(p, record) /\ pages' = [pages EXCEPT ![p].mine = record]
  /\ UNCHANGED favs

\* A controller profile for a workspace: the rest of the list is written with it.
AssignController(p) ==
  /\ Manager(p) /\ Persist(p, pages[p].mine) /\ UNCHANGED <<pages, favs>>

\* Mutant: the favourites are still those of the workspace before.
Picked_OldFavorites(p, w) ==
  [pages[p] EXCEPT !.mine.active = w]

\* The dashboard after its picker was changed.
Picked(p, w) ==
  [pages[p] EXCEPT !.mine.active = w, !.shown = w, !.favorites = FavoritesOf(w)]

Pick(p) ==
  /\ Dashboard(p)
  /\ \E w \in Ids(pages[p].mine) :
       /\ Persist(p, [pages[p].mine EXCEPT !.active = w])
       /\ pages' = [pages EXCEPT ![p] = Picked(p, w)]
       /\ favs' = Settled(w)

\* The star on the card of an own game: toggle() reads the favourites and writes them without
\* the game, as normalizeIds() takes no id with a colon.
Toggle(p) ==
  /\ Dashboard(p)
  /\ LET next == FavoritesOf(pages[p].shown)
     IN  /\ favs' = Kept(pages[p].shown, next)
         /\ pages' = [pages EXCEPT ![p].favorites = next]
  /\ UNCHANGED <<stored, legacy, edits>>

WorkspacesNext ==
  \E p \in Page :
    \/ OpenPage(p) \/ LeavePage(p) \/ UseWorkspace(p) \/ CreateWorkspace(p) \/ RemoveWorkspace(p) \/ ImportWorkspaces(p)
    \/ AssignController(p) \/ Pick(p) \/ Toggle(p)

WorkspacesSpec == WorkspacesInit /\ [][WorkspacesNext]_workspaceVars
-----------------------------------------------------------------------------
\* Whatever the pages write over one another, the stored workspaces are a list the next page can
\* use: none twice, and the one in use among them; and a dashboard has the favourites of the
\* workspace that its picker shows.
WorkspacesUsable ==
  /\ \A record \in {stored} \union {pages[p].mine : p \in Page} :
       record.list # <<>> =>
         IsInjective(record.list) /\ record.active \in Ids(record)
  /\ \A p \in Page : Dashboard(p) =>
       pages[p].shown = pages[p].mine.active /\ pages[p].favorites = FavoritesOf(pages[p].shown)

\* No step changes the favourites of a workspace or loses them, whichever pages are open, but
\* that those of the version without workspaces become those of `gaming', once and whole.
FavoritesStayScoped ==
  [][\A w \in DOMAIN favs \union DOMAIN favs' :
       /\ w \in DOMAIN favs'
       /\ favs'[w] = IF w \in DOMAIN favs THEN favs[w]
                     ELSE IF w = "gaming" THEN legacy ELSE {}]_workspaceVars
=============================================================================
