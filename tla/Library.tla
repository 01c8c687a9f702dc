-------------------------------- MODULE Library --------------------------------
(***************************************************************************)
(* The library: a game's record in IndexedDB (library/db/index.mjs), the   *)
(* Map each open page of the library keeps (library/store.mjs), and the    *)
(* operations of the pages, which read the Map, write the whole record and *)
(* change the Map when the write has been acknowledged; and what the       *)
(* library (library/ui/library.js) and the page of one game                *)
(* (library/ui/game-detail.js) show of the games in their stores, while    *)
(* favourites are written to the database.  Nothing but a write makes the  *)
(* library wait.                                                           *)
(*                                                                         *)
(* Transactions on one store run in the order of their creation, whichever *)
(* page created them.  A text, a platform or a genre is the set of games   *)
(* that match it, and a game stands for its title: games are numbers in    *)
(* the order of the titles, which is the order they were added in.         *)
(***************************************************************************)
EXTENDS Integers, Sequences, FiniteSets, SequencesExt

CONSTANTS Page,          \* pages that use the library
          MaxWrites,     \* bound: writes begun
          MaxDbFailures  \* bound: requests that fail, transactions that are aborted

VARIABLES db,       \* the record, or Gone
          open,     \* pages past init()
          map,      \* [Page -> the record in state.games, or Gone]
          queue,    \* transactions: [page, value, intent]
          answers,  \* [Page -> acknowledged writes whose promise is not settled yet]
          ideal,    \* the record if every write changed only what it was meant to
          behind,   \* pages whose Map misses the write of another page
          lapses,   \* why the record may differ from ideal
          writes, dbFailures
libraryVars == <<db, open, map, queue, answers, ideal, behind, lapses, writes, dbFailures>>

Gone == [favorite |-> FALSE, metadata |-> -1]
Intent == {"favorite", "metadata", "remove"}

LibraryInit ==
  /\ db = [favorite |-> FALSE, metadata |-> 0] /\ ideal = db
  /\ open = {} /\ map = [p \in Page |-> Gone] /\ queue = <<>> /\ answers = [p \in Page |-> <<>>]
  /\ behind = {} /\ lapses = {} /\ writes = 0 /\ dbFailures = 0
-----------------------------------------------------------------------------
\* init(): the games are read once.  A write that is queued before the read is seen by it.
OpenLibrary(p) ==
  /\ p \notin open /\ queue = <<>>
  /\ open' = open \cup {p} /\ map' = [map EXCEPT ![p] = db]
  /\ behind' = behind \ {p}
  /\ UNCHANGED <<db, queue, answers, ideal, lapses, writes, dbFailures>>

\* Its Map goes with the page, its transactions are completed.
CloseLibrary(p) ==
  /\ p \in open
  /\ open' = open \ {p} /\ answers' = [answers EXCEPT ![p] = <<>>]
  /\ map' = [map EXCEPT ![p] = Gone] /\ behind' = behind \ {p}
  /\ UNCHANGED <<db, queue, ideal, lapses, writes, dbFailures>>

Busy(p) == answers[p] # <<>> \/ \E i \in DOMAIN queue : queue[i].page = p

Changed(record, intent, value) ==
  CASE intent = "favorite" -> [record EXCEPT !.favorite = value.favorite]
    [] intent = "metadata" -> [record EXCEPT !.metadata = value.metadata]
    [] intent = "remove" -> Gone

\* Mutant: the Map is changed before the write.
Write_Eager(p, intent, value) ==
  /\ writes < MaxWrites /\ writes' = writes + 1
  /\ queue' = Append(queue, [page |-> p, value |-> value, intent |-> intent])
  /\ map' = [map EXCEPT ![p] = value]
  /\ lapses' = lapses \cup (IF Busy(p) THEN {"overlap"} ELSE {})
                      \cup (IF p \in behind THEN {"pages"} ELSE {})
  /\ behind' = behind \cup (open \ {p})
  /\ UNCHANGED <<db, open, answers, ideal, dbFailures>>

\* put() or delete() of the whole record.
Write(p, intent, value) ==
  /\ writes < MaxWrites /\ writes' = writes + 1
  /\ queue' = Append(queue, [page |-> p, value |-> value, intent |-> intent])
  /\ lapses' = lapses \cup (IF Busy(p) THEN {"overlap"} ELSE {})
                      \cup (IF p \in behind THEN {"pages"} ELSE {})
  /\ behind' = behind \cup (open \ {p})
  /\ UNCHANGED <<db, open, map, answers, ideal, dbFailures>>

\* toggleFavorite() of the library and of a game's own page.
ToggleFavorite(p) ==
  /\ p \in open /\ map[p] # Gone
  /\ Write(p, "favorite", [map[p] EXCEPT !.favorite = ~@])

\* A provider answers: applyMetadata() looks at the Map again.
ApplyMetadata(p) ==
  /\ p \in open /\ map[p] # Gone
  /\ Write(p, "metadata", [map[p] EXCEPT !.metadata = 1])

RemoveGame(p) == p \in open /\ Write(p, "remove", Gone)

\* The request of the oldest transaction succeeds.
Acknowledge ==
  /\ queue # <<>> /\ queue' = Tail(queue)
  /\ LET op == Head(queue)
     IN  /\ db' = op.value
         /\ ideal' = IF ideal = Gone /\ op.intent # "remove" THEN Gone
                     ELSE Changed(ideal, op.intent, op.value)
         /\ answers' = IF op.page \in open THEN [answers EXCEPT ![op.page] = Append(@, op)]
                       ELSE answers
  /\ UNCHANGED <<open, map, behind, lapses, writes, dbFailures>>

\* The request fails, or succeeds in a transaction that is aborted afterwards: put() resolves
\* with the request and does not wait for the transaction.
WriteFails(late) ==
  /\ queue # <<>> /\ queue' = Tail(queue)
  /\ dbFailures < MaxDbFailures /\ dbFailures' = dbFailures + 1
  /\ IF late /\ Head(queue).page \in open
     THEN /\ lapses' = lapses \cup {"aborted"}
          /\ answers' = [answers EXCEPT ![Head(queue).page] = Append(@, Head(queue))]
     ELSE UNCHANGED <<lapses, answers>>
  /\ UNCHANGED <<db, open, map, ideal, behind, writes>>

\* The promise is settled.
Settle(p) ==
  /\ answers[p] # <<>> /\ answers' = [answers EXCEPT ![p] = Tail(@)]
  /\ map' = [map EXCEPT ![p] = Head(answers[p]).value]
  /\ UNCHANGED <<db, open, queue, ideal, behind, lapses, writes, dbFailures>>

LibraryNext ==
  \/ \E p \in Page : OpenLibrary(p) \/ CloseLibrary(p) \/ ToggleFavorite(p) \/ ApplyMetadata(p)
                       \/ RemoveGame(p) \/ Settle(p)
  \/ \E late \in BOOLEAN : WriteFails(late)
  \/ Acknowledge

LibrarySpec == LibraryInit /\ [][LibraryNext]_libraryVars
-----------------------------------------------------------------------------
\* A write changes what it was meant to and nothing else, and a removed game stays removed,
\* unless a page wrote while another write of its own was under way, or had not seen the write
\* of another page, or a transaction was aborted after its request had succeeded.  When the
\* writes are over, a page that has missed none of them shows what the database holds.
NoUpdateLost ==
  lapses = {} =>
    /\ queue = <<>> => db = ideal
    /\ queue = <<>> => \A p \in open \ behind : answers[p] = <<>> => map[p] = db
-----------------------------------------------------------------------------
\* What the pages show.

CONSTANTS TitleCount,   \* number of games
          PageSize,     \* PAGE_SIZE
          Matches,      \* what a search or a choice of a platform may leave
          NoGame,
          MaxToggles    \* bound: clicks on a favourite

VARIABLES shelf,      \* [Title -> [favorite, updated]], the Map of the library
          controls,   \* what is typed, chosen and sorted by
          number,     \* currentPage
          typing,     \* whether a typed text waits for its 300 ms
          grid,       \* the cards, with the page and the number of pages
          tally,      \* the count of the favourites
          detail,     \* the game whose details are open, as they show it
          writing,    \* writes of the library that are not settled: [game, favorite]
          hero,       \* the page of a game: its Map, its text, its highlight and its writes
          overlapped, \* whether writes of that page have overlapped (for the property)
          toggles
libraryPageVars == <<shelf, controls, number, typing, grid, tally, detail, writing, hero,
                     overlapped, toggles>>

Title == 1..TitleCount

ASSUME LibraryAssumption ==
  /\ TitleCount \in Nat /\ PageSize \in Nat \ {0}
  /\ \A match \in Matches : match \subseteq Title
  /\ NoGame \notin Title

All == [search |-> Title, platform |-> Title, sort |-> "title"]

\* listGames()
Listed(games, view) ==
  LET Before(a, b) ==
        IF view.sort = "updated" /\ games[a].updated # games[b].updated
        THEN games[a].updated > games[b].updated ELSE a < b
      shown == view.search \cap view.platform
  IN  CHOOSE list \in [1..Cardinality(shown) -> shown] :
        \A i, j \in 1..Cardinality(shown) : i < j => Before(list[i], list[j])

\* renderGames(): the cards of the page, the page and the number of pages.
Empty == [cards |-> <<>>, page |-> 0, pages |-> 0]
Rendered(games, view, page) ==
  LET listed == Listed(games, view)
      first == (page - 1) * PageSize + 1
      last == IF page * PageSize < Len(listed) THEN page * PageSize ELSE Len(listed)
      cards == [i \in 1..(last - first + 1) |->
                  [game |-> listed[first + i - 1], favorite |-> games[listed[first + i - 1]].favorite]]
  IN  IF first > last THEN Empty
      ELSE [cards |-> cards, page |-> page,
            pages |-> (Len(listed) + PageSize - 1) \div PageSize]

\* refreshCounts()
Favorites(games) == Cardinality({g \in Title : games[g].favorite})

\* openDetail()
Details(games, game) == [game |-> game, favorite |-> games[game].favorite]
NoDetails == [game |-> NoGame, favorite |-> FALSE]

LibraryPagesInit ==
  /\ shelf = [g \in Title |-> [favorite |-> FALSE, updated |-> 0]]
  /\ controls = All /\ number = 1 /\ typing = FALSE
  /\ grid = Rendered(shelf, All, 1) /\ tally = 0 /\ detail = NoDetails /\ writing = <<>>
  /\ hero = [stored |-> FALSE, text |-> FALSE, lit |-> FALSE, writing |-> <<>>]
  /\ overlapped = FALSE /\ toggles = 0
-----------------------------------------------------------------------------
Show(view, page) ==
  /\ controls' = view /\ number' = page /\ grid' = Rendered(shelf, view, page)
  /\ UNCHANGED <<shelf, tally, detail, writing, hero, overlapped, toggles>>

\* The text is read by whatever renders next, its own rendering comes later.
TypeTitle ==
  /\ \E text \in (Matches \cup {Title}) \ {controls.search} :
       controls' = [controls EXCEPT !.search = text]
  /\ typing' = TRUE
  /\ UNCHANGED <<shelf, number, grid, tally, detail, writing, hero, overlapped, toggles>>

\* Mutant: the page stays.
Debounced_Stays == typing /\ typing' = FALSE /\ Show(controls, number)

\* debounce()
Debounced == typing /\ typing' = FALSE /\ Show(controls, 1)

\* A platform, a genre or an order is chosen, or a collection, which renderGames() passes on in
\* vain: no list depends on it.
ChooseFilter ==
  /\ UNCHANGED typing
  /\ \/ \E platform \in Matches \cup {Title} : Show([controls EXCEPT !.platform = platform], 1)
     \/ \E sort \in {"title", "updated"} : Show([controls EXCEPT !.sort = sort], 1)

\* setView()
SetView == UNCHANGED typing /\ Show(controls, number)

\* The buttons of the pages are those of the last rendering, or hidden.
PreviousPage ==
  /\ grid # Empty /\ grid.page > 1 /\ UNCHANGED typing
  /\ IF number > 1 THEN Show(controls, number - 1) ELSE UNCHANGED libraryPageVars

NextPage ==
  /\ grid # Empty /\ grid.page < grid.pages /\ UNCHANGED typing
  /\ Show(controls, number + 1)
-----------------------------------------------------------------------------
Unmoved == UNCHANGED <<controls, number, typing, hero, overlapped>>

OpenGame ==
  /\ \E card \in Range(grid.cards) : detail' = Details(shelf, card.game)
  /\ Unmoved /\ UNCHANGED <<shelf, grid, tally, writing, toggles>>

CloseGame ==
  /\ detail # NoDetails /\ detail' = NoDetails
  /\ Unmoved /\ UNCHANGED <<shelf, grid, tally, writing, toggles>>

\* toggleFavorite(), from a card or from the details, until the write
ToggleGame ==
  /\ toggles < MaxToggles /\ toggles' = toggles + 1
  /\ \E g \in ({detail.game} \ {NoGame}) \cup {card.game : card \in Range(grid.cards)} :
       writing' = Append(writing, [game |-> g, favorite |-> ~shelf[g].favorite, at |-> toggles'])
  /\ Unmoved /\ UNCHANGED <<shelf, grid, tally, detail>>

\* Mutant: the details stay as they were opened.
Written_GridOnly(w) ==
  /\ shelf' = [shelf EXCEPT ![w.game] = [favorite |-> w.favorite, updated |-> w.at]]
  /\ tally' = Favorites(shelf') /\ grid' = Rendered(shelf', controls, number)
  /\ UNCHANGED detail

\* updateGame(), with the time of the click, and what toggleFavorite() does when it is there.
Written(w) ==
  /\ shelf' = [shelf EXCEPT ![w.game] = [favorite |-> w.favorite, updated |-> w.at]]
  /\ tally' = Favorites(shelf') /\ grid' = Rendered(shelf', controls, number)
  /\ detail' = IF detail.game = w.game THEN Details(shelf', w.game) ELSE detail

\* The oldest write is acknowledged.
GameWritten ==
  /\ writing # <<>> /\ writing' = Tail(writing) /\ Written(Head(writing))
  /\ Unmoved /\ UNCHANGED toggles

\* It is not: nothing is shown again.
GameNotWritten ==
  /\ writing # <<>> /\ writing' = Tail(writing)
  /\ Unmoved /\ UNCHANGED <<shelf, grid, tally, detail, toggles>>
-----------------------------------------------------------------------------
\* toggleFavorite() of the page of a game, until the write
ToggleHero ==
  /\ toggles < MaxToggles /\ toggles' = toggles + 1
  /\ hero' = [hero EXCEPT !.writing = Append(@, ~hero.stored)]
  /\ overlapped' = (overlapped \/ hero.writing # <<>>)
  /\ UNCHANGED <<shelf, controls, number, typing, grid, tally, detail, writing>>

\* Mutant: the text is that of the favourite before.
HeroShown_Before(favorite) == [hero EXCEPT !.stored = favorite, !.lit = ~@]

\* The text is what was written; the highlight is turned over.
HeroShown(favorite) == [hero EXCEPT !.stored = favorite, !.text = favorite, !.lit = ~@]

HeroWritten ==
  /\ hero.writing # <<>>
  /\ hero' = [HeroShown(Head(hero.writing)) EXCEPT !.writing = Tail(@)]
  /\ UNCHANGED <<shelf, controls, number, typing, grid, tally, detail, writing, overlapped, toggles>>

HeroNotWritten ==
  /\ hero.writing # <<>> /\ hero' = [hero EXCEPT !.writing = Tail(@)]
  /\ UNCHANGED <<shelf, controls, number, typing, grid, tally, detail, writing, overlapped, toggles>>

LibraryPagesNext ==
  \/ TypeTitle \/ Debounced \/ ChooseFilter \/ SetView \/ PreviousPage \/ NextPage
  \/ OpenGame \/ CloseGame \/ ToggleGame \/ GameWritten \/ GameNotWritten
  \/ ToggleHero \/ HeroWritten \/ HeroNotWritten

LibraryPagesSpec == LibraryPagesInit /\ [][LibraryPagesNext]_libraryPageVars
-----------------------------------------------------------------------------
\* But for a text whose time is not over, the library shows the page of what matches, in order
\* and with the favourites as they are stored, whatever was written meanwhile; and it says that
\* there is no game only if none matches.
GridIsCurrent ==
  /\ \A card \in Range(grid.cards) : card.favorite = shelf[card.game].favorite
  /\ tally = Favorites(shelf)
  /\ ~typing => /\ grid = Rendered(shelf, controls, number)
                /\ grid = Empty => controls.search \cap controls.platform = {}

\* Details that stay open show the favourite as it is stored, and so does the page of a game,
\* but for the highlight after writes that overlap.
DetailsAreCurrent ==
  /\ detail # NoDetails => detail = Details(shelf, detail.game)
  /\ hero.text = hero.stored
  /\ overlapped \/ hero.lit = hero.stored

LibraryIsShown == GridIsCurrent /\ DetailsAreCurrent
=============================================================================
