---------------------------- MODULE SettingsPages ----------------------------
(***************************************************************************)
(* Settings pages open side by side over one local storage                 *)
(* (settings/settings.mjs, settings/profile.mjs, profiles/storage.mjs).    *)
(* Each page keeps the whole record of the profile it was loaded in and    *)
(* writes all of it at every change.  After a save the line that says so   *)
(* is written again by the desktop's answer and by a timer, each into the  *)
(* element it found when the save was made.                                *)
(*                                                                         *)
(* A record is one plain setting, one secret and the profile's name.  The  *)
(* desktop application has one window; tabs of a browser have no desktop   *)
(* that answers and no updates, and their line is left out.                *)
(***************************************************************************)
EXTENDS Integers, Functions

CONSTANTS Tab,       \* pages
          MaxSaves   \* bound: saves of all pages together

VARIABLES desktop,   \* whether this is the desktop application
          active,    \* what ACTIVE_PROFILE_KEY says, NoProfile when absent
          records,   \* the records in storage, by profile
          tabs       \* the pages
settingsVars == <<desktop, active, records, tabs>>

Profile == {"default", "gaming", "family"}
NoProfile == "none"
Record == [look : 0..1, secret : 0..1, label : Profile]
Defaults(p) == [look |-> 0, secret |-> 0, label |-> p]

NoTab == [open |-> FALSE, profile |-> "gaming", state |-> Defaults("gaming"), saves |-> 0,
          updates |-> FALSE, update |-> FALSE, line |-> [kind |-> "all", of |-> 0],
          pending |-> {}, restart |-> 0]

\* A fresh installation, or the record of a version that knew no profiles.
SettingsInit ==
  /\ desktop \in BOOLEAN
  /\ active = NoProfile
  /\ records \in {<<>>} \union [{"default"} -> {[Defaults(p) EXCEPT !.look = 1] : p \in Profile}]
  /\ tabs = [t \in Tab |-> NoTab]
-----------------------------------------------------------------------------
\* The profile a page is loaded in, and its record: that of `gaming' is taken over from the
\* unscoped key, which is also the one of `default', while it has none of its own.
ActiveProfile ==
  IF active # NoProfile THEN active
  ELSE IF "default" \in DOMAIN records THEN records["default"].label ELSE "gaming"

\* The records with one more of them, or in place of another.
With(p, rec) == [q \in DOMAIN records \union {p} |-> IF q = p THEN rec ELSE records[q]]

Adopted(p) ==
  IF p = "gaming" /\ p \notin DOMAIN records /\ "default" \in DOMAIN records
  THEN With(p, records["default"]) ELSE records

Open(t) ==
  /\ ~tabs[t].open
  /\ desktop => \A u \in Tab : ~tabs[u].open
  /\ LET p   == ActiveProfile
         now == Adopted(p)
     IN  /\ records' = now
         /\ tabs' = [tabs EXCEPT ![t] =
              [NoTab EXCEPT !.open = TRUE, !.profile = p, !.saves = tabs[t].saves,
                            !.state = IF p \in DOMAIN now THEN [now[p] EXCEPT !.label = p]
                                      ELSE Defaults(p)]]
  /\ UNCHANGED <<desktop, active>>

\* Mutant: the record goes to the profile that is active now.
Write_Active(t, rec) ==
  /\ records' = With(IF active = NoProfile THEN tabs[t].profile ELSE active, rec)
  /\ active' = IF rec.label # tabs[t].profile THEN rec.label ELSE active
  /\ UNCHANGED desktop

\* write(): the record goes to the page's own profile; a new name in it is the profile to use.
Write(t, rec) ==
  /\ records' = With(tabs[t].profile, rec)
  /\ active' = IF rec.label # tabs[t].profile THEN rec.label ELSE active
  /\ UNCHANGED desktop

\* updateStatusOwnsSaveArea()
Owned(tab) == tab.updates /\ tab.update

\* render(): a new element takes over the text of the old one; what was to be written later
\* still goes to the old one.
Rendered(tab) ==
  IF ~desktop THEN tab ELSE
  [tab EXCEPT !.pending = {[p EXCEPT !.here = FALSE] : p \in @},
              !.line = IF Owned(tab) THEN [kind |-> "update", of |-> 0] ELSE @]

\* saveState()
SaveShown(tab) ==
  LET n == tab.saves + 1
  IN  IF ~desktop THEN [tab EXCEPT !.saves = n] ELSE
      [tab EXCEPT !.saves = n,
                  !.line = IF Owned(tab) THEN @ ELSE [kind |-> "local", of |-> n],
                  !.pending = IF Owned(tab) THEN @
                              ELSE @ \union {[of |-> n, how |-> how, here |-> TRUE] :
                                               how \in {"desktop", "timer"}}]

Editable(t) ==
  tabs[t].open /\ FoldFunction(LAMBDA tab, sum : tab.saves + sum, 0, tabs) < MaxSaves

\* A control; a slider does not render the page again.
Change(t) ==
  /\ Editable(t)
  /\ \E rec \in Record, slider \in BOOLEAN :
       /\ rec.label = tabs[t].profile /\ rec # tabs[t].state
       /\ Write(t, rec)
       /\ LET tab == [tabs[t] EXCEPT !.state = rec]
          IN  tabs' = [tabs EXCEPT ![t] = SaveShown(IF slider THEN tab ELSE Rendered(tab))]

\* The selection of a profile: the page saves and is loaded again.
SwitchProfile(t) ==
  /\ Editable(t)
  /\ \E p \in Profile \ {tabs[t].profile} :
       LET rec == [tabs[t].state EXCEPT !.label = p]
       IN  /\ Write(t, rec)
           /\ tabs' = [tabs EXCEPT ![t] = [NoTab EXCEPT !.state = rec, !.saves = tabs[t].saves + 1]]

\* Reset, and the button that clears the credentials, which renders after it saved.
Reset(t) ==
  /\ Editable(t)
  /\ LET rec == Defaults(tabs[t].profile)
     IN  /\ Write(t, rec)
         /\ tabs' = [tabs EXCEPT ![t] = SaveShown(Rendered([@ EXCEPT !.state = rec]))]

ClearCredentials(t) ==
  /\ Editable(t)
  /\ LET rec == [tabs[t].state EXCEPT !.secret = 0]
     IN  /\ Write(t, rec)
         /\ tabs' = [tabs EXCEPT ![t] = Rendered(SaveShown([@ EXCEPT !.state = rec]))]

\* Mutant: the profile's name in the file is kept.
Imported_File(t, file) == file

\* The import of a file: it has no secrets, and its profile is not looked at.
Imported(t, file) == [file EXCEPT !.label = tabs[t].profile]

Import(t) ==
  /\ Editable(t)
  /\ \E file \in {r \in Record : r.secret = 0} :
       LET rec == Imported(t, file)
       IN  /\ Write(t, rec)
           /\ tabs' = [tabs EXCEPT ![t] =
                [Rendered([tabs[t] EXCEPT !.state = rec]) EXCEPT
                   !.line = IF desktop THEN [kind |-> "imported", of |-> 0] ELSE @]]

\* Mutant: the answer to an earlier save is shown as well.
Answered_Late(tab, p, kind) ==
  IF Owned(tab) THEN tab
  ELSE [tab EXCEPT !.restart = IF kind = "failed" THEN @ ELSE p.of,
                   !.line = IF p.here THEN [kind |-> kind, of |-> p.of] ELSE @]

\* The answer of the desktop to a save: applied, or failed.
Answered(tab, p, kind) ==
  IF p.of # tab.saves \/ Owned(tab) THEN tab
  ELSE [tab EXCEPT !.restart = IF kind = "failed" THEN @ ELSE p.of,
                   !.line = IF p.here THEN [kind |-> kind, of |-> p.of] ELSE @]

\* Mutant: the timer does not look whose the line is.
TimedOut_Always(tab, p) ==
  IF ~p.here THEN tab ELSE [tab EXCEPT !.line = [kind |-> "all", of |-> 0]]

TimedOut(tab, p) ==
  IF Owned(tab) \/ ~p.here THEN tab ELSE [tab EXCEPT !.line = [kind |-> "all", of |-> 0]]

Later(t) ==
  /\ tabs[t].open
  /\ \E p \in tabs[t].pending :
       LET tab == [tabs[t] EXCEPT !.pending = @ \ {p}]
       IN  IF p.how = "timer" THEN tabs' = [tabs EXCEPT ![t] = TimedOut(tab, p)]
           ELSE \E kind \in {"desktop", "failed"} : tabs' = [tabs EXCEPT ![t] = Answered(tab, p, kind)]
  /\ UNCHANGED <<desktop, active, records>>

\* Another category, a search, the news of an update.
Browse(t) ==
  /\ desktop /\ tabs[t].open
  /\ \E up \in BOOLEAN : tabs' = [tabs EXCEPT ![t] = Rendered([@ EXCEPT !.updates = up])]
  /\ UNCHANGED <<desktop, active, records>>

UpdateNews(t) ==
  /\ desktop /\ tabs[t].open
  /\ tabs' = [tabs EXCEPT ![t] =
       [tabs[t] EXCEPT !.update = TRUE,
                       !.line = IF tabs[t].updates THEN [kind |-> "update", of |-> 0] ELSE @]]
  /\ UNCHANGED <<desktop, active, records>>

Leave(t) ==
  /\ tabs[t].open
  /\ tabs' = [tabs EXCEPT ![t] = [NoTab EXCEPT !.saves = tabs[t].saves]]
  /\ UNCHANGED <<desktop, active, records>>

SettingsNext ==
  \E t \in Tab :
    \/ Open(t) \/ Change(t) \/ SwitchProfile(t) \/ Reset(t) \/ ClearCredentials(t) \/ Import(t)
    \/ Later(t) \/ Browse(t) \/ UpdateNews(t) \/ Leave(t)

SettingsSpec == SettingsInit /\ [][SettingsNext]_settingsVars
-----------------------------------------------------------------------------
\* Pages opened in different profiles do not mix their settings: what is written to a profile
\* is the whole record of a page that was opened in it, but for the first record of `gaming',
\* and only the choice of a profile changes which one the next page opens in.
SettingsStayInProfile ==
  [][/\ \A p \in DOMAIN records' :
          \/ p \in DOMAIN records /\ records'[p] = records[p]
          \/ \E t \in Tab : tabs[t].open /\ tabs[t].profile = p /\ tabs'[t].state = records'[p]
          \/ p = "gaming" /\ p \notin DOMAIN records /\ records'[p] = records["default"]
     /\ active' # active =>
          \E t \in Tab : tabs[t].open /\ ~tabs'[t].open /\ tabs'[t].state.label = active']_settingsVars

\* The line about saving never shows the answer to a save that was not the last one, and never
\* covers the news of an update in the category that is about updates.
SaveLineIsCurrent ==
  \A t \in Tab :
    /\ tabs[t].line.kind \in {"desktop", "failed"} => tabs[t].line.of = tabs[t].saves
    /\ tabs[t].restart <= tabs[t].saves
    /\ tabs[t].open /\ Owned(tabs[t]) => tabs[t].line.kind \in {"update", "imported"}
=============================================================================
