---------------------------- MODULE MCDesktopShell ----------------------------
(***************************************************************************)
(* The desktop shell and the pages it shows, one of them in each behaviour *)
(* as they share no state: the shell, the settings, the workspaces with    *)
(* their favourites, the dashboard.                                        *)
(***************************************************************************)
EXTENDS DesktopShell, SettingsPages, Workspaces, Dashboard

VARIABLE part
desktopPartsVars == <<part, vars, settingsVars, workspaceVars, dashboardVars>>

\* What the pages apply, battery saver and background apps: one or the other.
AppliedSettings == {<<TRUE, FALSE>>, <<FALSE, TRUE>>}

\* The parts that are not looked at keep one of their initial states.
NoShell == ShellInit /\ ~mac
NoSettings == SettingsInit /\ ~desktop /\ records = <<>>
NoWorkspaces == WorkspacesInit /\ legacy = {} /\ favs = <<>>
NoDashboard == DashboardInit /\ ~inApp /\ ~restore

DesktopPartsInit ==
  \/ part = "shell"      /\ ShellInit /\ NoSettings   /\ NoWorkspaces   /\ NoDashboard
  \/ part = "settings"   /\ NoShell   /\ SettingsInit /\ NoWorkspaces   /\ NoDashboard
  \/ part = "workspaces" /\ NoShell   /\ NoSettings   /\ WorkspacesInit /\ NoDashboard
  \/ part = "dashboard"  /\ NoShell   /\ NoSettings   /\ NoWorkspaces   /\ DashboardInit

DesktopPartsNext ==
  \/ part = "shell" /\ ShellNext
       /\ UNCHANGED <<part, settingsVars, workspaceVars, dashboardVars>>
  \/ part = "settings" /\ SettingsNext
       /\ UNCHANGED <<part, vars, workspaceVars, dashboardVars>>
  \/ part = "workspaces" /\ WorkspacesNext
       /\ UNCHANGED <<part, vars, settingsVars, dashboardVars>>
  \/ part = "dashboard" /\ DashboardNext
       /\ UNCHANGED <<part, vars, settingsVars, workspaceVars>>

DesktopPartsSpec == DesktopPartsInit /\ [][DesktopPartsNext]_desktopPartsVars

\* What the pages show and store is up to date whatever they write over one another: the line
\* about saving, the workspaces, the games the user has added and the session that waits.
PagesAreCurrent == SaveLineIsCurrent /\ WorkspacesUsable /\ GamesAreKept

\* A page changes the records of the profile and of the workspace it shows, and no others.
WritesStayScoped == SettingsStayInProfile /\ FavoritesStayScoped
=============================================================================
