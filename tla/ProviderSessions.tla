--------------------------- MODULE ProviderSessions ---------------------------
(***************************************************************************)
(* What the desktop application keeps of the services it shows             *)
(* (desktop/electron/main.mjs, provider-session.mjs, runtime-policy.mjs):  *)
(* the sign-ins of each partition, the user's answers to what a site asks  *)
(* for, and their clearing, which is awaited while views come and go.      *)
(*                                                                         *)
(* A site is an origin with a permission.  The account is always the       *)
(* default one, as no page names another.                                  *)
(***************************************************************************)
EXTENDS Integers, Sequences, FiniteSets, SequencesExt

CONSTANTS UserProfile, Site, Nil,
          MaxQuestions,   \* bound: questions of sites
          MaxOpenings     \* bound: views, other settings, clearings and restarts

\* The application has profiles of its own.
ASSUME SitesAssumption == UserProfile # {}

VARIABLES prompts,    \* permissionPrompts of the policy
          view,       \* the view that is shown, or Nil
          jars,       \* [Partitions -> the profiles that have signed in there]
          decisions,  \* permissionDecisions
          dialogs,    \* questions that are shown to the user
          clearings,  \* those that are not over: the partitions that are left, and whether one failed
          questions, openings,
          answers,    \* answers given per site since the last clearing (for the properties)
          silent,     \* the last request that nobody was asked about (for the properties)
          fresh,      \* the shared partition has a sign-in since clearings began (for the properties)
          cleared     \* whether the last step ended a clearing (for the properties)
siteVars == <<prompts, view, jars, decisions, dialogs, clearings, questions, openings, answers,
              silent, fresh, cleared>>

\* resolveProviderSessionOptions(): isolateAccounts and autoLogin
Options == [profile : UserProfile, isolated : BOOLEAN, kept : BOOLEAN]

Shared == <<"shared", Nil>>

\* Mutant: what is not to be kept goes where it is kept.
Partition_Kept(o) == IF o.isolated THEN <<"profile and account", o.profile>> ELSE Shared

\* resolveProviderPartition()
Partition(o) ==
  CASE ~o.kept -> <<"in memory", o.profile>>
    [] o.kept /\ o.isolated -> <<"profile and account", o.profile>>
    [] OTHER -> Shared
Partitions == {Partition(o) : o \in Options}
InMemory == {jar \in Partitions : jar[1] = "in memory"}

\* Mutant: the shared partition is not among them.
ProviderPartitions_Own == {<<"profile", p>> : p \in UserProfile}

\* providerSessionPartitions(): the names of the profiles are not those that views are given.
ProviderPartitions == {Shared} \cup {<<"profile", p>> : p \in UserProfile}

\* decisionKey; the application's own pages are a scope of their own.
Application == <<"application", Nil>>
Scopes == Partitions \cup {Application}
Keys == Scopes \X Site
NoDecision == [key \in Keys |-> "none"]
Modes == {"Ask every time", "Ask per site", "Block by default"}

SitesInit ==
  /\ prompts = "Ask per site" /\ view = Nil /\ jars = [jar \in Partitions |-> {}]
  /\ decisions = NoDecision /\ dialogs = {} /\ clearings = <<>>
  /\ questions = 0 /\ openings = 0
  /\ answers = <<>> /\ silent = Nil /\ fresh = FALSE /\ cleared = FALSE
-----------------------------------------------------------------------------
\* resolvePermissionDecision()
Decision(key) ==
  CASE prompts = "Block by default" -> "blocked"
    [] prompts = "Ask per site" -> decisions[key]
    [] OTHER -> "none"

\* Mutant: one decision for all partitions.
Key_Shared(scope, site) == <<Application, site>>

Key(scope, site) == <<scope, site>>

MayOpen == openings < MaxOpenings /\ openings' = openings + 1

\* The settings of a page
ApplyPolicy ==
  /\ MayOpen
  /\ prompts' \in Modes \ {prompts}
  /\ silent' = Nil /\ cleared' = FALSE
  /\ UNCHANGED <<view, jars, decisions, dialogs, clearings, questions, answers, fresh>>

\* createProviderView()
OpenView ==
  /\ MayOpen
  /\ \E o \in Options : view' = [jar |-> Partition(o), profile |-> o.profile, kept |-> o.kept]
  /\ silent' = Nil /\ cleared' = FALSE
  /\ UNCHANGED <<prompts, jars, decisions, dialogs, clearings, questions, answers, fresh>>

CloseView ==
  /\ view # Nil /\ view' = Nil /\ silent' = Nil /\ cleared' = FALSE
  /\ UNCHANGED <<prompts, jars, decisions, dialogs, clearings, questions, openings, answers, fresh>>

\* The user signs in to the service, in the view or one of its windows.
SignIn ==
  /\ view # Nil
  /\ jars' = [jars EXCEPT ![view.jar] = @ \cup {view.profile}]
  /\ fresh' = (fresh \/ view.jar = Shared)
  /\ silent' = Nil /\ cleared' = FALSE
  /\ UNCHANGED <<prompts, view, decisions, dialogs, clearings, questions, openings, answers>>

\* Mutant: without a window what is remembered is not looked at.
Unasked_First(key) == TRUE

\* There is no window to ask in, or no origin to ask about.
Unasked(key) == Decision(key) = "none"

\* The handler of permission requests, of a page or of the view: it answers by itself, refuses this
\* time or asks.
Request(site) ==
  /\ questions < MaxQuestions /\ questions' = questions + 1
  /\ \E scope \in {Application} \cup (IF view = Nil THEN {} ELSE {view.jar}) :
       LET key == Key(scope, site)
       IN  \/ /\ Decision(key) # "none"
              /\ silent' = [scope |-> scope, site |-> site, as |-> Decision(key)]
              /\ UNCHANGED dialogs
           \/ /\ Unasked(key)
              /\ silent' = [scope |-> scope, site |-> site, as |-> "blocked"]
              /\ UNCHANGED dialogs
           \/ /\ Decision(key) = "none" /\ silent' = Nil
              /\ dialogs' = dialogs \cup {[n |-> questions, key |-> key, scope |-> scope]}
  /\ cleared' = FALSE
  /\ UNCHANGED <<prompts, view, jars, decisions, clearings, openings, answers, fresh>>

\* Mutant: every answer is kept.
Remembered_Always(key, answer) == [decisions EXCEPT ![key] = answer]

\* An answer is kept if questions are asked per site now.
Remembered(key, answer) ==
  IF prompts = "Ask per site" THEN [decisions EXCEPT ![key] = answer] ELSE decisions

\* The dialog fails: this time it is refused.
DialogFails ==
  /\ \E q \in dialogs : dialogs' = dialogs \ {q}
  /\ silent' = Nil /\ cleared' = FALSE
  /\ UNCHANGED <<prompts, view, jars, decisions, clearings, questions, openings, answers, fresh>>

\* The user answers, or closes the dialog; dialogs about one thing may be several.
Answer ==
  /\ \E q \in dialogs, answer \in {"allowed", "blocked"} :
       /\ dialogs' = dialogs \ {q}
       /\ decisions' = Remembered(q.key, answer)
       /\ answers' = IF prompts = "Ask per site"
                     THEN Append(answers, [scope |-> q.scope, site |-> q.key[2], as |-> answer])
                     ELSE answers
  /\ silent' = Nil /\ cleared' = FALSE
  /\ UNCHANGED <<prompts, view, jars, clearings, questions, openings, fresh>>
-----------------------------------------------------------------------------
\* clear-provider-logins: the view goes, and each partition is cleared in its own time.
ClearLogins ==
  /\ MayOpen /\ view' = Nil
  /\ clearings' = Append(clearings, [left |-> ProviderPartitions, failed |-> FALSE])
  /\ fresh' = (fresh /\ clearings # <<>>)
  /\ silent' = Nil /\ cleared' = FALSE
  /\ UNCHANGED <<prompts, jars, decisions, dialogs, questions, answers>>

PartitionIsClear ==
  /\ \E i \in DOMAIN clearings, ok \in BOOLEAN : \E jar \in clearings[i].left :
       /\ clearings' = [clearings EXCEPT ![i].left = @ \ {jar}, ![i].failed = @ \/ ~ok]
       /\ jars' = [j \in Partitions |-> IF j = jar /\ ok THEN {} ELSE jars[j]]
  /\ silent' = Nil /\ cleared' = FALSE
  /\ UNCHANGED <<prompts, view, decisions, dialogs, questions, openings, answers, fresh>>

AllTried(i) == clearings[i].left = {} /\ clearings' = RemoveAt(clearings, i)

\* Mutant: the answers stay.
LoginsAreClear_Only(i) ==
  /\ AllTried(i) /\ cleared' = ~clearings[i].failed /\ silent' = Nil
  /\ answers' = IF clearings[i].failed THEN answers ELSE <<>>
  /\ UNCHANGED <<prompts, view, jars, decisions, dialogs, questions, openings, fresh>>

\* If all of them are clear the answers are forgotten, but for those to dialogs that are open.
LoginsAreClear(i) ==
  /\ AllTried(i) /\ cleared' = ~clearings[i].failed /\ silent' = Nil
  /\ IF clearings[i].failed THEN UNCHANGED <<decisions, answers>>
                        ELSE decisions' = NoDecision /\ answers' = <<>>
  /\ UNCHANGED <<prompts, view, jars, dialogs, questions, openings, fresh>>

\* The application ends and starts: partitions in memory and answers are gone, the settings are
\* those of the next page.
Restart ==
  /\ MayOpen
  /\ prompts' = "Ask per site" /\ view' = Nil /\ decisions' = NoDecision /\ dialogs' = {}
  /\ jars' = [jar \in Partitions |-> IF jar \in InMemory THEN {} ELSE jars[jar]]
  /\ clearings' = <<>> /\ answers' = <<>> /\ silent' = Nil /\ fresh' = FALSE /\ cleared' = FALSE
  /\ UNCHANGED questions

SitesNext ==
  \/ ApplyPolicy \/ OpenView \/ CloseView \/ SignIn \/ (\E site \in Site : Request(site)) \/ Answer
  \/ DialogFails
  \/ ClearLogins \/ PartitionIsClear
  \/ (\E i \in DOMAIN clearings : LoginsAreClear(i)) \/ Restart

SitesSpec == SitesInit /\ [][SitesNext]_siteVars
-----------------------------------------------------------------------------
\* What nobody is asked about is what the user answered last per site, for the same partition
\* and site, since the answers were last cleared; or it is blocked, as the policy says, or as
\* nobody can be asked about what was not answered before.
SilentAsAnswered ==
  silent # Nil =>
    LET About == {i \in DOMAIN answers : answers[i].scope = silent.scope
                                          /\ answers[i].site = silent.site}
    IN  \/ silent.as = "blocked" /\ (prompts # "Ask per site" \/ About = {})
        \/ \E i \in About : answers[i].as = silent.as /\ \A j \in About : j <= i

\* Sign-ins that are isolated are of one profile; where they are not to be kept, none comes from
\* a view that keeps them.
SignInsStayApart ==
  /\ \A jar \in Partitions \ {Shared} : jars[jar] \subseteq {jar[2]}
  /\ view # Nil /\ ~view.kept => view.jar \in InMemory

\* The sign-ins that are shared do not outlive their clearing.
ClearedIsClear ==
  cleared => jars[Shared] = {} \/ fresh

SitesAreKeptApart == SilentAsAnswered /\ SignInsStayApart /\ ClearedIsClear
=============================================================================
