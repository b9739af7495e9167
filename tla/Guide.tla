-------------------------------- MODULE Guide --------------------------------
(***************************************************************************)
(* The assistant of the console (Assistant, GuidePanel, lib/guide.ts) on   *)
(* the list of cases of Cases: it announces a case that was opened while   *)
(* the page is up, on the dashboard by opening its panel, elsewhere by a   *)
(* message, and leads through the steps of a case, or through the setup    *)
(* while there is none.                                                    *)
(*                                                                         *)
(* Steps a user ticks are kept in localStorage, for each case and for the  *)
(* setup.  The chat tab is the module Chat; the decision box and the bell  *)
(* of Cases stand still here.  Where the focus goes and which containers   *)
(* the setup shows are left out.                                           *)
(***************************************************************************)
EXTENDS Cases, SequencesExt

CONSTANTS
  HitGroups,    \* the follow-ups of the rules a case is about
  GuideCases,   \* 5: the cases of the guide
  MaxGuideActs  \* bound: ticks, choices, links and clicks of the user

ASSUME GuideAssumption ==
  /\ HitGroups \in [CaseIds -> SUBSET STRING]
  /\ {GuideCases, MaxGuideActs} \subseteq Nat /\ GuideCases > 0

VARIABLES
  knownCases,   \* the cases that are not new, Nothing before the first list
  panel,        \* open and tab
  selectedId,
  path,         \* the page; the address as far as it matters
  guideToasts,  \* the messages guide:<id> on the screen
  prefs,        \* localStorage: chain and follow of each case
  setup,        \* localStorage: off and visitedPolicies
  hasInstall,   \* what SetupView found, Nothing while it is not mounted
  announced,    \* history: the cases announced since the page was loaded
  seeds,        \* history: the cases of the first list, Nothing before it
  guideActs     \* history: for the bound

noticed == <<knownCases, announced, seeds>>
screen == <<panel, selectedId, path, guideToasts>>
storage == <<prefs, setup>>
guideVars == <<noticed, screen, storage, hasInstall, guideActs>>

GuidePages == {"dashboard", "policies", "other"}
Pref(c, f) == [chain |-> c, follow |-> f]

GuideAct == guideActs < MaxGuideActs /\ guideActs' = guideActs + 1
Closed(p) == [p EXCEPT !.open = FALSE]

\* The rows of the guide for case c; a case without a known rule has one.
followFor(c) == IF HitGroups[c] = {} THEN {"default"} ELSE HitGroups[c]

inList == {c \in CaseIds : cases # Nothing /\ Has(cases, c)}
\* The newest cases of the list.
recentCases == {c \in inList : Cardinality({d \in inList : d > c}) < GuideCases}

\* pickCase: the one selected, else the newest that is not closed, else the
\* newest.  Which of the decided ones are closed is not followed: any may be.
pickCase ==
  IF selectedId \in recentCases THEN {selectedId}
  ELSE {c \in recentCases : \A d \in recentCases : d > c => cases[d] = "decided"}

guideOpen == panel.open /\ panel.tab = "guide"
CaseView == guideOpen /\ recentCases # {}
SetupView == guideOpen /\ recentCases = {}

\* SetupView asks for the installations when it is mounted, and drops the answer
\* when it is not any more; l is the new list and p the new panel.
SetupMounts(l, p) ==
  LET mounted == p.open /\ p.tab = "guide" /\ (l = Nothing \/ l = NoCases)
  IN hasInstall' = IF ~mounted THEN Nothing ELSE IF SetupView THEN hasInstall ELSE "reading"

-----------------------------------------------------------------------------
\* The console opens on the dashboard.
GuideInit ==
  /\ knownCases = Nothing /\ announced = <<>> /\ seeds = Nothing
  /\ panel = [open |-> FALSE, tab |-> "guide"] /\ selectedId = Nothing
  /\ path = "dashboard" /\ guideToasts = {}
  /\ prefs = [c \in CaseIds |-> Pref(FALSE, {})]
  /\ setup = [off |-> FALSE, visitedPolicies |-> FALSE]
  /\ hasInstall = Nothing /\ guideActs = 0

-----------------------------------------------------------------------------
(* What the list of cases does.  A list that cannot be read is, for the    *)
(* guide, one that is not answered.                                        *)

CasesMove ==
  /\ \/ \E c \in CaseIds, st \in CaseStates : CaseChanges(c, st)
     \/ CaseServerAnswers
     \/ FeedOpens \/ FeedBreaks \/ CasesAsked \/ CasesTaken
  /\ SetupMounts(cases', panel)
  /\ UNCHANGED <<noticed, screen, storage, guideActs>>

\* Mutant: what is known is what the list holds now.
MutLearn ==
  /\ cases # Nothing /\ knownCases' = inList
  /\ seeds' = IF seeds = Nothing THEN inList ELSE seeds
  /\ <<knownCases, seeds>>' # <<knownCases, seeds>>
  /\ UNCHANGED <<casesVars, announced, screen, storage, hasInstall, guideActs>>

\* The effect of a new list: nothing in it is new any more.
Learn ==
  /\ cases # Nothing
  /\ knownCases' = (IF knownCases = Nothing THEN {} ELSE knownCases) \cup inList
  /\ seeds' = IF seeds = Nothing THEN inList ELSE seeds
  /\ <<knownCases, seeds>>' # <<knownCases, seeds>>
  /\ UNCHANGED <<casesVars, announced, screen, storage, hasInstall, guideActs>>

\* A pushed case that is not known: its guide on the dashboard, a message elsewhere.
Announce(c) ==
  /\ announced' = Append(announced, c) /\ selectedId' = c
  /\ IF path = "dashboard"
     THEN panel' = [open |-> TRUE, tab |-> "guide"] /\ UNCHANGED guideToasts
     ELSE guideToasts' = guideToasts \cup {c} /\ UNCHANGED panel
  /\ UNCHANGED path

CasePushed ==
  /\ PushTaken
  /\ LET m == Head(pushed)
         news == knownCases # Nothing /\ m.case \notin knownCases
     IN /\ knownCases' = IF news THEN knownCases \cup {m.case} ELSE knownCases
        /\ IF news /\ m.state = "open" THEN Announce(m.case) ELSE UNCHANGED <<announced, screen>>
  /\ SetupMounts(cases', panel')
  /\ UNCHANGED <<seeds, storage, guideActs>>

\* The browser loads the page anew.
GuideReload ==
  /\ PageReload
  /\ knownCases' = Nothing /\ announced' = <<>> /\ seeds' = Nothing
  /\ panel' = [open |-> FALSE, tab |-> "guide"] /\ selectedId' = Nothing /\ guideToasts' = {}
  /\ hasInstall' = Nothing
  /\ UNCHANGED <<path, storage, guideActs>>

-----------------------------------------------------------------------------
(* Assistant. *)

\* Another page, or another query of this one: the panel closes.  The policies
\* count as looked at.
Goes(p) ==
  /\ path' = p /\ panel' = Closed(panel)
  /\ setup' = [setup EXCEPT !.visitedPolicies = @ \/ p = "policies"]

Navigate(p) ==
  /\ GuideAct
  /\ Goes(p) /\ SetupMounts(cases, panel')
  /\ UNCHANGED <<casesVars, noticed, selectedId, guideToasts, prefs>>

\* The round button, the closing button and Escape.
TogglePanel ==
  /\ GuideAct
  /\ panel' = [panel EXCEPT !.open = ~@] /\ SetupMounts(cases, panel')
  /\ UNCHANGED <<casesVars, noticed, selectedId, path, guideToasts, storage>>

ChooseTab(t) ==
  /\ panel.open /\ panel.tab # t /\ GuideAct
  /\ panel' = [panel EXCEPT !.tab = t] /\ SetupMounts(cases, panel')
  /\ UNCHANGED <<casesVars, noticed, selectedId, path, guideToasts, storage>>

\* "Open the guide" of a message, which closes it.
ToastOpens(c) ==
  /\ c \in guideToasts
  /\ selectedId' = c /\ panel' = [open |-> TRUE, tab |-> "guide"]
  /\ guideToasts' = guideToasts \ {c} /\ SetupMounts(cases, panel')
  /\ UNCHANGED <<casesVars, noticed, path, storage, guideActs>>

ToastGone(c) ==
  /\ c \in guideToasts /\ guideToasts' = guideToasts \ {c}
  /\ UNCHANGED <<casesVars, noticed, panel, selectedId, path, storage, hasInstall, guideActs>>

-----------------------------------------------------------------------------
(* GuidePanel. *)

SelectCase(c) ==
  /\ CaseView /\ Cardinality(recentCases) > 1 /\ c \in recentCases
  /\ GuideAct
  /\ selectedId' = c
  /\ UNCHANGED <<casesVars, noticed, panel, path, guideToasts, storage, hasInstall>>

\* The way to the attack chain is the third step done.
ChainLink(c) ==
  /\ CaseView /\ c \in pickCase /\ GuideAct
  /\ prefs' = [prefs EXCEPT ![c].chain = TRUE]
  /\ Goes("other") /\ SetupMounts(cases, panel')
  /\ UNCHANGED <<casesVars, noticed, selectedId, guideToasts>>

TickFollow(c, g) ==
  /\ CaseView /\ c \in pickCase /\ GuideAct
  /\ prefs' = [prefs EXCEPT ![c].follow = IF g \in @ THEN @ \ {g} ELSE @ \cup {g}]
  /\ UNCHANGED <<casesVars, noticed, screen, setup, hasInstall>>

\* "Stop showing" and "show again".
SetupSwitch ==
  /\ SetupView /\ GuideAct
  /\ setup' = [setup EXCEPT !.off = ~@]
  /\ UNCHANGED <<casesVars, noticed, screen, prefs, hasInstall>>

SetupRead ==
  /\ hasInstall = "reading" /\ hasInstall' \in {"read", "unknown"}
  /\ UNCHANGED <<casesVars, noticed, screen, storage, guideActs>>

-----------------------------------------------------------------------------
GuideNext ==
  \/ CasesMove \/ Learn \/ CasePushed \/ GuideReload
  \/ \E p \in GuidePages : Navigate(p)
  \/ TogglePanel
  \/ \E t \in {"guide", "chat"} : ChooseTab(t)
  \/ \E c \in CaseIds : ToastOpens(c) \/ ToastGone(c) \/ SelectCase(c) \/ ChainLink(c)
  \/ SetupSwitch \/ SetupRead
  \/ \E c \in CaseIds : \E g \in followFor(c) : TickFollow(c, g)

GuideSpec == CasesInit /\ GuideInit /\ [][GuideNext]_<<casesVars, guideVars>>
-----------------------------------------------------------------------------
\* Every variable keeps its kind of value.
GuideTypeOK ==
  /\ CasesTypeOK
  /\ knownCases \in (SUBSET CaseIds) \cup {Nothing} /\ seeds \in (SUBSET CaseIds) \cup {Nothing}
  /\ announced \in Seq(CaseIds)
  /\ panel \in [open : BOOLEAN, tab : {"guide", "chat"}]
  /\ selectedId \in CaseIds \cup {Nothing} /\ path \in GuidePages /\ guideToasts \subseteq CaseIds
  /\ \A c \in CaseIds : prefs[c].chain \in BOOLEAN /\ prefs[c].follow \subseteq followFor(c)
  /\ setup \in [off : BOOLEAN, visitedPolicies : BOOLEAN]
  /\ hasInstall \in {Nothing, "reading", "read", "unknown"}

\* While the page is up the assistant announces a case once at most, and never
\* one of the first list: pushes of a case that is known already only change it,
\* even after an older list took it from the screen (Assistant.tsx:99-124).
GuideTellsOnce ==
  /\ IsInjective(announced)
  /\ seeds # Nothing => ToSet(announced) \cap seeds = {}
=============================================================================
