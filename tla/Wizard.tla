------------------------------- MODULE Wizard -------------------------------
(***************************************************************************)
(* The integration page: the watch list it polls, the connection test      *)
(* (TestStep of IntegrationPage), and the scenario wizard with its three   *)
(* steps, kept in localStorage (ScenarioWizard, features/integration).     *)
(*                                                                         *)
(* Times are positions: a copied command remembers how many sessions or    *)
(* violations there were, or one fewer, because the code takes off a few   *)
(* seconds.  A single service is its name, a compose project the set of    *)
(* the services it watches, an installation its package.                   *)
(***************************************************************************)
EXTENDS Naturals, Sequences, FiniteSets, Requests

CONSTANTS
  Names,          \* containers
  Packages,
  BadInput,       \* an input the forms refuse
  MaxSessionsRun, \* bound: installations
  MaxViolations,  \* bound: violations seen
  MaxWizardActs   \* bound: what the user does, containers that come and go, failures

ASSUME WizardAssumption ==
  /\ BadInput \notin Names \cup Packages
  /\ MaxSessionsRun \in Nat /\ MaxViolations \in Nat /\ MaxWizardActs \in Nat

Probes == {"none", "running", "passed", "failed"}
SessionRecord == [pkg : Packages, status : {"running", "passed", "violated"}]
IntegrationRecord == [watched : SUBSET Names, probe : Probes]

\* null is no answer of the server, and no load that is mounted.
ASSUME NothingAssumption ==
  Nothing \notin IntegrationRecord /\ Nothing \notin Loads(Seq(SessionRecord))

VARIABLES
  watchedNow,    \* server: the containers watched
  probe,         \* server: the connection test
  sessions,      \* server: installations, in the order they started
  violations,    \* the stream: containers of the verdicts that matched, in order
  integration,   \* GET /api/integration as it was answered last
  starting,      \* TestStep: POST under way
  wizard,        \* the state of the wizard
  storedWizard,  \* localStorage; Nothing before the first save
  installs,      \* useLoad of the mounted InstallApply, Nothing without one
  wizardActs     \* history: for the bound

wizardServer == <<watchedNow, probe, sessions, violations>>
wizardVars == <<wizardServer, integration, starting, wizard, storedWizard, installs, wizardActs>>

WizardAct == wizardActs < MaxWizardActs /\ wizardActs' = wizardActs + 1

FreshWizard(sc) ==
  [scenario |-> sc, step |-> 1, single |-> CHOOSE n \in Names : TRUE, multi |-> Names,
   install |-> CHOOSE p \in Packages : TRUE, armedAt |-> Nothing, since |-> Nothing,
   target |-> Nothing]

\* singleValid, multiValid, installValid.
ValidInput(w) ==
  CASE w.scenario = "single" -> w.single # BadInput
    [] w.scenario = "multi" -> w.multi # {}
    [] w.scenario = "install" -> w.install # BadInput
    [] OTHER -> FALSE

\* The containers the settings name.
expected(w) ==
  CASE w.scenario = "single" -> {w.single} [] w.scenario = "multi" -> w.multi [] OTHER -> {}

\* ApplyStep: those that are on the watch list shown, and whether all are.
detected(w) == IF integration = Nothing THEN {} ELSE expected(w) \cap integration.watched
allDetected(w) == detected(w) = expected(w) /\ expected(w) # {}

\* TestStep of the wizard: the container under test.
targetOf(w) == IF w.target \in expected(w) THEN w.target ELSE CHOOSE n \in expected(w) : TRUE
testVerdict(w) ==
  w.armedAt # Nothing /\ \E i \in DOMAIN violations : i > w.armedAt /\ violations[i] = targetOf(w)

\* The newest session of the package that started since the command was copied.
installSessionFor(list, w) ==
  LET ok == {i \in DOMAIN list : w.since # Nothing /\ i > w.since /\ list[i].pkg = w.install}
  IN IF ok = {} THEN Nothing ELSE list[CHOOSE i \in ok : \A j \in ok : j <= i]

sess == IF installs = Nothing \/ installs.data = Nothing THEN Nothing
        ELSE installSessionFor(installs.data, wizard)
finishedShown == sess # Nothing /\ sess.status # "running"

\* The wizard w has InstallApply on the screen; mounted, it asks at once when a
\* command was copied before.
Applying(w) == w.scenario = "install" /\ w.step \in {2, 3}
MountedFor(w) ==
  IF ~Applying(w) THEN Nothing
  ELSE IF w.since = Nothing THEN [NewLoad EXCEPT !.calls = {}] ELSE NewLoad

-----------------------------------------------------------------------------
\* A browser that was not here before, that left the form half filled in, or
\* that left before its test.
WizardInit ==
  /\ watchedNow = {} /\ probe = "none" /\ sessions = <<>> /\ violations = <<>>
  /\ integration = Nothing /\ starting = FALSE
  /\ \/ wizard = FreshWizard(Nothing) /\ storedWizard = Nothing
     \/ /\ wizard = [FreshWizard("install") EXCEPT !.install = BadInput]
        /\ storedWizard = wizard
     \/ /\ wizard = [FreshWizard("multi") EXCEPT !.step = 3]
        /\ storedWizard = wizard
  /\ installs = Nothing /\ wizardActs = 0

-----------------------------------------------------------------------------
(* The server.                                                             *)

\* A container starts or stops.
ContainersChange(n) ==
  /\ WizardAct
  /\ watchedNow' = IF n \in watchedNow THEN watchedNow \ {n} ELSE watchedNow \cup {n}
  /\ UNCHANGED <<probe, sessions, violations, integration, starting, wizard, storedWizard, installs>>

Violates(n) ==
  /\ n \in watchedNow /\ Len(violations) < MaxViolations
  /\ violations' = Append(violations, n)
  /\ UNCHANGED <<watchedNow, probe, sessions, integration, starting, wizard, storedWizard,
                 installs, wizardActs>>

InstallRuns(p) ==
  /\ Len(sessions) < MaxSessionsRun
  /\ sessions' = Append(sessions, [pkg |-> p, status |-> "running"])
  /\ UNCHANGED <<watchedNow, probe, violations, integration, starting, wizard, storedWizard,
                 installs, wizardActs>>

InstallEnds(i) ==
  /\ sessions[i].status = "running"
  /\ \E st \in {"passed", "violated"} : sessions' = [sessions EXCEPT ![i].status = st]
  /\ UNCHANGED <<watchedNow, probe, violations, integration, starting, wizard, storedWizard,
                 installs, wizardActs>>

ProbeEnds ==
  /\ probe = "running" /\ probe' \in {"passed", "failed"}
  /\ UNCHANGED <<watchedNow, sessions, violations, integration, starting, wizard, storedWizard,
                 installs, wizardActs>>

InstallsReplied(c) ==
  /\ c.request = Sent
  /\ \/ installs' = Replied(installs, c, sessions) /\ UNCHANGED wizardActs
     \/ WizardAct /\ installs' = Broke(installs, c)
  /\ UNCHANGED <<wizardServer, integration, starting, wizard, storedWizard>>

-----------------------------------------------------------------------------
(* IntegrationPage.                                                        *)

\* Asked every three seconds, every second while the test runs; a request that
\* fails leaves the list as it is.  The first answer mounts the wizard.
IntegrationPoll ==
  /\ integration' = [watched |-> watchedNow, probe |-> probe]
  /\ installs' = IF integration = Nothing THEN MountedFor(wizard) ELSE installs
  /\ UNCHANGED <<wizardServer, starting, wizard, storedWizard, wizardActs>>

probeShown == IF integration = Nothing THEN "none" ELSE integration.probe

\* The poll that follows shows the test.
StartProbe ==
  /\ integration # Nothing /\ probeShown # "running" /\ ~starting /\ WizardAct
  /\ starting' = TRUE
  /\ UNCHANGED <<wizardServer, integration, wizard, storedWizard, installs>>

\* 409 while another test runs; after any other answer the list is asked for.
ProbeAnswered ==
  /\ starting /\ starting' = FALSE
  /\ \/ probe # "running" /\ probe' = "running"
     \/ UNCHANGED probe
  /\ UNCHANGED <<watchedNow, integration, sessions, violations, wizard, storedWizard, installs, wizardActs>>

-----------------------------------------------------------------------------
(* ScenarioWizard.                                                         *)

\* Another step or scenario mounts anew (key); the first copy starts the load.
Mounted(w) ==
  installs' = IF installs = Nothing \/ w.step # wizard.step \/ ~Applying(w) THEN MountedFor(w)
              ELSE IF wizard.since = Nothing /\ w.since # Nothing THEN Reload(installs)
              ELSE installs

\* set: kept in localStorage too, where that is allowed.
set(w) ==
  /\ integration # Nothing
  /\ wizard' = w /\ Mounted(w)
  /\ storedWizard' \in {w, storedWizard}
  /\ UNCHANGED <<wizardServer, integration, starting>>

PickScenario(sc) ==
  /\ sc # wizard.scenario /\ WizardAct
  /\ set([wizard EXCEPT !.scenario = sc, !.step = 1, !.armedAt = Nothing, !.since = Nothing,
                        !.target = Nothing])

\* The forms of step 1.
Inputs ==
  {[wizard EXCEPT !.single = n] : n \in Names \cup {BadInput}} \cup
  {[wizard EXCEPT !.multi = ns] : ns \in SUBSET Names} \cup
  {[wizard EXCEPT !.install = p] : p \in Packages \cup {BadInput}}
Fill(w) ==
  /\ wizard.scenario # Nothing /\ wizard.step = 1 /\ w # wizard /\ WizardAct
  /\ \/ w.single # wizard.single /\ wizard.scenario = "single"
     \/ w.multi # wizard.multi /\ wizard.scenario = "multi"
     \/ w.install # wizard.install /\ wizard.scenario = "install"
  /\ set(w)

\* The stepper, and "next" of the steps 1 and 2.
GoToStep(n) ==
  /\ wizard.scenario # Nothing /\ n # wizard.step /\ WizardAct
  /\ \/ n < wizard.step
     \/ n = 2 /\ ValidInput(wizard)
     \/ n = 3 /\ wizard.step = 2 /\ wizard.scenario # "install"
  /\ set([wizard EXCEPT !.step = n])

StartOver ==
  /\ wizard.scenario # Nothing /\ WizardAct /\ set(FreshWizard(wizard.scenario))

\* The commands of the last steps are copied.
CopyTest ==
  /\ wizard.scenario \in {"single", "multi"} /\ wizard.step = 3 /\ WizardAct
  /\ \E n \in {Len(violations), Len(violations) - 1} \cap Nat :
       set([wizard EXCEPT !.armedAt = n])

PickTarget(n) ==
  /\ wizard.step = 3 /\ n \in expected(wizard) /\ n # targetOf(wizard) /\ WizardAct
  /\ set([wizard EXCEPT !.target = n, !.armedAt = Nothing])

CopyInstall ==
  /\ Applying(wizard) /\ WizardAct
  /\ \E n \in {Len(sessions), Len(sessions) - 1} \cap Nat : set([wizard EXCEPT !.since = n])

\* Mutant: only until there is a session.
MutPolls == wizard.since # Nothing /\ sess = Nothing
\* Every two seconds until the session has finished.
Polls == wizard.since # Nothing /\ ~finishedShown

InstallPoll ==
  /\ installs # Nothing /\ Polls /\ ~Loading(installs)
  /\ installs' = Reload(installs)
  /\ UNCHANGED <<wizardServer, integration, starting, wizard, storedWizard, wizardActs>>

InstallsTaken(c) ==
  /\ c.request # Sent /\ installs' = Took(installs, c)
  /\ UNCHANGED <<wizardServer, integration, starting, wizard, storedWizard, wizardActs>>

\* The effect: a session that was found leads to step 3.
SessionFound ==
  /\ wizard.step = 2 /\ sess # Nothing
  /\ set([wizard EXCEPT !.step = 3]) /\ UNCHANGED wizardActs

\* The page is loaded anew: what localStorage holds.
ReloadPage ==
  /\ WizardAct
  /\ wizard' = IF storedWizard = Nothing THEN FreshWizard(Nothing) ELSE storedWizard
  /\ installs' = Nothing
  /\ integration' = Nothing /\ starting' = FALSE
  /\ UNCHANGED <<wizardServer, storedWizard>>

-----------------------------------------------------------------------------
InstallsCalls == IF installs = Nothing THEN {} ELSE installs.calls

WizardNext ==
  \/ \E n \in Names : ContainersChange(n) \/ Violates(n) \/ PickTarget(n)
  \/ \E p \in Packages : InstallRuns(p)
  \/ \E i \in DOMAIN sessions : InstallEnds(i)
  \/ \E c \in InstallsCalls : InstallsReplied(c) \/ InstallsTaken(c)
  \/ ProbeEnds \/ IntegrationPoll \/ StartProbe \/ ProbeAnswered
  \/ \E sc \in {"single", "multi", "install"} : PickScenario(sc)
  \/ \E w \in Inputs : Fill(w)
  \/ \E n \in 1 .. 3 : GoToStep(n)
  \/ StartOver \/ CopyTest \/ CopyInstall \/ InstallPoll \/ SessionFound \/ ReloadPage

\* The timer runs, the server answers, and the browser takes what came.
WizardFairness ==
  /\ WF_wizardVars(IntegrationPoll) /\ WF_wizardVars(InstallPoll) /\ WF_wizardVars(SessionFound)
  /\ WF_wizardVars(\E c \in InstallsCalls : c.live /\ (InstallsReplied(c) \/ InstallsTaken(c)))

WizardSpec == WizardInit /\ [][WizardNext]_wizardVars /\ WizardFairness
-----------------------------------------------------------------------------
\* Every variable keeps its kind of value.
WizardTypeOK ==
  /\ watchedNow \subseteq Names /\ probe \in {"none", "running", "passed", "failed"}
  /\ wizard.step \in 1 .. 3 /\ wizard.scenario \in {Nothing, "single", "multi", "install"}
  /\ allDetected(wizard) \in BOOLEAN /\ testVerdict(wizard) \in BOOLEAN
  /\ wizard.since \in 0 .. MaxSessionsRun \cup {Nothing}
  /\ installs # Nothing <=> integration # Nothing /\ Applying(wizard)

\* An installation whose command was copied here is shown to its end, over the
\* change of steps and failed requests.
InstallIsShownToEnd ==
  LET newest == installSessionFor(sessions, wizard)
      over == Applying(wizard) /\ newest # Nothing /\ newest.status # "running"
  IN over ~> ~over \/ finishedShown
=============================================================================
