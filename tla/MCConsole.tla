----------------------------- MODULE MCConsole -----------------------------
(***************************************************************************)
(* The parts of the console as one specification for TLC.  They share no   *)
(* state, so their interleavings say nothing that each of them alone does  *)
(* not: a behaviour picks one of Parts, which runs while the others stand  *)
(* still.                                                                  *)
(***************************************************************************)
EXTENDS Stream, Gate, Cases, Guide, Audit, PolicyEdit, Policies, Scans, Demo,
        Accounts, Records, Wizard, Installs, Chat, EventText, Sortable, Toast

CONSTANT Parts   \* the parts a run looks at

ASSUME PartsAssumption ==
  Parts \subseteq {"stream", "gate", "cases", "guide", "audit", "editor", "policies", "scans",
                   "demo", "accounts", "records", "wizard", "installs", "chat", "text",
                   "sortable", "toast"}

VARIABLE part

consoleVars == <<part, streamVars, gateVars, casesVars, guideVars, auditVars, policyEditVars,
                 policiesVars, scansVars, demoVars, accountsVars, recordsVars,
                 wizardVars, installsVars, chatVars, textVars, sortVars, toastVars>>

\* Where a part has several initial states, one that stands still has one.
ConsoleInit ==
  /\ part \in Parts
  /\ StreamInit
  /\ GateInit
  /\ CasesInit /\ (part \notin {"cases", "guide"} => stored = NoCases)
  /\ GuideInit /\ (part # "guide" => path = "dashboard")
  /\ AuditInit /\ (part # "audit" => log = 0 /\ ~olderServer)
  /\ PolicyEditInit /\ (part # "editor" => sel = Nothing)
  /\ PoliciesInit
  /\ ScansInit /\ (part # "scans" => scans[1] = "running" /\ selId = 0)
  /\ DemoInit
  /\ AccountsInit
  /\ RecordsInit /\ (part # "records" => entries = 0 /\ authFilter = NoFilter)
  /\ WizardInit /\ (part # "wizard" => storedWizard = Nothing)
  /\ InstallsInit
  /\ ChatInit
  /\ EventTextInit /\ (part # "text" => streamed = <<>>)
  /\ SortableInit /\ (part # "sortable" => \A l \in SortLists : layouts[l] = Nothing)
  /\ ToastInit

\* A step of part p, whose variables are not among those that stand still.
StreamPart == part = "stream" /\ StreamNext
  /\ UNCHANGED <<part, gateVars, casesVars, guideVars, auditVars, policyEditVars, policiesVars,
                 scansVars, demoVars, accountsVars, recordsVars, wizardVars,
                 installsVars, chatVars, textVars, sortVars, toastVars>>
GatePart == part = "gate" /\ GateNext
  /\ UNCHANGED <<part, streamVars, casesVars, guideVars, auditVars, policyEditVars, policiesVars,
                 scansVars, demoVars, accountsVars, recordsVars, wizardVars,
                 installsVars, chatVars, textVars, sortVars, toastVars>>
CasesPart == part = "cases" /\ CasesNext
  /\ UNCHANGED <<part, streamVars, gateVars, guideVars, auditVars, policyEditVars, policiesVars,
                 scansVars, demoVars, accountsVars, recordsVars, wizardVars,
                 installsVars, chatVars, textVars, sortVars, toastVars>>
GuidePart == part = "guide" /\ GuideNext
  /\ UNCHANGED <<part, streamVars, gateVars, auditVars, policyEditVars, policiesVars,
                 scansVars, demoVars, accountsVars, recordsVars, wizardVars,
                 installsVars, chatVars, textVars, sortVars, toastVars>>
AuditPart == part = "audit" /\ AuditNext
  /\ UNCHANGED <<part, streamVars, gateVars, casesVars, guideVars, policyEditVars, policiesVars,
                 scansVars, demoVars, accountsVars, recordsVars, wizardVars,
                 installsVars, chatVars, textVars, sortVars, toastVars>>
PolicyEditPart == part = "editor" /\ PolicyEditNext
  /\ UNCHANGED <<part, streamVars, gateVars, casesVars, guideVars, auditVars, policiesVars,
                 scansVars, demoVars, accountsVars, recordsVars, wizardVars,
                 installsVars, chatVars, textVars, sortVars, toastVars>>
PoliciesPart == part = "policies" /\ PoliciesNext
  /\ UNCHANGED <<part, streamVars, gateVars, casesVars, guideVars, auditVars, policyEditVars,
                 scansVars, demoVars, accountsVars, recordsVars, wizardVars,
                 installsVars, chatVars, textVars, sortVars, toastVars>>
ScansPart == part = "scans" /\ ScansNext
  /\ UNCHANGED <<part, streamVars, gateVars, casesVars, guideVars, auditVars, policyEditVars,
                 policiesVars, demoVars, accountsVars, recordsVars, wizardVars,
                 installsVars, chatVars, textVars, sortVars, toastVars>>
DemoPart == part = "demo" /\ DemoNext
  /\ UNCHANGED <<part, streamVars, gateVars, casesVars, guideVars, auditVars, policyEditVars,
                 policiesVars, scansVars, accountsVars, recordsVars, wizardVars,
                 installsVars, chatVars, textVars, sortVars, toastVars>>
AccountsPart == part = "accounts" /\ AccountsNext
  /\ UNCHANGED <<part, streamVars, gateVars, casesVars, guideVars, auditVars, policyEditVars,
                 policiesVars, scansVars, demoVars, recordsVars, wizardVars,
                 installsVars, chatVars, textVars, sortVars, toastVars>>
RecordsPart == part = "records" /\ RecordsNext
  /\ UNCHANGED <<part, streamVars, gateVars, casesVars, guideVars, auditVars, policyEditVars,
                 policiesVars, scansVars, demoVars, accountsVars, wizardVars,
                 installsVars, chatVars, textVars, sortVars, toastVars>>
WizardPart == part = "wizard" /\ WizardNext
  /\ UNCHANGED <<part, streamVars, gateVars, casesVars, guideVars, auditVars, policyEditVars,
                 policiesVars, scansVars, demoVars, accountsVars, recordsVars,
                 installsVars, chatVars, textVars, sortVars, toastVars>>
InstallsPart == part = "installs" /\ InstallsNext
  /\ UNCHANGED <<part, streamVars, gateVars, casesVars, guideVars, auditVars, policyEditVars,
                 policiesVars, scansVars, demoVars, accountsVars, recordsVars,
                 wizardVars, chatVars, textVars, sortVars, toastVars>>
ChatPart == part = "chat" /\ ChatNext
  /\ UNCHANGED <<part, streamVars, gateVars, casesVars, guideVars, auditVars, policyEditVars,
                 policiesVars, scansVars, demoVars, accountsVars, recordsVars,
                 wizardVars, installsVars, textVars, sortVars, toastVars>>
EventTextPart == part = "text" /\ EventTextNext
  /\ UNCHANGED <<part, streamVars, gateVars, casesVars, guideVars, auditVars, policyEditVars,
                 policiesVars, scansVars, demoVars, accountsVars, recordsVars,
                 wizardVars, installsVars, chatVars, sortVars, toastVars>>
SortablePart == part = "sortable" /\ SortableNext
  /\ UNCHANGED <<part, streamVars, gateVars, casesVars, guideVars, auditVars, policyEditVars,
                 policiesVars, scansVars, demoVars, accountsVars, recordsVars,
                 wizardVars, installsVars, chatVars, textVars, toastVars>>
ToastPart == part = "toast" /\ ToastNext
  /\ UNCHANGED <<part, streamVars, gateVars, casesVars, guideVars, auditVars, policyEditVars,
                 policiesVars, scansVars, demoVars, accountsVars, recordsVars,
                 wizardVars, installsVars, chatVars, textVars, sortVars>>

ConsoleNext ==
  \/ StreamPart \/ GatePart \/ CasesPart \/ GuidePart \/ AuditPart \/ PolicyEditPart
  \/ PoliciesPart \/ ScansPart \/ DemoPart \/ AccountsPart \/ RecordsPart
  \/ WizardPart \/ InstallsPart \/ ChatPart \/ EventTextPart \/ SortablePart
  \/ ToastPart

\* The fairness of each part, while it is the one that runs.
ConsoleFairness ==
  /\ WF_streamVars(part = "stream" /\ OnOpen)
  /\ WF_streamVars(part = "stream" /\ RetryConnect)
  /\ WF_streamVars(part = "stream" /\ OnMessage)
  /\ WF_streamVars(part = "stream" /\ Flush)
  /\ WF_streamVars(part = "stream" /\ ServerAnswers)
  /\ WF_streamVars(part = "stream" /\ ServerStores)
  /\ WF_streamVars(/\ part = "stream"
                   /\ \E i \in DOMAIN fills : FillDone(i) \/ FillFailed(i))
  /\ WF_scansVars(part = "scans" /\ ScanPoll)
  /\ WF_scansVars(/\ part = "scans"
                  /\ \E c \in scanList.calls : c.live /\ (ListReplied(c) \/ ListTaken(c)))
  /\ WF_scansVars(/\ part = "scans"
                  /\ \E c \in sheet.calls : c.live /\ (SheetReplied(c) \/ SheetTaken(c)))
  /\ WF_wizardVars(part = "wizard" /\ IntegrationPoll)
  /\ WF_wizardVars(part = "wizard" /\ InstallPoll)
  /\ WF_wizardVars(part = "wizard" /\ SessionFound)
  /\ WF_wizardVars(/\ part = "wizard"
                   /\ \E c \in InstallsCalls : c.live /\ (InstallsReplied(c) \/ InstallsTaken(c)))
  /\ WF_installsVars(part = "installs" /\ SheetTick)
  /\ WF_installsVars(/\ part = "installs"
                     /\ \E c \in installSheet.calls :
                          c.live /\ (InstallReplied(c) \/ InstallTaken(c)))

ConsoleSpec == ConsoleInit /\ [][ConsoleNext]_consoleVars

\* The parts that promise something in the end, with their fairness.
ConsoleLiveSpec == ConsoleSpec /\ ConsoleFairness

\* The part that runs keeps its variables in their types.
ConsoleTypeOK ==
  /\ part = "stream" => StreamTypeOK
  /\ part = "gate" => GateTypeOK
  /\ part = "cases" => CasesTypeOK
  /\ part = "guide" => GuideTypeOK
  /\ part = "audit" => AuditTypeOK
  /\ part = "editor" => PolicyEditTypeOK
  /\ part = "policies" => PoliciesTypeOK
  /\ part = "scans" => ScansTypeOK
  /\ part = "demo" => DemoTypeOK
  /\ part = "accounts" => AccountsTypeOK
  /\ part = "records" => RecordsTypeOK
  /\ part = "wizard" => WizardTypeOK
  /\ part = "installs" => InstallsTypeOK
  /\ part = "chat" => ChatTypeOK
  /\ part = "text" => EventTextTypeOK
  /\ part = "sortable" => SortableTypeOK
  /\ part = "toast" => ToastTypeOK
-----------------------------------------------------------------------------
(* Values of the constants. *)
HitGroupsDef == [c \in CaseIds |-> {}]
MatchingDef == [none |-> 1 .. MaxLog, even |-> {2}]
EntryMatchingDef == [none |-> 1 .. MaxEntries, even |-> {2, 3}]
RuleA == [id |-> "a", kind |-> "connect", action |-> "kill", dry |-> FALSE, disabled |-> FALSE,
          limit |-> "", lists |-> [NoLists EXCEPT !.allowHosts = <<<<"evil">>>>,
                                                  !.containers = <<<<"p443">>>>]]
TemplateDef == [id |-> "n", kind |-> "dns", action |-> "kill", dry |-> FALSE,
                disabled |-> FALSE, limit |-> "ok",
                lists |-> [NoLists EXCEPT !.denyQtypes = <<<<"txt">>>>]]
StoredDef == [a |-> RuleA, n |-> Nothing, m |-> Nothing]
LinksDef == {[id |-> "n", how |-> "tpl", value |-> Nothing]}
DefaultListsDef == [NoLists EXCEPT !.denyHosts = <<<<"evil">>>>]
PiecesDef == {"p443", "evil"}
TypeOfDef ==
  [open |-> [p443 |-> "error", evil |-> "error", txt |-> "error"],
   exec |-> [p443 |-> "prog", evil |-> "prog", txt |-> "prog"],
   connect |-> [p443 |-> "port", evil |-> "host", txt |-> "error"],
   dns |-> [p443 |-> "error", evil |-> "host", txt |-> "qtype"]]
DefaultsDef == [kpi |-> <<"a", "b", "c">>, side |-> <<"a", "b">>]
StoredLayoutsDef == {Nothing, <<"c", "x", "c">>}
=============================================================================

