------------------------------ MODULE Installs ------------------------------
(***************************************************************************)
(* The installs page: its list with filters and pages (InstallsPage) and   *)
(* the sheet of one session, polled while something of it runs             *)
(* (InstallSheet).                                                         *)
(*                                                                         *)
(* A session is its status, the static scan that was attached to it, and   *)
(* the decision of its case.  The cases come over the stream, so the page  *)
(* knows a decision before its list does.  The pages of the table, which   *)
(* are those of the scans', are left out.                                  *)
(***************************************************************************)
EXTENDS Naturals, Sequences, SequencesExt, Requests

CONSTANTS
  UsedEnds,      \* how an installation may end, of the ways the code knows
  UsedScans,     \* what its static scan may be
  MaxInstall,    \* bound: sessions
  MaxInstallActs \* bound: what the user does, failed requests

ASSUME InstallsAssumption ==
  /\ UsedEnds \subseteq {"passed", "warned", "isolated"}
  /\ UsedScans \subseteq {"running", "skipped", "clean", "malicious"}
  /\ MaxInstall \in Nat /\ MaxInstallActs \in Nat

InstallIds == 1 .. MaxInstall
InstallStatus == {"running", "passed", "warned", "isolated"}
ScanStatus == {"none", "running", "skipped", "clean", "malicious"}
InstallRecord == [status : InstallStatus, scan : ScanStatus, case : BOOLEAN]

\* null is no session.
ASSUME NoInstallIsNothing == Nothing \notin InstallRecord

VARIABLES
  installed,     \* server: sessions in the order they started
  decisions,     \* decision of the case of each session, as the page hears it
  installList,   \* useLoad of the list
  installFilter, \* "pending", "all" or a status
  installId,     \* session of the sheet, 0 for none
  installSheet,  \* useLoad of the sheet
  installActs    \* history: for the bound

installListVars == <<installList, installFilter>>
installsVars == <<installed, decisions, installListVars, installId, installSheet, installActs>>

InstallAct == installActs < MaxInstallActs /\ installActs' = installActs + 1

isRunning(s) == s.status = "running" \/ s.scan = "running"

\* The rows a filter lets through, newest first.
InstallRows(list, f) ==
  LET passes(i) == CASE f = "all" -> TRUE
                     [] f = "pending" -> list[i].case /\ decisions[i] = "pending"
                     [] OTHER -> list[i].status = f
  IN SelectSeq([i \in 1 .. Len(list) |-> Len(list) + 1 - i], passes)

installFailing == installList.failed /\ installList.data = Nothing
installsShown ==
  IF installFailing THEN "error"
  ELSE IF installList.data = Nothing THEN "skeleton"
  ELSE IF installList.data = <<>> THEN "firstUse"
  ELSE IF InstallRows(installList.data, installFilter) = <<>> THEN "noMatch" ELSE "table"

\* The sentence on the sheet where the scan and the kernel disagree.
runtimeHit(s) == s.status \in {"isolated", "warned"}
mismatchNote(s) ==
  IF runtimeHit(s) /\ s.scan \in {"skipped", "clean"} THEN "runtime"
  ELSE IF s.status = "passed" /\ s.scan = "malicious" THEN "static" ELSE ""

\* What the sheet draws of its session.
sheetShown ==
  IF installSheet.data = Nothing THEN (IF installSheet.failed THEN "error" ELSE "loading")
  ELSE IF isRunning(installSheet.data) THEN "running" ELSE "settled"

-----------------------------------------------------------------------------
InstallsInit ==
  /\ installed = <<>> /\ decisions = [i \in InstallIds |-> "none"]
  /\ installList = NewLoad /\ installFilter = "pending" /\ installId = 0
  /\ installSheet = NewLoad /\ installActs = 0

-----------------------------------------------------------------------------
(* The server.                                                             *)

InstallStarts ==
  /\ Len(installed) < MaxInstall
  /\ installed' = Append(installed, [status |-> "running", scan |-> "none", case |-> FALSE])
  /\ UNCHANGED <<decisions, installListVars, installId, installSheet, installActs>>

\* The installation ends, its scan is attached and ends, its case is opened.
InstallMoves(i) ==
  LET s == installed[i]
      put(r) == installed' = [installed EXCEPT ![i] = r]
  IN /\ \/ /\ s.status = "running"
           /\ \E end \in UsedEnds :
                /\ put([s EXCEPT !.status = end, !.case = end # "passed"])
                /\ decisions' = IF end = "passed" THEN decisions
                                ELSE [decisions EXCEPT ![i] = "pending"]
        \/ /\ s.scan \in {"none", "running"}
           /\ \E scan \in UsedScans \cap (IF s.scan = "none" THEN {"running", "skipped"}
                                          ELSE {"clean", "malicious"}) :
                put([s EXCEPT !.scan = scan])
           /\ UNCHANGED decisions
     /\ UNCHANGED <<installListVars, installId, installSheet, installActs>>

\* Somebody decides.  The sheet of the session reloads the list at once.
CaseIsDecided(i) ==
  /\ decisions[i] = "pending"
  /\ decisions' = [decisions EXCEPT ![i] = "decided"]
  /\ installList' = IF installId = i /\ installSheet.data # Nothing /\ installSheet.data.case
                    THEN Reload(installList) ELSE installList
  /\ UNCHANGED <<installed, installFilter, installId, installSheet,
                 installActs>>

InstallListReplied(c) ==
  /\ c.request = Sent
  /\ \/ installList' = Replied(installList, c, installed) /\ UNCHANGED installActs
     \/ InstallAct /\ installList' = Broke(installList, c)
  /\ UNCHANGED <<installed, decisions, installFilter, installId,
                 installSheet>>

InstallReplied(c) ==
  /\ installId # 0 /\ c.request = Sent
  /\ \/ installSheet' = Replied(installSheet, c, installed[installId]) /\ UNCHANGED installActs
     \/ InstallAct /\ installSheet' = Broke(installSheet, c)
  /\ UNCHANGED <<installed, decisions, installListVars, installId>>

-----------------------------------------------------------------------------
(* InstallsPage.                                                           *)

\* Every five seconds; while nothing could be loaded, a quiet retry.
InstallListPoll ==
  /\ ~Loading(installList) /\ installList' = Reload(installList)
  /\ UNCHANGED <<installed, decisions, installFilter, installId,
                 installSheet, installActs>>

InstallListTaken(c) ==
  /\ c.request # Sent /\ installList' = Took(installList, c)
  /\ UNCHANGED <<installed, decisions, installFilter, installId, installSheet, installActs>>

SetInstallFilter(f) ==
  /\ f # installFilter /\ InstallAct
  /\ installFilter' = f
  /\ UNCHANGED <<installed, decisions, installList, installId, installSheet>>

\* From a row, from a link before the list is there, or with the sheet's arrows.
OpenInstall(i) ==
  /\ i # installId /\ i \in DOMAIN installed
  /\ installList.data # Nothing =>
       Contains(InstallRows(installList.data, installFilter), i)
  /\ installId' = i /\ installSheet' = NewLoad
  /\ UNCHANGED <<installed, decisions, installList, installFilter, installActs>>

CloseInstall ==
  /\ installId # 0 /\ InstallAct /\ installId' = 0 /\ installSheet' = NewLoad
  /\ UNCHANGED <<installed, decisions, installListVars>>

-----------------------------------------------------------------------------
(* InstallSheet.                                                           *)

\* Mutant: the static scan is not waited for.
MutSheetRuns == installSheet.data # Nothing /\ installSheet.data.status = "running"
SheetRuns == installSheet.data # Nothing /\ isRunning(installSheet.data)

\* tick: every two seconds while something runs.
SheetTick ==
  /\ installId # 0 /\ SheetRuns /\ ~Loading(installSheet)
  /\ installSheet' = Reload(installSheet)
  /\ UNCHANGED <<installed, decisions, installListVars, installId, installActs>>

\* A case that the session did not show before makes the list reload.
InstallTaken(c) ==
  /\ installId # 0 /\ c.request # Sent /\ installSheet' = Took(installSheet, c)
  /\ LET had == installSheet.data # Nothing /\ installSheet.data.case
         has == installSheet'.data # Nothing /\ installSheet'.data.case
     IN installList' = IF has /\ ~had THEN Reload(installList) ELSE installList
  /\ UNCHANGED <<installed, decisions, installFilter, installId,
                 installActs>>

-----------------------------------------------------------------------------
InstallsNext ==
  \/ InstallStarts \/ InstallListPoll \/ CloseInstall \/ SheetTick
  \/ \E i \in DOMAIN installed : InstallMoves(i)
  \/ \E i \in InstallIds : CaseIsDecided(i) \/ OpenInstall(i)
  \/ \E c \in installList.calls : InstallListReplied(c) \/ InstallListTaken(c)
  \/ \E c \in installSheet.calls : InstallReplied(c) \/ InstallTaken(c)
  \/ \E f \in {"pending", "all", "warned"} : SetInstallFilter(f)

\* The timer runs, the server answers, and the browser takes what came.
InstallsFairness ==
  /\ WF_installsVars(SheetTick)
  /\ WF_installsVars(\E c \in installSheet.calls : c.live /\ (InstallReplied(c) \/ InstallTaken(c)))

InstallsSpec == InstallsInit /\ [][InstallsNext]_installsVars /\ InstallsFairness
-----------------------------------------------------------------------------
\* Every variable keeps its kind of value.
InstallsTypeOK ==
  /\ installed \in Seq(InstallRecord) /\ Len(installed) <= MaxInstall
  /\ installSheet \in Loads(InstallRecord)
  /\ installId \in 0 .. Len(installed)
  /\ installsShown \in {"error", "skeleton", "firstUse", "noMatch", "table"}
  /\ installSheet.data # Nothing => mismatchNote(installSheet.data) \in {"runtime", "static", ""}

\* A sheet that shows something running goes on to show it settled, also where
\* the static scan takes longer than the installation and requests fail, unless
\* a scan starts again.
InstallSheetSettles ==
  \A i \in InstallIds :
    installId = i /\ sheetShown = "running" /\ ~isRunning(installed[i]) ~>
      installId # i \/ sheetShown = "settled" \/ isRunning(installed[i])
=============================================================================
