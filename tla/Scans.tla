-------------------------------- MODULE Scans --------------------------------
(***************************************************************************)
(* The supply chain page (ScansPage): the list that is polled, filtered    *)
(* and shown in pages (useTableKit), the sheet of one scan, the form that  *)
(* starts one, and the packages picked for the block list.                 *)
(*                                                                         *)
(* A scan is its state; a later one has the greater number and is listed   *)
(* first.  The polls are taken to be further apart than an answer takes:   *)
(* useLoad drops the call before at every poll, and a slower server would  *)
(* never be shown.                                                         *)
(***************************************************************************)
EXTENDS Naturals, Sequences, SequencesExt, FiniteSets, Lists, Requests, TableKit

CONSTANTS
  MaxScan,      \* bound: scans
  MaxScanActs   \* bound: what the user does, failed requests, scans dropped

ASSUME ScansAssumption == MaxScan \in Nat \ {0} /\ MaxScanActs \in Nat

ScanIds == 1 .. MaxScan
ScanTables == [ScanIds -> {"none", "running", "clean", "malicious"}]

VARIABLES
  scans,        \* server
  blockedPkgs,  \* server: the package of the scan is on the block list
  scanList,     \* useLoad of the list
  scanFilter,   \* the verdict filter, "" for all
  kitPage,      \* page of the table kit
  selId,        \* the scan of the sheet, 0 for none
  revealed,     \* the page of the selected row was looked for
  sheet,        \* useLoad of the sheet
  sheetDone,    \* "done" as the sheet's effect saw it last
  sawRunning,   \* history: since it was opened the list had the sheet's scan as running
  pkg,          \* ScanPackages: picked, dialog open, request
  startReq,     \* ScanForm
  scanActs      \* history: for the bound

listPart == <<scanList, scanFilter, kitPage, selId, revealed>>
sheetPart == <<sheet, sheetDone, sawRunning>>
scansVars == <<scans, blockedPkgs, listPart, sheetPart, pkg, startReq, scanActs>>

ScanAct == scanActs < MaxScanActs /\ scanActs' = scanActs + 1
NoPkg == [known |-> Nothing, picked |-> FALSE, ask |-> FALSE]

\* The rows of a list, newest first, that the filter lets through.
Rows(data, f) ==
  Filtered([i \in 1 .. MaxScan |-> MaxScan + 1 - i],
           {s \in ScanIds : data[s] # "none" /\ (f = "" \/ data[s] = f)})

scanFailing == scanList.failed /\ scanList.data = Nothing
scanRows == IF scanList.data = Nothing THEN <<>> ELSE Rows(scanList.data, scanFilter)

\* What is drawn in place of the list.
scansShown ==
  IF scanFailing THEN "error"
  ELSE IF scanList.data = Nothing THEN "skeleton"
  ELSE IF Rows(scanList.data, "") = <<>> THEN "empty"
  ELSE IF scanRows = <<>> THEN "noMatch" ELSE "table"

\* The page's word on the sheet's scan: done unless the list says it runs.
IsDone(data, s) == data = Nothing \/ data[s] # "running"

-----------------------------------------------------------------------------
\* The scans there are; the page is opened as such or by a link to a finished one.
FirstScans ==
  {[s \in ScanIds |-> IF s = 1 THEN "running" ELSE "none"],
   [s \in ScanIds |-> IF s = 1 THEN "malicious" ELSE "clean"]}

ScansInit ==
  /\ scans \in FirstScans /\ blockedPkgs = FALSE
  /\ scanList = NewLoad /\ scanFilter = "" /\ kitPage = 1
  /\ selId \in {0} \cup {s \in {1} : scans[s] = "malicious"}
  /\ sheet = IF selId = 0 THEN NewLoad ELSE Reload(NewLoad)
  /\ revealed = FALSE /\ sheetDone = (selId # 0) /\ sawRunning = FALSE
  /\ pkg = NoPkg /\ startReq = Idle /\ scanActs = 0

-----------------------------------------------------------------------------
(* The server.                                                             *)

ScanEnds(s) ==
  /\ scans[s] = "running"
  /\ \E v \in {"clean", "malicious"} : scans' = [scans EXCEPT ![s] = v]
  /\ UNCHANGED <<blockedPkgs, listPart, sheetPart, pkg, startReq, scanActs>>

\* Somebody else starts a scan, or an old one is dropped.
ScansChange(s) ==
  /\ ScanAct
  /\ \/ /\ scans[s] = "none" /\ \A t \in 1 .. s - 1 : scans[t] # "none"
        /\ scans' = [scans EXCEPT ![s] = "running"]
     \/ scans[s] \in {"clean", "malicious"} /\ scans' = [scans EXCEPT ![s] = "none"]
  /\ UNCHANGED <<blockedPkgs, listPart, sheetPart, pkg, startReq>>

ListReplied(c) ==
  /\ c.request = Sent
  /\ \/ scanList' = Replied(scanList, c, scans) /\ UNCHANGED scanActs
     \/ ScanAct /\ scanList' = Broke(scanList, c)
  /\ UNCHANGED <<scans, blockedPkgs, scanFilter, kitPage, selId, revealed, sheetPart, pkg,
                 startReq>>

SheetReplied(c) ==
  /\ selId # 0 /\ c.request = Sent
  /\ \/ /\ scans[selId] # "none" /\ sheet' = Replied(sheet, c, scans[selId])
        /\ UNCHANGED scanActs
     \/ /\ scans[selId] = "none" /\ sheet' = Broke(sheet, c) /\ UNCHANGED scanActs
     \/ ScanAct /\ sheet' = Broke(sheet, c)
  /\ UNCHANGED <<scans, blockedPkgs, listPart, sheetDone, sawRunning, pkg, startReq>>

StartAnswered ==
  /\ startReq = Sent
  /\ \/ \E s \in ScanIds :
          /\ scans[s] = "none" /\ \A t \in 1 .. s - 1 : scans[t] # "none"
          /\ scans' = [scans EXCEPT ![s] = "running"] /\ startReq' = Answer(s)
     \/ startReq' = Failed /\ UNCHANGED scans
  /\ UNCHANGED <<blockedPkgs, listPart, sheetPart, pkg, scanActs>>

-----------------------------------------------------------------------------
(* The list.                                                               *)

\* poll, and the quiet retry while nothing could be shown.
ScanPoll ==
  /\ ~Loading(scanList)
  /\ scanList' = Reload(scanList)
  /\ UNCHANGED <<scans, blockedPkgs, scanFilter, kitPage, selId, revealed, sheetPart, pkg,
                 startReq, scanActs>>

\* Mutant: the sheet is not asked for again when its scan is done.
MutSheetHears(data) ==
  LET done == IsDone(data, selId)
  IN /\ sheetDone' = done /\ sawRunning' = (sawRunning \/ ~done) /\ UNCHANGED sheet

\* The effect of the sheet on [done]: when it becomes true it asks again.
SheetHears(data) ==
  LET done == IsDone(data, selId)
  IN /\ sheetDone' = done /\ sawRunning' = (sawRunning \/ ~done)
     /\ sheet' = IF done /\ ~sheetDone THEN Reload(sheet) ELSE sheet

\* The first list a link's row is looked for in sets the page, once.
ListTaken(c) ==
  /\ c.request # Sent /\ scanList' = Took(scanList, c)
  /\ LET data == scanList'.data
     IN /\ IF selId # 0 THEN SheetHears(data) ELSE UNCHANGED sheetPart
        /\ IF ~revealed /\ selId # 0 /\ data # Nothing
           THEN /\ revealed' = TRUE
                /\ kitPage' = PageOf(Rows(data, scanFilter), selId, kitPage)
           ELSE UNCHANGED <<revealed, kitPage>>
  /\ UNCHANGED <<scans, blockedPkgs, scanFilter, selId, pkg, startReq, scanActs>>

SetFilter(f) ==
  /\ f # scanFilter /\ ScanAct
  /\ scanFilter' = f /\ kitPage' = 1
  /\ UNCHANGED <<scans, blockedPkgs, scanList, selId, revealed, sheetPart, pkg, startReq>>

SetPage(p) ==
  /\ scansShown = "table" /\ p \in 1 .. PageCount(Len(scanRows)) /\ p # kitPage
  /\ ScanAct /\ kitPage' = p
  /\ UNCHANGED <<scans, blockedPkgs, scanList, scanFilter, selId, revealed, sheetPart, pkg,
                 startReq>>

-----------------------------------------------------------------------------
(* The sheet: one mounted for each scan (key), asking at once, and a       *)
(* second time where the scan counts as done.                              *)

OpenSheet(s) ==
  LET done == IsDone(scanList.data, s)
  IN /\ selId' = s /\ sheetDone' = done /\ sawRunning' = ~done
     /\ sheet' = IF done THEN Reload(NewLoad) ELSE NewLoad
     /\ pkg' = NoPkg

\* From a row or from a link; a row on the screen counts as revealed.
SelectScan(s) ==
  /\ s # selId /\ scans[s] # "none" /\ ScanAct
  /\ scanList.data # Nothing => Contains(ViewRows(scanRows, kitPage), s)
  /\ OpenSheet(s)
  /\ revealed' = (revealed \/ scanList.data # Nothing)
  /\ UNCHANGED <<scans, blockedPkgs, scanList, scanFilter, kitPage, startReq>>

Close == selId' = 0 /\ sheet' = NewLoad /\ sheetDone' = FALSE /\ sawRunning' = FALSE /\ pkg' = NoPkg

CloseSheet ==
  /\ selId # 0 /\ Close
  /\ UNCHANGED <<scans, blockedPkgs, scanList, scanFilter, kitPage, revealed, startReq, scanActs>>

SheetTaken(c) ==
  /\ selId # 0 /\ c.request # Sent /\ sheet' = Took(sheet, c)
  /\ UNCHANGED <<scans, blockedPkgs, listPart, sheetDone, sawRunning, pkg, startReq, scanActs>>

-----------------------------------------------------------------------------
(* ScanForm: a wrong address, no file or one too large is refused before   *)
(* it is sent; a scan that starts closes the sheet.                        *)

Start ==
  /\ startReq = Idle /\ ScanAct /\ startReq' = Sent
  /\ UNCHANGED <<scans, blockedPkgs, listPart, sheetPart, pkg>>

StartTaken ==
  /\ startReq.at \in {"answered", "failed"} /\ startReq' = Idle
  /\ IF startReq.at = "answered"
     THEN Close /\ scanList' = Reload(scanList)
     ELSE UNCHANGED <<sheetPart, pkg, selId, scanList>>
  /\ UNCHANGED <<scans, blockedPkgs, scanFilter, kitPage, revealed, scanActs>>

-----------------------------------------------------------------------------
(* ScanPackages, of a scan that is done: one package stands for all.       *)

pkgShown == selId # 0 /\ sheet.data \in {"clean", "malicious"}
canPick == pkg.known # TRUE
selected == pkg.picked /\ canPick

PkgBlocklistTaken ==
  /\ pkgShown /\ pkg.known = Nothing /\ pkg' = [pkg EXCEPT !.known = blockedPkgs]
  /\ UNCHANGED <<scans, blockedPkgs, listPart, sheetPart, startReq, scanActs>>

PickPackage ==
  /\ pkgShown /\ canPick /\ pkg' = [pkg EXCEPT !.picked = ~@]
  /\ UNCHANGED <<scans, blockedPkgs, listPart, sheetPart, startReq, scanActs>>

AskBlock ==
  /\ pkgShown /\ selected /\ pkg' = [pkg EXCEPT !.ask = ~@]
  /\ UNCHANGED <<scans, blockedPkgs, listPart, sheetPart, startReq, scanActs>>

\* The answer leads to the policies page: this one is gone.
BlockConfirmed ==
  /\ pkgShown /\ pkg.ask /\ ScanAct
  /\ blockedPkgs' = (blockedPkgs \/ selected)
  /\ scanFilter' = "" /\ kitPage' = 1 /\ revealed' = FALSE
  /\ scanList' = NewLoad /\ Close
  /\ UNCHANGED <<scans, startReq>>

-----------------------------------------------------------------------------
ScansNext ==
  \/ \E s \in ScanIds : ScanEnds(s) \/ ScansChange(s) \/ SelectScan(s) \/ SetPage(s)
  \/ \E c \in scanList.calls : ListReplied(c) \/ ListTaken(c)
  \/ \E c \in sheet.calls : SheetReplied(c) \/ SheetTaken(c)
  \/ \E f \in {"", "clean", "malicious"} : SetFilter(f)
  \/ ScanPoll \/ CloseSheet \/ Start \/ StartAnswered \/ StartTaken
  \/ PkgBlocklistTaken \/ PickPackage \/ AskBlock \/ BlockConfirmed

\* The timer runs, the server answers, and the browser takes what came.
ScansFairness ==
  /\ WF_scansVars(ScanPoll)
  /\ WF_scansVars(\E c \in scanList.calls : c.live /\ (ListReplied(c) \/ ListTaken(c)))
  /\ WF_scansVars(\E c \in sheet.calls : c.live /\ (SheetReplied(c) \/ SheetTaken(c)))

ScansSpec == ScansInit /\ [][ScansNext]_scansVars /\ ScansFairness
-----------------------------------------------------------------------------
\* Every variable keeps its kind of value.
ScansTypeOK ==
  /\ scans \in ScanTables /\ scanList \in Loads(ScanTables)
  /\ sheet \in Loads({"running", "clean", "malicious"})
  /\ selId \in 0 .. MaxScan /\ kitPage \in 1 .. MaxScan + 1
  /\ startReq \in Requests(ScanIds)

\* A sheet that was open while the list said its scan runs gets to show the
\* result: the list's poll tells it.  (A failed request is not made again.)
SheetCatchesUp ==
  \A s \in ScanIds :
    selId = s /\ sawRunning /\ scans[s] \in {"clean", "malicious"} ~>
      selId # s \/ scans[s] = "none" \/ sheet.data = scans[s] \/ sheet.failed
=============================================================================
