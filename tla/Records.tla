------------------------------- MODULE Records -------------------------------
(***************************************************************************)
(* Records of the server read page by page: the sign-in log of the         *)
(* settings page with its "more" button (AuthAuditRows), the CSV export    *)
(* and the sheet of one record of the audit page (ExportCsv,               *)
(* AuditSheetLoader), and the history of changes beside them (History).    *)
(*                                                                         *)
(* One log stands for both logs; it grows while it is read.                *)
(***************************************************************************)
EXTENDS Naturals, Sequences, SequencesExt, Requests, Cursors

CONSTANTS
  EntryFilters,
  EntryMatching, \* EntryMatching[f]: the entries the server returns for f
  MaxEntries,    \* bound: entries of the log
  PageLimit,     \* AUDIT_PAGE, CSV_PAGE
  CsvMax,        \* CSV_MAX
  MaxRecordActs  \* bound: what the user does, failed requests

ASSUME RecordsAssumption ==
  /\ EntryMatching \in [EntryFilters -> SUBSET (1 .. MaxEntries)]
  /\ MaxEntries \in Nat /\ PageLimit \in Nat \ {0} /\ CsvMax \in Nat \ {0}
  /\ MaxRecordActs \in Nat /\ Nothing \notin Nat

VARIABLES
  entries,     \* server: how many there are
  authFilter,  \* action and "failures only" of the sign-in log
  authRows,    \* the mounted AuthAuditRows
  more,        \* its request for more rows
  csv,         \* the run of ExportCsv, Nothing without one
  file,        \* what was downloaded last, with its filter
  record,      \* the sheet: the id it is for, and what it loaded
  changesLoad, \* useLoad of History
  recordActs   \* history: for the bound

authPart == <<authFilter, authRows, more>>
csvPart == <<csv, file>>
recordsVars == <<entries, authPart, csvPart, record, changesLoad, recordActs>>

RecordAct == recordActs < MaxRecordActs /\ recordActs' = recordActs + 1

\* Before the first answer; asOf: history, how long the log was then.
NoRows == [data |-> Nothing, extra |-> <<>>, end |-> FALSE, failed |-> FALSE, asOf |-> 0]
allRows == authRows.data \o authRows.extra
hasMore == ~authRows.end /\ Len(authRows.data) >= PageLimit

\* A page of the log as it is now.
PageAfter(f, before) ==
  LET all == Listed(EntryMatching[f], entries)
  IN Upto(IF before = Nothing THEN all ELSE Before(all, before), PageLimit)

\* What History draws.
historyShown ==
  IF changesLoad.data = Nothing THEN (IF changesLoad.failed THEN "error" ELSE "skeleton")
  ELSE IF changesLoad.data = <<>> THEN "empty" ELSE "table"

-----------------------------------------------------------------------------
RecordsInit ==
  /\ entries \in 0 .. MaxEntries
  /\ authFilter \in EntryFilters /\ authRows = NoRows /\ more = Idle
  /\ csv = Nothing /\ file = Nothing
  /\ record = [id |-> 0, found |-> Nothing] /\ changesLoad = NewLoad
  /\ recordActs = 0

EntryRecorded ==
  /\ entries < MaxEntries /\ entries' = entries + 1
  /\ UNCHANGED <<authPart, csvPart, record, changesLoad, recordActs>>

-----------------------------------------------------------------------------
(* AuthAuditRows, mounted anew for each filter.                            *)

\* Mutant: the rows are not mounted anew for another filter (no key).
MutSetAuthFilter(f) ==
  /\ f # authFilter /\ RecordAct
  /\ authFilter' = f
  /\ UNCHANGED <<authRows, more, entries, csvPart, record, changesLoad>>

SetAuthFilter(f) ==
  /\ f # authFilter /\ RecordAct
  /\ authFilter' = f /\ authRows' = NoRows /\ more' = Idle
  /\ UNCHANGED <<entries, csvPart, record, changesLoad>>

\* The first page is asked for once; a failure is shown and stays.
AuthRowsLoaded ==
  /\ authRows.data = Nothing /\ ~authRows.failed
  /\ \/ /\ authRows' = [authRows EXCEPT !.data = PageAfter(authFilter, Nothing),
                                        !.asOf = entries]
        /\ UNCHANGED recordActs
     \/ RecordAct /\ authRows' = [authRows EXCEPT !.failed = TRUE]
  /\ UNCHANGED <<entries, authFilter, more, csvPart, record, changesLoad>>

AskMore ==
  /\ authRows.data # Nothing /\ hasMore /\ more = Idle
  /\ more' = Sent
  /\ UNCHANGED <<entries, authFilter, authRows, csvPart, record, changesLoad, recordActs>>

MoreAnswered ==
  /\ more = Sent
  /\ \/ more' = Answer(PageAfter(authFilter, Last(allRows))) /\ UNCHANGED recordActs
     \/ RecordAct /\ more' = Failed
  /\ UNCHANGED <<entries, authFilter, authRows, csvPart, record, changesLoad>>

\* A short page is the end.
MoreTaken ==
  /\ more.at \in {"answered", "failed"} /\ more' = Idle
  /\ authRows' = IF more = Failed THEN authRows
                 ELSE [authRows EXCEPT !.extra = @ \o more.data,
                                       !.end = @ \/ Len(more.data) < PageLimit]
  /\ UNCHANGED <<entries, authFilter, csvPart, record, changesLoad, recordActs>>

-----------------------------------------------------------------------------
(* ExportCsv: reads pages until one is short or the maximum is reached.    *)

Export(f) ==
  /\ csv = Nothing /\ RecordAct
  /\ csv' = [filter |-> f, all |-> <<>>, asOf |-> Nothing]
  /\ UNCHANGED <<entries, authPart, file, record, changesLoad>>

\* Mutant: a full page counts as short.
MutShortPage(page) == Len(page) <= PageLimit
ShortPage(page) == Len(page) < PageLimit

ExportPage ==
  /\ csv # Nothing
  /\ LET page == PageAfter(csv.filter, IF csv.all = <<>> THEN Nothing ELSE Last(csv.all))
         all == csv.all \o page
         asOf == IF csv.asOf = Nothing THEN entries ELSE csv.asOf
     IN IF ShortPage(page) \/ Len(all) >= CsvMax
        THEN /\ file' = [filter |-> csv.filter, rows |-> Upto(all, CsvMax), asOf |-> asOf]
             /\ csv' = Nothing
        ELSE csv' = [csv EXCEPT !.all = all, !.asOf = asOf] /\ UNCHANGED file
  /\ UNCHANGED <<entries, authPart, record, changesLoad, recordActs>>

\* A page that fails ends the export without a file.
ExportFails ==
  /\ csv # Nothing /\ csv' = Nothing
  /\ UNCHANGED <<entries, authPart, file, record, changesLoad, recordActs>>

-----------------------------------------------------------------------------
(* AuditSheetLoader: a row of the list, or the one entry before id + 1.    *)

OpenRecord(id) ==
  /\ id # record.id /\ RecordAct
  /\ record' = [id |-> id, found |-> Nothing]
  /\ UNCHANGED <<entries, authPart, csvPart, changesLoad>>

RecordTaken ==
  /\ record.id # 0 /\ record.found = Nothing
  /\ LET page == Upto(Before(Listed(1 .. MaxEntries, entries), record.id + 1), 1)
     IN record' = [record EXCEPT !.found = Contains(page, record.id)]
  /\ UNCHANGED <<entries, authPart, csvPart, changesLoad, recordActs>>

-----------------------------------------------------------------------------
(* History: the changes are loaded once, and again every 30 s while there  *)
(* is nothing to show.                                                     *)

ChangesReplied(c) ==
  /\ c.request = Sent
  /\ \/ \E d \in {<<>>, <<1>>} : changesLoad' = Replied(changesLoad, c, d) /\ UNCHANGED recordActs
     \/ RecordAct /\ changesLoad' = Broke(changesLoad, c)
  /\ UNCHANGED <<entries, authPart, csvPart, record>>

ChangesTaken(c) ==
  /\ c.request # Sent /\ changesLoad' = Took(changesLoad, c)
  /\ UNCHANGED <<entries, authPart, csvPart, record, recordActs>>

RetryChanges ==
  /\ historyShown = "error" /\ ~Loading(changesLoad)
  /\ changesLoad' = Reload(changesLoad)
  /\ UNCHANGED <<entries, authPart, csvPart, record, recordActs>>

-----------------------------------------------------------------------------
RecordsNext ==
  \/ EntryRecorded \/ AuthRowsLoaded \/ AskMore \/ MoreAnswered \/ MoreTaken
  \/ \E f \in EntryFilters : SetAuthFilter(f) \/ Export(f)
  \/ ExportPage \/ ExportFails \/ RecordTaken
  \/ \E id \in 1 .. MaxEntries : OpenRecord(id)
  \/ \E c \in changesLoad.calls : ChangesReplied(c) \/ ChangesTaken(c)
  \/ RetryChanges

RecordsSpec == RecordsInit /\ [][RecordsNext]_recordsVars
-----------------------------------------------------------------------------
\* Every variable keeps its kind of value.
RecordsTypeOK ==
  /\ entries \in 0 .. MaxEntries /\ authFilter \in EntryFilters
  /\ authRows.data # Nothing => Len(authRows.data) <= PageLimit
  /\ more \in Requests(Seq(1 .. MaxEntries))
  /\ record.id \in 0 .. MaxEntries /\ changesLoad \in Loads({<<>>, <<1>>})

\* The sign-in log shows the entries of its filter without a hole or a double,
\* though new ones arrive between the pages, and "more" is gone only at the end.
ListLeavesNoHole ==
  authRows.data # Nothing =>
    LET all == Listed(EntryMatching[authFilter], authRows.asOf)
    IN allRows = Upto(all, Len(allRows)) /\ (~hasMore => allRows = all)

\* The file holds the newest entries of its filter as of its first page, all of
\* them up to the maximum.
FileIsExact ==
  file # Nothing =>
    file.rows = Upto(Listed(EntryMatching[file.filter], file.asOf), CsvMax)
=============================================================================
