-------------------------------- MODULE Audit --------------------------------
(***************************************************************************)
(* The list of the audit page (Violations of AuditPage.tsx): filters,      *)
(* pages and page sizes, asked for by offset, or from a server of before   *)
(* by the last id of the page before (a cursor).                           *)
(*                                                                         *)
(* Every change of the request asks anew while older requests are still    *)
(* under way; the server's log grows meanwhile.  Entries are their ids;    *)
(* the newest is listed first.  Sorting inside a page is left out.         *)
(***************************************************************************)
EXTENDS Naturals, Sequences, SequencesExt, FiniteSets, Requests, Cursors

CONSTANTS
  AuditFilters,  \* the settings of the filter bar
  NoFilter,      \* all of them empty
  Matching,      \* Matching[f]: the entries the server returns for f
  PageSizes,     \* PAGE_SIZES
  MaxLog,        \* bound: entries in the log
  MaxAuditAsks,  \* bound: requests under way
  MaxAuditFailures \* bound: requests that fail

ASSUME AuditAssumption ==
  /\ NoFilter \in AuditFilters
  /\ Matching \in [AuditFilters -> SUBSET (1 .. MaxLog)]
  /\ PageSizes \subseteq Nat \ {0} /\ PageSizes # {}
  /\ MaxLog \in Nat /\ MaxAuditAsks \in Nat /\ MaxAuditFailures \in Nat

VARIABLES
  log,         \* server: entries so far
  olderServer, \* server: answers with a plain array
  req,         \* filters, page and size asked for
  timer,       \* run(req) is due
  asks,        \* requests under way; the current one is seq.current's
  got,         \* the page shown, NoPage before the first
  listError,
  legacy,      \* the server was seen to be an older one
  cursors,     \* cursors[p]: last id of page p as it was shown
  auditFailures

auditListVars == <<req, timer, asks, got, listError, legacy, cursors>>
auditVars == <<log, olderServer, auditListVars, auditFailures>>

\* Nothing was shown yet.
NoPage == [rows |-> <<>>, filters |-> NoFilter, page |-> 0, size |-> 1, hasNext |-> FALSE,
           total |-> Nothing]

MaxOf(a, b) == IF a > b THEN a ELSE b

Ask(r, from) == [req |-> r, before |-> from, current |-> TRUE, request |-> Sent]
loading == \E a \in asks : a.current
failing == listError /\ got = NoPage

-----------------------------------------------------------------------------
AuditInit ==
  /\ log \in 0 .. MaxLog /\ olderServer \in BOOLEAN
  /\ req = [filters |-> NoFilter, page |-> 1, size |-> CHOOSE s \in PageSizes : TRUE]
  /\ timer = TRUE /\ asks = {} /\ got = NoPage /\ listError = FALSE
  /\ legacy = FALSE /\ cursors = <<>> /\ auditFailures = 0

Recorded ==
  /\ log < MaxLog /\ log' = log + 1
  /\ UNCHANGED <<olderServer, auditListVars, auditFailures>>

\* GET /api/audit: by cursor, by offset; an older server knows no offset.
AuditAnswered(a) ==
  LET all == Listed(Matching[a.req.filters], log)
      from == IF a.before # Nothing THEN Before(all, a.before)
              ELSE IF olderServer THEN all
              ELSE SubSeq(all, (a.req.page - 1) * a.req.size + 1, Len(all))
  IN /\ a.request = Sent
     /\ asks' = (asks \ {a}) \cup
          {[a EXCEPT !.request = Answer([rows |-> Upto(from, a.req.size), total |-> Len(all)])]}
     /\ UNCHANGED <<log, olderServer, req, timer, got, listError, legacy, cursors,
                    auditFailures>>

AuditFails(a) ==
  /\ a.request = Sent /\ auditFailures < MaxAuditFailures
  /\ auditFailures' = auditFailures + 1
  /\ asks' = (asks \ {a}) \cup {[a EXCEPT !.request = Failed]}
  /\ UNCHANGED <<log, olderServer, req, timer, got, listError, legacy, cursors>>

-----------------------------------------------------------------------------
(* run(r): ++seq, so that only its answer counts.                          *)

\* Mutant: an older request still counts.
Mutrun(r) ==
  /\ Cardinality(asks) < MaxAuditAsks
  /\ asks' = asks \cup {Ask(r, IF legacy /\ r.page > 1 THEN cursors[r.page - 1] ELSE Nothing)}
run(r) ==
  /\ Cardinality(asks) < MaxAuditAsks
  /\ asks' = {[a EXCEPT !.current = FALSE] : a \in asks} \cup
       {Ask(r, IF legacy /\ r.page > 1 THEN cursors[r.page - 1] ELSE Nothing)}

TimerRuns ==
  /\ timer /\ timer' = FALSE
  /\ run(req)
  /\ UNCHANGED <<log, olderServer, req, got, listError, legacy, cursors, auditFailures>>

\* "Retry", and every 30 s while nothing could be shown.
RetryList ==
  /\ failing /\ ~loading
  /\ run(req)
  /\ UNCHANGED <<log, olderServer, req, timer, got, listError, legacy, cursors,
                 auditFailures>>

hasNext(a, old) ==
  LET d == a.request.data
  IN IF old THEN Len(d.rows) = a.req.size
     ELSE (a.req.page - 1) * a.req.size + Len(d.rows) < d.total

AuditTaken(a) ==
  /\ a.request # Sent /\ asks' = asks \ {a}
  /\ \/ /\ a.current /\ a.request.at = "answered"
        /\ legacy' = (legacy \/ olderServer)
        /\ LET rows == a.request.data.rows
           IN /\ cursors' = IF rows = <<>> THEN cursors
                            ELSE [p \in 1 .. MaxOf(a.req.page, Len(cursors)) |->
                                    IF p = a.req.page THEN Last(rows) ELSE
                                    IF p <= Len(cursors) THEN cursors[p] ELSE Nothing]
              /\ got' = [rows |-> rows, filters |-> a.req.filters, page |-> a.req.page,
                         size |-> a.req.size, hasNext |-> hasNext(a, olderServer),
                         total |-> IF olderServer THEN Nothing ELSE a.request.data.total]
        /\ listError' = FALSE
     \/ /\ a.current /\ a.request = Failed
        /\ listError' = TRUE /\ UNCHANGED <<got, legacy, cursors>>
     \/ ~a.current /\ UNCHANGED <<got, listError, legacy, cursors>>
  /\ UNCHANGED <<log, olderServer, req, timer, auditFailures>>

-----------------------------------------------------------------------------
(* The user; a page is chosen from the pager of the page shown.            *)

SetReq(r) ==
  /\ r # req /\ req' = r /\ timer' = TRUE
  /\ UNCHANGED <<log, olderServer, asks, got, listError, legacy, cursors, auditFailures>>

\* The filters changed: the first page of them.
SetFilters(f) == SetReq([filters |-> f, page |-> 1, size |-> req.size])
SetSize(s) == got # NoPage /\ SetReq([filters |-> req.filters, page |-> 1, size |-> s])

Pages == MaxOf(1, (got.total + got.size - 1) \div got.size)

\* pageNums: the first, the last, and those around the one shown.
pageNums ==
  IF got.total = Nothing
  THEN (IF got.page > 1 THEN {got.page - 1} ELSE {}) \cup
       (IF got.hasNext THEN {got.page + 1} ELSE {})
  ELSE {1, got.page - 1, got.page, got.page + 1, Pages} \cap 1 .. Pages

GoToPage(p) == got # NoPage /\ p \in pageNums /\ SetReq([req EXCEPT !.page = p])

\* The other view takes the list down, and it starts anew; its filters stay.
LeaveAndReturn ==
  /\ timer' = TRUE /\ asks' = {} /\ got' = NoPage /\ listError' = FALSE
  /\ legacy' = FALSE /\ cursors' = <<>>
  /\ req' = [filters |-> req.filters, page |-> 1, size |-> CHOOSE s \in PageSizes : TRUE]
  /\ UNCHANGED <<log, olderServer, auditFailures>>

-----------------------------------------------------------------------------
AuditNext ==
  \/ Recorded \/ TimerRuns \/ RetryList \/ LeaveAndReturn
  \/ \E a \in asks : AuditAnswered(a) \/ AuditFails(a) \/ AuditTaken(a)
  \/ \E f \in AuditFilters : SetFilters(f)
  \/ \E s \in PageSizes : SetSize(s)
  \/ \E p \in 1 .. MaxLog : GoToPage(p)

AuditSpec == AuditInit /\ [][AuditNext]_auditVars
-----------------------------------------------------------------------------
\* Every variable keeps its kind of value.
AuditTypeOK ==
  /\ log \in 0 .. MaxLog
  /\ req.filters \in AuditFilters /\ req.page \in 1 .. MaxLog + 1 /\ req.size \in PageSizes
  /\ got # NoPage => Len(got.rows) <= got.size
  /\ cursors \in Seq(1 .. MaxLog \cup {Nothing})

\* Once nothing is under way, the page on the screen is the one the filter bar
\* and the pager say, whatever order the answers of older requests came in.
ListIsTheOneAskedFor ==
  ~timer /\ ~loading /\ ~listError =>
    /\ got # NoPage
    /\ [filters |-> got.filters, page |-> got.page, size |-> got.size] = req
=============================================================================
