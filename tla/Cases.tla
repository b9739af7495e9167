-------------------------------- MODULE Cases --------------------------------
(***************************************************************************)
(* The console's one list of cases (CasesProvider), the decision box on a  *)
(* case (DecisionBox) and the bell of the shell (NoticeCenter).            *)
(*                                                                         *)
(* The list is what GET /api/cases said last, with the pushed cases and    *)
(* the answers to own decisions put over it.  Another administrator works  *)
(* on the same cases.  A case is its number, in the order of openedAt,     *)
(* and its state; "decided" stands for closed cases too.  The bell's other *)
(* notices and the draft proposals it reads are left out.                  *)
(***************************************************************************)
EXTENDS Naturals, Sequences, FiniteSets, Requests

CONSTANTS
  CaseIds,
  BoxCases,     \* those whose decision box is opened
  MaxPushed,    \* bound: messages on the wire
  MaxDecides,   \* bound: decisions sent from this console
  MaxTries      \* bound: broken feeds, failed requests and new page loads

ASSUME CasesAssumption ==
  /\ CaseIds \subseteq Nat /\ BoxCases \subseteq CaseIds /\ \A S \in SUBSET CaseIds : S # Nothing
  /\ {MaxPushed, MaxDecides, MaxTries} \subseteq Nat

VARIABLES
  stored,       \* server: the state of each case
  feedUp,       \* connected
  pushed,       \* {type: "case"} messages on the wire
  cases,        \* the list, Nothing before the first answer
  casesError,
  casesGet,     \* the request of the effect that is live
  casesDue,     \* "connected" or the nonce changed, the effect has not run yet
  box,          \* the case of the decision box on the screen
  ask,          \* its confirmation is open
  decides,      \* the decisions sent
  readPending,  \* the open cases of the list when the bell was read
  tries,        \* history: for the bounds
  everRead      \* history: cases that were open in a list marked as read

feedVars == <<feedUp, pushed>>
boxVars == <<box, ask, decides>>
bellVars == <<readPending, everRead>>
listOfCases == <<cases, casesError, casesGet, casesDue>>
casesVars == <<stored, feedVars, listOfCases, boxVars, bellVars, tries>>

CaseStates == {"none", "open", "decided"}
Tables == [CaseIds -> CaseStates]
Has(t, c) == t[c] # "none"
NoCases == [c \in CaseIds |-> "none"]
InOrder(t) == \A c, d \in CaseIds : c < d /\ Has(t, d) => Has(t, c)
Refused == [at |-> "conflict", data |-> Nothing]
Decide(r, c, h) == [request |-> r, case |-> c, held |-> h]
NoDecide == Decide(Idle, Nothing, FALSE)

Try == tries < MaxTries /\ tries' = tries + 1

openShown == {c \in CaseIds : cases # Nothing /\ cases[c] = "open"}
\* Mutant: a mark is compared by the number of cases.
MutbellDraws ==
  IF openShown = {} THEN "empty"
  ELSE IF readPending # Nothing /\ Cardinality(readPending) = Cardinality(openShown) THEN "read"
  ELSE "unread"
\* What the bell draws for the notice of the pending cases.
bellDraws == IF openShown = {} THEN "empty" ELSE IF readPending = openShown THEN "read" ELSE "unread"
busyBox == \E i \in DOMAIN decides : decides[i].held

-----------------------------------------------------------------------------
CasesInit ==
  /\ stored \in [CaseIds -> {"none", "open"}] /\ InOrder(stored)
  /\ feedUp = FALSE /\ pushed = <<>>
  /\ cases = Nothing /\ casesError = FALSE /\ casesGet = Sent /\ casesDue = FALSE
  /\ box = Nothing /\ ask = FALSE
  /\ decides = [i \in 1 .. MaxDecides |-> NoDecide]
  /\ readPending = Nothing /\ everRead = {}
  /\ tries = 0

-----------------------------------------------------------------------------
(* The server: every change of a case is pushed, to the sockets the hub    *)
(* knows by then and has room for.                                         *)

Push(c, st) ==
  pushed' \in {pushed} \cup (IF feedUp THEN {Append(pushed, [case |-> c, state |-> st])} ELSE {})

\* A new case, one that got another violation, or a decision of another
\* administrator.
CaseChanges(c, st) ==
  /\ <<stored[c], st>> \in {<<"none", "open">>, <<"open", "open">>,
                            <<"open", "decided">>}
  /\ Len(pushed) < MaxPushed
  /\ stored' = [stored EXCEPT ![c] = st] /\ InOrder(stored')
  /\ Push(c, st)
  /\ UNCHANGED <<feedUp, listOfCases, boxVars, bellVars, tries>>

CaseServerAnswers ==
  /\ casesGet.at = "sent" /\ casesGet' = Answer(stored)
  /\ UNCHANGED <<stored, feedVars, cases, casesError, casesDue, boxVars, bellVars, tries>>

CaseServerFails ==
  /\ Try
  /\ casesGet.at = "sent" /\ casesGet' = Failed
  /\ UNCHANGED <<stored, feedVars, cases, casesError, casesDue, boxVars, bellVars>>

\* 409 for a case that is not open any more.  A failed request may have been done.
ServerDecides(i) ==
  LET d == decides[i]
      get(r) == decides' = [decides EXCEPT ![i].request = r]
  IN /\ d.request = Sent /\ Len(pushed) < MaxPushed
     /\ \/ /\ stored[d.case] = "open"
           /\ stored' = [stored EXCEPT ![d.case] = "decided"]
           /\ Push(d.case, "decided")
           /\ \/ get(Answer("decided")) /\ UNCHANGED tries
              \/ get(Failed) /\ Try
        \/ /\ stored[d.case] # "open" /\ get(Refused)
           /\ UNCHANGED <<stored, pushed, tries>>
        \/ get(Failed) /\ Try /\ UNCHANGED <<stored, pushed>>
     /\ UNCHANGED <<feedUp, listOfCases, box, ask, bellVars>>

-----------------------------------------------------------------------------
(* CasesProvider.                                                          *)

upsert(c, st) == cases' = [(IF cases = Nothing THEN NoCases ELSE cases) EXCEPT ![c] = st]

FeedOpens ==
  /\ ~feedUp /\ feedUp' = TRUE /\ casesDue' = TRUE
  /\ UNCHANGED <<stored, pushed, cases, casesError, casesGet, boxVars, bellVars, tries>>

FeedBreaks ==
  /\ feedUp /\ Try
  /\ feedUp' = FALSE /\ pushed' = <<>> /\ casesDue' = TRUE
  /\ UNCHANGED <<stored, cases, casesError, casesGet, boxVars, bellVars>>

\* The effect of a changed "connected" and of reload() asks anew and drops the
\* request before.  It runs after the page was drawn: messages and the answer of
\* the request before may come first.
CasesAsked ==
  /\ casesDue /\ casesDue' = FALSE /\ casesGet' = Sent
  /\ UNCHANGED <<stored, feedVars, cases, casesError, boxVars, bellVars, tries>>

CasesTaken ==
  /\ casesGet.at \in {"answered", "failed"} /\ casesGet' = Idle
  /\ casesError' = (casesGet.at = "failed")
  /\ IF casesGet.at = "answered"
     THEN cases' = casesGet.data ELSE UNCHANGED cases
  /\ UNCHANGED <<stored, feedVars, casesDue, box, ask, decides, bellVars, tries>>

PushTaken ==
  /\ feedUp /\ pushed # <<>>
  /\ pushed' = Tail(pushed)
  /\ upsert(Head(pushed).case, Head(pushed).state)
  /\ UNCHANGED <<stored, feedUp, casesError, casesGet, casesDue, box, ask, decides,
                 bellVars, tries>>

\* The browser loads the page anew: only what localStorage holds is left.
PageReload ==
  /\ Try
  /\ feedUp' = FALSE /\ pushed' = <<>>
  /\ cases' = Nothing /\ casesError' = FALSE /\ casesGet' = Sent /\ casesDue' = FALSE
  /\ box' = Nothing /\ ask' = FALSE
  /\ decides' = [i \in DOMAIN decides |-> NoDecide]
  /\ UNCHANGED <<stored, readPending, everRead>>

-----------------------------------------------------------------------------
(* DecisionBox: two buttons while the case is pending, one dialog.         *)

BoxOpens(c) ==
  /\ box = Nothing /\ box' = c
  /\ UNCHANGED <<stored, feedVars, listOfCases, ask, decides, bellVars, tries>>

\* Leaving forgets the dialog; a decision under way goes on.
BoxCloses ==
  /\ box # Nothing /\ box' = Nothing /\ ask' = FALSE
  /\ decides' = [i \in DOMAIN decides |-> [decides[i] EXCEPT !.held = FALSE]]
  /\ UNCHANGED <<stored, feedVars, listOfCases, bellVars, tries>>

\* What the decision box draws of its case.
boxDraws ==
  CASE box = Nothing -> "nothing"
    [] box # Nothing /\ (cases = Nothing \/ ~Has(cases, box)) -> IF casesError THEN "error" ELSE "loading"
    [] OTHER -> IF cases[box] = "open" THEN "pending" ELSE "decided"
Pending == boxDraws = "pending"

AskDecision ==
  /\ Pending /\ ~busyBox /\ ~ask /\ ask' = TRUE
  /\ UNCHANGED <<stored, feedVars, listOfCases, box, decides, bellVars, tries>>

CancelDecision ==
  /\ Pending /\ ask /\ ask' = FALSE
  /\ UNCHANGED <<stored, feedVars, listOfCases, box, decides, bellVars, tries>>

ConfirmDecision(i) ==
  /\ Pending /\ ask /\ ask' = FALSE
  /\ decides[i] = NoDecide
  /\ decides' = [decides EXCEPT ![i] = Decide(Sent, box, TRUE)]
  /\ UNCHANGED <<stored, feedVars, listOfCases, box, bellVars, tries>>

DecideTaken(i) ==
  LET d == decides[i]
  IN /\ d.request.at \in {"answered", "conflict", "failed"}
     /\ decides' = [decides EXCEPT ![i] = Decide(Idle, d.case, FALSE)]
     /\ \/ /\ d.request.at = "answered" /\ upsert(d.case, d.request.data)
           /\ UNCHANGED casesDue
        \/ /\ d.request.at = "conflict" /\ casesDue' = TRUE
           /\ UNCHANGED cases
        \/ d.request.at = "failed" /\ UNCHANGED <<cases, casesDue>>
     /\ UNCHANGED <<stored, feedVars, casesError, casesGet, box, ask, bellVars, tries>>

-----------------------------------------------------------------------------
(* NoticeCenter.                                                           *)

\* markRead, for the notice of the pending cases.
MarkRead ==
  /\ bellDraws # "empty"
  /\ readPending' = openShown /\ everRead' = everRead \cup openShown
  /\ UNCHANGED <<stored, feedVars, listOfCases, boxVars, tries>>

-----------------------------------------------------------------------------
CasesNext ==
  \/ \E c \in CaseIds, st \in CaseStates : CaseChanges(c, st)
  \/ CaseServerAnswers \/ CaseServerFails
  \/ FeedOpens \/ FeedBreaks \/ CasesAsked \/ CasesTaken \/ PushTaken \/ PageReload
  \/ \E c \in BoxCases : BoxOpens(c)
  \/ BoxCloses \/ AskDecision \/ CancelDecision
  \/ \E i \in DOMAIN decides : ServerDecides(i) \/ ConfirmDecision(i) \/ DecideTaken(i)
  \/ MarkRead

CasesSpec == CasesInit /\ [][CasesNext]_casesVars
-----------------------------------------------------------------------------
\* Every variable keeps its kind of value.
CasesTypeOK ==
  /\ stored \in Tables /\ cases \in Tables \cup {Nothing}
  /\ casesGet \in Requests(Tables) /\ casesDue \in BOOLEAN
  /\ readPending \in (SUBSET CaseIds) \cup {Nothing}
  /\ box \in CaseIds \cup {Nothing}

\* The bell's "pending" notice counts as read only when every open case of the
\* list was in a list that was marked as read: a new case is never hidden by
\* an old mark, not even by one kept in localStorage over a page load.
PendingIsNoticed == bellDraws = "read" => openShown \subseteq everRead
=============================================================================
